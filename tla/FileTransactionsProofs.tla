----------------------- MODULE FileTransactionsProofs -----------------------
(***************************************************************************)
(* What is proved of FileTransactions, for any files, contents, changes,   *)
(* processes and transactions and any number of crashes, faults and edits: *)
(* every step of a shadow commit and of a recovery, the failing ones too,  *)
(* keeps an invariant, and with it the properties follow.                  *)
(* Where an interrupted commit is recovered before anybody else commits, a *)
(* commit is the one step of AtomicFiles.                                  *)
(***************************************************************************)
EXTENDS FileTransactions, TLAPS

-----------------------------------------------------------------------------
(* Types.                                                                  *)

LEMMA EntriesAreFiles == \A t : Entries(t) \subseteq Files
  BY Zenon DEF Entries

LEMMA DirectoryTypes ==
    /\ NoDir \in Directory /\ BareDir \in Directory /\ PreparedDir \in Directory
    /\ \A d \in Directory : Leftovers(d) \subseteq Directory
    /\ \A d \in Directory, ph \in Phases : [d EXCEPT !.phase = ph] \in Directory
  <1>1. NoDir \in Directory /\ BareDir \in Directory /\ PreparedDir \in Directory
    BY Zenon DEF NoDir, BareDir, PreparedDir, Directory, Phases
  <1>2. ASSUME NEW d \in Directory PROVE Leftovers(d) \subseteq Directory
    BY ZenonT(60), <1>1 DEF Directory, Leftovers
  <1>3. ASSUME NEW d \in Directory, NEW ph \in Phases PROVE [d EXCEPT !.phase = ph] \in Directory
    BY Zenon DEF Directory
  <1> QED BY Zenon, <1>1, <1>2, <1>3

-----------------------------------------------------------------------------
(* What establishes the invariant of a directory, state by state.          *)

LEMMA DirUntouched ==
    ASSUME NEW t \in Txs, dirs'[t].phase \in {"none", "bare", "prepared"},
           done'[t] = {}, told'[t] \in {"nothing", "failed"}
    PROVE  DirInv(t)'
  BY Zenon DEF DirInv

LEMMA DirCommitting ==
    ASSUME NEW t \in Txs, dirs'[t].phase = "committing", dirs'[t].payload,
           done'[t] \subseteq Entries(t)', told'[t] \in {"nothing", "failed"}
    PROVE  DirInv(t)'
  BY Zenon DEF DirInv

LEMMA DirDone ==
    ASSUME NEW t \in Txs, dirs'[t].phase \in {"none", "bare", "committed"},
           done'[t] = Entries(t)', told'[t] \in {"nothing", "failed"}
    PROVE  DirInv(t)'
  BY Zenon DEF DirInv

LEMMA DirSame ==
    ASSUME NEW t \in Txs, DirInv(t), dirs'[t] = dirs[t], done'[t] = done[t],
           told'[t] = told[t], Entries(t)' = Entries(t)
    PROVE  DirInv(t)'
  BY Zenon DEF DirInv

-----------------------------------------------------------------------------
(* What establishes the invariant of a process, step by step.              *)

LEMMA ProcIdle ==
    ASSUME NEW p \in Procs, pc'[p] \in {"closed", "opening", "open"}, tx'[p] = NoTx,
           scan'[p] = {}, lock' # p
    PROVE  ProcInv(p)'
  BY Zenon DEF ProcInv, Locked, Committing, Recovering

LEMMA ProcPlanning ==
    ASSUME NEW p \in Procs, NEW t \in Txs, pc'[p] \in {"capturing", "planned"}, tx'[p] = t,
           scan'[p] = {}, lock' # p, dirs'[t] = NoDir, done'[t] = {}, told'[t] = "nothing"
    PROVE  ProcInv(p)'
  <1>1. Untouched(p)'
    BY Zenon DEF Untouched
  <1> QED BY Zenon, <1>1, NamesAssumption DEF ProcInv, Locked, Committing, Recovering

LEMMA ProcPreparing ==
    ASSUME NEW p \in Procs, NEW t \in Txs, tx'[p] = t,
           \/ pc'[p] = "staging" /\ dirs'[t] = BareDir
           \/ pc'[p] \in {"prepared", "rejecting", "refusing"} /\ dirs'[t] = PreparedDir,
           scan'[p] = {}, lock' = p, done'[t] = {}, told'[t] = "nothing"
    PROVE  ProcInv(p)'
  <1>1. Untouched(p)'
    BY Zenon DEF Untouched
  <1>2. CASE pc'[p] = "staging" /\ dirs'[t] = BareDir
    BY Zenon, <1>1, <1>2, NamesAssumption DEF ProcInv, Locked, Committing, Recovering
  <1>3. CASE pc'[p] \in {"prepared", "rejecting", "refusing"} /\ dirs'[t] = PreparedDir
    BY Zenon, <1>1, <1>3, NamesAssumption DEF ProcInv, Locked, Committing, Recovering
  <1> QED BY Zenon, <1>2, <1>3

LEMMA ProcApplying ==
    ASSUME NEW p \in Procs, NEW t \in Txs, pc'[p] = "applying", tx'[p] = t,
           scan'[p] = {}, lock' = p, dirs'[t].phase = "committing", told'[t] = "nothing",
           todo'[p] = Entries(t)' \ done'[t], \A f \in todo'[p] : AsPlanned(p, f)'
    PROVE  ProcInv(p)'
  BY Zenon, NamesAssumption DEF ProcInv, Locked, Committing, Recovering

LEMMA ProcCleaning ==
    ASSUME NEW p \in Procs, NEW t \in Txs, pc'[p] = "cleaning", tx'[p] = t,
           scan'[p] = {}, lock' = p, dirs'[t].phase \in {"bare", "committed"},
           told'[t] = "nothing", done'[t] = Entries(t)'
    PROVE  ProcInv(p)'
  BY Zenon, NamesAssumption DEF ProcInv, Locked, Committing, Recovering

LEMMA ProcScanning ==
    ASSUME NEW p \in Procs, pc'[p] = "scanning", tx'[p] = NoTx, lock' = p,
           \A u \in scan'[p] : dirs'[u].phase # "none" /\ tx'[p] # u
    PROVE  ProcInv(p)'
  BY Zenon DEF ProcInv, Locked, Committing, Recovering

LEMMA ProcReplaying ==
    ASSUME NEW p \in Procs, NEW t \in Txs, pc'[p] \in {"replaying", "checked"}, tx'[p] = t,
           lock' = p, \A u \in scan'[p] : dirs'[u].phase # "none" /\ tx'[p] # u,
           dirs'[t].phase = "committing", todo'[p] \subseteq Entries(t)',
           Entries(t)' \ todo'[p] \subseteq done'[t],
           pc'[p] = "checked" => \A f \in First(todo'[p]) : AsPlanned(p, f)'
    PROVE  ProcInv(p)'
  <1>1. First(todo[p])' = First(todo'[p])
    BY Zenon DEF First
  <1> QED BY Zenon, <1>1, NamesAssumption DEF ProcInv, Locked, Committing, Recovering

LEMMA ProcDiscarding ==
    ASSUME NEW p \in Procs, NEW t \in Txs, pc'[p] = "discarding", tx'[p] = t, lock' = p,
           \A u \in scan'[p] : dirs'[u].phase # "none" /\ tx'[p] # u,
           dirs'[t].phase \in {"prepared", "committed"}
    PROVE  ProcInv(p)'
  BY Zenon, NamesAssumption DEF ProcInv, Locked, Committing, Recovering

-----------------------------------------------------------------------------
(* What a step leaves alone.                                               *)

\* A step of p on transaction t leaves process q alone.
SparesProc(p, t, q) ==
    /\ pc'[q] = pc[q] /\ tx'[q] = tx[q] /\ todo'[q] = todo[q] /\ scan'[q] = scan[q]
    /\ tx[q] = NoTx \/ tx[q] # t
    /\ t \notin scan[q]
    /\ lock' = q <=> lock = q
    /\ lock = q => disk' = disk /\ raced' = raced
    /\ tx'[p] = NoTx \/ tx'[p] # tx[q]

\* A step leaves transaction u alone.
SparesTx(u) ==
    /\ dirs'[u] = dirs[u] /\ done'[u] = done[u] /\ told'[u] = told[u]
    /\ base'[u] = base[u] /\ want'[u] = want[u]

\* A step of one process on one transaction keeps the invariant if it spares
\* all others.
LEMMA Frame ==
    ASSUME FilesInv, TypeOK', NEW p \in Procs, NEW t \in Txs \cup {NoTx},
           \A q \in Procs \ {p} : SparesProc(p, t, q),
           \A u \in Txs \ {t} : SparesTx(u),
           t \in Txs => DirInv(t)',
           ProcInv(p)'
    PROVE  FilesInv'
  <1>1. \A u \in Txs \ {t} : Entries(u)' = Entries(u)
    BY Zenon DEF Entries, SparesTx
  <1>2. ASSUME NEW u \in Txs PROVE DirInv(u)'
    <2>1. CASE u = t
      BY Zenon, <2>1
    <2>2. CASE u # t
      <3>1. DirInv(u)
        BY Zenon DEF FilesInv
      <3> QED BY Zenon, <1>1, <2>2, <3>1, DirSame DEF SparesTx
    <2> QED BY Zenon, <2>1, <2>2
  <1>3. ASSUME NEW q \in Procs PROVE ProcInv(q)'
    <2>1. CASE q = p
      BY Zenon, <2>1
    <2>2. CASE q # p
      <3>1. ProcInv(q) /\ TypeOK
        BY Zenon DEF FilesInv
      <3>2. pc'[q] = pc[q] /\ tx'[q] = tx[q] /\ todo'[q] = todo[q] /\ scan'[q] = scan[q]
            /\ (lock' = q <=> lock = q)
        BY SMTT(60), <2>2 DEF SparesProc
      <3>3. \A u \in scan[q] : dirs'[u] = dirs[u]
        BY SMTT(60), <2>2, <3>1 DEF TypeOK, SparesProc, SparesTx
      <3>4. CASE tx[q] = NoTx
        <4>1. pc[q] \in {"closed", "opening", "scanning", "open"}
          BY ZenonT(60), <3>1, <3>4 DEF ProcInv
        <4> QED BY SMTT(60), <3>1, <3>2, <3>3, <3>4, <4>1 DEF ProcInv
      <3>5. CASE tx[q] # NoTx
        <4>1. tx[q] \in Txs \ {t}
          BY Zenon, <2>2, <3>1, <3>5 DEF TypeOK, SparesProc
        <4>2. /\ dirs'[tx[q]] = dirs[tx[q]] /\ done'[tx[q]] = done[tx[q]]
              /\ told'[tx[q]] = told[tx[q]] /\ base'[tx[q]] = base[tx[q]]
              /\ Entries(tx[q])' = Entries(tx[q])
          BY Zenon, <1>1, <3>2, <4>1 DEF SparesTx
        <4>3. Untouched(q)' = Untouched(q)
          BY Zenon, <3>2, <4>2 DEF Untouched
        <4>4. lock = q => \A f : AsPlanned(q, f)' = AsPlanned(q, f)
          BY SMTT(60), <2>2, <3>2, <4>2 DEF AsPlanned, SparesProc
        <4>5. pc[q] \in {"applying", "checked"} => lock = q
          BY Zenon, <3>1 DEF ProcInv, Locked, Committing, Recovering
        <4> QED BY SMTT(60), <3>1, <3>2, <3>3, <4>2, <4>3, <4>4, <4>5 DEF ProcInv, First
      <3> QED BY Zenon, <3>4, <3>5
    <2> QED BY Zenon, <2>1, <2>2
  <1>4. \A q, r \in Procs : q # r /\ tx'[q] = tx'[r] => tx'[q] = NoTx
    BY SMTT(60) DEF FilesInv, SparesProc
  <1> QED BY Zenon, <1>2, <1>3, <1>4 DEF FilesInv

\* Who holds the lock is alone with every transaction that has a directory.
LEMMA Alone ==
    ASSUME FilesInv, NEW p \in Procs, lock = p, NEW q \in Procs \ {p}
    PROVE  /\ lock # q /\ scan[q] = {}
           /\ \A t \in Txs : dirs[t].phase # "none" => tx[q] # t
  <1>1. ProcInv(q) /\ TypeOK
    BY Zenon DEF FilesInv
  <1>2. lock # q /\ pc[q] \notin Locked
    BY Zenon, <1>1 DEF ProcInv
  <1>3. scan[q] = {}
    BY Zenon, <1>1, <1>2 DEF ProcInv, Locked
  <1>4. tx[q] = NoTx \/ dirs[tx[q]] = NoDir
    BY Zenon, <1>1, <1>2 DEF ProcInv, TypeOK, Locked, Opening, Writing, Committing, Recovering
  <1> QED BY SMTT(60), <1>2, <1>3, <1>4, NamesAssumption DEF NoDir

\* A process at work has a transaction no other process works on.
LEMMA Mine ==
    ASSUME FilesInv, NEW p \in Procs, pc[p] \notin {"closed", "opening", "scanning", "open"}
    PROVE  tx[p] \in Txs /\ \A q \in Procs \ {p} : tx[q] # tx[p]
  <1>1. tx[p] # NoTx
    BY Zenon DEF FilesInv, ProcInv
  <1> QED BY Zenon, <1>1 DEF FilesInv, TypeOK

\* The end of a commit, with whatever became of its directory and its files.
LEMMA ReturnStep ==
    ASSUME FilesInv, TypeOK', NEW p \in Procs, pc[p] \in Committing,
           NEW answer, Return(p, answer), UNCHANGED planVars, NEW t, t = tx[p],
           \A u \in Txs \ {t} : dirs'[u] = dirs[u] /\ done'[u] = done[u],
           DirInv(t)'
    PROVE  FilesInv'
  <1>1. lock = p
    BY Zenon DEF FilesInv, ProcInv, Locked
  <1>2. t \in Txs /\ \A q \in Procs \ {p} : tx[q] # t
    BY Zenon, Mine DEF Committing
  <1>3. \A q \in Procs \ {p} : lock # q /\ scan[q] = {}
    BY Zenon, <1>1, Alone
  <1>4. TypeOK /\ ProcInv(p)
    BY Zenon DEF FilesInv
  <1>5. scan[p] = {}
    BY Zenon, <1>4 DEF ProcInv, Recovering, Committing
  <1>6. pc'[p] = "open" /\ tx'[p] = NoTx /\ scan'[p] = {} /\ lock' = NoProc
    BY Zenon, <1>4, <1>5 DEF Return, TypeOK
  <1>7. ProcInv(p)'
    BY Zenon, <1>6, NamesAssumption, ProcIdle
  <1>8. \A q \in Procs \ {p} : SparesProc(p, t, q)
    BY SMTT(60), <1>2, <1>3, <1>4, <1>6, NamesAssumption DEF Return, TypeOK, SparesProc
  <1>9. \A u \in Txs \ {t} : SparesTx(u)
    BY Zenon, <1>4 DEF Return, TypeOK, planVars, SparesTx
  <1> QED BY Zenon, <1>2, <1>7, <1>8, <1>9, Frame

\* A crash, or the end of an open that fails.
LEMMA CloseStep ==
    ASSUME FilesInv, TypeOK', NEW p \in Procs, Close(p), UNCHANGED <<planVars, told>>,
           NEW t, t = tx[p],
           \A u \in Txs \ {t} : dirs'[u] = dirs[u] /\ done'[u] = done[u],
           lock # p => disk' = disk /\ raced' = raced,
           t \in Txs => DirInv(t)'
    PROVE  FilesInv'
  <1>1. TypeOK /\ ProcInv(p)
    BY Zenon DEF FilesInv
  <1>2. pc'[p] = "closed" /\ tx'[p] = NoTx /\ scan'[p] = {} /\ lock' # p
    BY Zenon, <1>1, NamesAssumption DEF Close, TypeOK
  <1>3. ProcInv(p)'
    BY Zenon, <1>2, ProcIdle
  <1>4. ASSUME NEW q \in Procs \ {p} PROVE SparesProc(p, t, q)
    <2>1. tx[q] = NoTx \/ tx[q] # t
      BY Zenon DEF FilesInv
    <2>2. t \notin scan[q]
      <3>1. CASE tx[p] = NoTx
        BY Zenon, <1>1, <3>1, NamesAssumption DEF TypeOK
      <3>2. CASE lock = p
        BY ZenonT(60), <3>2, Alone
      <3>3. CASE tx[p] # NoTx /\ lock # p
        <4>1. dirs[tx[p]].phase = "none"
          BY SMTT(60), <1>1, <3>3
             DEF ProcInv, TypeOK, Locked, Opening, Writing, Committing, Recovering, NoDir
        <4> QED BY SMTT(60), <4>1 DEF FilesInv, ProcInv
      <3> QED BY SMTT(60), <3>1, <3>2, <3>3
    <2>3. pc'[q] = pc[q] /\ tx'[q] = tx[q] /\ todo'[q] = todo[q] /\ scan'[q] = scan[q]
      BY Zenon, <1>1 DEF Close, TypeOK
    <2>4. (lock' = q <=> lock = q) /\ (lock = q => disk' = disk /\ raced' = raced)
      BY Zenon, <1>1, NamesAssumption DEF Close, TypeOK
    <2> QED BY Zenon, <1>2, <2>1, <2>2, <2>3, <2>4 DEF SparesProc
  <1>5. \A u \in Txs \ {t} : SparesTx(u)
    BY Zenon DEF SparesTx, planVars
  <1>6. t \in Txs \cup {NoTx}
    BY Zenon, <1>1 DEF TypeOK
  <1> QED BY Zenon, <1>3, <1>4, <1>5, <1>6, Frame

\* A step under the lock that goes on with the same transaction.
LEMMA LockedStep ==
    ASSUME FilesInv, TypeOK', NEW p \in Procs, NEW t \in Txs, t = tx[p],
           lock = p, UNCHANGED <<lock, tx, scan, planVars, told, raced>>,
           \A q \in Procs \ {p} : pc'[q] = pc[q] /\ todo'[q] = todo[q],
           \A u \in Txs \ {t} : dirs'[u] = dirs[u] /\ done'[u] = done[u],
           DirInv(t)', ProcInv(p)'
    PROVE  FilesInv'
  <1>1. \A q \in Procs \ {p} : lock # q /\ scan[q] = {}
    BY Zenon, Alone
  <1>2. \A q \in Procs \ {p} : tx[q] = NoTx \/ tx[q] # t
    BY Zenon DEF FilesInv
  <1>3. \A q \in Procs \ {p} : SparesProc(p, t, q)
    BY Zenon, <1>1, <1>2 DEF SparesProc
  <1>4. \A u \in Txs \ {t} : SparesTx(u)
    BY Zenon DEF SparesTx, planVars
  <1> QED BY Zenon, <1>3, <1>4, Frame

\* The invariant says nothing of the temporary names but their type.
LEMMA SameInv ==
    ASSUME FilesInv, linked' \subseteq linked,
           UNCHANGED <<disk, dirs, lock, pc, tx, todo, scan, changed, base, want, told, done, raced,
                       crashes, faults, edits>>
    PROVE  FilesInv'
  <1>1. TypeOK'
    BY Zenon DEF FilesInv, TypeOK
  <1>2. \A t \in Txs : DirInv(t)' = DirInv(t)
    BY ZenonT(60) DEF DirInv, Entries
  <1>3. ASSUME NEW p \in Procs PROVE ProcInv(p)' = ProcInv(p)
    <2>1. /\ Untouched(p)' = Untouched(p) /\ Entries(tx[p])' = Entries(tx[p])
          /\ First(todo[p])' = First(todo[p]) /\ \A f : AsPlanned(p, f)' = AsPlanned(p, f)
      BY Zenon DEF Untouched, Entries, First, AsPlanned
    <2> QED BY ZenonT(60), <2>1 DEF ProcInv
  <1> QED BY Zenon, <1>1, <1>2, <1>3 DEF FilesInv

-----------------------------------------------------------------------------
(* Planning.                                                               *)

LEMMA FilesInit == Init => FilesInv
  <1> SUFFICES ASSUME Init PROVE FilesInv
    BY Zenon
  <1>1. TypeOK
    BY SMTT(60), DirectoryTypes, NamesAssumption, LimitsAssumption
       DEF Init, TypeOK, Writing, Opening, Answers
  <1>2. \A t \in Txs : DirInv(t)
    BY Zenon DEF Init, DirInv, NoDir
  <1>3. \A p \in Procs : ProcInv(p)
    BY Zenon, NamesAssumption DEF Init, ProcInv, Locked, Committing, Recovering
  <1>4. \A p \in Procs : tx[p] = NoTx
    BY Zenon DEF Init
  <1> QED BY Zenon, <1>1, <1>2, <1>3, <1>4 DEF FilesInv

LEMMA BeginCaptureStep ==
    ASSUME FilesInv, NEW p \in Procs, NEW t \in Txs, BeginCapture(p, t)
    PROVE  FilesInv'
  <1>1. TypeOK /\ ProcInv(p) /\ DirInv(t)
    BY Zenon DEF FilesInv
  <1>2. TypeOK'
    BY Zenon, <1>1 DEF BeginCapture, TypeOK, planVars, countVars, Writing
  <1>4. /\ pc'[p] = "capturing" /\ tx'[p] = t /\ dirs'[t] = NoDir /\ done'[t] = {}
        /\ told'[t] = "nothing" /\ scan'[p] = scan[p] /\ lock' = lock /\ pc[p] = "open"
    BY ZenonT(60), <1>1 DEF BeginCapture, Fresh, TypeOK
  <1>3. DirInv(t)'
    BY SMTT(60), <1>4, DirUntouched DEF NoDir
  <1>5. scan[p] = {} /\ lock # p
    BY Zenon, <1>1, <1>4 DEF ProcInv, Locked, Committing, Recovering
  <1>6. ProcInv(p)'
    BY Zenon, <1>4, <1>5, ProcPlanning
  <1>7. ASSUME NEW q \in Procs \ {p} PROVE SparesProc(p, t, q)
    <2>1. tx[q] # t /\ dirs[t].phase = "none"
      BY SMTT(60) DEF BeginCapture, Fresh, NoDir
    <2>2. t \notin scan[q]
      BY SMTT(60), <2>1 DEF FilesInv, ProcInv
    <2> QED BY ZenonT(60), <1>1, <1>4, <2>1, <2>2 DEF SparesProc, BeginCapture, TypeOK
  <1>8. \A u \in Txs \ {t} : SparesTx(u)
    BY Zenon DEF BeginCapture, SparesTx, planVars
  <1> QED BY Zenon, <1>2, <1>3, <1>6, <1>7, <1>8, Frame

LEMMA CaptureStep ==
    ASSUME FilesInv, NEW p \in Procs, CaptureFile(p) \/ Plan(p)
    PROVE  FilesInv'
  <1>1. TypeOK /\ ProcInv(p) /\ pc[p] = "capturing"
    BY Zenon DEF FilesInv, CaptureFile, Plan
  <1>2. PICK t \in Txs : t = tx[p] /\ \A q \in Procs \ {p} : tx[q] # t
    BY Zenon, <1>1, Mine
  <1>3. dirs[t] = NoDir /\ done[t] = {} /\ told[t] = "nothing" /\ scan[p] = {} /\ lock # p
    BY Zenon, <1>1, <1>2 DEF ProcInv, Untouched, Locked, Committing, Recovering
  <1>4. TypeOK'
    <2>1. CASE CaptureFile(p)
      <3>1. PICK f \in Files : base' = [base EXCEPT ![t][f] = disk[f]]
                               /\ todo' = [todo EXCEPT ![p] = @ \ {f}]
        BY Zenon, <1>1, <1>2, <2>1 DEF CaptureFile, First, TypeOK
      <3>2. base' \in [Txs -> [Files -> FileStates]] /\ todo' \in [Procs -> SUBSET Files]
        BY Zenon, <1>1, <3>1 DEF TypeOK
      <3> QED BY Zenon, <1>1, <2>1, <3>2 DEF CaptureFile, TypeOK, countVars
    <2>2. CASE Plan(p)
      <3>1. PICK c \in Changes :
                want' = [want EXCEPT ![t] = [f \in Files |-> IF c[f] = Keep THEN base[t][f] ELSE c[f]]]
        BY ZenonT(60), <1>2, <2>2 DEF Plan
      <3>2. c \in [Files -> FileStates \cup {Keep}]
        BY Zenon, ChangesAssumption
      <3>3. [f \in Files |-> IF c[f] = Keep THEN base[t][f] ELSE c[f]] \in [Files -> FileStates]
        BY SMTT(60), <1>1, <3>2 DEF TypeOK
      <3>4. want' \in [Txs -> [Files -> FileStates]]
        BY Zenon, <1>1, <3>1, <3>3 DEF TypeOK
      <3> QED BY Zenon, <1>1, <2>2, <3>4 DEF Plan, TypeOK, countVars, Writing
    <2> QED BY Zenon, <2>1, <2>2
  <1>5. /\ dirs' = dirs /\ done' = done /\ told' = told /\ scan' = scan /\ lock' = lock
        /\ tx' = tx /\ disk' = disk /\ raced' = raced /\ pc'[p] \in {"capturing", "planned"}
        /\ \A q \in Procs \ {p} : pc'[q] = pc[q] /\ todo'[q] = todo[q]
        /\ \A u \in Txs \ {t} : base'[u] = base[u] /\ want'[u] = want[u]
    BY SMTT(60), <1>1, <1>2 DEF CaptureFile, Plan, TypeOK
  <1>6. DirInv(t)'
    <2>1. dirs'[t].phase = "none" /\ done'[t] = {} /\ told'[t] = "nothing"
      BY SMTT(60), <1>3, <1>5 DEF NoDir
    <2> QED BY Zenon, <2>1, DirUntouched
  <1>7. ProcInv(p)'
    BY Zenon, <1>2, <1>3, <1>5, ProcPlanning
  <1>8. ASSUME NEW q \in Procs \ {p} PROVE SparesProc(p, t, q)
    <2>1. t \notin scan[q]
      BY SMTT(60), <1>3 DEF FilesInv, ProcInv, NoDir
    <2> QED BY Zenon, <1>2, <1>5, <2>1 DEF SparesProc
  <1>9. \A u \in Txs \ {t} : SparesTx(u)
    BY Zenon, <1>5 DEF SparesTx
  <1> QED BY Zenon, <1>4, <1>6, <1>7, <1>8, <1>9, Frame

\* A capture that meets a file it cannot read: nothing was written.
LEMMA CaptureFailsStep ==
    ASSUME FilesInv, NEW p \in Procs, CaptureFails(p)
    PROVE  FilesInv'
  <1>1. TypeOK /\ ProcInv(p) /\ pc[p] = "capturing"
    BY Zenon DEF FilesInv, CaptureFails
  <1>2. PICK t \in Txs : t = tx[p] /\ \A q \in Procs \ {p} : tx[q] # t
    BY Zenon, <1>1, Mine
  <1>3. dirs[t] = NoDir /\ done[t] = {} /\ scan[p] = {} /\ lock # p
    BY Zenon, <1>1, <1>2 DEF ProcInv, Untouched, Locked, Committing, Recovering
  <1>4. /\ UNCHANGED <<disk, linked, dirs, lock, scan, changed, planVars, done, raced, countVars>>
        /\ told' = [told EXCEPT ![t] = "failed"] /\ pc' = [pc EXCEPT ![p] = "open"]
        /\ tx' = [tx EXCEPT ![p] = NoTx] /\ todo' = [todo EXCEPT ![p] = {}]
    BY Zenon, <1>2 DEF CaptureFails
  <1>5. TypeOK'
    BY ZenonT(60), <1>1, <1>4 DEF TypeOK, planVars, countVars, Writing, Answers
  <1>6. /\ told'[t] = "failed" /\ \A u \in Txs \ {t} : told'[u] = told[u]
        /\ pc'[p] = "open" /\ tx'[p] = NoTx
        /\ \A q \in Procs \ {p} : pc'[q] = pc[q] /\ tx'[q] = tx[q] /\ todo'[q] = todo[q]
    BY Zenon, <1>1, <1>4 DEF TypeOK
  <1>7. DirInv(t)'
    <2>1. dirs'[t].phase = "none"
      BY SMTT(60), <1>3, <1>4 DEF NoDir
    <2> QED BY Zenon, <1>3, <1>4, <1>6, <2>1, DirUntouched
  <1>8. ProcInv(p)'
    BY Zenon, <1>3, <1>4, <1>6, ProcIdle
  <1>9. ASSUME NEW q \in Procs \ {p} PROVE SparesProc(p, t, q)
    <2>1. t \notin scan[q]
      BY SMTT(60), <1>3 DEF FilesInv, ProcInv, NoDir
    <2> QED BY Zenon, <1>2, <1>4, <1>6, <2>1 DEF SparesProc
  <1>10. \A u \in Txs \ {t} : SparesTx(u)
    BY Zenon, <1>4, <1>6 DEF SparesTx, planVars
  <1> QED BY Zenon, <1>5, <1>7, <1>8, <1>9, <1>10, Frame

-----------------------------------------------------------------------------
(* Committing.                                                             *)

\* Taking the lock: nobody else is in the middle of anything.
LEMMA FreeLock ==
    ASSUME FilesInv, lock = NoProc, NEW q \in Procs
    PROVE  /\ scan[q] = {} /\ pc[q] \notin Locked
           /\ \A t \in Txs : dirs[t].phase # "none" => tx[q] # t
  <1>1. ProcInv(q) /\ TypeOK
    BY Zenon DEF FilesInv
  <1>2. pc[q] \notin Locked
    BY Zenon, <1>1, NamesAssumption DEF ProcInv
  <1>3. scan[q] = {}
    BY Zenon, <1>1, <1>2 DEF ProcInv, Locked
  <1>4. tx[q] = NoTx \/ dirs[tx[q]] = NoDir
    BY Zenon, <1>1, <1>2 DEF ProcInv, TypeOK, Locked, Opening, Writing, Committing, Recovering
  <1> QED BY SMTT(60), <1>2, <1>3, <1>4, NamesAssumption DEF NoDir

LEMMA StageStep ==
    ASSUME FilesInv, NEW p \in Procs, Stage(p)
    PROVE  FilesInv'
  <1>1. TypeOK /\ ProcInv(p) /\ pc[p] = "planned"
    BY Zenon DEF FilesInv, Stage
  <1>2. PICK t \in Txs : t = tx[p] /\ \A q \in Procs \ {p} : tx[q] # t
    BY Zenon, <1>1, Mine
  <1>3. \A q \in Procs : lock # q /\ scan[q] = {}
    BY Zenon, FreeLock, NamesAssumption DEF Stage, TakeLock
  <1>4. done[t] = {} /\ told[t] = "nothing"
    BY Zenon, <1>1, <1>2 DEF ProcInv, Untouched
  <1>5. TypeOK'
    BY ZenonT(60), <1>1, DirectoryTypes DEF Stage, TakeLock, TypeOK, planVars, countVars, Writing
  <1>6. /\ dirs'[t] = BareDir /\ done' = done /\ told' = told /\ scan' = scan /\ lock' = p
        /\ tx' = tx /\ pc'[p] = "staging"
    BY Zenon, <1>1, <1>2 DEF Stage, TakeLock, TypeOK
  <1>7. DirInv(t)'
    BY SMTT(60), <1>4, <1>6, DirUntouched DEF BareDir
  <1>8. ProcInv(p)'
    BY Zenon, <1>2, <1>3, <1>4, <1>6, ProcPreparing
  <1>9. \A q \in Procs \ {p} : SparesProc(p, t, q)
    BY Zenon, <1>1, <1>2, <1>3, <1>6 DEF SparesProc, Stage, TypeOK
  <1>10. \A u \in Txs \ {t} : SparesTx(u)
    BY Zenon, <1>1, <1>2 DEF SparesTx, Stage, TypeOK, planVars
  <1> QED BY Zenon, <1>5, <1>7, <1>8, <1>9, <1>10, Frame

LEMMA PrepareStep ==
    ASSUME FilesInv, NEW p \in Procs, Prepare(p) \/ Conflict(p)
    PROVE  FilesInv'
  <1>1. TypeOK /\ ProcInv(p) /\ pc[p] \in {"staging", "prepared"}
    BY Zenon DEF FilesInv, Prepare, Conflict
  <1>2. PICK t \in Txs : t = tx[p]
    BY Zenon, <1>1, Mine
  <1>3. lock = p /\ scan[p] = {} /\ done[t] = {} /\ told[t] = "nothing"
    BY ZenonT(60), <1>1, <1>2 DEF ProcInv, Untouched, Locked, Committing, Recovering
  <1>4. TypeOK'
    <2>1. dirs' \in [Txs -> Directory] /\ pc' \in [Procs -> Opening \cup Writing]
      <3>1. CASE Prepare(p)
        <4>1. CASE Entries(tx[p]) = {}
          BY Zenon, <1>1, <3>1, <4>1 DEF Prepare, TypeOK, Writing
        <4>2. CASE Entries(tx[p]) # {}
          <5>1. /\ dirs' = [dirs EXCEPT ![tx[p]] = PreparedDir]
                /\ pc' = [pc EXCEPT ![p] = "prepared"]
            BY Zenon, <3>1, <4>2 DEF Prepare
          <5> QED BY ZenonT(60), <1>1, <5>1, DirectoryTypes DEF TypeOK, Writing
        <4> QED BY Zenon, <4>1, <4>2
      <3>2. CASE Conflict(p)
        BY Zenon, <1>1, <3>2 DEF Conflict, TypeOK, Writing
      <3> QED BY Zenon, <3>1, <3>2
    <2>2. UNCHANGED <<disk, linked, lock, tx, todo, scan, changed, planVars, told, done, raced, countVars>>
      BY ZenonT(60) DEF Prepare, Conflict
    <2> QED BY Zenon, <1>1, <2>1, <2>2 DEF TypeOK, planVars, countVars
  <1>5. /\ UNCHANGED <<lock, tx, scan, planVars, told, raced, done>>
        /\ \A q \in Procs \ {p} : pc'[q] = pc[q] /\ todo'[q] = todo[q]
        /\ \A u \in Txs \ {t} : dirs'[u] = dirs[u]
    BY Zenon, <1>1, <1>2 DEF Prepare, Conflict, TypeOK
  <1>6. Entries(t)' = Entries(t)
    BY Zenon, <1>5 DEF Entries, planVars
  <1>7. \/ pc'[p] = "cleaning" /\ dirs'[t] = BareDir /\ Entries(t) = {}
        \/ pc'[p] \in {"prepared", "rejecting", "refusing"} /\ dirs'[t] = PreparedDir
    BY Zenon, <1>1, <1>2 DEF Prepare, Conflict, TypeOK, ProcInv
  <1>8. DirInv(t)'
    <2>1. dirs'[t].phase \in {"bare", "prepared"} /\ done'[t] = {} /\ told'[t] = "nothing"
      <3>1. dirs'[t] \in {BareDir, PreparedDir}
        BY Zenon, <1>7
      <3>2. BareDir.phase = "bare" /\ PreparedDir.phase = "prepared"
        BY SMTT(60) DEF BareDir, PreparedDir
      <3>3. done'[t] = {} /\ told'[t] = "nothing"
        BY Zenon, <1>3, <1>5
      <3> QED BY Zenon, <3>1, <3>2, <3>3
    <2> QED BY Zenon, <2>1, DirUntouched
  <1>9. ProcInv(p)'
    <2>1. CASE pc'[p] = "cleaning" /\ dirs'[t] = BareDir /\ Entries(t) = {}
      <3>1. dirs'[t].phase = "bare"
        BY SMTT(60), <2>1 DEF BareDir
      <3>2. done'[t] = Entries(t)'
        BY Zenon, <1>3, <1>5, <1>6, <2>1
      <3>3. tx'[p] = t /\ lock' = p /\ scan'[p] = {} /\ told'[t] = "nothing"
        BY ZenonT(60), <1>2, <1>3, <1>5
      <3> QED BY Zenon, <2>1, <3>1, <3>2, <3>3, ProcCleaning
    <2>2. CASE pc'[p] \in {"prepared", "rejecting", "refusing"} /\ dirs'[t] = PreparedDir
      BY Zenon, <1>2, <1>3, <1>5, <2>2, ProcPreparing
    <2> QED BY Zenon, <1>7, <2>1, <2>2
  <1> QED BY Zenon, <1>2, <1>3, <1>4, <1>5, <1>8, <1>9, LockedStep

LEMMA CommitPointStep ==
    ASSUME FilesInv, NEW p \in Procs, CommitPoint(p)
    PROVE  FilesInv'
  <1>1. TypeOK /\ ProcInv(p) /\ pc[p] = "prepared"
    BY Zenon DEF FilesInv, CommitPoint
  <1>2. PICK t \in Txs : t = tx[p]
    BY Zenon, <1>1, Mine
  <1>3. lock = p /\ scan[p] = {} /\ done[t] = {} /\ told[t] = "nothing" /\ dirs[t] = PreparedDir
    BY Zenon, <1>1, <1>2 DEF ProcInv, Untouched, Locked, Committing, Recovering
  <1>4. TypeOK'
    <2>1. dirs' \in [Txs -> Directory]
      BY Zenon, <1>1, <1>2, DirectoryTypes DEF CommitPoint, TypeOK, Phases
    <2> QED BY Zenon, <1>1, <2>1, EntriesAreFiles
               DEF CommitPoint, TypeOK, planVars, countVars, Writing
  <1>5. /\ UNCHANGED <<lock, tx, scan, planVars, told, raced, done, disk>>
        /\ \A q \in Procs \ {p} : pc'[q] = pc[q] /\ todo'[q] = todo[q]
        /\ \A u \in Txs \ {t} : dirs'[u] = dirs[u]
        /\ pc'[p] = "applying" /\ todo'[p] = Entries(t)
    BY Zenon, <1>1, <1>2 DEF CommitPoint, TypeOK
  <1>6. Entries(t)' = Entries(t)
    BY Zenon, <1>5 DEF Entries, planVars
  <1>7. dirs'[t].phase = "committing" /\ dirs'[t].payload
    BY SMTT(60), <1>1, <1>2, <1>3 DEF CommitPoint, TypeOK, PreparedDir
  <1>8. \A f \in Entries(t) : AsPlanned(p, f)'
    BY Zenon, <1>2, <1>5 DEF CommitPoint, Preconditions, AsPlanned, planVars
  <1>9. DirInv(t)'
    BY ZenonT(60), <1>3, <1>5, <1>7, DirCommitting
  <1>10. ProcInv(p)'
    <2>1. pc'[p] = "applying" /\ tx'[p] = t /\ scan'[p] = {} /\ lock' = p /\ told'[t] = "nothing"
      BY Zenon, <1>2, <1>3, <1>5
    <2>2. todo'[p] = Entries(t)' \ done'[t]
      BY Zenon, <1>3, <1>5, <1>6
    <2>3. \A f \in todo'[p] : AsPlanned(p, f)'
      BY Zenon, <1>5, <1>8
    <2> QED BY Zenon, <1>7, <2>1, <2>2, <2>3, ProcApplying
  <1> QED BY Zenon, <1>2, <1>3, <1>4, <1>5, <1>9, <1>10, LockedStep

\* Publishing a file keeps every type.
LEMMA PublishType ==
    ASSUME TypeOK, NEW t \in Txs, NEW f \in Files
    PROVE  /\ (IF base[t][f] = Absent THEN linked \cup {f} ELSE linked) \subseteq Files
           /\ [disk EXCEPT ![f] = want[t][f]] \in [Files -> FileStates]
           /\ [done EXCEPT ![t] = @ \cup {f}] \in [Txs -> SUBSET Files]
  BY Zenon DEF TypeOK

LEMMA ApplyStep ==
    ASSUME FilesInv, NEW p \in Procs, Apply(p)
    PROVE  FilesInv'
  <1>1. TypeOK /\ ProcInv(p) /\ pc[p] = "applying"
    BY ZenonT(60) DEF FilesInv, Apply
  <1>2. PICK t \in Txs : t = tx[p]
    BY Zenon, <1>1, Mine
  <1>3. /\ lock = p /\ scan[p] = {} /\ told[t] = "nothing" /\ dirs[t].phase = "committing"
        /\ todo[p] = Entries(t) \ done[t] /\ \A f \in todo[p] : AsPlanned(p, f)
    BY ZenonT(60), <1>1, <1>2 DEF ProcInv, Locked, Committing, Recovering
  <1>4. PICK f \in todo[p] : Publish(p, f)
    BY ZenonT(60) DEF Apply, First
  <1>5. f \in Files /\ f \in Entries(t)
    BY Zenon, <1>1, <1>3 DEF TypeOK
  <1>6. TypeOK'
    <2>1. disk' \in [Files -> FileStates] /\ linked' \subseteq Files /\ done' \in [Txs -> SUBSET Files]
      <3>1. /\ disk' = [disk EXCEPT ![f] = want[t][f]] /\ done' = [done EXCEPT ![t] = @ \cup {f}]
            /\ linked' = IF base[t][f] = Absent THEN linked \cup {f} ELSE linked
        BY Zenon, <1>2, <1>4 DEF Publish
      <3> QED BY Zenon, <1>1, <1>5, <3>1, PublishType
    <2> QED BY Zenon, <1>1, <1>4, <2>1 DEF Apply, Publish, TypeOK, planVars, countVars
  <1>7. /\ UNCHANGED <<lock, tx, scan, planVars, told, raced, dirs, pc>>
        /\ \A q \in Procs \ {p} : todo'[q] = todo[q]
        /\ \A u \in Txs \ {t} : done'[u] = done[u]
        /\ todo'[p] = todo[p] \ {f} /\ done'[t] = done[t] \cup {f}
        /\ \A g \in Files \ {f} : disk'[g] = disk[g]
    BY SMTT(60), <1>1, <1>2, <1>4 DEF Apply, Publish, TypeOK
  <1>8. Entries(t)' = Entries(t)
    BY ZenonT(60), <1>7 DEF Entries, planVars
  <1>9. DirInv(t)'
    <2>1. dirs[t].payload /\ done[t] \subseteq Entries(t)
      <3>1. DirInv(t)
        BY Zenon DEF FilesInv
      <3> QED BY Zenon, <1>3, <3>1 DEF DirInv
    <2> QED BY ZenonT(60), <1>3, <1>5, <1>7, <1>8, <2>1, DirCommitting
  <1>10. \A g \in todo'[p] : AsPlanned(p, g)'
    BY Zenon, <1>1, <1>2, <1>3, <1>7 DEF AsPlanned, planVars, TypeOK
  <1>11. todo'[p] = Entries(t)' \ done'[t]
    BY ZenonT(60), <1>3, <1>7, <1>8
  <1>12. ProcInv(p)'
    BY Zenon, <1>1, <1>2, <1>3, <1>7, <1>10, <1>11, ProcApplying
  <1> QED BY ZenonT(60), <1>2, <1>3, <1>6, <1>7, <1>9, <1>12, LockedStep

\* The removal of a temporary name changes nothing the invariant looks at.
LEMMA UnlinkStep ==
    ASSUME FilesInv, NEW p \in Procs, Unlink(p)
    PROVE  FilesInv'
  <1>1. /\ UNCHANGED <<disk, dirs, lock, pc, tx, todo, scan, changed, base, want, told, done, raced,
                      crashes, faults, edits>>
        /\ linked' \subseteq linked
    BY Zenon DEF Unlink, procVars, planVars, countVars
  <1> QED BY Zenon, <1>1, SameInv

LEMMA CommittedStep ==
    ASSUME FilesInv, NEW p \in Procs, Committed(p)
    PROVE  FilesInv'
  <1>1. TypeOK /\ ProcInv(p) /\ pc[p] = "applying" /\ todo[p] = {}
    BY Zenon DEF FilesInv, Committed
  <1>2. PICK t \in Txs : t = tx[p]
    BY Zenon, <1>1, Mine
  <1>3. DirInv(t)
    BY Zenon DEF FilesInv
  <1>4. /\ lock = p /\ scan[p] = {} /\ told[t] = "nothing" /\ done[t] = Entries(t)
    BY Zenon, <1>1, <1>2, <1>3 DEF ProcInv, DirInv, Locked, Committing, Recovering
  <1>5. TypeOK'
    <2>1. dirs' \in [Txs -> Directory]
      BY ZenonT(60), <1>1, <1>2, DirectoryTypes DEF Committed, TypeOK, Phases
    <2> QED BY Zenon, <1>1, <2>1 DEF Committed, TypeOK, planVars, countVars, Writing
  <1>6. /\ UNCHANGED <<lock, tx, scan, planVars, told, raced, done, todo>>
        /\ \A q \in Procs \ {p} : pc'[q] = pc[q]
        /\ \A u \in Txs \ {t} : dirs'[u] = dirs[u]
        /\ pc'[p] = "cleaning" /\ dirs'[t].phase = "committed"
    BY SMTT(60), <1>1, <1>2 DEF Committed, TypeOK, Directory
  <1>7. Entries(t)' = Entries(t)
    BY Zenon, <1>6 DEF Entries, planVars
  <1>8. DirInv(t)'
    BY ZenonT(60), <1>4, <1>6, <1>7, DirDone
  <1>9. ProcInv(p)'
    BY Zenon, <1>2, <1>4, <1>6, <1>7, ProcCleaning
  <1> QED BY Zenon, <1>2, <1>4, <1>5, <1>6, <1>8, <1>9, LockedStep

LEMMA ReturnType ==
    ASSUME TypeOK, NEW p \in Procs, NEW answer \in Answers, Return(p, answer),
           disk' \in [Files -> FileStates], linked' \subseteq Files, dirs' \in [Txs -> Directory],
           done' \in [Txs -> SUBSET Files], UNCHANGED <<planVars, raced>>,
           crashes' \in 0..MaxCrashes, faults' \in 0..MaxFaults, edits' \in 0..MaxEdits
    PROVE  TypeOK'
  BY ZenonT(60) DEF Return, TypeOK, planVars, Writing

LEMMA CloseType ==
    ASSUME TypeOK, NEW p \in Procs, Close(p),
           disk' \in [Files -> FileStates], linked' \subseteq Files, dirs' \in [Txs -> Directory],
           done' \in [Txs -> SUBSET Files], UNCHANGED <<planVars, told, raced>>,
           crashes' \in 0..MaxCrashes, faults' \in 0..MaxFaults, edits' \in 0..MaxEdits
    PROVE  TypeOK'
  BY Zenon DEF Close, TypeOK, planVars, Opening

\* A removal, complete or not, of a directory whose transaction is whole.
LEMMA RemovedDir ==
    ASSUME NEW t \in Txs, DirInv(t), dirs[t] \in Directory, dirs[t].phase # "committing",
           dirs'[t] \in Leftovers(dirs[t]), UNCHANGED <<done, planVars>>,
           told'[t] = "conflict" => done[t] = {},
           told'[t] = "ok" => done[t] = Entries(t)
    PROVE  DirInv(t)'
  <1>1. Entries(t)' = Entries(t)
    BY Zenon DEF Entries, planVars
  <1>2. done[t] \in {{}, Entries(t)}
    BY Zenon DEF DirInv, Directory, Phases
  <1>3. dirs'[t].phase \in {"none", "bare", dirs[t].phase}
    BY SMTT(60) DEF Leftovers, NoDir, BareDir, Directory
  <1> QED BY Zenon, <1>1, <1>2, <1>3 DEF DirInv

LEMMA FaultType ==
    ASSUME TypeOK, Fault
    PROVE  /\ crashes' \in 0..MaxCrashes /\ faults' \in 0..MaxFaults /\ edits' \in 0..MaxEdits
           /\ UNCHANGED <<planVars, raced>>
  BY SMTT(60), LimitsAssumption DEF TypeOK, Fault

LEMMA HalfRemovedDir ==
    ASSUME TypeOK, NEW p \in Procs, NEW t \in Txs, t = tx[p], HalfRemoved(p)
    PROVE  /\ dirs' \in [Txs -> Directory]
           /\ dirs'[t] \in Leftovers(dirs[t])
           /\ \A u \in Txs \ {t} : dirs'[u] = dirs[u]
  <1>1. PICK d \in Leftovers(dirs[t]) : dirs' = [dirs EXCEPT ![t] = d]
    BY ZenonT(60) DEF HalfRemoved
  <1>2. d \in Directory
    BY Zenon, <1>1, DirectoryTypes DEF TypeOK
  <1> QED BY Zenon, <1>1, <1>2 DEF TypeOK

\* What a process that removes a directory knows of it.
LEMMA CleaningKnows ==
    ASSUME NEW p \in Procs, NEW t \in Txs, ProcInv(p), t = tx[p], pc[p] = "cleaning"
    PROVE  dirs[t].phase # "committing" /\ done[t] = Entries(t)
  <1>1. dirs[t].phase \in {"bare", "committed"} /\ done[t] = Entries(t)
    BY Zenon DEF ProcInv
  <1> QED BY Zenon, <1>1

LEMMA RejectingKnows ==
    ASSUME NEW p \in Procs, NEW t \in Txs, ProcInv(p), t = tx[p], pc[p] \in {"rejecting", "refusing"}
    PROVE  dirs[t].phase # "committing" /\ done[t] = {}
  <1>1. dirs[t] = PreparedDir /\ Untouched(p)
    BY Zenon DEF ProcInv
  <1>2. done[t] = {}
    BY Zenon, <1>1 DEF Untouched
  <1>3. dirs[t].phase = "prepared"
    BY SMTT(60), <1>1 DEF PreparedDir
  <1> QED BY Zenon, <1>2, <1>3

LEMMA CleanupStep ==
    ASSUME FilesInv, NEW p \in Procs, Cleanup(p) \/ CleanupFails(p)
    PROVE  FilesInv'
  <1>1. TypeOK /\ ProcInv(p) /\ pc[p] \in {"cleaning", "rejecting", "refusing"}
    BY ZenonT(60) DEF FilesInv, Cleanup, CleanupFails, AnswerAt
  <1>2. PICK t \in Txs : t = tx[p]
    BY Zenon, <1>1, Mine
  <1>3. DirInv(t) /\ dirs[t] \in Directory
    BY ZenonT(60), <1>1 DEF FilesInv, TypeOK
  <1>4. /\ dirs[t].phase # "committing"
        /\ pc[p] = "cleaning" => done[t] = Entries(t)
        /\ pc[p] \in {"rejecting", "refusing"} => done[t] = {}
    <2>1. CASE pc[p] = "cleaning"
      BY Zenon, <1>1, <1>2, <2>1, CleaningKnows
    <2>2. CASE pc[p] \in {"rejecting", "refusing"}
      BY Zenon, <1>1, <1>2, <2>2, RejectingKnows
    <2> QED BY Zenon, <1>1, <2>1, <2>2
  <1>5. PICK answer \in Answers :
            /\ Return(p, answer)
            /\ answer = "ok" => done[t] = Entries(t)
            /\ answer = "conflict" => done[t] = {}
    <2>1. CASE pc[p] = "cleaning"
      BY SMTT(60), <1>4, <2>1 DEF Cleanup, CleanupFails, AnswerAt, Answers
    <2>2. CASE pc[p] = "rejecting"
      BY SMTT(60), <1>4, <2>2 DEF Cleanup, CleanupFails, AnswerAt, Answers
    <2>3. CASE pc[p] = "refusing"
      BY SMTT(60), <1>4, <2>3 DEF Cleanup, CleanupFails, AnswerAt, Answers
    <2> QED BY Zenon, <1>1, <2>1, <2>2, <2>3
  <1>6. /\ dirs' \in [Txs -> Directory] /\ dirs'[t] \in Leftovers(dirs[t])
        /\ \A u \in Txs \ {t} : dirs'[u] = dirs[u]
    <2>1. CASE Cleanup(p)
      BY Zenon, <1>1, <1>2, <2>1, DirectoryTypes DEF Cleanup, TypeOK, Leftovers
    <2>2. CASE CleanupFails(p)
      BY Zenon, <1>1, <1>2, <2>2, HalfRemovedDir DEF CleanupFails
    <2> QED BY Zenon, <2>1, <2>2
  <1>7. /\ UNCHANGED <<disk, linked, done, planVars, raced>>
        /\ crashes' \in 0..MaxCrashes /\ faults' \in 0..MaxFaults /\ edits' \in 0..MaxEdits
    <2>1. CASE Cleanup(p)
      BY Zenon, <1>1, <2>1 DEF Cleanup, TypeOK, countVars
    <2>2. CASE CleanupFails(p)
      BY Zenon, <1>1, <2>2, FaultType DEF CleanupFails
    <2> QED BY Zenon, <2>1, <2>2
  <1>8. TypeOK'
    BY ZenonT(60), <1>1, <1>5, <1>6, <1>7, ReturnType DEF TypeOK
  <1>9. told'[t] = answer
    BY Zenon, <1>1, <1>2, <1>5 DEF Return, TypeOK
  <1>10. DirInv(t)'
    BY Zenon, <1>3, <1>4, <1>5, <1>6, <1>7, <1>9, RemovedDir
  <1> QED BY Zenon, <1>1, <1>2, <1>5, <1>6, <1>7, <1>8, <1>10, ReturnStep DEF Committing

\* A step that fails before the commit point: the transaction changed nothing.
LEMMA StageFailsStep ==
    ASSUME FilesInv, NEW p \in Procs, StageFails(p) \/ CommitPointFails(p)
    PROVE  FilesInv'
  <1>1. TypeOK /\ ProcInv(p) /\ pc[p] \in {"staging", "prepared"}
    BY Zenon DEF FilesInv, StageFails, CommitPointFails
  <1>2. PICK t \in Txs : t = tx[p]
    <2>1. tx[p] \in Txs
      BY Zenon, <1>1, Mine
    <2> QED BY Zenon, <2>1
  <1>3. Fault /\ Return(p, "failed") /\ UNCHANGED <<disk, linked, done>>
    BY Zenon DEF StageFails, CommitPointFails
  <1>4. done[t] = {}
    BY Zenon, <1>1, <1>2 DEF ProcInv, Untouched
  <1>5. /\ dirs' \in [Txs -> Directory]
        /\ \A u \in Txs \ {t} : dirs'[u] = dirs[u]
        /\ dirs'[t].phase \in {"none", "bare", "prepared"}
           \/ (dirs'[t].phase = "committing" /\ dirs'[t].payload)
    <2>1. CASE StageFails(p)
      <3>1. PICK d \in Leftovers(BareDir) \cup Leftovers(PreparedDir) : dirs' = [dirs EXCEPT ![t] = d]
        BY Zenon, <1>2, <2>1 DEF StageFails
      <3>2. d \in Directory
        BY Zenon, <3>1, DirectoryTypes
      <3>3. d.phase \in {"none", "bare", "prepared"}
        BY SMTT(60), <3>1 DEF Leftovers, NoDir, BareDir, PreparedDir
      <3> QED BY Zenon, <1>1, <3>1, <3>2, <3>3 DEF TypeOK
    <2>2. CASE CommitPointFails(p) /\ HalfRemoved(p)
      <3>1. dirs[t] = PreparedDir
        BY Zenon, <1>1, <1>2, <2>2 DEF ProcInv, CommitPointFails
      <3>2. dirs'[t] \in Leftovers(PreparedDir)
        BY Zenon, <1>1, <1>2, <2>2, <3>1, HalfRemovedDir
      <3>3. dirs'[t].phase \in {"none", "bare", "prepared"}
        BY SMTT(60), <3>2 DEF Leftovers, NoDir, BareDir, PreparedDir
      <3> QED BY Zenon, <1>1, <1>2, <2>2, <3>3, HalfRemovedDir
    <2>3. CASE CommitPointFails(p) /\ dirs' = [dirs EXCEPT ![tx[p]].phase = "committing"]
      <3>1. dirs[t] = PreparedDir
        BY Zenon, <1>1, <1>2, <2>3 DEF ProcInv, CommitPointFails
      <3>2. dirs' \in [Txs -> Directory]
        BY Zenon, <1>1, <1>2, <2>3, DirectoryTypes DEF TypeOK, Phases
      <3>3. dirs'[t].phase = "committing" /\ dirs'[t].payload
        BY SMTT(60), <1>1, <1>2, <2>3, <3>1 DEF TypeOK, PreparedDir
      <3>4. \A u \in Txs \ {t} : dirs'[u] = dirs[u]
        BY Zenon, <1>1, <1>2, <2>3 DEF TypeOK
      <3> QED BY Zenon, <3>2, <3>3, <3>4
    <2> QED BY Zenon, <2>1, <2>2, <2>3 DEF CommitPointFails
  <1>6. TypeOK'
    BY ZenonT(60), <1>1, <1>3, <1>5, FaultType, ReturnType DEF TypeOK, Answers
  <1>7. told'[t] = "failed"
    BY Zenon, <1>1, <1>2, <1>3 DEF Return, TypeOK
  <1>8. DirInv(t)'
    <2>1. CASE dirs'[t].phase \in {"none", "bare", "prepared"}
      BY Zenon, <1>3, <1>4, <1>7, <2>1, DirUntouched
    <2>2. CASE dirs'[t].phase = "committing" /\ dirs'[t].payload
      BY Zenon, <1>3, <1>4, <1>7, <2>2, DirCommitting
    <2> QED BY Zenon, <1>5, <2>1, <2>2
  <1>9. UNCHANGED planVars
    BY Zenon, <1>1, <1>3, FaultType
  <1> QED BY ZenonT(60), <1>1, <1>2, <1>3, <1>5, <1>6, <1>8, <1>9, ReturnStep DEF Committing

\* A file published, or not, by a step that fails.
LEMMA PublishFailsTx ==
    ASSUME TypeOK, NEW p \in Procs, NEW t \in Txs, t = tx[p], PublishFails(p),
           todo[p] \subseteq Entries(t)
    PROVE  /\ disk' \in [Files -> FileStates] /\ done' \in [Txs -> SUBSET Files]
           /\ linked' \subseteq Files
           /\ \A u \in Txs \ {t} : done'[u] = done[u]
           /\ done[t] \subseteq Entries(t) => done'[t] \subseteq Entries(t)
  <1>3. linked' \subseteq linked
    BY Zenon DEF PublishFails
  <1>1. CASE UNCHANGED <<disk, done>>
    BY Zenon, <1>1, <1>3 DEF TypeOK
  <1>2. CASE ~UNCHANGED <<disk, done>>
    <2>1. PICK f \in todo[p] : /\ disk' = [disk EXCEPT ![f] = want[t][f]]
                               /\ done' = [done EXCEPT ![t] = @ \cup {f}]
      BY ZenonT(60), <1>2 DEF PublishFails, First
    <2>2. f \in Files
      BY Zenon, <2>1 DEF TypeOK
    <2> QED BY SMTT(60), <1>3, <2>1, <2>2, PublishType DEF TypeOK
  <1> QED BY Zenon, <1>1, <1>2

\* A step that fails past the commit point leaves the journal for recovery.
LEMMA ApplyFailsStep ==
    ASSUME FilesInv, NEW p \in Procs, ApplyFails(p) \/ ApplyRefused(p)
    PROVE  FilesInv'
  <1>1. TypeOK /\ ProcInv(p) /\ pc[p] = "applying" /\ Return(p, "failed")
    BY Zenon DEF FilesInv, ApplyFails, ApplyRefused
  <1>2. PICK t \in Txs : t = tx[p]
    BY Zenon, <1>1, Mine
  <1>3. /\ DirInv(t) /\ dirs[t].phase = "committing" /\ dirs[t].payload
        /\ done[t] \subseteq Entries(t) /\ todo[p] = Entries(t) \ done[t]
    BY ZenonT(60), <1>1, <1>2 DEF FilesInv, ProcInv, DirInv
  <1>4. /\ UNCHANGED <<planVars, raced>>
        /\ crashes' \in 0..MaxCrashes /\ faults' \in 0..MaxFaults /\ edits' \in 0..MaxEdits
    BY Zenon, <1>1, FaultType DEF ApplyFails, ApplyRefused, TypeOK, countVars
  <1>5. Entries(t)' = Entries(t)
    BY ZenonT(60), <1>4 DEF Entries, planVars
  <1>6. told'[t] = "failed"
    BY Zenon, <1>1, <1>2 DEF Return, TypeOK
  <1>7. CASE dirs' = dirs
    <2>1. /\ disk' \in [Files -> FileStates] /\ done' \in [Txs -> SUBSET Files]
          /\ linked' \subseteq Files
          /\ \A u \in Txs \ {t} : done'[u] = done[u]
          /\ done'[t] \subseteq Entries(t)
      <3>1. CASE UNCHANGED <<disk, linked, done>>
        BY Zenon, <1>1, <1>3, <3>1 DEF TypeOK
      <3>2. CASE PublishFails(p)
        BY ZenonT(60), <1>1, <1>2, <1>3, <3>2, PublishFailsTx
      <3> QED BY Zenon, <3>1, <3>2 DEF ApplyFails, ApplyRefused, CommittedFails
    <2>2. TypeOK'
      BY Zenon, <1>1, <1>4, <1>7, <2>1, ReturnType DEF TypeOK, Answers
    <2>3. DirInv(t)'
      BY ZenonT(60), <1>3, <1>5, <1>6, <1>7, <2>1, DirCommitting
    <2> QED BY Zenon, <1>1, <1>2, <1>4, <1>7, <2>1, <2>2, <2>3, ReturnStep DEF Committing
  <1>8. CASE CommittedFails(p)
    <2>1. /\ UNCHANGED <<disk, linked, done>> /\ dirs' \in [Txs -> Directory]
          /\ dirs'[t].phase = "committed" /\ \A u \in Txs \ {t} : dirs'[u] = dirs[u]
      <3>1. UNCHANGED <<disk, linked, done>> /\ dirs' = [dirs EXCEPT ![t].phase = "committed"]
        BY Zenon, <1>2, <1>8 DEF CommittedFails
      <3>2. dirs' \in [Txs -> Directory]
        BY Zenon, <1>1, <3>1, DirectoryTypes DEF TypeOK, Phases
      <3> QED BY Zenon, <1>1, <3>1, <3>2 DEF TypeOK, Directory
    <2>2. TypeOK'
      BY Zenon, <1>1, <1>4, <2>1, ReturnType DEF TypeOK, Answers
    <2>3. done[t] = Entries(t)
      BY Zenon, <1>3, <1>8 DEF CommittedFails
    <2>4. DirInv(t)'
      BY Zenon, <1>5, <1>6, <2>1, <2>3, DirDone
    <2> QED BY Zenon, <1>1, <1>2, <1>4, <2>1, <2>2, <2>4, ReturnStep DEF Committing
  <1> QED BY ZenonT(60), <1>7, <1>8 DEF ApplyFails, ApplyRefused

-----------------------------------------------------------------------------
(* Recovery.                                                               *)

\* Waiting for the lock, and taking it, to look for directories.
LEMMA OpenStep ==
    ASSUME FilesInv, NEW p \in Procs, Open(p) \/ RecoverPending(p)
    PROVE  FilesInv'
  <1>1. TypeOK /\ ProcInv(p) /\ pc[p] \in {"closed", "opening"}
    BY Zenon DEF FilesInv, Open, RecoverPending
  <1>2. tx[p] = NoTx /\ scan[p] = {} /\ lock # p
    BY Zenon, <1>1 DEF ProcInv, Locked, Committing, Recovering
  <1>3. TypeOK'
    <2>1. CASE Open(p)
      BY Zenon, <1>1, <2>1 DEF Open, TypeOK, planVars, countVars, Opening
    <2>2. CASE RecoverPending(p)
      BY Zenon, <1>1, <2>2 DEF RecoverPending, TakeLock, TypeOK, planVars, countVars, Opening
    <2> QED BY Zenon, <2>1, <2>2
  <1>4. UNCHANGED <<disk, dirs, tx, todo, planVars, told, done>>
    BY Zenon DEF Open, RecoverPending
  <1>5. \/ pc'[p] = "opening" /\ lock' = lock /\ scan'[p] = {} /\ raced' = raced
        \/ /\ pc'[p] = "scanning" /\ lock = NoProc /\ lock' = p
           /\ scan'[p] = {t \in Txs : dirs[t].phase # "none"}
    BY Zenon, <1>1, <1>2 DEF Open, RecoverPending, TakeLock, TypeOK
  <1>6. ProcInv(p)'
    <2>1. CASE pc'[p] = "opening" /\ lock' = lock /\ scan'[p] = {}
      BY Zenon, <1>2, <1>4, <2>1, ProcIdle
    <2>2. CASE /\ pc'[p] = "scanning" /\ lock' = p
               /\ scan'[p] = {t \in Txs : dirs[t].phase # "none"}
      <3>1. \A t \in scan'[p] : dirs'[t].phase # "none" /\ tx'[p] # t
        BY Zenon, <1>2, <1>4, <2>2, NamesAssumption
      <3> QED BY Zenon, <1>2, <1>4, <2>2, <3>1, ProcScanning
    <2> QED BY Zenon, <1>5, <2>1, <2>2
  <1>7. \A q \in Procs \ {p} : pc'[q] = pc[q] /\ scan'[q] = scan[q]
    BY Zenon, <1>1 DEF Open, RecoverPending, TypeOK
  <1>8. \A q \in Procs \ {p} : NoTx \notin scan[q]
    BY Zenon, <1>1, NamesAssumption DEF TypeOK
  <1>9. \A q \in Procs \ {p} : SparesProc(p, NoTx, q)
    BY Zenon, <1>2, <1>4, <1>5, <1>7, <1>8, NamesAssumption DEF SparesProc
  <1>10. \A u \in Txs \ {NoTx} : SparesTx(u)
    BY Zenon, <1>4 DEF SparesTx, planVars
  <1> QED BY Zenon, <1>3, <1>6, <1>9, <1>10, Frame, NamesAssumption

LEMMA RecoverOneStep ==
    ASSUME FilesInv, NEW p \in Procs, NEW t \in Txs, RecoverOne(p, t)
    PROVE  FilesInv'
  <1>1. TypeOK /\ ProcInv(p) /\ DirInv(t) /\ pc[p] = "scanning" /\ t \in scan[p]
    BY Zenon DEF FilesInv, RecoverOne
  <1>2. lock = p /\ dirs[t].phase # "none"
    BY Zenon, <1>1 DEF ProcInv, Locked, Recovering
  <1>3. \A q \in Procs \ {p} : lock # q /\ scan[q] = {} /\ tx[q] # t
    BY Zenon, <1>2, Alone
  <1>4. /\ UNCHANGED <<disk, linked, dirs, lock, changed, planVars, told, done, raced, countVars>>
        /\ tx' = [tx EXCEPT ![p] = t] /\ scan' = [scan EXCEPT ![p] = @ \ {t}]
    BY Zenon DEF RecoverOne
  <1>5. \/ /\ dirs[t].phase \in {"prepared", "committed"}
           /\ pc' = [pc EXCEPT ![p] = "discarding"] /\ todo' = todo
        \/ /\ dirs[t].phase = "committing"
           /\ pc' = [pc EXCEPT ![p] = "replaying"] /\ todo' = [todo EXCEPT ![p] = Entries(t)]
    BY Zenon DEF RecoverOne
  <1>6. TypeOK'
    <2>1. pc' \in [Procs -> Opening \cup Writing] /\ todo' \in [Procs -> SUBSET Files]
      <3>1. Entries(t) \in SUBSET Files
        BY Zenon, EntriesAreFiles
      <3>2. CASE pc' = [pc EXCEPT ![p] = "discarding"] /\ todo' = todo
        BY Zenon, <1>1, <3>2 DEF TypeOK, Opening
      <3>3. CASE pc' = [pc EXCEPT ![p] = "replaying"] /\ todo' = [todo EXCEPT ![p] = Entries(t)]
        BY Zenon, <1>1, <3>1, <3>3 DEF TypeOK, Opening
      <3> QED BY Zenon, <1>5, <3>2, <3>3
    <2> QED BY ZenonT(60), <1>1, <1>4, <2>1 DEF TypeOK, planVars, countVars
  <1>7. Entries(t)' = Entries(t)
    BY Zenon, <1>4 DEF Entries, planVars
  <1>8. DirInv(t)'
    BY Zenon, <1>1, <1>4, <1>7, DirSame
  <1>9. tx'[p] = t /\ scan'[p] = scan[p] \ {t}
    BY Zenon, <1>1, <1>4 DEF TypeOK
  <1>10. \/ pc'[p] = "discarding" /\ dirs'[t].phase \in {"prepared", "committed"}
         \/ pc'[p] = "replaying" /\ dirs'[t].phase = "committing" /\ todo'[p] = Entries(t)
    BY Zenon, <1>1, <1>4, <1>5 DEF TypeOK
  <1>11. ProcInv(p)'
    <2>1. \A u \in scan'[p] : dirs'[u].phase # "none" /\ tx'[p] # u
      BY Zenon, <1>1, <1>4, <1>9 DEF ProcInv
    <2>2. CASE pc'[p] = "discarding" /\ dirs'[t].phase \in {"prepared", "committed"}
      BY Zenon, <1>2, <1>4, <1>9, <2>1, <2>2, ProcDiscarding
    <2>3. CASE pc'[p] = "replaying" /\ dirs'[t].phase = "committing" /\ todo'[p] = Entries(t)
      BY Zenon, <1>2, <1>4, <1>7, <1>9, <2>1, <2>3, ProcReplaying
    <2> QED BY Zenon, <1>10, <2>2, <2>3
  <1>12. \A q \in Procs \ {p} : SparesProc(p, t, q)
    <2>1. \A q \in Procs \ {p} : pc'[q] = pc[q] /\ todo'[q] = todo[q] /\ tx'[q] = tx[q] /\ scan'[q] = scan[q]
      BY Zenon, <1>1, <1>4, <1>5 DEF TypeOK
    <2> QED BY Zenon, <1>3, <1>4, <1>9, <2>1 DEF SparesProc
  <1>13. \A u \in Txs \ {t} : SparesTx(u)
    BY Zenon, <1>4 DEF SparesTx, planVars
  <1> QED BY Zenon, <1>6, <1>8, <1>11, <1>12, <1>13, Frame

\* What recovery knows of a journal it completes.
LEMMA Replaying ==
    ASSUME FilesInv, NEW p \in Procs, pc[p] \in {"replaying", "checked"}, NEW t, t = tx[p]
    PROVE  /\ t \in Txs /\ lock = p /\ TypeOK /\ ProcInv(p) /\ DirInv(t)
           /\ dirs[t].phase = "committing" /\ dirs[t].payload
           /\ done[t] \subseteq Entries(t) /\ told[t] \in {"nothing", "failed"}
           /\ Entries(t) \ todo[p] \subseteq done[t] /\ todo[p] \subseteq Entries(t)
           /\ \A u \in scan[p] : dirs[u].phase # "none" /\ tx[p] # u
  <1>1. t \in Txs
    BY Zenon, Mine
  <1>2. TypeOK /\ ProcInv(p) /\ DirInv(t)
    BY Zenon, <1>1 DEF FilesInv
  <1> QED BY ZenonT(60), <1>1, <1>2 DEF ProcInv, DirInv, Locked, Recovering

LEMMA ReplayCheckStep ==
    ASSUME FilesInv, NEW p \in Procs, ReplayInPlace(p) \/ ReplayCheck(p)
    PROVE  FilesInv'
  <1>1. PICK t : t = tx[p]
    BY Zenon
  <1>2. pc[p] = "replaying"
    BY Zenon DEF ReplayInPlace, ReplayCheck
  <1>3. /\ t \in Txs /\ lock = p /\ TypeOK /\ ProcInv(p) /\ DirInv(t)
        /\ dirs[t].phase = "committing" /\ dirs[t].payload
        /\ done[t] \subseteq Entries(t) /\ told[t] \in {"nothing", "failed"}
        /\ Entries(t) \ todo[p] \subseteq done[t] /\ todo[p] \subseteq Entries(t)
        /\ \A u \in scan[p] : dirs[u].phase # "none" /\ tx[p] # u
    BY Zenon, <1>1, <1>2, Replaying
  <1>4. /\ UNCHANGED <<disk, linked, dirs, lock, tx, scan, changed, planVars, told, raced, countVars>>
        /\ \A q \in Procs \ {p} : pc'[q] = pc[q] /\ todo'[q] = todo[q]
        /\ \A u \in Txs \ {t} : done'[u] = done[u]
    <2>1. CASE ReplayInPlace(p)
      BY ZenonT(60), <1>1, <1>3, <2>1 DEF ReplayInPlace, TypeOK
    <2>2. CASE ReplayCheck(p)
      BY ZenonT(60), <1>1, <1>3, <2>2 DEF ReplayCheck, TypeOK
    <2> QED BY Zenon, <2>1, <2>2
  <1>5. Entries(t)' = Entries(t)
    BY Zenon, <1>4 DEF Entries, planVars
  <1>6. CASE ReplayInPlace(p)
    <2>1. PICK f \in todo[p] : /\ todo' = [todo EXCEPT ![p] = @ \ {f}]
                               /\ done' = [done EXCEPT ![t] = @ \cup {f}]
      BY ZenonT(60), <1>1, <1>6 DEF ReplayInPlace, First
    <2>2. f \in Files /\ pc' = pc
      BY Zenon, <1>3, <1>6 DEF TypeOK, ReplayInPlace
    <2>3. todo'[p] = todo[p] \ {f} /\ done'[t] = done[t] \cup {f}
      BY Zenon, <1>3, <2>1 DEF TypeOK
    <2>4. TypeOK'
      BY SMTT(60), <1>3, <1>4, <2>1, <2>2 DEF TypeOK, planVars, countVars
    <2>5. DirInv(t)'
      <3>1. done'[t] \subseteq Entries(t)'
        BY ZenonT(60), <1>3, <1>5, <2>3
      <3> QED BY Zenon, <1>3, <1>4, <3>1, DirCommitting
    <2>6. ProcInv(p)'
      <3>1. /\ pc'[p] = "replaying" /\ tx'[p] = t /\ lock' = p /\ dirs'[t].phase = "committing"
            /\ \A u \in scan'[p] : dirs'[u].phase # "none" /\ tx'[p] # u
        BY SMTT(60), <1>1, <1>3, <1>4, <1>6, <2>2 DEF ReplayInPlace
      <3>2. Entries(t)' \ todo'[p] \subseteq done'[t] /\ todo'[p] \subseteq Entries(t)'
        BY ZenonT(60), <1>3, <1>5, <2>3
      <3> QED BY Zenon, <1>3, <3>1, <3>2, ProcReplaying
    <2> QED BY Zenon, <1>1, <1>3, <1>4, <2>2, <2>4, <2>5, <2>6, LockedStep
  <1>7. CASE ReplayCheck(p)
    <2>1. /\ pc' = [pc EXCEPT ![p] = "checked"] /\ UNCHANGED <<todo, done>>
      BY Zenon, <1>7 DEF ReplayCheck
    <2>2. pc'[p] = "checked"
      BY Zenon, <1>3, <2>1 DEF TypeOK
    <2>3. TypeOK'
      BY Zenon, <1>3, <1>4, <2>1 DEF TypeOK, planVars, countVars, Opening
    <2>4. DirInv(t)'
      BY Zenon, <1>3, <1>4, <1>5, <2>1, DirSame
    <2>5. \A f \in First(todo[p]) : disk[f] = base[t][f]
      <3>1. PICK g \in First(todo[p]) : disk[g] = base[t][g]
        BY Zenon, <1>1, <1>7 DEF ReplayCheck
      <3>2. \A f \in First(todo[p]) : f = g
        BY SMTT(60), <1>3, <3>1, FilesAssumption DEF First, TypeOK
      <3> QED BY Zenon, <3>1, <3>2
    <2>6. \A f \in First(todo'[p]) : AsPlanned(p, f)'
      BY ZenonT(60), <1>1, <1>4, <2>1, <2>5 DEF AsPlanned, planVars
    <2>7. ProcInv(p)'
      <3>1. /\ tx'[p] = t /\ lock' = p /\ dirs'[t].phase = "committing"
            /\ todo'[p] \subseteq Entries(t)' /\ Entries(t)' \ todo'[p] \subseteq done'[t]
            /\ \A u \in scan'[p] : dirs'[u].phase # "none" /\ tx'[p] # u
        BY ZenonT(60), <1>1, <1>3, <1>4, <1>5, <2>1
      <3> QED BY ZenonT(60), <1>1, <1>3, <2>2, <2>6, <3>1, ProcReplaying
    <2> QED BY ZenonT(60), <1>1, <1>3, <1>4, <2>1, <2>3, <2>4, <2>7, LockedStep
  <1> QED BY Zenon, <1>6, <1>7

LEMMA ReplayApplyStep ==
    ASSUME FilesInv, NEW p \in Procs, ReplayApply(p)
    PROVE  FilesInv'
  <1>1. PICK t : t = tx[p]
    BY Zenon
  <1>2. pc[p] = "checked"
    BY Zenon DEF ReplayApply
  <1>3. /\ t \in Txs /\ lock = p /\ TypeOK /\ ProcInv(p) /\ DirInv(t)
        /\ dirs[t].phase = "committing" /\ dirs[t].payload
        /\ done[t] \subseteq Entries(t) /\ told[t] \in {"nothing", "failed"}
        /\ Entries(t) \ todo[p] \subseteq done[t] /\ todo[p] \subseteq Entries(t)
        /\ \A u \in scan[p] : dirs[u].phase # "none" /\ tx[p] # u
    BY Zenon, <1>1, <1>2, Replaying
  <1>4. PICK f \in todo[p] : Publish(p, f)
    BY Zenon DEF ReplayApply, First
  <1>5. f \in Files /\ f \in Entries(t)
    BY Zenon, <1>3 DEF TypeOK
  <1>6. /\ UNCHANGED <<dirs, lock, tx, scan, changed, planVars, told, raced, countVars>>
        /\ pc' = [pc EXCEPT ![p] = "replaying"]
        /\ todo' = [todo EXCEPT ![p] = @ \ {f}] /\ done' = [done EXCEPT ![t] = @ \cup {f}]
        /\ disk' = [disk EXCEPT ![f] = want[t][f]]
        /\ linked' = IF base[t][f] = Absent THEN linked \cup {f} ELSE linked
    BY ZenonT(60), <1>1, <1>4 DEF ReplayApply, Publish
  <1>7. /\ pc'[p] = "replaying" /\ todo'[p] = todo[p] \ {f} /\ done'[t] = done[t] \cup {f}
        /\ \A q \in Procs \ {p} : pc'[q] = pc[q] /\ todo'[q] = todo[q]
        /\ \A u \in Txs \ {t} : done'[u] = done[u]
    BY Zenon, <1>3, <1>6 DEF TypeOK
  <1>8. TypeOK'
    <2>1. disk' \in [Files -> FileStates] /\ linked' \subseteq Files /\ done' \in [Txs -> SUBSET Files]
      BY Zenon, <1>3, <1>5, <1>6, PublishType
    <2> QED BY Zenon, <1>3, <1>6, <2>1 DEF TypeOK, planVars, countVars, Opening
  <1>9. Entries(t)' = Entries(t)
    BY ZenonT(60), <1>6 DEF Entries, planVars
  <1>10. DirInv(t)'
    BY SMTT(60), <1>3, <1>5, <1>6, <1>7, <1>9, DirCommitting
  <1>11. ProcInv(p)'
    <2>1. Entries(t)' \ todo'[p] \subseteq done'[t] /\ todo'[p] \subseteq Entries(t)'
      BY ZenonT(60), <1>3, <1>7, <1>9
    <2> QED BY Zenon, <1>1, <1>3, <1>6, <1>7, <2>1, ProcReplaying
  <1> QED BY ZenonT(60), <1>1, <1>3, <1>6, <1>7, <1>8, <1>10, <1>11, LockedStep

LEMMA ReplayCommittedStep ==
    ASSUME FilesInv, NEW p \in Procs, ReplayCommitted(p)
    PROVE  FilesInv'
  <1>1. PICK t : t = tx[p]
    BY Zenon
  <1>2. pc[p] = "replaying" /\ todo[p] = {}
    BY Zenon DEF ReplayCommitted
  <1>3. /\ t \in Txs /\ lock = p /\ TypeOK /\ done[t] = Entries(t)
        /\ told[t] \in {"nothing", "failed"}
        /\ \A u \in scan[p] : dirs[u].phase # "none" /\ tx[p] # u
    <2>1. /\ t \in Txs /\ lock = p /\ TypeOK
          /\ done[t] \subseteq Entries(t) /\ told[t] \in {"nothing", "failed"}
          /\ Entries(t) \ todo[p] \subseteq done[t]
          /\ \A u \in scan[p] : dirs[u].phase # "none" /\ tx[p] # u
      BY Zenon, <1>1, <1>2, Replaying
    <2> QED BY Zenon, <1>2, <2>1
  <1>4. /\ UNCHANGED <<disk, linked, lock, tx, todo, scan, changed, planVars, told, done, raced, countVars>>
        /\ dirs' = [dirs EXCEPT ![t].phase = "committed"]
        /\ pc' = [pc EXCEPT ![p] = "discarding"]
    BY Zenon, <1>1 DEF ReplayCommitted
  <1>5. dirs' \in [Txs -> Directory]
    BY Zenon, <1>3, <1>4, DirectoryTypes DEF TypeOK, Phases
  <1>6. TypeOK'
    BY Zenon, <1>3, <1>4, <1>5 DEF TypeOK, planVars, countVars, Opening
  <1>7. /\ pc'[p] = "discarding" /\ dirs'[t].phase = "committed"
        /\ \A q \in Procs \ {p} : pc'[q] = pc[q]
        /\ \A u \in Txs \ {t} : dirs'[u] = dirs[u]
    BY SMTT(60), <1>3, <1>4 DEF TypeOK, Directory
  <1>8. Entries(t)' = Entries(t)
    BY Zenon, <1>4 DEF Entries, planVars
  <1>9. DirInv(t)'
    BY Zenon, <1>3, <1>4, <1>7, <1>8, DirDone
  <1>10. \A u \in scan'[p] : dirs'[u].phase # "none" /\ tx'[p] # u
    BY Zenon, <1>1, <1>3, <1>4, <1>7 DEF TypeOK
  <1>11. ProcInv(p)'
    BY Zenon, <1>1, <1>3, <1>4, <1>7, <1>10, ProcDiscarding
  <1> QED BY Zenon, <1>1, <1>3, <1>4, <1>6, <1>7, <1>9, <1>11, LockedStep

LEMMA DiscardStep ==
    ASSUME FilesInv, NEW p \in Procs, Discard(p) \/ DiscardFails(p)
    PROVE  FilesInv'
  <1>1. TypeOK /\ ProcInv(p) /\ pc[p] = "discarding" /\ RecoveredOne(p)
    BY Zenon DEF FilesInv, Discard, DiscardFails
  <1>2. PICK t \in Txs : t = tx[p] /\ \A q \in Procs \ {p} : tx[q] # t
    BY Zenon, <1>1, Mine
  <1>3. /\ lock = p /\ dirs[t].phase \in {"prepared", "committed"}
        /\ \A u \in scan[p] : dirs[u].phase # "none" /\ u # t
    BY Zenon, <1>1, <1>2 DEF ProcInv, Locked, Recovering
  <1>4. \A q \in Procs \ {p} : lock # q /\ scan[q] = {}
    BY Zenon, <1>3, Alone
  <1>5. DirInv(t) /\ dirs[t] \in Directory
    BY Zenon, <1>1 DEF FilesInv, TypeOK
  <1>6. /\ dirs' \in [Txs -> Directory] /\ dirs'[t] \in Leftovers(dirs[t])
        /\ \A u \in Txs \ {t} : dirs'[u] = dirs[u]
    <2>1. CASE Discard(p)
      BY Zenon, <1>1, <1>2, <2>1, DirectoryTypes DEF Discard, TypeOK, Leftovers
    <2>2. CASE DiscardFails(p)
      BY Zenon, <1>1, <1>2, <2>2, HalfRemovedDir DEF DiscardFails
    <2> QED BY Zenon, <2>1, <2>2
  <1>7. /\ UNCHANGED <<disk, linked, lock, todo, scan, planVars, told, done, raced>>
        /\ crashes' \in 0..MaxCrashes /\ faults' \in 0..MaxFaults /\ edits' \in 0..MaxEdits
    <2>1. CASE Discard(p)
      BY Zenon, <1>1, <2>1 DEF Discard, TypeOK, countVars
    <2>2. CASE DiscardFails(p)
      BY Zenon, <1>1, <2>2, FaultType DEF DiscardFails
    <2> QED BY Zenon, <2>1, <2>2
  <1>8. TypeOK'
    BY Zenon, <1>1, <1>6, <1>7 DEF TypeOK, RecoveredOne, planVars, Opening
  <1>9. DirInv(t)'
    BY Zenon, <1>3, <1>5, <1>6, <1>7, RemovedDir DEF DirInv
  <1>10. /\ pc'[p] = "scanning" /\ tx'[p] = NoTx
         /\ \A q \in Procs \ {p} : pc'[q] = pc[q] /\ tx'[q] = tx[q]
    BY Zenon, <1>1 DEF RecoveredOne, TypeOK
  <1>11. ProcInv(p)'
    <2>1. \A u \in scan'[p] : dirs'[u].phase # "none" /\ tx'[p] # u
      BY SMTT(60), <1>1, <1>3, <1>6, <1>7, <1>10, NamesAssumption DEF TypeOK
    <2> QED BY ZenonT(60), <1>3, <1>7, <1>10, <2>1, ProcScanning
  <1>12. \A q \in Procs \ {p} : SparesProc(p, t, q)
    BY ZenonT(60), <1>2, <1>4, <1>7, <1>10 DEF SparesProc
  <1>13. \A u \in Txs \ {t} : SparesTx(u)
    BY Zenon, <1>6, <1>7 DEF SparesTx, planVars
  <1> QED BY Zenon, <1>8, <1>9, <1>11, <1>12, <1>13, Frame

LEMMA FinishRecoveryStep ==
    ASSUME FilesInv, NEW p \in Procs, FinishRecovery(p)
    PROVE  FilesInv'
  <1>1. TypeOK /\ ProcInv(p) /\ pc[p] = "scanning" /\ scan[p] = {}
    BY Zenon DEF FilesInv, FinishRecovery
  <1>2. lock = p /\ tx[p] = NoTx
    BY Zenon, <1>1 DEF ProcInv, Locked, Recovering
  <1>3. \A q \in Procs \ {p} : lock # q /\ scan[q] = {}
    BY Zenon, <1>2, Alone
  <1>4. /\ lock' = NoProc
        /\ UNCHANGED <<disk, linked, dirs, tx, todo, scan, planVars, told, done, raced, countVars>>
        /\ pc' = [pc EXCEPT ![p] = "opening"] \/ pc' = [pc EXCEPT ![p] = "open"]
        /\ changed' = [changed EXCEPT ![p] = FALSE]
    BY ZenonT(60) DEF FinishRecovery
  <1>5. pc' \in [Procs -> Opening \cup Writing]
    BY ZenonT(60), <1>1, <1>4 DEF TypeOK, Opening, Writing
  <1>6. TypeOK'
    BY Zenon, <1>1, <1>4, <1>5 DEF TypeOK, planVars, countVars
  <1>7. pc'[p] \in {"opening", "open"} /\ \A q \in Procs \ {p} : pc'[q] = pc[q]
    BY Zenon, <1>1, <1>4 DEF TypeOK
  <1>8. ProcInv(p)'
    BY Zenon, <1>1, <1>2, <1>4, <1>7, NamesAssumption, ProcIdle
  <1>9. \A q \in Procs \ {p} : SparesProc(p, NoTx, q)
    BY Zenon, <1>2, <1>3, <1>4, <1>7, NamesAssumption DEF SparesProc
  <1>10. \A u \in Txs \ {NoTx} : SparesTx(u)
    BY Zenon, <1>4 DEF SparesTx, planVars
  <1> QED BY Zenon, <1>6, <1>8, <1>9, <1>10, Frame, NamesAssumption

\* An open that fails, or a process that stops, with nothing half-written.
LEMMA RefusedStep ==
    ASSUME FilesInv, NEW p \in Procs,
           ReplayRefused(p) \/ ManualRecovery(p) \/ \E u \in Txs : RecoverUnreadable(p, u)
    PROVE  FilesInv'
  <1>1. TypeOK /\ Close(p) /\ UNCHANGED <<disk, linked, dirs, planVars, told, done, raced, countVars>>
    BY Zenon DEF FilesInv, ReplayRefused, ManualRecovery, RecoverUnreadable
  <1>2. TypeOK'
    BY ZenonT(60), <1>1, CloseType DEF TypeOK, countVars
  <1>3. PICK t : t = tx[p]
    BY Zenon
  <1>4. ASSUME t \in Txs PROVE DirInv(t)'
    <2>1. DirInv(t) /\ Entries(t)' = Entries(t)
      BY Zenon, <1>1, <1>4 DEF FilesInv, Entries, planVars
    <2> QED BY Zenon, <1>1, <1>4, <2>1, DirSame
  <1> QED BY Zenon, <1>1, <1>2, <1>3, <1>4, CloseStep

LEMMA RecoveryFailsStep ==
    ASSUME FilesInv, NEW p \in Procs, RecoveryFails(p)
    PROVE  FilesInv'
  <1>1. TypeOK /\ Close(p) /\ Fault /\ told' = told /\ pc[p] \in Recovering \ {"discarding"}
    BY Zenon DEF FilesInv, RecoveryFails
  <1>2. /\ UNCHANGED <<planVars, raced>> /\ lock = p
        /\ crashes' \in 0..MaxCrashes /\ faults' \in 0..MaxFaults /\ edits' \in 0..MaxEdits
    BY ZenonT(60), <1>1, FaultType DEF FilesInv, ProcInv, Locked
  <1>3. PICK t : t = tx[p]
    BY Zenon
  <1>4. CASE UNCHANGED <<disk, dirs, done>> /\ linked' \subseteq linked
    <2>1. TypeOK'
      BY ZenonT(60), <1>1, <1>2, <1>4, CloseType DEF TypeOK
    <2>2. ASSUME t \in Txs PROVE DirInv(t)'
      <3>1. DirInv(t) /\ Entries(t)' = Entries(t)
        BY ZenonT(60), <1>2, <2>2 DEF FilesInv, Entries, planVars
      <3> QED BY Zenon, <1>1, <1>4, <2>2, <3>1, DirSame
    <2> QED BY ZenonT(60), <1>1, <1>2, <1>3, <1>4, <2>1, <2>2, CloseStep
  <1>5. CASE pc[p] = "checked" /\ PublishFails(p) /\ UNCHANGED dirs
    <2>1. /\ t \in Txs /\ DirInv(t) /\ dirs[t].phase = "committing"
          /\ done[t] \subseteq Entries(t) /\ todo[p] \subseteq Entries(t)
          /\ told[t] \in {"nothing", "failed"}
      BY ZenonT(60), <1>3, <1>5, Replaying
    <2>2. /\ disk' \in [Files -> FileStates] /\ done' \in [Txs -> SUBSET Files]
          /\ linked' \subseteq Files
          /\ \A u \in Txs \ {t} : done'[u] = done[u]
          /\ done'[t] \subseteq Entries(t)
      BY Zenon, <1>1, <1>3, <1>5, <2>1, PublishFailsTx
    <2>3. TypeOK'
      BY Zenon, <1>1, <1>2, <1>5, <2>2, CloseType DEF TypeOK
    <2>4. Entries(t)' = Entries(t)
      BY Zenon, <1>2 DEF Entries, planVars
    <2>5. DirInv(t)'
      <3>1. dirs[t].payload
        BY Zenon, <2>1 DEF DirInv
      <3> QED BY Zenon, <1>1, <1>5, <2>1, <2>2, <2>4, <3>1, DirCommitting
    <2> QED BY ZenonT(60), <1>1, <1>2, <1>3, <1>5, <2>2, <2>3, <2>5, CloseStep
  <1>6. CASE pc[p] = "replaying" /\ CommittedFails(p)
    <2>1. /\ t \in Txs /\ done[t] \subseteq Entries(t) /\ told[t] \in {"nothing", "failed"}
          /\ Entries(t) \ todo[p] \subseteq done[t]
      BY Zenon, <1>3, <1>6, Replaying
    <2>2. /\ UNCHANGED <<disk, linked, done>> /\ dirs' = [dirs EXCEPT ![t].phase = "committed"]
          /\ todo[p] = {}
      BY Zenon, <1>3, <1>6 DEF CommittedFails
    <2>3. dirs' \in [Txs -> Directory]
      BY Zenon, <1>1, <2>1, <2>2, DirectoryTypes DEF TypeOK, Phases
    <2>4. dirs'[t].phase = "committed" /\ \A u \in Txs \ {t} : dirs'[u] = dirs[u]
      BY SMTT(60), <1>1, <2>1, <2>2 DEF TypeOK, Directory
    <2>5. TypeOK'
      BY Zenon, <1>1, <1>2, <2>2, <2>3, CloseType DEF TypeOK
    <2>6. Entries(t)' = Entries(t) /\ done[t] = Entries(t)
      BY Zenon, <1>2, <2>1, <2>2 DEF Entries, planVars
    <2>7. DirInv(t)'
      BY Zenon, <1>1, <2>1, <2>2, <2>4, <2>6, DirDone
    <2> QED BY Zenon, <1>1, <1>2, <1>3, <2>2, <2>4, <2>5, <2>7, CloseStep
  <1> QED BY SMTT(60), <1>4, <1>5, <1>6 DEF RecoveryFails

-----------------------------------------------------------------------------
(* Crashes and edits.                                                      *)

LEMMA CrashStep ==
    ASSUME FilesInv, NEW p \in Procs, Crash(p)
    PROVE  FilesInv'
  <1>1. /\ TypeOK /\ ProcInv(p) /\ Close(p)
        /\ UNCHANGED <<disk, linked, planVars, told, done, raced, faults, edits>>
    BY Zenon DEF FilesInv, Crash
  <1>2. crashes' \in 0..MaxCrashes
    BY SMTT(60), <1>1, LimitsAssumption DEF Crash, TypeOK
  <1>3. PICK t : t = tx[p]
    BY Zenon
  <1>4. CASE dirs' = dirs
    <2>1. TypeOK'
      BY Zenon, <1>1, <1>2, <1>4, CloseType DEF TypeOK
    <2>2. ASSUME t \in Txs PROVE DirInv(t)'
      <3>1. DirInv(t) /\ Entries(t)' = Entries(t)
        BY Zenon, <1>1, <2>2 DEF FilesInv, Entries, planVars
      <3> QED BY Zenon, <1>1, <1>4, <3>1 DEF DirInv
    <2> QED BY Zenon, <1>1, <1>3, <1>4, <2>1, <2>2, CloseStep
  <1>5. CASE pc[p] \in Removing /\ HalfRemoved(p)
    <2>1. t \in Txs
      BY Zenon, <1>3, <1>5, Mine DEF Removing
    <2>2. DirInv(t) /\ dirs[t] \in Directory
      BY ZenonT(60), <1>1, <2>1 DEF FilesInv, TypeOK
    <2>3. dirs[t].phase # "committing"
      <3>1. dirs[t] = PreparedDir \/ dirs[t].phase \in {"bare", "prepared", "committed"}
        BY ZenonT(60), <1>1, <1>3, <1>5 DEF ProcInv, Removing
      <3>2. PreparedDir.phase = "prepared"
        BY DEF PreparedDir
      <3> QED BY Zenon, <3>1, <3>2
    <2>4. /\ dirs' \in [Txs -> Directory] /\ dirs'[t] \in Leftovers(dirs[t])
          /\ \A u \in Txs \ {t} : dirs'[u] = dirs[u]
      BY Zenon, <1>1, <1>3, <1>5, <2>1, HalfRemovedDir
    <2>5. TypeOK'
      BY Zenon, <1>1, <1>2, <2>4, CloseType DEF TypeOK
    <2>6. DirInv(t)'
      BY Zenon, <1>1, <2>1, <2>2, <2>3, <2>4, RemovedDir DEF DirInv
    <2> QED BY Zenon, <1>1, <1>3, <2>4, <2>5, <2>6, CloseStep
  <1> QED BY Zenon, <1>4, <1>5 DEF Crash

LEMMA EditStep ==
    ASSUME FilesInv, NEW f \in Files, ExternalEdit(f)
    PROVE  FilesInv'
  <1>1. TypeOK
    BY Zenon DEF FilesInv
  <1>2. PICK c \in FileStates : disk' = [disk EXCEPT ![f] = c] /\ linked' \subseteq linked
    BY ZenonT(60) DEF ExternalEdit
  <1>3. /\ UNCHANGED <<dirs, lock, pc, tx, todo, scan, changed, base, want, told, done, crashes, faults>>
        /\ raced' \in {raced, raced \cup {f}} /\ (lock # NoProc => f \in raced')
        /\ edits' \in 0..MaxEdits
    BY SMTT(60), <1>1, LimitsAssumption DEF ExternalEdit, procVars, planVars, TypeOK
  <1>4. TypeOK'
    BY Zenon, <1>1, <1>2, <1>3 DEF TypeOK
  <1>5. \A t : Entries(t)' = Entries(t)
    BY Zenon, <1>3 DEF Entries
  <1>6. \A t \in Txs : DirInv(t)'
    BY Zenon, <1>3, <1>5 DEF FilesInv, DirInv
  <1>7. ASSUME NEW p \in Procs PROVE ProcInv(p)'
    <2>1. ProcInv(p)
      BY Zenon DEF FilesInv
    <2>2. lock = p => \A g \in Files : AsPlanned(p, g) => AsPlanned(p, g)'
      BY Zenon, <1>1, <1>2, <1>3, NamesAssumption DEF AsPlanned, TypeOK
    <2>3. todo[p] \subseteq Files /\ First(todo[p]) \subseteq todo[p] /\ First(todo[p])' = First(todo[p])
      BY Zenon, <1>1, <1>3 DEF TypeOK, First
    <2>4. pc[p] \in {"applying", "checked"} => lock = p
      BY Zenon, <2>1 DEF ProcInv, Locked, Committing, Recovering
    <2>5. Untouched(p)' = Untouched(p)
      BY Zenon, <1>3 DEF Untouched
    <2> QED BY ZenonT(60), <1>3, <1>5, <2>1, <2>2, <2>3, <2>4, <2>5 DEF ProcInv
  <1> QED BY Zenon, <1>3, <1>4, <1>6, <1>7 DEF FilesInv

-----------------------------------------------------------------------------
(* The theorems.                                                           *)

LEMMA FilesStep == FilesInv /\ [Next]_vars => FilesInv'
  <1> SUFFICES ASSUME FilesInv, [Next]_vars PROVE FilesInv'
    BY Zenon
  <1>1. ASSUME NEW p \in Procs, Progress(p) PROVE FilesInv'
    BY ZenonT(60), <1>1, CaptureStep, CaptureFailsStep, StageStep, PrepareStep, CommitPointStep,
       ApplyStep, UnlinkStep, ApplyFailsStep,
       CommittedStep, CleanupStep, OpenStep, RecoverOneStep, RefusedStep, ReplayCheckStep,
       ReplayApplyStep, ReplayCommittedStep, DiscardStep, FinishRecoveryStep DEF Progress
  <1>2. ASSUME NEW p \in Procs, Disturbance(p) PROVE FilesInv'
    BY Zenon, <1>2, CrashStep, StageFailsStep, ApplyFailsStep, CleanupStep, RecoveryFailsStep,
       DiscardStep
       DEF Disturbance
  <1>3. ASSUME NEW p \in Procs, NEW t \in Txs, BeginCapture(p, t) PROVE FilesInv'
    BY Zenon, <1>3, BeginCaptureStep
  <1>4. ASSUME NEW f \in Files, ExternalEdit(f) PROVE FilesInv'
    BY Zenon, <1>4, EditStep
  <1>5. CASE UNCHANGED vars
    <2>1. UNCHANGED <<disk, linked, dirs, lock, pc, tx, todo, scan, changed, base, want, told, done,
                      raced, crashes, faults, edits>>
      BY Zenon, <1>5 DEF vars, procVars, planVars, countVars
    <2> QED BY Zenon, <2>1, SameInv
  <1> QED BY Zenon, <1>1, <1>2, <1>3, <1>4, <1>5 DEF Next

\* The inductive invariant of shadow commits and their recovery.
THEOREM FilesInvariance == Spec => []FilesInv
  BY FilesInit, FilesStep, PTL DEF Spec

\* Every variable keeps its type.
THEOREM FilesTypeCorrect == Spec => []TypeOK
  <1>1. FilesInv => TypeOK
    BY Zenon DEF FilesInv
  <1> QED BY <1>1, FilesInvariance, PTL

\* A transaction that is over changed all of its files or none, for any number
\* of files, processes, crashes, I/O errors and edits.
THEOREM CommitsAreWhole == Spec => []AllOrNothing
  <1>1. FilesInv => AllOrNothing
    <2> SUFFICES ASSUME FilesInv, NEW t \in Txs, Settled(t) PROVE done[t] \in {{}, Entries(t)}
      BY Zenon DEF AllOrNothing
    <2>1. DirInv(t) /\ dirs[t].phase \in Phases /\ dirs[t].phase # "committing"
      BY ZenonT(60) DEF FilesInv, TypeOK, Directory, Settled
    <2> QED BY Zenon, <2>1 DEF DirInv, Phases
  <1> QED BY <1>1, FilesInvariance, PTL

\* A journal recovery would complete has all its payloads.
THEOREM JournalsAreComplete == Spec => []PayloadsAreKept
  <1>1. FilesInv => PayloadsAreKept
    BY Zenon DEF FilesInv, DirInv, PayloadsAreKept
  <1> QED BY <1>1, FilesInvariance, PTL

\* Answers are true: a conflict means that nothing changed and never will,
\* success that everything did and that recovery has nothing left to write.
THEOREM AnswersAreTrue == Spec => [](ConflictLeavesNoTrace /\ SuccessIsFinal)
  <1>1. FilesInv => ConflictLeavesNoTrace /\ SuccessIsFinal
    BY Zenon DEF FilesInv, DirInv, ConflictLeavesNoTrace, SuccessIsFinal
  <1> QED BY <1>1, FilesInvariance, PTL

\* What a commit or a recovery publishes, and over what.
LEMMA PublishedAsPlanned ==
    ASSUME FilesInv, NEW p \in Procs, pc[p] \in {"applying", "checked"},
           NEW f \in First(todo[p]), disk' = [disk EXCEPT ![f] = want[tx[p]][f]],
           NEW g \in Files, disk'[g] # disk[g]
    PROVE  \E t \in Txs : disk'[g] = want[t][g] /\ (disk[g] = base[t][g] \/ g \in raced)
  <1>1. TypeOK /\ ProcInv(p) /\ tx[p] \in Txs
    BY Zenon, Mine DEF FilesInv
  <1>2. g = f /\ disk'[g] = want[tx[p]][g]
    BY Zenon, <1>1 DEF TypeOK
  <1>3. AsPlanned(p, f)
    BY Zenon, <1>1 DEF ProcInv, First
  <1> QED BY Zenon, <1>1, <1>2, <1>3 DEF AsPlanned

\* Commit and recovery replace only what the transaction was planned on.
THEOREM NothingElseIsReplaced == Spec => OnlyPlannedIsReplaced
  <1>1. ASSUME FilesInv, [Next]_vars, edits' = edits, NEW g \in Files, disk'[g] # disk[g]
        PROVE  \E t \in Txs : disk'[g] = want[t][g] /\ (disk[g] = base[t][g] \/ g \in raced)
    <2>1. PICK p \in Procs : Progress(p) \/ Disturbance(p) \/ \E t \in Txs : BeginCapture(p, t)
      <3>1. ~UNCHANGED vars
        BY Zenon, <1>1 DEF vars
      <3>2. ASSUME NEW f \in Files, ExternalEdit(f) PROVE FALSE
        BY SMTT(60), <1>1, <3>2 DEF ExternalEdit, FilesInv, TypeOK
      <3> QED BY Zenon, <1>1, <3>1, <3>2 DEF Next
    <2>2. /\ pc[p] \in {"applying", "checked"}
          /\ \E f \in First(todo[p]) : disk' = [disk EXCEPT ![f] = want[tx[p]][f]]
      <3>1. CASE Progress(p)
        BY ZenonT(60), <1>1, <3>1
           DEF Progress, CaptureFile, CaptureFails, Plan, Unlink, Stage, Prepare, CommitPoint, Conflict, Apply,
           ApplyRefused, Committed, Cleanup, Open, RecoverPending, RecoverOne, RecoverUnreadable,
           ReplayInPlace, ReplayCheck, ReplayApply, ReplayRefused, ManualRecovery,
           ReplayCommitted, Discard, FinishRecovery, Publish
      <3>2. CASE Disturbance(p)
        BY Zenon, <1>1, <3>2
           DEF Disturbance, Crash, StageFails, CommitPointFails, ApplyFails, CleanupFails,
           RecoveryFails, DiscardFails, PublishFails, CommittedFails
      <3>3. CASE \E t \in Txs : BeginCapture(p, t)
        BY Zenon, <1>1, <3>3 DEF BeginCapture
      <3> QED BY Zenon, <2>1, <3>1, <3>2, <3>3
    <2> QED BY ZenonT(60), <1>1, <2>2, PublishedAsPlanned
  <1>2. FilesInv /\ [Next]_vars =>
            [edits' = edits =>
                \A f \in Files : disk'[f] # disk[f] =>
                    \E t \in Txs : /\ disk'[f] = want[t][f]
                                   /\ disk[f] = base[t][f] \/ f \in raced]_vars
    BY Zenon, <1>1
  <1> QED BY <1>2, FilesInvariance, PTL DEF OnlyPlannedIsReplaced, Spec

-----------------------------------------------------------------------------
(* A commit is one step, where nobody edits or fails and an open           *)
(* collection meets no journal of an interrupted commit.                   *)

RecoversFirst ==
    /\ MaxFaults = 0 /\ MaxEdits = 0
    /\ (\A p, q \in Procs : p = q) \/ MaxCrashes = 0

\* The journal of t is past its commit point.
Past(t) == dirs[t].phase = "committing"

\* Where p is when it has yet to complete t.
Recovers(p, t) ==
    \/ pc[p] \in {"closed", "opening"}
    \/ pc[p] \in Recovering /\ (tx[p] = t \/ t \in scan[p])

\* A step of p leaves the others where they are, and their plans.
Moves(p) ==
    /\ \A q \in Procs \ {p} : pc'[q] = pc[q] /\ tx'[q] = tx[q] /\ scan'[q] = scan[q]
    /\ \A t \in Txs \ {tx[p]} : base'[t] = base[t] /\ want'[t] = want[t]
    /\ raced' = {}

\* What p has planned is as somebody asked.
Fits(p) ==
    /\ pc[p] \in {"planned", "staging", "prepared"} =>
          \E c \in Changes : want[tx[p]] = Resolved(tx[p], c)
    /\ pc[p] = "prepared" => Entries(tx[p]) # {}
    /\ MaxCrashes = 0 => pc[p] \in Writing

\* A file with two names was created by a commit that is not over.
Owned == \A f \in linked : \E t \in Txs : Past(t) /\ f \in done[t]

\* Commits under way stay so, and who has to complete t still has.
Stays(p) ==
    \A t \in Txs : Past(t)' =>
        \/ Interrupted(t)'
        \/ /\ pc[p] = "applying" /\ tx[p] = t => pc'[p] = "applying" /\ tx'[p] = t
           /\ Recovers(p, t) => Recovers(p, t)'

LEMMA AtomicParts ==
    AtomicInv => /\ raced = {} /\ Owned
                 /\ \A t \in Txs : Past(t) =>
                       /\ Entries(t) # {} /\ \A f \in done[t] : disk[f] = want[t][f]
                       /\ UnderWay(t) \/ \A p \in Procs : Recovers(p, t)
                       /\ \A u \in Txs : Past(u) => u = t
                 /\ \A p \in Procs : Fits(p)
  BY Zenon DEF AtomicInv, Past, Owned, Recovers, Interrupted, Fits

\* At most one journal is past its commit point, whatever a step does to it.
LEMMA KeepsAtomic ==
    ASSUME FilesInv, AtomicInv, NEW p \in Procs, Moves(p), Fits(p)', Stays(p), Owned',
           \A t \in Txs : Past(t)' =>
               /\ Past(t) /\ base'[t] = base[t] /\ want'[t] = want[t]
               /\ \A f \in done'[t] : disk'[f] = want[t][f]
    PROVE  AtomicInv'
  <1>1. ASSUME NEW t \in Txs, Past(t)'
        PROVE  /\ Entries(t)' # {} /\ \A f \in done'[t] : disk'[f] = want'[t][f]
               /\ UnderWay(t)' \/ Interrupted(t)'
               /\ \A u \in Txs : Past(u)' => u = t
    <2>1. Past(t) /\ base'[t] = base[t] /\ want'[t] = want[t]
      BY Zenon, <1>1
    <2>2. Entries(t)' = Entries(t)
      BY Zenon, <2>1 DEF Entries
    <2>3. /\ Entries(t) # {} /\ \A u \in Txs : Past(u) => u = t
          /\ UnderWay(t) \/ \A q \in Procs : Recovers(q, t)
      BY Zenon, <2>1, AtomicParts
    <2>4. UnderWay(t)' \/ Interrupted(t)'
      <3>1. CASE Interrupted(t)'
        BY Zenon, <3>1
      <3>2. CASE /\ pc[p] = "applying" /\ tx[p] = t => pc'[p] = "applying" /\ tx'[p] = t
                 /\ Recovers(p, t) => Recovers(p, t)'
        <4>1. CASE UnderWay(t)
          BY Zenon, <3>2, <4>1 DEF UnderWay, Moves
        <4>2. CASE \A q \in Procs : Recovers(q, t)
          <5>1. ASSUME NEW q \in Procs \ {p} PROVE Recovers(q, t)'
            BY Zenon, <4>2 DEF Moves, Recovers
          <5>2. \A q \in Procs : Recovers(q, t)'
            BY Zenon, <3>2, <4>2, <5>1
          <5> QED BY Zenon, <5>2 DEF Recovers, Interrupted
        <4> QED BY Zenon, <2>3, <4>1, <4>2
      <3> QED BY Zenon, <1>1, <3>1, <3>2 DEF Stays
    <2> QED BY Zenon, <1>1, <2>1, <2>2, <2>3, <2>4
  <1>2. ASSUME NEW q \in Procs \ {p} PROVE Fits(q)'
    <2>1. Fits(q) /\ pc'[q] = pc[q] /\ tx'[q] = tx[q] /\ ProcInv(q) /\ TypeOK
      BY Zenon, AtomicParts DEF Moves, FilesInv
    <2>2. CASE pc[q] \in {"planned", "staging", "prepared"}
      <3>1. tx[q] \in Txs /\ tx[q] # tx[p]
        BY Zenon, <2>2, Mine
      <3>2. base'[tx[q]] = base[tx[q]] /\ want'[tx[q]] = want[tx[q]]
        BY Zenon, <3>1 DEF Moves
      <3>3. \A c : Resolved(tx[q], c)' = Resolved(tx[q], c)
        BY Zenon, <2>1, <3>2 DEF Resolved
      <3>4. Entries(tx[q])' = Entries(tx[q])
        BY Zenon, <2>1, <3>2 DEF Entries
      <3> QED BY ZenonT(60), <2>1, <3>2, <3>3, <3>4 DEF Fits
    <2>3. CASE pc[q] \notin {"planned", "staging", "prepared"}
      BY Zenon, <2>1, <2>3 DEF Fits
    <2> QED BY Zenon, <2>2, <2>3
  <1>3. \A q \in Procs : Fits(q)'
    BY Zenon, <1>2
  <1> QED BY Zenon, <1>1, <1>3 DEF AtomicInv, Past, Owned, Fits, Moves

-----------------------------------------------------------------------------
(* What readers that recover first find.                                   *)

LEMMA RolledOne ==
    AtomicInv => \A t \in Txs : Past(t) =>
        RolledForward = [f \in Files |-> IF f \in Entries(t) THEN want[t][f] ELSE disk[f]]
  <1> SUFFICES ASSUME AtomicInv, NEW t \in Txs, Past(t)
               PROVE  RolledForward = [f \in Files |-> IF f \in Entries(t) THEN want[t][f] ELSE disk[f]]
    BY Zenon
  <1>1. \A u \in Txs : Past(u) => u = t
    BY Zenon, AtomicParts
  <1>2. ASSUME NEW f \in Files
        PROVE  RolledForward[f] = IF f \in Entries(t) THEN want[t][f] ELSE disk[f]
    <2>1. CASE f \in Entries(t)
      <3> DEFINE u == CHOOSE u \in Txs : dirs[u].phase = "committing" /\ f \in Entries(u)
      <3>1. u = t
        BY Zenon, <1>1, <2>1 DEF Past
      <3>2. RolledForward[f] = want[u][f]
        BY Zenon, <2>1 DEF RolledForward, Past
      <3> QED BY Zenon, <2>1, <3>1, <3>2
    <2>2. CASE f \notin Entries(t)
      <3>1. ~\E u \in Txs : dirs[u].phase = "committing" /\ f \in Entries(u)
        BY Zenon, <1>1, <2>2 DEF Past
      <3>2. RolledForward[f] = disk[f]
        BY Zenon, <3>1 DEF RolledForward
      <3> QED BY Zenon, <2>2, <3>2
    <2> QED BY Zenon, <2>1, <2>2
  <1>3. RolledForward = [f \in Files |-> RolledForward[f]]
    BY Zenon DEF RolledForward
  <1> QED BY Zenon, <1>2, <1>3

LEMMA RolledNone ==
    (\A t \in Txs : ~Past(t)) => RolledForward = [f \in Files |-> disk[f]]
  BY Zenon DEF RolledForward, Past

LEMMA RolledNext ==
    /\ AtomicInv' => \A t \in Txs : Past(t)' =>
         RolledForward' = [f \in Files |-> IF f \in Entries(t)' THEN want'[t][f] ELSE disk'[f]]
    /\ (\A t \in Txs : ~Past(t)') => RolledForward' = [f \in Files |-> disk'[f]]
  <1>1. (AtomicInv => \A t \in Txs : Past(t) =>
           RolledForward = [f \in Files |-> IF f \in Entries(t) THEN want[t][f] ELSE disk[f]])'
    BY RolledOne, PTL
  <1>2. ((\A t \in Txs : ~Past(t)) => RolledForward = [f \in Files |-> disk[f]])'
    BY RolledNone, PTL
  <1> QED BY Zenon, <1>1, <1>2

\* A step that changes no file and no journal past its commit point.
LEMMA QuietKeeps ==
    ASSUME FilesInv, AtomicInv, NEW p \in Procs, Moves(p), Fits(p)', Stays(p),
           UNCHANGED <<disk, done>>, linked' \subseteq linked, \A t \in Txs : Past(t)' <=> Past(t),
           tx[p] \in Txs /\ Past(tx[p]) => base'[tx[p]] = base[tx[p]] /\ want'[tx[p]] = want[tx[p]]
    PROVE  AtomicInv' /\ RolledForward' = RolledForward /\ Applied' = Applied
  <1>1. \A t \in Txs : Past(t) => base'[t] = base[t] /\ want'[t] = want[t]
    BY Zenon DEF Moves
  <1>2. AtomicInv'
    <2>1. \A t \in Txs : Past(t)' =>
               /\ Past(t) /\ base'[t] = base[t] /\ want'[t] = want[t]
               /\ \A f \in done'[t] : disk'[f] = want[t][f]
      BY Zenon, <1>1, AtomicParts
    <2>2. Owned'
      BY Zenon, AtomicParts DEF Owned
    <2> QED BY Zenon, <2>1, <2>2, KeepsAtomic
  <1>3. RolledForward' = RolledForward
    <2>1. CASE \E t \in Txs : Past(t)
      <3>1. PICK t \in Txs : Past(t)
        BY Zenon, <2>1
      <3>2. Entries(t)' = Entries(t) /\ want'[t] = want[t]
        BY Zenon, <1>1, <3>1 DEF Entries
      <3>3. RolledForward = [f \in Files |-> IF f \in Entries(t) THEN want[t][f] ELSE disk[f]]
        BY Zenon, <3>1, RolledOne
      <3>4. RolledForward' = [f \in Files |-> IF f \in Entries(t)' THEN want'[t][f] ELSE disk'[f]]
        BY Zenon, <1>2, <3>1, RolledNext
      <3> QED BY Zenon, <3>2, <3>3, <3>4
    <2>2. CASE \A t \in Txs : ~Past(t)
      <3>1. RolledForward = [f \in Files |-> disk[f]] /\ RolledForward' = [f \in Files |-> disk'[f]]
        BY Zenon, <2>2, RolledNone, RolledNext
      <3> QED BY Zenon, <3>1
    <2> QED BY Zenon, <2>1, <2>2
  <1>4. Applied' = Applied
    BY Zenon DEF Applied, Past
  <1> QED BY Zenon, <1>2, <1>3, <1>4

-----------------------------------------------------------------------------
(* The steps of a commit.                                                  *)

Unseen == RolledForward' = RolledForward /\ Applied' = Applied /\ told' = told

LEMMA DirPhases ==
    NoDir.phase = "none" /\ BareDir.phase = "bare" /\ PreparedDir.phase = "prepared"
  BY Zenon DEF NoDir, BareDir, PreparedDir

LEMMA WritingStays ==
    ASSUME NEW p \in Procs, pc[p] \in Writing, pc[p] # "applying"
    PROVE  Stays(p)
  <1>1. pc[p] \notin {"closed", "opening"} /\ pc[p] \notin Recovering
    BY Zenon DEF Writing, Recovering
  <1> QED BY Zenon, <1>1 DEF Stays, Recovers

LEMMA PlanUnseen ==
    ASSUME FilesInv, AtomicInv, NEW p \in Procs,
           (\E t \in Txs : BeginCapture(p, t)) \/ CaptureFile(p) \/ Plan(p)
    PROVE  AtomicInv' /\ Unseen
  <1>1. TypeOK /\ ProcInv(p) /\ Fits(p) /\ raced = {}
    BY Zenon, AtomicParts DEF FilesInv
  <1>2. /\ pc[p] \in Writing /\ pc[p] # "applying" /\ pc'[p] \in Writing
        /\ UNCHANGED <<disk, linked, dirs, done, told, scan, raced>>
        /\ \A q \in Procs \ {p} : pc'[q] = pc[q] /\ tx'[q] = tx[q]
    BY ZenonT(60), <1>1 DEF BeginCapture, CaptureFile, Plan, TypeOK, Writing
  <1>3. tx[p] \in Txs => ~Past(tx[p])
    <2>1. CASE pc[p] = "open"
      BY Zenon, <1>1, <2>1, NamesAssumption DEF ProcInv
    <2>2. CASE pc[p] = "capturing"
      <3>1. dirs[tx[p]] = NoDir
        BY Zenon, <1>1, <2>2 DEF ProcInv
      <3> QED BY Zenon, <3>1, DirPhases DEF Past
    <2> QED BY Zenon, <2>1, <2>2 DEF BeginCapture, CaptureFile, Plan
  <1>4. \A t \in Txs \ {tx[p]} : base'[t] = base[t] /\ want'[t] = want[t]
    BY Zenon, <1>1 DEF BeginCapture, CaptureFile, Plan, TypeOK, planVars
  <1>5. Moves(p) /\ Stays(p)
    BY Zenon, <1>1, <1>2, <1>4, WritingStays DEF Moves
  <1>6. Fits(p)'
    <2>1. CASE Plan(p)
      <3>1. PICK c \in Changes : want' = [want EXCEPT ![tx[p]] =
                [f \in Files |-> IF c[f] = Keep THEN base[tx[p]][f] ELSE c[f]]]
        BY Zenon, <2>1 DEF Plan
      <3>2. pc'[p] = "planned" /\ UNCHANGED <<tx, base>> /\ tx[p] \in Txs
        BY Zenon, <1>1, <2>1, Mine DEF Plan, TypeOK
      <3>3. want'[tx[p]] = [f \in Files |-> IF c[f] = Keep THEN base[tx[p]][f] ELSE c[f]]
        BY Zenon, <1>1, <3>1, <3>2 DEF TypeOK
      <3>4. want'[tx'[p]] = Resolved(tx[p], c)'
        BY Zenon, <3>2, <3>3 DEF Resolved
      <3> QED BY Zenon, <1>2, <3>2, <3>4 DEF Fits
    <2>2. CASE ~Plan(p)
      <3>1. pc'[p] = "capturing"
        BY Zenon, <1>1, <2>2 DEF BeginCapture, CaptureFile, TypeOK
      <3> QED BY Zenon, <1>2, <3>1 DEF Fits
    <2> QED BY Zenon, <2>1, <2>2
  <1>7. \A t \in Txs : Past(t)' <=> Past(t)
    BY Zenon, <1>2 DEF Past
  <1> QED BY Zenon, <1>2, <1>3, <1>5, <1>6, <1>7, QuietKeeps DEF Unseen

LEMMA StageUnseen ==
    ASSUME FilesInv, AtomicInv, NEW p \in Procs, Stage(p) \/ Prepare(p) \/ Conflict(p)
    PROVE  AtomicInv' /\ Unseen
  <1>1. TypeOK /\ ProcInv(p) /\ Fits(p) /\ raced = {}
    BY Zenon, AtomicParts DEF FilesInv
  <1>2. /\ pc[p] \in {"planned", "staging", "prepared"}
        /\ UNCHANGED <<disk, linked, done, told, tx, scan, base, want>> /\ raced' = {}
    BY Zenon, <1>1 DEF Stage, Prepare, Conflict, TakeLock, planVars
  <1>3. /\ \A q \in Procs \ {p} : pc'[q] = pc[q]
        /\ \/ pc'[p] \in {"staging", "cleaning", "rejecting", "refusing"}
           \/ pc'[p] = "prepared" /\ Entries(tx[p]) # {}
    BY Zenon, <1>1 DEF Stage, Prepare, Conflict, TypeOK
  <1>4. tx[p] \in Txs /\ ~Past(tx[p])
    <2>1. dirs[tx[p]] = NoDir \/ dirs[tx[p]] = BareDir \/ dirs[tx[p]] = PreparedDir
      BY Zenon, <1>1, <1>2 DEF ProcInv
    <2>2. dirs[tx[p]].phase # "committing"
      BY Zenon, <2>1, DirPhases
    <2> QED BY Zenon, <1>2, <2>2, Mine DEF Past
  <1>5. \A t \in Txs : Past(t)' <=> Past(t)
    <2>1. \/ dirs' = dirs
          \/ dirs' = [dirs EXCEPT ![tx[p]] = BareDir]
          \/ dirs' = [dirs EXCEPT ![tx[p]] = PreparedDir]
      BY Zenon DEF Stage, Prepare, Conflict
    <2>2. /\ \A t \in Txs \ {tx[p]} : dirs'[t] = dirs[t]
          /\ dirs'[tx[p]] \in {dirs[tx[p]], BareDir, PreparedDir}
      BY Zenon, <1>1, <1>4, <2>1 DEF TypeOK
    <2>3. dirs'[tx[p]].phase # "committing"
      BY Zenon, <1>4, <2>2, DirPhases DEF Past
    <2> QED BY Zenon, <1>4, <2>2, <2>3 DEF Past
  <1>6. Moves(p) /\ Stays(p)
    <2>1. pc[p] \in Writing /\ pc[p] # "applying"
      BY Zenon, <1>2 DEF Writing
    <2> QED BY Zenon, <1>2, <1>3, <2>1, WritingStays DEF Moves
  <1>7. Fits(p)'
    <2>1. PICK c \in Changes : want[tx[p]] = Resolved(tx[p], c)
      BY Zenon, <1>1, <1>2 DEF Fits
    <2>2. want'[tx'[p]] = Resolved(tx[p], c)' /\ Entries(tx[p])' = Entries(tx[p])
      BY Zenon, <1>2, <2>1 DEF Resolved, Entries
    <2>3. pc'[p] \in Writing
      BY Zenon, <1>3 DEF Writing
    <2> QED BY Zenon, <1>3, <2>2, <2>3 DEF Fits
  <1> QED BY Zenon, <1>2, <1>4, <1>5, <1>6, <1>7, QuietKeeps DEF Unseen

\* Nobody else is past the commit point when p reaches it.
LEMMA NonePast ==
    ASSUME FilesInv, AtomicInv, NEW p \in Procs, pc[p] = "prepared", NEW t \in Txs
    PROVE  ~Past(t)
  <1> SUFFICES ASSUME Past(t) PROVE FALSE
    BY Zenon
  <1>1. lock = p
    BY Zenon DEF FilesInv, ProcInv, Locked, Committing
  <1>2. ~UnderWay(t)
    <2> SUFFICES ASSUME NEW q \in Procs, pc[q] = "applying" PROVE FALSE
      BY Zenon DEF UnderWay
    <2>1. lock = q
      BY Zenon DEF FilesInv, ProcInv, Locked, Committing
    <2> QED BY Zenon, <1>1, <2>1
  <1>3. ~Recovers(p, t)
    BY Zenon DEF Recovers, Recovering
  <1> QED BY Zenon, <1>2, <1>3, AtomicParts

LEMMA CommitSeen ==
    ASSUME FilesInv, AtomicInv, NEW p \in Procs, CommitPoint(p), NEW t, t = tx[p]
    PROVE  AtomicInv' /\ t \in Txs /\ Atomic!Commit(t)
  <1>1. TypeOK /\ ProcInv(p) /\ Fits(p) /\ raced = {} /\ pc[p] = "prepared"
    BY Zenon, AtomicParts DEF FilesInv, CommitPoint
  <1>2. /\ Preconditions(t) /\ dirs' = [dirs EXCEPT ![t].phase = "committing"]
        /\ pc' = [pc EXCEPT ![p] = "applying"]
        /\ UNCHANGED <<disk, linked, tx, scan, base, want, told, done, raced>>
    BY Zenon DEF CommitPoint, planVars
  <1>3. t \in Txs /\ done[t] = {} /\ told[t] = "nothing" /\ Entries(t) # {}
    BY Zenon, <1>1, Mine DEF ProcInv, Untouched, Fits
  <1>4. PICK c \in Changes : want[t] = Resolved(t, c)
    BY Zenon, <1>1 DEF Fits
  <1>5. \A u \in Txs : ~Past(u)
    BY Zenon, <1>1, NonePast
  <1>6. Past(t)' /\ \A u \in Txs \ {t} : ~Past(u)'
    <2>1. dirs'[t] = [dirs[t] EXCEPT !.phase = "committing"] /\ \A u \in Txs \ {t} : dirs'[u] = dirs[u]
      BY Zenon, <1>1, <1>2, <1>3 DEF TypeOK
    <2>2. dirs'[t].phase = "committing"
      BY SMTT(60), <1>1, <1>3, <2>1 DEF TypeOK, Directory
    <2> QED BY Zenon, <1>5, <2>1, <2>2 DEF Past
  <1>7. pc'[p] = "applying" /\ \A q \in Procs \ {p} : pc'[q] = pc[q]
    BY Zenon, <1>1, <1>2 DEF TypeOK
  <1>8. Entries(t)' = Entries(t)
    BY Zenon, <1>2 DEF Entries
  <1>9. AtomicInv'
    <2>1. UnderWay(t)'
      BY Zenon, <1>2, <1>7 DEF UnderWay
    <2>2. ASSUME NEW q \in Procs PROVE Fits(q)'
      <3>1. Fits(q)
        BY Zenon, AtomicParts
      <3>2. pc'[q] \in {"planned", "staging", "prepared"} => pc'[q] = pc[q]
        BY Zenon, <1>7
      <3>3. pc'[q] \in Writing \/ pc'[q] = pc[q]
        BY Zenon, <1>7 DEF Writing
      <3>4. (\A d : Resolved(tx[q], d)' = Resolved(tx[q], d)) /\ Entries(tx[q])' = Entries(tx[q])
        BY Zenon, <1>2 DEF Resolved, Entries
      <3> QED BY Zenon, <1>2, <3>1, <3>2, <3>3, <3>4 DEF Fits
    <2>3. \A u \in Txs : dirs'[u].phase = "committing" =>
             /\ Entries(u)' # {} /\ \A f \in done'[u] : disk'[f] = want'[u][f]
             /\ UnderWay(u)' \/ Interrupted(u)'
             /\ \A v \in Txs : dirs'[v].phase = "committing" => v = u
      BY Zenon, <1>2, <1>3, <1>6, <1>8, <2>1 DEF Past
    <2>4. linked' = {}
      BY Zenon, <1>2, <1>5, AtomicParts DEF Owned
    <2> QED BY Zenon, <1>1, <1>2, <2>2, <2>3, <2>4 DEF AtomicInv, Fits
  <1>10. RolledForward = [f \in Files |-> disk[f]]
    BY Zenon, <1>5, RolledNone
  <1>11. RolledForward' = [f \in Files |-> IF f \in Entries(t) THEN want[t][f] ELSE disk[f]]
    <2>1. RolledForward' = [f \in Files |-> IF f \in Entries(t)' THEN want'[t][f] ELSE disk'[f]]
      BY Zenon, <1>3, <1>6, <1>9, RolledNext
    <2> QED BY Zenon, <1>2, <1>8, <2>1
  <1>12. \A f \in Entries(t) : f \in Files /\ c[f] = want[t][f] /\ c[f] # Keep /\ c[f] # RolledForward[f]
    <2> SUFFICES ASSUME NEW f \in Entries(t)
                 PROVE  f \in Files /\ c[f] = want[t][f] /\ c[f] # Keep /\ c[f] # RolledForward[f]
      BY Zenon
    <2>1. f \in Files /\ base[t][f] # want[t][f] /\ disk[f] = base[t][f]
      BY Zenon, <1>2 DEF Entries, Preconditions
    <2>2. want[t][f] = IF c[f] = Keep THEN base[t][f] ELSE c[f]
      BY Zenon, <1>4, <2>1 DEF Resolved
    <2> QED BY Zenon, <1>10, <2>1, <2>2
  <1>13. RolledForward' = Atomic!Changed(c, Entries(t))
    BY Zenon, <1>10, <1>11, <1>12 DEF Atomic!Changed
  <1>14. Entries(t) \in SUBSET {f \in Files : c[f] \notin {Keep, RolledForward[f]}}
    BY Zenon, <1>12
  <1>15. t \notin Applied /\ Applied' = Applied \cup {t}
    BY Zenon, <1>2, <1>3, <1>5, <1>6 DEF Applied, Past
  <1> QED BY Zenon, <1>2, <1>3, <1>4, <1>9, <1>13, <1>14, <1>15 DEF Atomic!Commit

\* A file published, or found in place, is what readers that recover first
\* find there already.
LEMMA PublishUnseen ==
    ASSUME FilesInv, AtomicInv, NEW p \in Procs, Apply(p) \/ ReplayApply(p) \/ ReplayInPlace(p)
    PROVE  AtomicInv' /\ Unseen
  <1>1. TypeOK /\ ProcInv(p) /\ Fits(p) /\ raced = {} /\ pc[p] \in {"applying", "checked", "replaying"}
    BY Zenon, AtomicParts DEF FilesInv, Apply, ReplayApply, ReplayInPlace
  <1>2. PICK t \in Txs : t = tx[p]
    BY Zenon, <1>1, Mine
  <1>3. Past(t) /\ todo[p] \subseteq Entries(t)
    BY Zenon, <1>1, <1>2 DEF ProcInv, Past
  <1>4. PICK f \in todo[p] :
            /\ done' = [done EXCEPT ![t] = @ \cup {f}]
            /\ disk' = [disk EXCEPT ![f] = want[t][f]] \/ (disk' = disk /\ disk[f] = want[t][f])
            /\ linked' \subseteq linked \cup {f}
    <2>1. CASE Apply(p)
      BY Zenon, <1>2, <2>1 DEF Apply, First, Publish
    <2>2. CASE ReplayApply(p)
      BY Zenon, <1>2, <2>2 DEF ReplayApply, First, Publish
    <2>3. CASE ReplayInPlace(p)
      BY Zenon, <1>2, <2>3 DEF ReplayInPlace, First
    <2> QED BY Zenon, <2>1, <2>2, <2>3
  <1>5. f \in Files /\ f \in Entries(t)
    BY Zenon, <1>3 DEF Entries
  <1>6. /\ disk'[f] = want[t][f] /\ \A g \in Files \ {f} : disk'[g] = disk[g]
        /\ done'[t] = done[t] \cup {f} /\ \A u \in Txs \ {t} : done'[u] = done[u]
    BY Zenon, <1>1, <1>4, <1>5 DEF TypeOK
  <1>7. /\ UNCHANGED <<dirs, tx, scan, base, want, told, raced>>
        /\ \A q \in Procs \ {p} : pc'[q] = pc[q]
        /\ pc[p] = "applying" => pc'[p] = "applying"
        /\ pc[p] \in {"checked", "replaying"} => pc'[p] = "replaying"
    BY Zenon, <1>1 DEF Apply, ReplayApply, ReplayInPlace, planVars, TypeOK
  <1>8. Entries(t)' = Entries(t) /\ done[t] \subseteq Entries(t)
    <2>1. DirInv(t)
      BY Zenon DEF FilesInv
    <2> QED BY Zenon, <1>3, <1>7, <2>1 DEF Entries, DirInv, Past
  <1>9. /\ \A u \in Txs : Past(u) => u = t
        /\ \A g \in done[t] : disk[g] = want[t][g]
    BY Zenon, <1>3, AtomicParts
  <1>10. \A u \in Txs : Past(u)' <=> Past(u)
    BY Zenon, <1>7 DEF Past
  <1>11. AtomicInv'
    <2>1. Moves(p)
      BY Zenon, <1>1, <1>7 DEF Moves
    <2>2. Fits(p)'
      <3>1. pc'[p] \notin {"planned", "staging", "prepared"}
        BY Zenon, <1>1, <1>7
      <3>2. pc[p] \in Writing => pc[p] = "applying"
        BY Zenon, <1>1 DEF Writing
      <3> QED BY Zenon, <1>1, <1>7, <3>1, <3>2 DEF Fits
    <2>3. Stays(p)
      <3>1. pc[p] \notin {"closed", "opening"} /\ (pc[p] \in Recovering => pc'[p] \in Recovering)
        BY Zenon, <1>1, <1>7 DEF Recovering
      <3> QED BY Zenon, <1>7, <3>1 DEF Stays, Recovers
    <2>4. \A g \in done'[t] : disk'[g] = want[t][g]
      BY Zenon, <1>6, <1>8, <1>9 DEF Entries
    <2>5. \A u \in Txs : Past(u)' =>
               /\ Past(u) /\ base'[u] = base[u] /\ want'[u] = want[u]
               /\ \A g \in done'[u] : disk'[g] = want[u][g]
      <3> SUFFICES ASSUME NEW u \in Txs, Past(u)'
                   PROVE  /\ Past(u) /\ base'[u] = base[u] /\ want'[u] = want[u]
                          /\ \A g \in done'[u] : disk'[g] = want[u][g]
        BY Zenon
      <3>1. Past(u) /\ u = t
        BY Zenon, <1>9, <1>10
      <3> QED BY Zenon, <1>7, <2>4, <3>1
    <2>6. Owned'
      <3>1. \A g \in linked : g \in done[t]
        BY Zenon, <1>9, AtomicParts DEF Owned
      <3> QED BY Zenon, <1>3, <1>4, <1>6, <1>10, <3>1 DEF Owned
    <2> QED BY Zenon, <2>1, <2>2, <2>3, <2>5, <2>6, KeepsAtomic
  <1>12. RolledForward' = RolledForward
    <2>1. RolledForward = [g \in Files |-> IF g \in Entries(t) THEN want[t][g] ELSE disk[g]]
      BY Zenon, <1>3, RolledOne
    <2>2. RolledForward' = [g \in Files |-> IF g \in Entries(t)' THEN want'[t][g] ELSE disk'[g]]
      BY Zenon, <1>3, <1>10, <1>11, RolledNext
    <2>3. \A g \in Files : (IF g \in Entries(t)' THEN want'[t][g] ELSE disk'[g])
                         = (IF g \in Entries(t) THEN want[t][g] ELSE disk[g])
      BY Zenon, <1>5, <1>6, <1>7, <1>8
    <2> QED BY Zenon, <2>1, <2>2, <2>3
  <1>13. Applied' = Applied
    <2>1. \A u \in Txs : (Past(u)' \/ done'[u] # {}) <=> (Past(u) \/ done[u] # {})
      BY Zenon, <1>3, <1>6, <1>10
    <2> QED BY Zenon, <2>1 DEF Applied, Past
  <1> QED BY Zenon, <1>7, <1>11, <1>12, <1>13 DEF Unseen

\* The end of a commit or of a replay: every file is in place.
LEMMA CommittedUnseen ==
    ASSUME FilesInv, AtomicInv, NEW p \in Procs, Committed(p) \/ ReplayCommitted(p)
    PROVE  AtomicInv' /\ Unseen
  <1>1. TypeOK /\ ProcInv(p) /\ Fits(p) /\ raced = {} /\ pc[p] \in {"applying", "replaying"} /\ todo[p] = {}
        /\ Linking(p) = {}
    BY Zenon, AtomicParts DEF FilesInv, Committed, ReplayCommitted
  <1>2. PICK t \in Txs : t = tx[p]
    BY Zenon, <1>1, Mine
  <1>3. Past(t) /\ done[t] = Entries(t)
    <2>1. DirInv(t)
      BY Zenon DEF FilesInv
    <2>2. dirs[t].phase = "committing" /\ Entries(t) \subseteq done[t]
      BY Zenon, <1>1, <1>2 DEF ProcInv
    <2> QED BY Zenon, <2>1, <2>2 DEF DirInv, Past
  <1>4. /\ Entries(t) # {} /\ \A f \in Entries(t) : disk[f] = want[t][f]
        /\ \A u \in Txs : Past(u) => u = t
    BY Zenon, <1>3, AtomicParts
  <1>5. /\ UNCHANGED <<disk, linked, tx, scan, base, want, told, done, raced>>
        /\ dirs' = [dirs EXCEPT ![t].phase = "committed"]
        /\ \A q \in Procs \ {p} : pc'[q] = pc[q]
        /\ pc[p] = "applying" => pc'[p] = "cleaning"
        /\ pc[p] = "replaying" => pc'[p] = "discarding"
    BY Zenon, <1>1, <1>2 DEF Committed, ReplayCommitted, planVars, TypeOK
  <1>6. \A u \in Txs : ~Past(u)'
    <2>1. dirs'[t] = [dirs[t] EXCEPT !.phase = "committed"] /\ \A u \in Txs \ {t} : dirs'[u] = dirs[u]
      BY Zenon, <1>1, <1>5 DEF TypeOK
    <2>2. dirs'[t].phase = "committed"
      BY SMTT(60), <1>1, <2>1 DEF TypeOK, Directory
    <2> QED BY Zenon, <1>4, <2>1, <2>2 DEF Past
  <1>7. AtomicInv'
    <2>1. Moves(p) /\ Stays(p)
      BY Zenon, <1>1, <1>5, <1>6 DEF Moves, Stays
    <2>2. Fits(p)'
      <3>1. pc'[p] \notin {"planned", "staging", "prepared"}
        BY Zenon, <1>1, <1>5
      <3>2. pc[p] \in Writing => pc'[p] \in Writing
        BY Zenon, <1>1, <1>5 DEF Writing
      <3> QED BY Zenon, <1>1, <3>1, <3>2 DEF Fits
    <2>3. Owned'
      <3>1. \A f \in linked : f \in Entries(t)
        BY Zenon, <1>3, <1>4, AtomicParts DEF Owned
      <3>2. linked = {}
        BY Zenon, <1>1, <1>2, <3>1 DEF Linking
      <3> QED BY Zenon, <1>5, <3>2 DEF Owned
    <2> QED BY Zenon, <1>6, <2>1, <2>2, <2>3, KeepsAtomic
  <1>8. RolledForward' = RolledForward
    <2>1. RolledForward = [g \in Files |-> IF g \in Entries(t) THEN want[t][g] ELSE disk[g]]
      BY Zenon, <1>3, RolledOne
    <2>2. RolledForward' = [g \in Files |-> disk'[g]]
      BY Zenon, <1>6, RolledNext
    <2>3. \A g \in Files : disk'[g] = (IF g \in Entries(t) THEN want[t][g] ELSE disk[g])
      BY Zenon, <1>4, <1>5
    <2> QED BY Zenon, <2>1, <2>2, <2>3
  <1>9. Applied' = Applied
    <2>1. \A u \in Txs : (Past(u)' \/ done'[u] # {}) <=> (Past(u) \/ done[u] # {})
      BY Zenon, <1>3, <1>4, <1>5, <1>6
    <2> QED BY Zenon, <2>1 DEF Applied, Past
  <1> QED BY Zenon, <1>5, <1>7, <1>8, <1>9 DEF Unseen

\* Where nobody edits, a commit past its commit point is never refused a file.
LEMMA NeverRefused ==
    ASSUME FilesInv, AtomicInv, NEW p \in Procs, ApplyRefused(p)
    PROVE  FALSE
  <1>1. ProcInv(p) /\ raced = {} /\ pc[p] = "applying"
    BY Zenon, AtomicParts DEF FilesInv, ApplyRefused
  <1>2. PICK f \in todo[p] : ~Publishable(tx[p], f)
    BY Zenon DEF ApplyRefused, First
  <1>3. disk[f] = base[tx[p]][f] /\ f \in Entries(tx[p])
    BY Zenon, <1>1 DEF ProcInv, AsPlanned
  <1>4. f \notin linked
    <2>1. tx[p] \in Txs /\ Past(tx[p]) /\ f \notin done[tx[p]]
      BY Zenon, <1>1, <1>2, Mine DEF ProcInv, Past
    <2>2. \A u \in Txs : Past(u) => u = tx[p]
      BY Zenon, <2>1, AtomicParts
    <2> QED BY Zenon, <2>1, <2>2, AtomicParts DEF Owned
  <1> QED BY Zenon, <1>2, <1>3, <1>4 DEF Publishable, Entries

\* A capture meets a file that another process is creating.
LEMMA CaptureFailsSeen ==
    ASSUME FilesInv, AtomicInv, NEW p \in Procs, CaptureFails(p), NEW t, t = tx[p]
    PROVE  AtomicInv' /\ t \in Txs /\ Atomic!Fail(t)
  <1>1. TypeOK /\ ProcInv(p) /\ raced = {} /\ pc[p] = "capturing"
    BY Zenon, AtomicParts DEF FilesInv, CaptureFails
  <1>2. t \in Txs
    BY Zenon, <1>1, Mine
  <1>3. dirs[t] = NoDir /\ done[t] = {} /\ told[t] = "nothing"
    BY Zenon, <1>1 DEF ProcInv, Untouched
  <1>4. ~Past(t)
    BY Zenon, <1>3, DirPhases DEF Past
  <1>5. /\ UNCHANGED <<disk, linked, dirs, done, scan, base, want, raced>>
        /\ told' = [told EXCEPT ![t] = "failed"]
        /\ pc' = [pc EXCEPT ![p] = "open"] /\ tx' = [tx EXCEPT ![p] = NoTx]
    BY Zenon DEF CaptureFails, planVars
  <1>6. \A u \in Txs : Past(u)' <=> Past(u)
    BY Zenon, <1>5 DEF Past
  <1>7. Moves(p)
    BY Zenon, <1>1, <1>5 DEF Moves, TypeOK
  <1>8. Stays(p)
    <2>1. pc[p] \in Writing /\ pc[p] # "applying"
      BY Zenon, <1>1 DEF Writing
    <2> QED BY Zenon, <2>1, WritingStays
  <1>9. Fits(p)'
    <2>1. pc'[p] = "open" /\ "open" \in Writing
      BY Zenon, <1>1, <1>5 DEF TypeOK, Writing
    <2> QED BY Zenon, <2>1 DEF Fits
  <1>10. AtomicInv' /\ RolledForward' = RolledForward /\ Applied' = Applied
    BY ZenonT(60), <1>4, <1>5, <1>6, <1>7, <1>8, <1>9, QuietKeeps
  <1>11. t \notin Applied
    BY Zenon, <1>3, <1>4 DEF Applied, Past
  <1> QED BY Zenon, <1>2, <1>3, <1>5, <1>10, <1>11 DEF Atomic!Fail

\* The temporary name of a file that was created is removed.
LEMMA UnlinkUnseen ==
    ASSUME FilesInv, AtomicInv, NEW p \in Procs, Unlink(p)
    PROVE  AtomicInv' /\ Unseen
  <1>1. Fits(p) /\ raced = {}
    BY Zenon, AtomicParts
  <1>2. /\ UNCHANGED <<disk, dirs, done, told, pc, tx, scan, base, want, raced>>
        /\ linked' \subseteq linked
    BY Zenon DEF Unlink, procVars, planVars
  <1>3. \A u \in Txs : Past(u)' <=> Past(u)
    BY Zenon, <1>2 DEF Past
  <1>4. Moves(p)
    BY Zenon, <1>1, <1>2 DEF Moves
  <1>5. Stays(p)
    BY Zenon, <1>2 DEF Stays, Recovers
  <1>6. Fits(p)'
    <2>1. Entries(tx[p])' = Entries(tx[p]) /\ \A c : Resolved(tx[p], c)' = Resolved(tx[p], c)
      BY Zenon, <1>2 DEF Entries, Resolved
    <2> QED BY Zenon, <1>1, <1>2, <2>1 DEF Fits
  <1> QED BY Zenon, <1>2, <1>3, <1>4, <1>5, <1>6, QuietKeeps DEF Unseen

\* The directory is gone and the caller has its answer.
LEMMA CleanupSeen ==
    ASSUME FilesInv, AtomicInv, NEW p \in Procs, Cleanup(p), NEW t, t = tx[p]
    PROVE  /\ AtomicInv' /\ t \in Txs
           /\ Atomic!NothingToDo(t) \/ Atomic!Succeed(t) \/ Atomic!Reject(t) \/ Atomic!Fail(t)
  <1>1. /\ TypeOK /\ ProcInv(p) /\ Fits(p) /\ raced = {}
        /\ pc[p] \in {"cleaning", "rejecting", "refusing"}
    BY ZenonT(60), AtomicParts DEF FilesInv, Cleanup, AnswerAt
  <1>2. t \in Txs
    BY Zenon, <1>1, Mine
  <1>3. /\ ~Past(t) /\ told[t] = "nothing"
        /\ pc[p] \in {"rejecting", "refusing"} => done[t] = {}
    <2>1. CASE pc[p] = "cleaning"
      BY ZenonT(60), <1>1, <1>2, <2>1, CleaningKnows DEF ProcInv, Past
    <2>2. CASE pc[p] \in {"rejecting", "refusing"}
      BY ZenonT(60), <1>1, <1>2, <2>2, RejectingKnows DEF ProcInv, Untouched, Past
    <2> QED BY Zenon, <1>1, <2>1, <2>2
  <1>4. /\ UNCHANGED <<disk, linked, done, scan, base, want, raced>> /\ dirs' = [dirs EXCEPT ![t] = NoDir]
        /\ pc' = [pc EXCEPT ![p] = "open"] /\ tx' = [tx EXCEPT ![p] = NoTx]
    BY Zenon DEF Cleanup, Return, planVars
  <1>5. /\ pc[p] = "cleaning" => told' = [told EXCEPT ![t] = "ok"]
        /\ pc[p] = "rejecting" => told' = [told EXCEPT ![t] = "conflict"]
        /\ pc[p] = "refusing" => told' = [told EXCEPT ![t] = "failed"]
    <2>1. /\ AnswerAt["cleaning"] = "ok" /\ AnswerAt["rejecting"] = "conflict"
          /\ AnswerAt["refusing"] = "failed"
      BY SMTT(60) DEF AnswerAt
    <2> QED BY Zenon, <2>1 DEF Cleanup, Return
  <1>6. \A u \in Txs : Past(u)' <=> Past(u)
    <2>1. dirs'[t] = NoDir /\ \A u \in Txs \ {t} : dirs'[u] = dirs[u]
      BY Zenon, <1>1, <1>2, <1>4 DEF TypeOK
    <2>2. dirs'[t].phase # "committing"
      BY Zenon, <2>1, DirPhases
    <2> QED BY Zenon, <1>3, <2>1, <2>2 DEF Past
  <1>7. Moves(p)
    BY Zenon, <1>1, <1>4 DEF Moves, TypeOK
  <1>8. Stays(p)
    <2>1. pc[p] \in Writing /\ pc[p] # "applying"
      BY Zenon, <1>1 DEF Writing
    <2> QED BY Zenon, <2>1, WritingStays
  <1>9. Fits(p)'
    <2>1. pc'[p] = "open" /\ "open" \in Writing
      BY Zenon, <1>1, <1>4 DEF TypeOK, Writing
    <2> QED BY Zenon, <2>1 DEF Fits
  <1>10. AtomicInv' /\ RolledForward' = RolledForward /\ Applied' = Applied
    BY ZenonT(60), <1>3, <1>4, <1>6, <1>7, <1>8, <1>9, QuietKeeps
  <1>11. CASE pc[p] = "cleaning"
    <2>1. told' = [told EXCEPT ![t] = "ok"]
      BY Zenon, <1>5, <1>11
    <2> QED BY Zenon, <1>2, <1>3, <1>10, <2>1 DEF Atomic!NothingToDo, Atomic!Succeed
  <1>12. CASE pc[p] = "rejecting"
    <2>1. told' = [told EXCEPT ![t] = "conflict"] /\ t \notin Applied
      BY Zenon, <1>3, <1>5, <1>12 DEF Applied, Past
    <2> QED BY Zenon, <1>2, <1>3, <1>10, <2>1 DEF Atomic!Reject
  <1>13. CASE pc[p] = "refusing"
    <2>1. told' = [told EXCEPT ![t] = "failed"] /\ t \notin Applied
      BY Zenon, <1>3, <1>5, <1>13 DEF Applied, Past
    <2> QED BY Zenon, <1>2, <1>3, <1>10, <2>1 DEF Atomic!Fail
  <1> QED BY Zenon, <1>1, <1>11, <1>12, <1>13

-----------------------------------------------------------------------------
(* Crashes and recovery: there is one process, if any crash is to come.    *)

LEMMA SoleUnseen ==
    ASSUME FilesInv, AtomicInv, RecoversFirst, MaxCrashes # 0, NEW p \in Procs,
           pc'[p] \notin {"planned", "staging", "prepared"},
           UNCHANGED <<disk, linked, done, told, base, want>>, raced' = {},
           \A t \in Txs : Past(t)' <=> Past(t), \A t \in Txs : Past(t) => Recovers(p, t)'
    PROVE  AtomicInv' /\ Unseen
  <1>1. \A q \in Procs : q = p
    BY Zenon DEF RecoversFirst
  <1>2. Moves(p)
    BY Zenon, <1>1 DEF Moves
  <1>3. Fits(p)'
    BY Zenon DEF Fits
  <1>4. Stays(p)
    <2>1. \A t \in Txs : Past(t)' => Interrupted(t)'
      BY Zenon, <1>1 DEF Interrupted, Recovers
    <2> QED BY Zenon, <2>1 DEF Stays
  <1> QED BY Zenon, <1>2, <1>3, <1>4, QuietKeeps DEF Unseen

\* An open that looks for journals, or gives up, changes no file.
LEMMA OpeningUnseen ==
    ASSUME FilesInv, AtomicInv, RecoversFirst, NEW p \in Procs,
           \/ Open(p) \/ RecoverPending(p) \/ ReplayCheck(p) \/ ReplayRefused(p)
           \/ ManualRecovery(p) \/ FinishRecovery(p)
           \/ \E t \in Txs : RecoverOne(p, t) \/ RecoverUnreadable(p, t)
    PROVE  AtomicInv' /\ Unseen
  <1>1. TypeOK /\ ProcInv(p) /\ Fits(p) /\ raced = {}
    BY Zenon, AtomicParts DEF FilesInv
  <1>2. /\ UNCHANGED <<disk, linked, dirs, done, told, base, want>> /\ raced' = {}
        /\ pc[p] \in Opening
    BY ZenonT(60), <1>1 DEF Open, RecoverPending, ReplayCheck, ReplayRefused, ManualRecovery,
       FinishRecovery, RecoverOne, RecoverUnreadable, TakeLock, planVars, Opening
  <1>3. MaxCrashes # 0 /\ pc[p] # "applying"
    <2>1. pc[p] \notin Writing /\ pc[p] # "applying"
      BY Zenon, <1>2 DEF Opening, Writing
    <2> QED BY Zenon, <1>1, <2>1 DEF Fits
  <1>4. \A t \in Txs : Past(t)' <=> Past(t)
    BY Zenon, <1>2 DEF Past
  <1>5. \A t \in Txs : Past(t) => Recovers(p, t)
    <2> SUFFICES ASSUME NEW t \in Txs, Past(t) PROVE Recovers(p, t)
      BY Zenon
    <2>1. \A q \in Procs : q = p
      BY Zenon, <1>3 DEF RecoversFirst
    <2>2. ~UnderWay(t)
      BY Zenon, <1>3, <2>1 DEF UnderWay
    <2> QED BY Zenon, <2>2, AtomicParts
  <1>6. /\ pc'[p] \notin {"planned", "staging", "prepared"}
        /\ \A t \in Txs : Past(t) => Recovers(p, t)'
    <2>1. CASE Open(p) \/ ReplayRefused(p) \/ ManualRecovery(p) \/ \E t \in Txs : RecoverUnreadable(p, t)
      <3>1. pc'[p] \in {"opening", "closed"}
        BY Zenon, <1>1, <2>1 DEF Open, ReplayRefused, ManualRecovery, RecoverUnreadable, Close, TypeOK
      <3> QED BY Zenon, <3>1 DEF Recovers
    <2>2. CASE RecoverPending(p)
      <3>1. pc'[p] = "scanning" /\ scan'[p] = {t \in Txs : dirs[t].phase # "none"}
        BY Zenon, <1>1, <2>2 DEF RecoverPending, TypeOK
      <3> QED BY Zenon, <3>1 DEF Recovers, Recovering, Past
    <2>3. CASE ReplayCheck(p)
      <3>1. pc[p] = "replaying" /\ pc'[p] = "checked" /\ UNCHANGED <<tx, scan>>
        BY Zenon, <1>1, <2>3 DEF ReplayCheck, TypeOK
      <3> QED BY Zenon, <1>5, <3>1 DEF Recovers, Recovering
    <2>4. CASE FinishRecovery(p)
      <3>1. pc[p] = "scanning" /\ scan[p] = {} /\ tx[p] = NoTx /\ pc'[p] \in {"opening", "open"}
        BY Zenon, <1>1, <2>4 DEF FinishRecovery, TypeOK, ProcInv
      <3>2. \A t \in Txs : ~Recovers(p, t)
        BY Zenon, <3>1, NamesAssumption DEF Recovers
      <3> QED BY Zenon, <1>5, <3>1, <3>2
    <2>5. ASSUME NEW u \in Txs, RecoverOne(p, u)
          PROVE  /\ pc'[p] \notin {"planned", "staging", "prepared"}
                 /\ \A t \in Txs : Past(t) => Recovers(p, t)'
      <3>1. /\ pc[p] = "scanning" /\ tx[p] = NoTx /\ pc'[p] \in {"discarding", "replaying"}
            /\ tx'[p] = u /\ scan'[p] = scan[p] \ {u}
        BY Zenon, <1>1, <2>5 DEF RecoverOne, TypeOK, ProcInv
      <3>2. \A t \in Txs : Past(t) => t \in scan[p]
        BY Zenon, <1>5, <3>1, NamesAssumption DEF Recovers
      <3>3. pc'[p] \in Recovering
        BY Zenon, <3>1 DEF Recovering
      <3> QED BY Zenon, <3>1, <3>2, <3>3 DEF Recovers
    <2> QED BY Zenon, <2>1, <2>2, <2>3, <2>4, <2>5
  <1> QED BY Zenon, <1>2, <1>3, <1>4, <1>6, SoleUnseen

\* A journal that was not past its commit point, or was complete, is removed.
LEMMA DiscardUnseen ==
    ASSUME FilesInv, AtomicInv, RecoversFirst, NEW p \in Procs, Discard(p)
    PROVE  AtomicInv' /\ Unseen
  <1>1. TypeOK /\ ProcInv(p) /\ Fits(p) /\ raced = {} /\ pc[p] = "discarding"
    BY Zenon, AtomicParts DEF FilesInv, Discard
  <1>2. PICK u \in Txs : u = tx[p]
    BY Zenon, <1>1, Mine
  <1>3. /\ UNCHANGED <<disk, linked, done, told, base, want, raced, scan>>
        /\ dirs' = [dirs EXCEPT ![u] = NoDir] /\ pc'[p] = "scanning"
    BY Zenon, <1>1, <1>2 DEF Discard, RecoveredOne, planVars, TypeOK
  <1>4. ~Past(u)
    BY Zenon, <1>1, <1>2 DEF ProcInv, Past
  <1>5. \A t \in Txs : Past(t)' <=> Past(t)
    <2>1. dirs'[u] = NoDir /\ \A t \in Txs \ {u} : dirs'[t] = dirs[t]
      BY Zenon, <1>1, <1>3 DEF TypeOK
    <2>2. dirs'[u].phase # "committing"
      BY Zenon, <2>1, DirPhases
    <2> QED BY Zenon, <1>4, <2>1, <2>2 DEF Past
  <1>6. MaxCrashes # 0
    <2>1. pc[p] \notin Writing
      BY Zenon, <1>1 DEF Writing
    <2> QED BY Zenon, <1>1, <2>1 DEF Fits
  <1>7. \A t \in Txs : Past(t) => Recovers(p, t)'
    <2> SUFFICES ASSUME NEW t \in Txs, Past(t) PROVE Recovers(p, t)'
      BY Zenon
    <2>1. \A q \in Procs : q = p
      BY Zenon, <1>6 DEF RecoversFirst
    <2>2. ~UnderWay(t)
      BY Zenon, <1>1, <2>1 DEF UnderWay
    <2>3. Recovers(p, t)
      BY Zenon, <2>2, AtomicParts
    <2>4. t \in scan[p]
      BY Zenon, <1>1, <1>2, <1>4, <2>3 DEF Recovers
    <2> QED BY Zenon, <1>3, <2>4 DEF Recovers, Recovering
  <1>8. pc'[p] \notin {"planned", "staging", "prepared"} /\ raced' = {}
    BY Zenon, <1>1, <1>3
  <1> QED BY Zenon, <1>3, <1>5, <1>6, <1>7, <1>8, SoleUnseen

\* A crash is seen by nobody: what it interrupts past the commit point is
\* completed before anybody looks, and the rest had no effect.
LEMMA CrashUnseen ==
    ASSUME FilesInv, AtomicInv, RecoversFirst, NEW p \in Procs, Crash(p)
    PROVE  AtomicInv' /\ Unseen
  <1>1. TypeOK /\ ProcInv(p) /\ raced = {}
    BY Zenon, AtomicParts DEF FilesInv
  <1>2. MaxCrashes # 0
    BY SMTT(60), <1>1 DEF Crash, TypeOK
  <1>3. UNCHANGED <<disk, linked, done, told, base, want, raced>> /\ pc'[p] = "closed"
    BY Zenon, <1>1 DEF Crash, Close, planVars, TypeOK
  <1>4. \A t \in Txs : Past(t)' <=> Past(t)
    <2>1. CASE dirs' = dirs
      BY Zenon, <2>1 DEF Past
    <2>2. CASE pc[p] \in Removing /\ HalfRemoved(p)
      <3>1. PICK u \in Txs : u = tx[p]
        BY Zenon, <2>2, Mine DEF Removing
      <3>2. dirs[u].phase # "committing" /\ dirs[u] \in Directory
        <4>1. dirs[u] = PreparedDir \/ dirs[u].phase \in {"bare", "prepared", "committed"}
          BY ZenonT(60), <1>1, <3>1, <2>2 DEF ProcInv, Removing
        <4> QED BY Zenon, <1>1, <4>1, DirPhases DEF TypeOK
      <3>3. dirs'[u] \in Leftovers(dirs[u]) /\ \A t \in Txs \ {u} : dirs'[t] = dirs[t]
        BY Zenon, <1>1, <2>2, <3>1, HalfRemovedDir
      <3>4. dirs'[u].phase \in {"none", "bare", dirs[u].phase}
        BY SMTT(60), <3>2, <3>3 DEF Leftovers, NoDir, BareDir, Directory
      <3> QED BY Zenon, <3>2, <3>3, <3>4 DEF Past
    <2> QED BY Zenon, <2>1, <2>2 DEF Crash
  <1>5. pc'[p] \notin {"planned", "staging", "prepared"} /\ raced' = {} /\ \A t : Recovers(p, t)'
    BY Zenon, <1>1, <1>3 DEF Recovers
  <1> QED BY Zenon, <1>2, <1>3, <1>4, <1>5, SoleUnseen

-----------------------------------------------------------------------------
(* The refinement.                                                         *)

LEMMA AtomicInitially == Init => AtomicInv /\ Atomic!AtomicInit
  <1> SUFFICES ASSUME Init PROVE AtomicInv /\ Atomic!AtomicInit
    BY Zenon
  <1>1. /\ \A t \in Txs : dirs[t] = NoDir /\ done[t] = {}
        /\ \A p \in Procs : pc[p] = "open" /\ "open" \in Writing
        /\ raced = {} /\ linked = {}
        /\ told = [t \in Txs |-> "nothing"] /\ disk \in [Files -> FileStates]
    BY Zenon DEF Init, Writing
  <1>2. \A t \in Txs : ~Past(t)
    BY Zenon, <1>1, DirPhases DEF Past
  <1>3. AtomicInv
    BY Zenon, <1>1, <1>2 DEF AtomicInv, Past
  <1>4. RolledForward \in [Files -> FileStates]
    <2>1. RolledForward = [f \in Files |-> disk[f]]
      BY Zenon, <1>2, RolledNone
    <2> QED BY Zenon, <1>1, <2>1
  <1>5. Applied = {}
    BY Zenon, <1>1, <1>2 DEF Applied, Past
  <1> QED BY Zenon, <1>1, <1>3, <1>4, <1>5 DEF Atomic!AtomicInit

\* Every step is a step of the abstract files, or changes nothing of them.
LEMMA AtomicStep ==
    ASSUME RecoversFirst
    PROVE  FilesInv /\ AtomicInv /\ [Next]_vars =>
               AtomicInv' /\ [Atomic!AtomicNext]_(Atomic!AtomicVars)
  <1> SUFFICES ASSUME FilesInv, AtomicInv, [Next]_vars
               PROVE  AtomicInv' /\ [Atomic!AtomicNext]_(Atomic!AtomicVars)
    BY Zenon
  <1>1. Unseen => [Atomic!AtomicNext]_(Atomic!AtomicVars)
    BY Zenon DEF Unseen, Atomic!AtomicVars
  <1>2. ASSUME NEW p \in Procs, CommitPoint(p)
        PROVE  AtomicInv' /\ [Atomic!AtomicNext]_(Atomic!AtomicVars)
    <2>1. PICK t : t = tx[p]
      BY Zenon
    <2>2. AtomicInv' /\ t \in Txs /\ Atomic!Commit(t)
      BY Zenon, <1>2, <2>1, CommitSeen
    <2> QED BY Zenon, <2>2 DEF Atomic!AtomicNext
  <1>3. ASSUME NEW p \in Procs, Cleanup(p)
        PROVE  AtomicInv' /\ [Atomic!AtomicNext]_(Atomic!AtomicVars)
    <2>1. PICK t : t = tx[p]
      BY Zenon
    <2>2. /\ AtomicInv' /\ t \in Txs
          /\ Atomic!NothingToDo(t) \/ Atomic!Succeed(t) \/ Atomic!Reject(t) \/ Atomic!Fail(t)
      BY Zenon, <1>3, <2>1, CleanupSeen
    <2> QED BY Zenon, <2>2 DEF Atomic!AtomicNext
  <1>9. ASSUME NEW p \in Procs, CaptureFails(p)
        PROVE  AtomicInv' /\ [Atomic!AtomicNext]_(Atomic!AtomicVars)
    <2>1. PICK t : t = tx[p]
      BY Zenon
    <2>2. AtomicInv' /\ t \in Txs /\ Atomic!Fail(t)
      BY Zenon, <1>9, <2>1, CaptureFailsSeen
    <2> QED BY Zenon, <2>2 DEF Atomic!AtomicNext
  <1>4. ASSUME NEW p \in Procs, Progress(p), ~CommitPoint(p), ~Cleanup(p), ~CaptureFails(p)
        PROVE  AtomicInv' /\ Unseen
    BY ZenonT(60), <1>4, PlanUnseen, StageUnseen, PublishUnseen, UnlinkUnseen, CommittedUnseen,
       NeverRefused, OpeningUnseen, DiscardUnseen DEF Progress
  <1>5. ASSUME NEW p \in Procs, \E t \in Txs : BeginCapture(p, t) PROVE AtomicInv' /\ Unseen
    BY Zenon, <1>5, PlanUnseen
  <1>6. ~Fault /\ \A f \in Files : ~ExternalEdit(f)
    BY SMTT(60) DEF FilesInv, TypeOK, RecoversFirst, Fault, ExternalEdit
  <1>7. ASSUME NEW p \in Procs, Disturbance(p) PROVE AtomicInv' /\ Unseen
    <2>1. Crash(p)
      BY Zenon, <1>6, <1>7 DEF Disturbance, StageFails, CommitPointFails, ApplyFails, CleanupFails,
         RecoveryFails, DiscardFails
    <2> QED BY Zenon, <2>1, CrashUnseen
  <1>8. CASE UNCHANGED vars
    <2>1. UNCHANGED <<disk, linked, dirs, pc, tx, scan, base, want, told, done, raced>>
      BY Zenon, <1>8 DEF vars, procVars, planVars
    <2>2. \A t : Entries(t)' = Entries(t) /\ UnderWay(t)' = UnderWay(t) /\ Interrupted(t)' = Interrupted(t)
      BY Zenon, <2>1 DEF Entries, UnderWay, Interrupted
    <2>3. \A t, c : Resolved(t, c)' = Resolved(t, c)
      BY Zenon, <2>1 DEF Resolved
    <2>4. AtomicInv'
      BY ZenonT(60), <2>1, <2>2, <2>3 DEF AtomicInv
    <2>5. RolledForward' = RolledForward /\ Applied' = Applied
      BY Zenon, <2>1, <2>2 DEF RolledForward, Applied
    <2> QED BY Zenon, <1>1, <2>1, <2>4, <2>5 DEF Unseen
  <1> QED BY ZenonT(60), <1>1, <1>2, <1>3, <1>4, <1>5, <1>6, <1>7, <1>8, <1>9 DEF Next

\* To those who open the collection first, a shadow commit is one step, the
\* one that replaces the prepared journal by a committing one, for any number
\* of files, changes and crashes: where nothing else fails, nobody else edits,
\* and no other process has the collection open when a commit is interrupted.
THEOREM AtomicRefinement ==
    ASSUME RecoversFirst
    PROVE  Spec => ImplementsAtomic
  <1>1. FilesInv /\ AtomicInv /\ [Next]_vars =>
            AtomicInv' /\ [Atomic!AtomicNext]_(Atomic!AtomicVars)
    BY Zenon, AtomicStep
  <1> QED BY <1>1, AtomicInitially, FilesInvariance, PTL DEF Spec, ImplementsAtomic, Atomic!AtomicSpec
=============================================================================
