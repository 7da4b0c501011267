--------------------- MODULE RuntimeTransactionsProofs ----------------------
(***************************************************************************)
(* Runtime transactions keep their promises whatever the number of files,  *)
(* claims, processes and commits, and through every crash and I/O error:   *)
(* the inductive invariant, the operations of a process and the            *)
(* disturbances that keep it, and what follows from it.  Without edits and *)
(* I/O errors a settlement is given up only at a file that a crash left    *)
(* half published, and hosts that prepare mutations under claims get what  *)
(* ClaimedMutations promises.                                              *)
(***************************************************************************)
EXTENDS RuntimeTransactions, TLAPS

-----------------------------------------------------------------------------
(* The inductive invariant.                                                *)

\* What an acknowledged outcome has been acknowledged by.
Released(t) ==
    /\ phase[t] \in Terminal
    /\ IF phase[t] = "committed" THEN asked[t] = Acks ELSE "resolution" \in asked[t]

\* A process holds the lock exactly inside an operation, and then the journal
\* of its transaction is where the operation left it.
ProcInv(p) ==
    /\ lock = p <=> pc[p] \in Holding
    /\ pc[p] \in Holding \ {"scanning"} => tx[p] \in Txs
    /\ pc[p] = "staging" =>
          /\ phase[tx[p]] = "bare" /\ done[tx[p]] = {}
          /\ \A u \in Journals : plan[u].claim # plan[tx[p]].claim
    /\ pc[p] \in {"rejecting", "cancelling"} => phase[tx[p]] = "prepared"
    /\ pc[p] \in {"token", "settling", "checked"} => phase[tx[p]] = "committing"
    /\ pc[p] \in {"settling", "checked"} =>
          /\ todo[p] \subseteq Changed(plan[tx[p]])
          /\ Changed(plan[tx[p]]) \ todo[p] \subseteq done[tx[p]]
    /\ pc[p] = "checked" =>
          \A f \in First(todo[p]) : disk[f] = plan[tx[p]].before[f] \/ f \in raced
    /\ pc[p] = "removing" => Released(tx[p])
    /\ recovering[p] => pc[p] \in {"settling", "checked"}

\* What a journal says was written is what was written, and only hosts'
\* acknowledgements are journalled.
TxInv(t) ==
    /\ plan[t] = NoPlan => phase[t] = "none" /\ done[t] = {}
    /\ done[t] \subseteq Changed(plan[t])
    /\ phase[t] \in {"prepared", "rejected", "cancelled"} => done[t] = {}
    /\ phase[t] = "committed" => done[t] = Changed(plan[t])
    /\ phase[t] # "none" => Changed(plan[t]) # {} /\ plan[t].claim \in Claims
    /\ acked[t] \subseteq asked[t]

\* Two transactions past their commit points have no file in common.
CommittingAreDisjoint ==
    \A t, u \in Txs :
        t # u /\ phase[t] = "committing" /\ phase[u] = "committing" =>
            Changed(plan[t]) \cap Changed(plan[u]) = {}

RTInv ==
    /\ TypeOK
    /\ \A p \in Procs : ProcInv(p)
    /\ \A t \in Txs : TxInv(t)
    /\ CommittingAreDisjoint
    /\ ClaimsAreUnique

-----------------------------------------------------------------------------
(* Plans.                                                                  *)

LEMMA NoPlanIsAPlan == NoPlan \in Plans /\ NoPlan.claim = NoClaim
  <1>1. PICK m \in Mutations : TRUE
    BY Zenon, RTMutations
  <1>2. [f \in Files |-> Absent] \in [Files -> FileStates]
    BY Zenon DEF FileStates
  <1>3. [claim |-> NoClaim, mutation |-> m, before |-> [f \in Files |-> Absent],
         after |-> [f \in Files |-> Absent]] \in Plans
    BY Zenon, <1>1, <1>2 DEF Plans
  <1>4. \E r \in Plans : r.claim = NoClaim
    BY Zenon, <1>3
  <1> QED BY Zenon, <1>4 DEF NoPlan

LEMMA PlanOfIsAPlan ==
    ASSUME NEW c \in Claims, NEW m \in Mutations, disk \in [Files -> FileStates]
    PROVE  PlanOf(c, m) \in Plans /\ PlanOf(c, m).claim = c /\ PlanOf(c, m) # NoPlan
  <1>1. m \in [Files -> FileStates \cup {Keep}]
    BY Zenon, RTMutations
  <1>2. [f \in Files |-> IF m[f] = Keep THEN disk[f] ELSE m[f]] \in [Files -> FileStates]
    BY Zenon, <1>1
  <1>3. PlanOf(c, m) \in Plans /\ PlanOf(c, m).claim = c
    BY Zenon, <1>2 DEF PlanOf, Plans
  <1> QED BY Zenon, <1>3, NoPlanIsAPlan, RTNames

LEMMA ChangedIsFiles == \A r : Changed(r) \subseteq Files
  BY Zenon DEF Changed

-----------------------------------------------------------------------------
(* What a step leaves alone.                                               *)

\* A step leaves transaction u alone.
SparesTx(u) ==
    /\ phase'[u] = phase[u] /\ plan'[u] = plan[u] /\ done'[u] = done[u]
    /\ acked'[u] = acked[u] /\ asked'[u] = asked[u]

\* Processes that do not hold the lock are not inside an operation.
LEMMA Bystanders ==
    ASSUME RTInv, NEW p \in Procs, lock \in {p, NoProc}, lock' \in {p, NoProc},
           \A q \in Procs \ {p} : pc'[q] = pc[q] /\ recovering'[q] = recovering[q]
    PROVE  \A q \in Procs \ {p} : ProcInv(q)'
  <1> SUFFICES ASSUME NEW q \in Procs \ {p} PROVE ProcInv(q)'
    BY Zenon
  <1>1. ProcInv(q) /\ lock # q /\ lock' # q
    BY SMTT(60), RTNames DEF RTInv
  <1>2. pc[q] \notin Holding
    BY Zenon, <1>1 DEF ProcInv
  <1>3. ~recovering[q]
    BY Zenon, <1>1, <1>2 DEF ProcInv, Holding
  <1>4. pc'[q] \notin Holding /\ ~recovering'[q]
    BY Zenon, <1>2, <1>3
  <1> QED BY Zenon, <1>1, <1>4 DEF ProcInv, Holding

LEMMA TxSame ==
    ASSUME NEW u \in Txs, TxInv(u), SparesTx(u)
    PROVE  TxInv(u)'
  BY Zenon DEF TxInv, SparesTx, Changed

\* A step of one process on one transaction.
LEMMA Frame ==
    ASSUME RTInv, TypeOK', NEW p \in Procs, NEW t \in Txs,
           lock \in {p, NoProc}, lock' \in {p, NoProc},
           \A q \in Procs \ {p} : pc'[q] = pc[q] /\ recovering'[q] = recovering[q],
           \A u \in Txs \ {t} : SparesTx(u),
           t \in Journals' =>
              \/ t \in Journals /\ plan'[t] = plan[t]
              \/ \A u \in Journals : plan[u].claim # plan'[t].claim,
           phase'[t] = "committing" =>
              \/ phase[t] = "committing" /\ plan'[t] = plan[t]
              \/ \A u \in Txs \ {t} : phase[u] = "committing" =>
                    Changed(plan[u]) \cap Changed(plan'[t]) = {},
           TxInv(t)', ProcInv(p)'
    PROVE  RTInv'
  <1>1. \A q \in Procs : ProcInv(q)'
    BY Zenon, Bystanders
  <1>2. \A u \in Txs : TxInv(u)'
    BY Zenon, TxSame DEF RTInv
  <1>3. CommittingAreDisjoint'
    <2> SUFFICES ASSUME NEW u \in Txs, NEW v \in Txs, u # v,
                        phase'[u] = "committing", phase'[v] = "committing"
                 PROVE  Changed(plan'[u]) \cap Changed(plan'[v]) = {}
      BY Zenon DEF CommittingAreDisjoint, Changed
    <2>1. CommittingAreDisjoint
      BY Zenon DEF RTInv
    <2>2. CASE u # t /\ v # t
      BY SMTT(60), <2>1, <2>2 DEF SparesTx, CommittingAreDisjoint
    <2>3. CASE u = t
      BY SMTT(60), <2>1, <2>3 DEF SparesTx, CommittingAreDisjoint
    <2>4. CASE v = t
      BY ZenonT(60), <2>1, <2>4 DEF SparesTx, CommittingAreDisjoint
    <2> QED BY Zenon, <2>2, <2>3, <2>4
  <1>4. ClaimsAreUnique'
    <2> SUFFICES ASSUME NEW u \in Journals', NEW v \in Journals', plan'[u].claim = plan'[v].claim
                 PROVE  u = v
      BY Zenon DEF ClaimsAreUnique
    <2>1. ClaimsAreUnique
      BY Zenon DEF RTInv
    <2>2. \A w \in Journals' \ {t} : w \in Journals /\ plan'[w] = plan[w]
      BY Zenon DEF Journals, SparesTx
    <2>3. CASE u # t /\ v # t
      BY SMTT(60), <2>1, <2>2, <2>3 DEF ClaimsAreUnique
    <2>4. CASE u = t
      BY ZenonT(60), <2>1, <2>2, <2>4 DEF ClaimsAreUnique
    <2>5. CASE v = t
      BY ZenonT(60), <2>1, <2>2, <2>5 DEF ClaimsAreUnique
    <2> QED BY Zenon, <2>3, <2>4, <2>5
  <1> QED BY Zenon, <1>1, <1>2, <1>3, <1>4 DEF RTInv

\* A step of one process that leaves every transaction alone.
LEMMA QuietFrame ==
    ASSUME RTInv, TypeOK', NEW p \in Procs,
           lock \in {p, NoProc}, lock' \in {p, NoProc},
           \A q \in Procs \ {p} : pc'[q] = pc[q] /\ recovering'[q] = recovering[q],
           UNCHANGED <<phase, plan, acked, done, asked>>, ProcInv(p)'
    PROVE  RTInv'
  <1>1. \A q \in Procs : ProcInv(q)'
    BY Zenon, Bystanders
  <1>2. \A u \in Txs : TxInv(u)'
    BY Zenon, TxSame DEF RTInv, SparesTx
  <1>3. CommittingAreDisjoint' /\ ClaimsAreUnique'
    BY SMTT(60) DEF RTInv, CommittingAreDisjoint, ClaimsAreUnique, Journals, Changed
  <1> QED BY Zenon, <1>1, <1>2, <1>3 DEF RTInv

-----------------------------------------------------------------------------
(* What establishes the invariant of a process, place by place.            *)

LEMMA ProcIdle ==
    ASSUME NEW p \in Procs, pc'[p] \in {"closed", "open"}, lock' # p, ~recovering'[p]
    PROVE  ProcInv(p)'
  BY Zenon DEF ProcInv, Holding

LEMMA ProcAt ==
    ASSUME NEW p \in Procs, NEW t \in Txs, lock' = p, tx'[p] = t, ~recovering'[p],
           \/ pc'[p] \in {"rejecting", "cancelling"} /\ phase'[t] = "prepared"
           \/ pc'[p] = "token" /\ phase'[t] = "committing"
           \/ pc'[p] = "removing" /\ Released(t)'
    PROVE  ProcInv(p)'
  <1>1. pc'[p] = "removing" => Released(tx[p])'
    BY Zenon DEF Released
  <1> QED BY Zenon, <1>1 DEF ProcInv, Holding

LEMMA ProcSettling ==
    ASSUME NEW p \in Procs, NEW t \in Txs, lock' = p, tx'[p] = t,
           pc'[p] \in {"settling", "checked"}, phase'[t] = "committing",
           todo'[p] \subseteq Changed(plan'[t]), Changed(plan'[t]) \ todo'[p] \subseteq done'[t],
           pc'[p] = "checked" =>
              \A f \in First(todo'[p]) : disk'[f] = plan'[t].before[f] \/ f \in raced'
    PROVE  ProcInv(p)'
  <1>1. Changed(plan[tx[p]])' = Changed(plan'[t]) /\ First(todo[p])' = First(todo'[p])
    BY Zenon DEF Changed, First
  <1> QED BY Zenon, <1>1 DEF ProcInv, Holding

LEMMA ProcScanning ==
    ASSUME NEW p \in Procs, lock' = p, pc'[p] = "scanning", ~recovering'[p]
    PROVE  ProcInv(p)'
  BY Zenon DEF ProcInv, Holding

\* Where a process is tells whether it holds the lock and recovers.
LEMMA Whereabouts ==
    ASSUME RTInv, NEW p \in Procs
    PROVE  /\ pc[p] \notin Holding => lock # p
           /\ pc[p] \in Holding => lock = p
           /\ pc[p] \in Holding \ {"scanning"} => tx[p] \in Txs
           /\ pc[p] \notin {"settling", "checked"} => ~recovering[p]
  BY Zenon DEF RTInv, ProcInv

\* A transaction that has a directory keeps its plan.
LEMMA TxGoesOn ==
    ASSUME NEW t \in Txs, TxInv(t), phase[t] # "none", plan'[t] = plan[t],
           done'[t] \subseteq Changed(plan[t]), acked'[t] \subseteq asked'[t],
           phase'[t] \in {"prepared", "rejected", "cancelled"} => done'[t] = {},
           phase'[t] = "committed" => done'[t] = Changed(plan[t])
    PROVE  TxInv(t)'
  <1>1. Changed(plan[t])' = Changed(plan[t])
    BY Zenon DEF Changed
  <1>2. NoPlan' = NoPlan
    BY Zenon DEF NoPlan, Plans
  <1> QED BY Zenon, <1>1, <1>2 DEF TxInv

\* An operation on t begins.
LEMMA BeginStep ==
    ASSUME RTInv, TypeOK', NEW p \in Procs, NEW t \in Txs, lock = NoProc, lock' = p,
           recovering' = recovering, \A q \in Procs \ {p} : pc'[q] = pc[q],
           plan' = plan, \A u \in Txs \ {t} : SparesTx(u), t \in Journals,
           phase'[t] = "committing" =>
              \/ phase[t] = "committing"
              \/ \A u \in Txs \ {t} : phase[u] = "committing" =>
                    Changed(plan[u]) \cap Changed(plan[t]) = {},
           TxInv(t)', ProcInv(p)'
    PROVE  RTInv'
  BY Zenon, Frame

\* An operation on t ends, or its process does.
LEMMA EndStep ==
    ASSUME RTInv, TypeOK', NEW p \in Procs, NEW t \in Txs, lock = p, lock' = NoProc,
           pc'[p] \in {"open", "closed"}, ~recovering'[p],
           \A q \in Procs \ {p} : pc'[q] = pc[q] /\ recovering'[q] = recovering[q],
           plan' = plan, \A u \in Txs \ {t} : SparesTx(u),
           t \in Journals' => t \in Journals,
           phase'[t] = "committing" => phase[t] = "committing", TxInv(t)'
    PROVE  RTInv'
  <1>1. ProcInv(p)'
    BY Zenon, ProcIdle, RTNames
  <1> QED BY Zenon, <1>1, Frame

-----------------------------------------------------------------------------
(* prepare_runtime_transaction.                                            *)

LEMMA RTInitially == Init => RTInv
  <1> SUFFICES ASSUME Init PROVE RTInv
    BY Zenon
  <1>1. TypeOK
    BY SMTT(60), NoPlanIsAPlan, RTInitial, RTLimits DEF Init, TypeOK, Phases, Places
  <1>2. \A p \in Procs : ProcInv(p)
    BY Zenon, RTNames DEF Init, ProcInv, Holding
  <1>3. \A t \in Txs : TxInv(t)
    BY Zenon, ChangedIsFiles DEF Init, TxInv
  <1>4. CommittingAreDisjoint /\ ClaimsAreUnique
    BY Zenon DEF Init, CommittingAreDisjoint, ClaimsAreUnique, Journals
  <1> QED BY Zenon, <1>1, <1>2, <1>3, <1>4 DEF RTInv

LEMMA PrepareStageStep ==
    ASSUME RTInv, NEW p \in Procs, NEW t \in Txs, NEW c \in Claims, NEW m \in Mutations,
           PrepareStage(p, t, c, m)
    PROVE  RTInv'
  <1>1. TypeOK /\ TxInv(t) /\ pc[p] = "open" /\ plan[t] = NoPlan /\ lock = NoProc
    BY Zenon DEF RTInv, PrepareStage, TakeLock
  <1>2. PlanOf(c, m) \in Plans /\ PlanOf(c, m).claim = c
    BY Zenon, <1>1, PlanOfIsAPlan DEF TypeOK
  <1>3. TypeOK'
    BY Zenon, <1>1, <1>2
       DEF PrepareStage, TakeLock, GoTo, TypeOK, countVars, Phases, Places, Holding
  <1>4. /\ lock' = p /\ pc'[p] = "staging" /\ tx'[p] = t
        /\ phase'[t] = "bare" /\ plan'[t] = PlanOf(c, m) /\ done'[t] = done[t]
        /\ acked'[t] = acked[t] /\ asked'[t] = asked[t]
        /\ recovering' = recovering /\ \A q \in Procs \ {p} : pc'[q] = pc[q]
        /\ \A u \in Txs \ {t} : SparesTx(u)
    BY Zenon, <1>1 DEF PrepareStage, TakeLock, GoTo, TypeOK, SparesTx
  <1>5. done[t] = {} /\ phase[t] = "none" /\ acked[t] \subseteq asked[t]
    BY Zenon, <1>1 DEF TxInv
  <1>6. TxInv(t)'
    <2>1. Changed(PlanOf(c, m)) # {}
      BY Zenon DEF PrepareStage
    <2>2. PlanOf(c, m) # NoPlan
      BY Zenon, <1>1, PlanOfIsAPlan DEF TypeOK
    <2>3. Changed(plan[t])' = Changed(PlanOf(c, m))
      BY Zenon, <1>4 DEF Changed
    <2>4. NoPlan' = NoPlan
      BY Zenon DEF NoPlan, Plans
    <2> QED BY Zenon, <1>2, <1>4, <1>5, <2>1, <2>2, <2>3, <2>4 DEF TxInv
  <1>7. ~recovering[p]
    BY Zenon, <1>1, Whereabouts
  <1>8. ProcInv(p)'
    <2>1. \A u \in Journals : plan[u].claim # c
      BY Zenon DEF PrepareStage, Unclaimed
    <2>2. \A u \in Journals' : u # t /\ u \in Journals /\ plan'[u] = plan[u]
      BY Zenon, <1>4 DEF Journals, SparesTx
    <2> QED BY SMTT(60), <1>2, <1>4, <1>5, <1>7, <2>1, <2>2 DEF ProcInv, Holding
  <1>9. t \notin Journals' /\ phase'[t] # "committing"
    BY Zenon, <1>4 DEF Journals
  <1> QED BY Zenon, <1>1, <1>3, <1>4, <1>6, <1>8, <1>9, Frame

LEMMA PrepareJournalStep ==
    ASSUME RTInv, NEW p \in Procs, PrepareJournal(p)
    PROVE  RTInv'
  <1>1. TypeOK /\ ProcInv(p) /\ pc[p] = "staging"
    BY Zenon DEF RTInv, PrepareJournal
  <1>2. PICK t \in Txs : t = tx[p]
    BY Zenon, <1>1, Whereabouts DEF Holding
  <1>3. lock = p /\ ~recovering[p] /\ TxInv(t)
    BY Zenon, <1>1, Whereabouts DEF Holding, RTInv
  <1>4. TypeOK'
    BY Zenon, <1>1
       DEF PrepareJournal, Return, GoTo, TypeOK, ghostVars, countVars, Phases, Open, Places, Holding
  <1>5. /\ lock' = NoProc /\ pc'[p] = "open" /\ phase'[t] = "prepared"
        /\ plan' = plan /\ done'[t] = done[t] /\ acked'[t] = acked[t] /\ asked'[t] = asked[t]
        /\ recovering' = recovering /\ \A q \in Procs \ {p} : pc'[q] = pc[q]
        /\ \A u \in Txs \ {t} : SparesTx(u)
    BY Zenon, <1>1, <1>2 DEF PrepareJournal, Return, GoTo, TypeOK, SparesTx, ghostVars
  <1>6. phase[t] = "bare" /\ done[t] = {} /\ \A u \in Journals : plan[u].claim # plan[t].claim
    BY Zenon, <1>1, <1>2 DEF ProcInv
  <1>7. TxInv(t)'
    <2>1. Changed(plan[t])' = Changed(plan[t])
      BY Zenon, <1>5 DEF Changed
    <2>2. NoPlan' = NoPlan
      BY Zenon DEF NoPlan, Plans
    <2> QED BY Zenon, <1>3, <1>5, <1>6, <2>1, <2>2 DEF TxInv
  <1>8. ProcInv(p)'
    BY Zenon, <1>3, <1>5, ProcIdle, RTNames
  <1> QED BY Zenon, <1>3, <1>4, <1>5, <1>6, <1>7, <1>8, Frame

LEMMA PrepareAbandonedStep ==
    ASSUME RTInv, NEW p \in Procs, PrepareAbandoned(p)
    PROVE  RTInv'
  <1>1. TypeOK /\ ProcInv(p) /\ pc[p] = "staging"
    BY Zenon DEF RTInv, PrepareAbandoned
  <1>2. PICK t \in Txs : t = tx[p]
    BY Zenon, <1>1, Whereabouts DEF Holding
  <1>3. lock = p /\ ~recovering[p] /\ TxInv(t)
    BY Zenon, <1>1, Whereabouts DEF Holding, RTInv
  <1>4. TypeOK'
    BY Zenon, <1>1 DEF PrepareAbandoned, Return, GoTo, TypeOK, ghostVars, countVars, Phases, Places
  <1>5. /\ lock' = NoProc /\ pc'[p] = "open" /\ phase'[t] = "none"
        /\ plan' = plan /\ done'[t] = done[t] /\ acked'[t] = acked[t] /\ asked'[t] = asked[t]
        /\ recovering' = recovering /\ \A q \in Procs \ {p} : pc'[q] = pc[q]
        /\ \A u \in Txs \ {t} : SparesTx(u)
    BY Zenon, <1>1, <1>2 DEF PrepareAbandoned, Return, GoTo, TypeOK, SparesTx, ghostVars
  <1>6. phase[t] = "bare" /\ t \notin Journals'
    BY Zenon, <1>1, <1>2, <1>5 DEF ProcInv, Journals
  <1>7. TxInv(t)'
    BY Zenon, <1>3, <1>5, <1>6, TxGoesOn DEF TxInv
  <1> QED BY Zenon, <1>3, <1>4, <1>5, <1>6, <1>7, EndStep

-----------------------------------------------------------------------------
(* commit_runtime_prepared, cancel_runtime_prepared.                       *)

LEMMA CommitPointStep ==
    ASSUME RTInv, NEW p \in Procs, NEW t \in Txs, CommitPoint(p, t)
    PROVE  RTInv'
  <1>1. /\ TypeOK /\ TxInv(t) /\ pc[p] = "open" /\ lock = NoProc
        /\ phase[t] = "prepared" /\ Readable(t) /\ ~Conflict(t)
    BY Zenon DEF RTInv, CommitPoint, TakeLock
  <1>2. TypeOK'
    BY Zenon, <1>1 DEF CommitPoint, TakeLock, GoTo, TypeOK, countVars, Phases, Open, Places, Holding
  <1>3. /\ lock' = p /\ pc'[p] = "token" /\ tx'[p] = t /\ phase'[t] = "committing"
        /\ plan' = plan /\ done'[t] = done[t] /\ acked'[t] = acked[t] /\ asked'[t] = asked[t]
        /\ recovering' = recovering /\ \A q \in Procs \ {p} : pc'[q] = pc[q]
        /\ \A u \in Txs \ {t} : SparesTx(u)
    BY Zenon, <1>1 DEF CommitPoint, TakeLock, GoTo, TypeOK, SparesTx
  <1>4. TxInv(t)'
    BY Zenon, <1>1, <1>3, TxGoesOn DEF TxInv
  <1>5. ProcInv(p)'
    BY Zenon, <1>1, <1>3, Whereabouts, ProcAt DEF Holding
  <1>6. \A u \in Txs \ {t} : phase[u] = "committing" => Changed(plan[u]) \cap Changed(plan[t]) = {}
    BY Zenon, <1>1 DEF Conflict
  <1>7. t \in Journals
    BY Zenon, <1>1 DEF Journals
  <1> QED BY Zenon, <1>1, <1>2, <1>3, <1>4, <1>5, <1>6, <1>7, BeginStep

LEMMA CommitAgainStep ==
    ASSUME RTInv, NEW p \in Procs, NEW t \in Txs, CommitAgain(p, t)
    PROVE  RTInv'
  <1>1. /\ TypeOK /\ TxInv(t) /\ pc[p] = "open" /\ lock = NoProc /\ phase[t] = "committing"
    BY Zenon DEF RTInv, CommitAgain, TakeLock
  <1>2. TypeOK'
    BY Zenon, <1>1 DEF CommitAgain, TakeLock, GoTo, TypeOK, countVars, journalVars, Places, Holding
  <1>3. /\ lock' = p /\ pc'[p] = "token" /\ tx'[p] = t /\ UNCHANGED <<journalVars, done, asked>>
        /\ recovering' = recovering /\ \A q \in Procs \ {p} : pc'[q] = pc[q]
    BY Zenon, <1>1 DEF CommitAgain, TakeLock, GoTo, TypeOK
  <1>4. ProcInv(p)'
    BY Zenon, <1>1, <1>3, Whereabouts, ProcAt DEF Holding, journalVars
  <1> QED BY Zenon, <1>1, <1>2, <1>3, <1>4, QuietFrame DEF journalVars

\* Reject and Cancel drop the payloads and go on to the journal.
LEMMA RefusalStep ==
    ASSUME RTInv, NEW p \in Procs, NEW t \in Txs, Reject(p, t) \/ Cancel(p, t)
    PROVE  RTInv'
  <1>1. /\ TypeOK /\ TxInv(t) /\ pc[p] = "open" /\ lock = NoProc /\ phase[t] = "prepared"
    BY Zenon DEF RTInv, Reject, Cancel, TakeLock
  <1>2. TypeOK'
    <2>1. CASE Reject(p, t)
      BY Zenon, <1>1, <2>1 DEF Reject, TakeLock, GoTo, TypeOK, countVars, Places, Holding
    <2>2. CASE Cancel(p, t)
      BY Zenon, <1>1, <2>2 DEF Cancel, TakeLock, GoTo, TypeOK, countVars, Places, Holding
    <2> QED BY Zenon, <2>1, <2>2
  <1>3. /\ lock' = p /\ pc'[p] \in {"rejecting", "cancelling"} /\ tx'[p] = t
        /\ UNCHANGED <<phase, plan, acked, done, asked>>
        /\ recovering' = recovering /\ \A q \in Procs \ {p} : pc'[q] = pc[q]
    BY Zenon, <1>1 DEF Reject, Cancel, TakeLock, GoTo, TypeOK
  <1>4. ProcInv(p)'
    BY Zenon, <1>1, <1>3, Whereabouts, ProcAt DEF Holding
  <1> QED BY Zenon, <1>1, <1>2, <1>3, <1>4, QuietFrame

LEMMA PersistFinalStep ==
    ASSUME RTInv, NEW p \in Procs, PersistFinal(p)
    PROVE  RTInv'
  <1>1. TypeOK /\ ProcInv(p) /\ pc[p] \in {"rejecting", "cancelling"}
    BY Zenon DEF RTInv, PersistFinal, FinalPhase
  <1>2. PICK t \in Txs : t = tx[p]
    BY Zenon, <1>1, Whereabouts DEF Holding
  <1>3. lock = p /\ ~recovering[p] /\ TxInv(t) /\ phase[t] = "prepared"
    BY Zenon, <1>1, <1>2, Whereabouts DEF Holding, RTInv, ProcInv
  <1>4. PICK g \in {"rejected", "cancelled"} : phase' = [phase EXCEPT ![t] = g]
    <2>1. FinalPhase[pc[p]] \in {"rejected", "cancelled"}
      BY SMTT(60), <1>1 DEF FinalPhase
    <2> QED BY Zenon, <1>2, <2>1 DEF PersistFinal
  <1>5. TypeOK'
    <2>1. phase' \in [Txs -> Phases]
      BY Zenon, <1>1, <1>4 DEF TypeOK, Phases, Terminal
    <2> QED BY Zenon, <1>1, <2>1
               DEF PersistFinal, Return, GoTo, TypeOK, ghostVars, countVars, Places
  <1>6. /\ lock' = NoProc /\ pc'[p] = "open" /\ phase'[t] = g
        /\ plan' = plan /\ done'[t] = done[t] /\ acked'[t] = acked[t] /\ asked'[t] = asked[t]
        /\ recovering' = recovering /\ \A q \in Procs \ {p} : pc'[q] = pc[q]
        /\ \A u \in Txs \ {t} : SparesTx(u)
    BY Zenon, <1>1, <1>2, <1>4 DEF PersistFinal, Return, GoTo, TypeOK, SparesTx, ghostVars
  <1>7. TxInv(t)'
    BY Zenon, <1>3, <1>6, TxGoesOn DEF TxInv
  <1>8. t \in Journals
    BY Zenon, <1>3 DEF Journals
  <1> QED BY Zenon, <1>3, <1>5, <1>6, <1>7, <1>8, EndStep

LEMMA PersistFaultStep ==
    ASSUME RTInv, NEW p \in Procs, PersistFault(p)
    PROVE  RTInv'
  <1>1. TypeOK /\ ProcInv(p) /\ pc[p] \in {"rejecting", "cancelling"}
    BY Zenon DEF RTInv, PersistFault, FinalPhase
  <1>2. lock = p /\ ~recovering[p]
    BY Zenon, <1>1, Whereabouts DEF Holding
  <1>3. TypeOK'
    BY SMTT(60), <1>1, RTLimits
       DEF PersistFault, More, Return, GoTo, TypeOK, journalVars, ghostVars, Places
  <1>4. /\ lock' = NoProc /\ pc'[p] = "open" /\ UNCHANGED <<journalVars, done, asked>>
        /\ recovering' = recovering /\ \A q \in Procs \ {p} : pc'[q] = pc[q]
    BY Zenon, <1>1 DEF PersistFault, Return, GoTo, TypeOK, ghostVars
  <1>5. ProcInv(p)'
    BY Zenon, <1>2, <1>4, ProcIdle, RTNames
  <1> QED BY Zenon, <1>2, <1>3, <1>4, <1>5, QuietFrame DEF journalVars

LEMMA DropTokenStep ==
    ASSUME RTInv, NEW p \in Procs, DropToken(p)
    PROVE  RTInv'
  <1>1. TypeOK /\ ProcInv(p) /\ pc[p] = "token"
    BY Zenon DEF RTInv, DropToken
  <1>2. lock = p /\ ~recovering[p]
    BY Zenon, <1>1, Whereabouts DEF Holding
  <1>3. TypeOK'
    BY Zenon, <1>1 DEF DropToken, Return, GoTo, TypeOK, journalVars, ghostVars, countVars, Places
  <1>4. /\ lock' = NoProc /\ pc'[p] = "open" /\ UNCHANGED <<journalVars, done, asked>>
        /\ recovering' = recovering /\ \A q \in Procs \ {p} : pc'[q] = pc[q]
    BY Zenon, <1>1 DEF DropToken, Return, GoTo, TypeOK, ghostVars
  <1>5. ProcInv(p)'
    BY Zenon, <1>2, <1>4, ProcIdle, RTNames
  <1> QED BY Zenon, <1>2, <1>3, <1>4, <1>5, QuietFrame DEF journalVars

-----------------------------------------------------------------------------
(* Settlement.                                                             *)

LEMMA StartSettlementStep ==
    ASSUME RTInv, NEW p \in Procs, StartSettlement(p)
    PROVE  RTInv'
  <1>1. TypeOK /\ ProcInv(p) /\ pc[p] = "token"
    BY Zenon DEF RTInv, StartSettlement
  <1>2. PICK t \in Txs : t = tx[p]
    BY Zenon, <1>1, Whereabouts DEF Holding
  <1>3. lock = p /\ phase[t] = "committing" /\ Entries(t) = Changed(plan[t])
    BY Zenon, <1>1, <1>2, Whereabouts DEF Holding, ProcInv, Entries
  <1>4. TypeOK'
    BY SMTT(60), <1>1, <1>2, <1>3, ChangedIsFiles
       DEF StartSettlement, GoTo, TypeOK, journalVars, ghostVars, countVars, Places, Holding
  <1>5. /\ lock' = p /\ pc'[p] = "settling" /\ tx'[p] = t /\ todo'[p] = Changed(plan[t])
        /\ UNCHANGED <<journalVars, done, asked>>
        /\ recovering' = recovering /\ \A q \in Procs \ {p} : pc'[q] = pc[q]
    BY Zenon, <1>1, <1>2, <1>3 DEF StartSettlement, GoTo, TypeOK, ghostVars
  <1>6. ProcInv(p)'
    BY Zenon, <1>3, <1>5, ProcSettling DEF journalVars
  <1> QED BY Zenon, <1>3, <1>4, <1>5, <1>6, QuietFrame DEF journalVars

\* A settlement knows what it has yet to write.
LEMMA Settling ==
    ASSUME RTInv, NEW p \in Procs, pc[p] \in {"settling", "checked"}
    PROVE  /\ TypeOK /\ lock = p /\ tx[p] \in Txs /\ TxInv(tx[p])
           /\ phase[tx[p]] = "committing" /\ tx[p] \in Journals
           /\ todo[p] \subseteq Changed(plan[tx[p]])
           /\ Changed(plan[tx[p]]) \ todo[p] \subseteq done[tx[p]]
  <1>1. TypeOK /\ ProcInv(p)
    BY Zenon DEF RTInv
  <1>2. lock = p /\ tx[p] \in Txs
    BY Zenon, Whereabouts DEF Holding
  <1>3. TxInv(tx[p])
    BY Zenon, <1>2 DEF RTInv
  <1> QED BY Zenon, <1>1, <1>2, <1>3 DEF ProcInv, Journals

LEMMA SettleInPlaceStep ==
    ASSUME RTInv, NEW p \in Procs, SettleInPlace(p)
    PROVE  RTInv'
  <1>1. pc[p] = "settling"
    BY Zenon DEF SettleInPlace
  <1>2. PICK t \in Txs : t = tx[p]
    BY Zenon, <1>1, Settling
  <1>3. /\ TypeOK /\ lock = p /\ TxInv(t) /\ phase[t] = "committing" /\ t \in Journals
        /\ todo[p] \subseteq Changed(plan[t]) /\ Changed(plan[t]) \ todo[p] \subseteq done[t]
    BY Zenon, <1>1, <1>2, Settling
  <1>4. PICK f \in todo[p] : /\ todo' = [todo EXCEPT ![p] = @ \ {f}]
                             /\ done' = [done EXCEPT ![t] = @ \cup {f}]
    BY Zenon, <1>2 DEF SettleInPlace, First
  <1>5. TypeOK'
    <2>1. todo' \in [Procs -> SUBSET Files] /\ done' \in [Txs -> SUBSET Files]
      BY Zenon, <1>3, <1>4 DEF TypeOK
    <2> QED BY Zenon, <1>3, <2>1 DEF SettleInPlace, TypeOK, journalVars, countVars
  <1>6. /\ lock' = p /\ pc' = pc /\ tx' = tx /\ recovering' = recovering
        /\ UNCHANGED <<journalVars, asked>>
        /\ todo'[p] = todo[p] \ {f} /\ done'[t] = done[t] \cup {f}
        /\ \A u \in Txs \ {t} : SparesTx(u)
    BY ZenonT(60), <1>3, <1>4 DEF SettleInPlace, TypeOK, SparesTx, journalVars
  <1>7. TxInv(t)'
    BY Zenon, <1>3, <1>6, TxGoesOn DEF TxInv, journalVars
  <1>8. ProcInv(p)'
    BY Zenon, <1>1, <1>2, <1>3, <1>6, ProcSettling DEF journalVars
  <1> QED BY Zenon, <1>3, <1>5, <1>6, <1>7, <1>8, Frame DEF journalVars

LEMMA SettleCheckStep ==
    ASSUME RTInv, NEW p \in Procs, SettleCheck(p)
    PROVE  RTInv'
  <1>1. pc[p] = "settling"
    BY Zenon DEF SettleCheck
  <1>2. PICK t \in Txs : t = tx[p]
    BY Zenon, <1>1, Settling
  <1>3. /\ TypeOK /\ lock = p /\ phase[t] = "committing"
        /\ todo[p] \subseteq Changed(plan[t]) /\ Changed(plan[t]) \ todo[p] \subseteq done[t]
    BY Zenon, <1>1, <1>2, Settling
  <1>4. TypeOK'
    BY Zenon, <1>2, <1>3
       DEF SettleCheck, GoTo, TypeOK, journalVars, ghostVars, countVars, Places, Holding
  <1>5. /\ lock' = p /\ pc'[p] = "checked" /\ tx'[p] = t /\ recovering' = recovering
        /\ UNCHANGED <<disk, linked, journalVars, todo, done, asked>>
        /\ \A q \in Procs \ {p} : pc'[q] = pc[q]
    BY Zenon, <1>2, <1>3 DEF SettleCheck, GoTo, TypeOK, ghostVars
  <1>6. \A f \in First(todo[p]) : disk[f] = plan[t].before[f]
    <2>1. PICK g \in First(todo[p]) : disk[g] = plan[t].before[g]
      BY Zenon, <1>2 DEF SettleCheck
    <2>2. \A f \in First(todo[p]) : f = g
      BY SMTT(60), <1>3, RTFiles DEF First, TypeOK
    <2> QED BY Zenon, <2>1, <2>2
  <1>7. ProcInv(p)'
    BY Zenon, <1>3, <1>5, <1>6, ProcSettling DEF journalVars
  <1> QED BY Zenon, <1>3, <1>4, <1>5, <1>7, QuietFrame DEF journalVars

LEMMA SettleApplyStep ==
    ASSUME RTInv, NEW p \in Procs, SettleApply(p)
    PROVE  RTInv'
  <1>1. pc[p] = "checked"
    BY Zenon DEF SettleApply
  <1>2. PICK t \in Txs : t = tx[p]
    BY Zenon, <1>1, Settling
  <1>3. /\ TypeOK /\ lock = p /\ TxInv(t) /\ phase[t] = "committing" /\ t \in Journals
        /\ todo[p] \subseteq Changed(plan[t]) /\ Changed(plan[t]) \ todo[p] \subseteq done[t]
    BY Zenon, <1>1, <1>2, Settling
  <1>4. PICK f \in todo[p] : /\ disk' = [disk EXCEPT ![f] = plan[t].after[f]]
                             /\ todo' = [todo EXCEPT ![p] = @ \ {f}]
                             /\ done' = [done EXCEPT ![t] = @ \cup {f}]
    BY Zenon, <1>2 DEF SettleApply, First
  <1>5. TypeOK'
    <2>1. f \in Files /\ plan[t].after[f] \in FileStates
      BY Zenon, <1>3 DEF TypeOK, Plans
    <2>2. disk' \in [Files -> FileStates] /\ done' \in [Txs -> SUBSET Files] /\ todo' \in [Procs -> SUBSET Files]
      BY Zenon, <1>3, <1>4, <2>1 DEF TypeOK
    <2>3. linked' \subseteq Files
      <3>1. PICK e \in Files : linked' \in {linked, linked \cup {e}}
        BY Zenon, <1>3, <2>1 DEF SettleApply, First, TypeOK
      <3> QED BY Zenon, <1>3, <3>1 DEF TypeOK
    <2> QED BY Zenon, <1>2, <1>3, <2>2, <2>3
               DEF SettleApply, GoTo, TypeOK, journalVars, countVars, Places, Holding
  <1>6. /\ lock' = p /\ pc'[p] = "settling" /\ tx'[p] = t /\ recovering' = recovering
        /\ UNCHANGED <<journalVars, asked>>
        /\ todo'[p] = todo[p] \ {f} /\ done'[t] = done[t] \cup {f}
        /\ \A q \in Procs \ {p} : pc'[q] = pc[q]
        /\ \A u \in Txs \ {t} : SparesTx(u)
    BY SMTT(60), <1>2, <1>3, <1>4 DEF SettleApply, GoTo, TypeOK, SparesTx, journalVars
  <1>7. TxInv(t)'
    BY SMTT(60), <1>3, <1>6, TxGoesOn DEF TxInv, journalVars
  <1>8. ProcInv(p)'
    BY Zenon, <1>3, <1>6, ProcSettling DEF journalVars
  <1> QED BY Zenon, <1>3, <1>5, <1>6, <1>7, <1>8, Frame DEF journalVars

LEMMA UnlinkStep ==
    ASSUME RTInv, NEW p \in Procs, Unlink(p)
    PROVE  RTInv'
  <1>1. /\ TypeOK /\ pc[p] = "settling" /\ linked' \subseteq linked
        /\ UNCHANGED <<disk, journalVars, lock, procVars, ghostVars, countVars>>
    BY Zenon DEF RTInv, Unlink
  <1>2. lock = p /\ ProcInv(p)
    BY Zenon, <1>1, Whereabouts DEF RTInv, Holding
  <1>3. TypeOK'
    BY Zenon, <1>1 DEF TypeOK, journalVars, procVars, ghostVars, countVars
  <1>4. ProcInv(p)'
    BY Zenon, <1>1, <1>2
       DEF ProcInv, Released, Changed, First, Journals, journalVars, procVars, ghostVars
  <1> QED BY Zenon, <1>1, <1>2, <1>3, <1>4, QuietFrame DEF journalVars, procVars, ghostVars

\* A settlement ends well: its journal is closed, or a recovery goes on.
LEMMA SettleDoneStep ==
    ASSUME RTInv, NEW p \in Procs, SettleDone(p)
    PROVE  RTInv'
  <1>1. pc[p] = "settling" /\ todo[p] = {}
    BY Zenon DEF SettleDone
  <1>2. PICK t \in Txs : t = tx[p]
    BY Zenon, <1>1, Settling
  <1>3. /\ TypeOK /\ lock = p /\ TxInv(t) /\ phase[t] = "committing" /\ t \in Journals
        /\ done[t] = Changed(plan[t])
    BY ZenonT(60), <1>1, <1>2, Settling DEF TxInv
  <1>4. phase' = [phase EXCEPT ![t] = "committed"] /\ UNCHANGED <<disk, linked, payload, plan, acked, ghostVars, countVars>>
    BY Zenon, <1>2 DEF SettleDone
  <1>5. /\ phase'[t] = "committed" /\ plan' = plan /\ done'[t] = done[t]
        /\ acked'[t] = acked[t] /\ asked'[t] = asked[t] /\ \A u \in Txs \ {t} : SparesTx(u)
    BY Zenon, <1>3, <1>4 DEF TypeOK, SparesTx, ghostVars
  <1>6. TxInv(t)'
    BY Zenon, <1>3, <1>5, TxGoesOn DEF TxInv
  <1>7. phase' \in [Txs -> Phases]
    BY Zenon, <1>3, <1>4 DEF TypeOK, Phases, Terminal
  <1>8. CASE recovering[p]
    <2>1. Settled(p)
      BY Zenon DEF SettleDone
    <2>2. /\ lock' = p /\ pc'[p] = "scanning" /\ ~recovering'[p]
          /\ \A q \in Procs \ {p} : pc'[q] = pc[q] /\ recovering'[q] = recovering[q]
      BY Zenon, <1>3, <1>8, <2>1 DEF Settled, GoTo, TypeOK
    <2>3. /\ pc' \in [Procs -> Places] /\ tx' \in [Procs -> Txs \cup {NoTx}]
          /\ todo' \in [Procs -> SUBSET Files] /\ recovering' \in [Procs -> BOOLEAN]
          /\ UNCHANGED <<lock, scan>>
      BY ZenonT(60), <1>3, <1>8, <2>1 DEF Settled, GoTo, TypeOK, Places, Holding
    <2>4. TypeOK'
      BY Zenon, <1>3, <1>4, <1>7, <2>3 DEF TypeOK, ghostVars, countVars
    <2>5. ProcInv(p)'
      BY Zenon, <2>2, ProcScanning
    <2> QED BY Zenon, <1>3, <1>5, <1>6, <2>2, <2>4, <2>5, Frame
  <1>9. CASE ~recovering[p]
    <2>1. Return(p) /\ UNCHANGED <<scan, recovering>>
      BY Zenon, <1>9 DEF SettleDone, Settled
    <2>2. /\ lock' = NoProc /\ pc'[p] = "open" /\ \A q \in Procs \ {p} : pc'[q] = pc[q]
      BY Zenon, <1>3, <2>1 DEF Return, GoTo, TypeOK
    <2>3. /\ pc' \in [Procs -> Places] /\ tx' \in [Procs -> Txs \cup {NoTx}]
          /\ todo' \in [Procs -> SUBSET Files]
      BY Zenon, <1>3, <2>1 DEF Return, GoTo, TypeOK, Places
    <2>4. TypeOK'
      BY Zenon, <1>3, <1>4, <1>7, <2>1, <2>2, <2>3 DEF TypeOK, ghostVars, countVars
    <2> QED BY Zenon, <1>3, <1>5, <1>6, <1>9, <2>1, <2>2, <2>4, EndStep
  <1> QED BY Zenon, <1>8, <1>9

\* What a settlement that fails does to its process.
LEMMA NotSettledEnds ==
    ASSUME TypeOK, NEW p \in Procs, lock = p, NotSettled(p)
    PROVE  /\ lock' = NoProc /\ pc'[p] \in {"open", "closed"} /\ ~recovering'[p]
           /\ \A q \in Procs \ {p} : pc'[q] = pc[q] /\ recovering'[q] = recovering[q]
           /\ pc' \in [Procs -> Places] /\ tx' \in [Procs -> Txs \cup {NoTx}]
           /\ todo' \in [Procs -> SUBSET Files] /\ scan' \in [Procs -> SUBSET Txs]
           /\ recovering' \in [Procs -> BOOLEAN]
  <1>1. CASE recovering[p]
    BY ZenonT(60), <1>1 DEF NotSettled, Close, GoTo, TypeOK, Places
  <1>2. CASE ~recovering[p]
    BY Zenon, <1>2 DEF NotSettled, Return, GoTo, TypeOK, Places
  <1> QED BY Zenon, <1>1, <1>2

LEMMA SettleManualStep ==
    ASSUME RTInv, NEW p \in Procs, SettleManual(p)
    PROVE  RTInv'
  <1>1. pc[p] \in {"settling", "checked"}
    BY Zenon DEF SettleManual, Foreign
  <1>2. PICK t \in Txs : t = tx[p]
    BY Zenon, <1>1, Settling
  <1>3. TypeOK /\ lock = p /\ TxInv(t) /\ phase[t] = "committing" /\ t \in Journals
    BY Zenon, <1>1, <1>2, Settling
  <1>4. /\ phase' = [phase EXCEPT ![t] = "manual"] /\ NotSettled(p)
        /\ UNCHANGED <<disk, linked, payload, plan, acked, ghostVars, countVars>>
    BY Zenon, <1>2 DEF SettleManual
  <1>5. /\ phase'[t] = "manual" /\ plan' = plan /\ done'[t] = done[t]
        /\ acked'[t] = acked[t] /\ asked'[t] = asked[t] /\ \A u \in Txs \ {t} : SparesTx(u)
    BY Zenon, <1>3, <1>4 DEF TypeOK, SparesTx, ghostVars
  <1>6. TxInv(t)'
    BY Zenon, <1>3, <1>5, TxGoesOn DEF TxInv
  <1>7. /\ lock' = NoProc /\ pc'[p] \in {"open", "closed"} /\ ~recovering'[p]
        /\ \A q \in Procs \ {p} : pc'[q] = pc[q] /\ recovering'[q] = recovering[q]
    BY Zenon, <1>3, <1>4, NotSettledEnds
  <1>8. TypeOK'
    <2>1. phase' \in [Txs -> Phases]
      BY Zenon, <1>3, <1>4 DEF TypeOK, Phases
    <2>2. /\ pc' \in [Procs -> Places] /\ tx' \in [Procs -> Txs \cup {NoTx}]
          /\ todo' \in [Procs -> SUBSET Files] /\ scan' \in [Procs -> SUBSET Txs]
          /\ recovering' \in [Procs -> BOOLEAN]
      BY Zenon, <1>3, <1>4, NotSettledEnds
    <2> QED BY Zenon, <1>3, <1>4, <1>7, <2>1, <2>2 DEF TypeOK, ghostVars, countVars
  <1> QED BY Zenon, <1>3, <1>5, <1>6, <1>7, <1>8, EndStep

LEMMA SettleFaultStep ==
    ASSUME RTInv, NEW p \in Procs, SettleFault(p)
    PROVE  RTInv'
  <1>1. pc[p] \in {"settling", "checked"}
    BY Zenon DEF SettleFault
  <1>2. PICK t \in Txs : t = tx[p]
    BY Zenon, <1>1, Settling
  <1>3. /\ TypeOK /\ lock = p /\ TxInv(t) /\ phase[t] = "committing" /\ t \in Journals
        /\ todo[p] \subseteq Changed(plan[t])
    BY Zenon, <1>1, <1>2, Settling
  <1>4. PICK g \in {"manual", "committing"} : phase' = [phase EXCEPT ![t] = g]
    BY Zenon, <1>2 DEF SettleFault
  <1>5. NotSettled(p) /\ UNCHANGED <<payload, plan, acked, asked, raced, crashes, edits>>
    BY Zenon DEF SettleFault
  <1>6. /\ disk' \in [Files -> FileStates] /\ done' \in [Txs -> SUBSET Files]
        /\ done'[t] \subseteq Changed(plan[t]) /\ \A u \in Txs \ {t} : done'[u] = done[u]
    <2>1. CASE UNCHANGED <<disk, done>>
      BY Zenon, <1>3, <2>1 DEF TypeOK, TxInv
    <2>2. CASE ~UNCHANGED <<disk, done>>
      <3>1. PICK f \in todo[p] : /\ disk' = [disk EXCEPT ![f] = plan[t].after[f]]
                                 /\ done' = [done EXCEPT ![t] = @ \cup {f}]
        BY ZenonT(60), <1>2, <2>2 DEF SettleFault, First
      <3>2. f \in Files /\ plan[t].after[f] \in FileStates
        BY Zenon, <1>3 DEF TypeOK, Plans
      <3> QED BY Zenon, <1>3, <3>1, <3>2 DEF TypeOK, TxInv
    <2> QED BY Zenon, <2>1, <2>2
  <1>7. /\ phase'[t] = g /\ plan' = plan
        /\ acked'[t] = acked[t] /\ asked'[t] = asked[t] /\ \A u \in Txs \ {t} : SparesTx(u)
    BY Zenon, <1>3, <1>4, <1>5, <1>6 DEF TypeOK, SparesTx
  <1>8. TxInv(t)'
    BY Zenon, <1>3, <1>6, <1>7, TxGoesOn DEF TxInv
  <1>9. /\ lock' = NoProc /\ pc'[p] \in {"open", "closed"} /\ ~recovering'[p]
        /\ \A q \in Procs \ {p} : pc'[q] = pc[q] /\ recovering'[q] = recovering[q]
    BY Zenon, <1>3, <1>5, NotSettledEnds
  <1>10. TypeOK'
    <2>1. phase' \in [Txs -> Phases]
      BY Zenon, <1>3, <1>4 DEF TypeOK, Phases, Open
    <2>2. /\ pc' \in [Procs -> Places] /\ tx' \in [Procs -> Txs \cup {NoTx}]
          /\ todo' \in [Procs -> SUBSET Files] /\ scan' \in [Procs -> SUBSET Txs]
          /\ recovering' \in [Procs -> BOOLEAN]
      BY Zenon, <1>3, <1>5, NotSettledEnds
    <2>3. faults' \in 0..MaxFaults
      BY SMTT(60), <1>3, RTLimits DEF TypeOK, SettleFault
    <2>4. linked' \subseteq Files
      BY Zenon, <1>3 DEF TypeOK, SettleFault
    <2> QED BY Zenon, <1>3, <1>5, <1>6, <1>9, <2>1, <2>2, <2>3, <2>4 DEF TypeOK
  <1> QED BY Zenon, <1>3, <1>7, <1>8, <1>9, <1>10, EndStep

-----------------------------------------------------------------------------
(* Acknowledgements.                                                       *)

\* Nobody is inside an operation while the lock is free.
LEMMA NobodyInside ==
    ASSUME RTInv, lock = NoProc, NEW p \in Procs
    PROVE  pc[p] \notin Holding
  BY Zenon, RTNames DEF RTInv, ProcInv

LEMMA AckPersistStep ==
    ASSUME RTInv, NEW p \in Procs, NEW t \in Txs, NEW a \in Acks, AckPersist(p, t, a)
    PROVE  RTInv'
  <1>1. TypeOK /\ TxInv(t) /\ lock = NoProc /\ t \in Journals /\ phase[t] # "none"
    BY Zenon DEF RTInv, AckPersist, Briefly, Acknowledgeable, Journals
  <1>2. TypeOK'
    BY Zenon, <1>1 DEF AckPersist, Briefly, TypeOK, procVars, countVars
  <1>3. /\ lock' = NoProc /\ UNCHANGED <<phase, plan, procVars, done>>
        /\ acked'[t] = acked[t] \cup {a} /\ asked'[t] = asked[t] \cup {a}
        /\ \A u \in Txs \ {t} : SparesTx(u)
    BY Zenon, <1>1 DEF AckPersist, Briefly, TypeOK, SparesTx
  <1>4. TxInv(t)'
    BY Zenon, <1>1, <1>3, TxGoesOn DEF TxInv
  <1>5. ProcInv(p)'
    <2>1. pc[p] \notin Holding /\ ~recovering[p]
      BY Zenon, <1>1, NobodyInside, Whereabouts DEF Holding
    <2>2. pc[p] \in {"closed", "open"}
      BY Zenon, <1>1, <2>1 DEF TypeOK, Places
    <2> QED BY Zenon, <1>3, <2>1, <2>2, ProcIdle, RTNames DEF procVars
  <1> QED BY Zenon, <1>1, <1>2, <1>3, <1>4, <1>5, Frame DEF procVars

LEMMA AckRemoveStep ==
    ASSUME RTInv, NEW p \in Procs, NEW t \in Txs, NEW a \in Acks, AckRemove(p, t, a)
    PROVE  RTInv'
  <1>1. /\ TypeOK /\ TxInv(t) /\ pc[p] = "open" /\ lock = NoProc
        /\ t \in Journals /\ phase[t] # "none" /\ Removable(t, acked[t] \cup {a})
    BY Zenon DEF RTInv, AckRemove, TakeLock, Acknowledgeable, Journals
  <1>2. TypeOK'
    BY Zenon, <1>1 DEF AckRemove, TakeLock, GoTo, TypeOK, journalVars, countVars, Places, Holding
  <1>3. /\ lock' = p /\ pc'[p] = "removing" /\ tx'[p] = t /\ UNCHANGED <<journalVars, done>>
        /\ asked'[t] = asked[t] \cup {a} /\ recovering' = recovering
        /\ \A q \in Procs \ {p} : pc'[q] = pc[q]
        /\ \A u \in Txs \ {t} : SparesTx(u)
    BY Zenon, <1>1 DEF AckRemove, TakeLock, GoTo, TypeOK, SparesTx, journalVars
  <1>4. TxInv(t)'
    BY Zenon, <1>1, <1>3, TxGoesOn DEF TxInv, journalVars
  <1>5. Released(t)'
    <2>1. acked[t] \cup {a} \subseteq asked'[t] /\ asked'[t] \subseteq Acks
      BY Zenon, <1>1, <1>2, <1>3 DEF TxInv, TypeOK
    <2> QED BY Zenon, <1>1, <1>3, <2>1 DEF Released, Removable, Terminal, journalVars
  <1>6. ProcInv(p)'
    BY Zenon, <1>1, <1>3, <1>5, Whereabouts, ProcAt
  <1> QED BY Zenon, <1>1, <1>2, <1>3, <1>4, <1>6, BeginStep DEF journalVars

LEMMA AckVerifiedStep ==
    ASSUME RTInv, NEW p \in Procs, NEW t \in Txs, AckVerified(p, t)
    PROVE  RTInv'
  <1>1. /\ TypeOK /\ TxInv(t) /\ pc[p] = "open" /\ lock = NoProc /\ t \in Journals
        /\ phase[t] = "committed" /\ "event" \in acked[t]
    BY Zenon DEF RTInv, AckVerified, TakeLock, MayFind
  <1>2. TypeOK'
    <2>1. /\ acked' \in [Txs -> SUBSET Acks] /\ asked' \in [Txs -> SUBSET Acks]
      BY Zenon, <1>1 DEF AckVerified, TypeOK, Acks
    <2> QED BY Zenon, <1>1, <2>1 DEF AckVerified, TakeLock, GoTo, TypeOK, countVars, Places, Holding
  <1>3. /\ lock' = p /\ pc'[p] = "removing" /\ tx'[p] = t /\ UNCHANGED <<phase, plan, done>>
        /\ acked'[t] = acked[t] \cup {"resolution"} /\ asked'[t] = asked[t] \cup {"resolution"}
        /\ recovering' = recovering /\ \A q \in Procs \ {p} : pc'[q] = pc[q]
        /\ \A u \in Txs \ {t} : SparesTx(u)
    BY Zenon, <1>1 DEF AckVerified, TakeLock, GoTo, TypeOK, SparesTx
  <1>4. TxInv(t)'
    BY Zenon, <1>1, <1>3, TxGoesOn DEF TxInv
  <1>5. Released(t)'
    <2>1. "event" \in asked'[t] /\ "resolution" \in asked'[t] /\ asked'[t] \subseteq Acks
      BY Zenon, <1>1, <1>2, <1>3 DEF TxInv, TypeOK
    <2> QED BY SMTT(60), <1>1, <1>3, <2>1 DEF Released, Terminal, Acks
  <1>6. ProcInv(p)'
    BY Zenon, <1>1, <1>3, <1>5, Whereabouts, ProcAt
  <1> QED BY Zenon, <1>1, <1>2, <1>3, <1>4, <1>6, BeginStep

LEMMA RemoveStep ==
    ASSUME RTInv, NEW p \in Procs, Remove(p)
    PROVE  RTInv'
  <1>1. TypeOK /\ ProcInv(p) /\ pc[p] = "removing"
    BY Zenon DEF RTInv, Remove
  <1>2. PICK t \in Txs : t = tx[p]
    BY Zenon, <1>1, Whereabouts DEF Holding
  <1>3. lock = p /\ ~recovering[p] /\ TxInv(t) /\ phase[t] # "none"
    BY Zenon, <1>1, <1>2, Whereabouts DEF Holding, RTInv, ProcInv, Released, Terminal
  <1>4. TypeOK'
    <2>1. phase' \in [Txs -> Phases] /\ payload' \in [Txs -> BOOLEAN]
      BY Zenon, <1>1 DEF Remove, TypeOK, Phases
    <2> QED BY Zenon, <1>1, <2>1 DEF Remove, Return, GoTo, TypeOK, ghostVars, countVars, Places
  <1>5. /\ lock' = NoProc /\ pc'[p] = "open" /\ phase'[t] = "none"
        /\ plan' = plan /\ done'[t] = done[t] /\ acked'[t] = acked[t] /\ asked'[t] = asked[t]
        /\ recovering' = recovering /\ \A q \in Procs \ {p} : pc'[q] = pc[q]
        /\ \A u \in Txs \ {t} : SparesTx(u)
    BY Zenon, <1>1, <1>2 DEF Remove, Return, GoTo, TypeOK, SparesTx, ghostVars
  <1>6. TxInv(t)' /\ t \notin Journals'
    BY Zenon, <1>3, <1>5, TxGoesOn DEF TxInv, Journals
  <1> QED BY Zenon, <1>3, <1>4, <1>5, <1>6, EndStep

-----------------------------------------------------------------------------
(* Opening the collection.                                                 *)

LEMMA ReopenStep ==
    ASSUME RTInv, NEW p \in Procs, Reopen(p)
    PROVE  RTInv'
  <1>1. TypeOK /\ pc[p] = "closed" /\ lock = NoProc
    BY Zenon DEF RTInv, Reopen, TakeLock
  <1>2. TypeOK'
    BY Zenon, <1>1 DEF Reopen, TakeLock, GoTo, TypeOK, journalVars, countVars, Places, Holding
  <1>3. /\ lock' = p /\ pc'[p] = "scanning" /\ recovering' = recovering
        /\ UNCHANGED <<journalVars, done, asked>> /\ \A q \in Procs \ {p} : pc'[q] = pc[q]
    BY Zenon, <1>1 DEF Reopen, TakeLock, GoTo, TypeOK
  <1>4. ProcInv(p)'
    BY Zenon, <1>1, <1>3, Whereabouts, ProcScanning
  <1> QED BY Zenon, <1>1, <1>2, <1>3, <1>4, QuietFrame DEF journalVars

LEMMA RecoverOneStep ==
    ASSUME RTInv, NEW p \in Procs, NEW t \in Txs, RecoverOne(p, t)
    PROVE  RTInv'
  <1>1. TypeOK /\ ProcInv(p) /\ pc[p] = "scanning"
    BY Zenon DEF RTInv, RecoverOne
  <1>2. lock = p /\ ~recovering[p] /\ lock' = lock /\ UNCHANGED <<journalVars, ghostVars, disk, linked, countVars>>
    BY Zenon, <1>1, Whereabouts DEF Holding, RecoverOne
  <1>3. scan' \in [Procs -> SUBSET Txs]
    BY Zenon, <1>1 DEF RecoverOne, TypeOK
  <1>4. CASE phase[t] = "committing"
    <2>1. Entries(t) = Changed(plan[t])
      BY Zenon, <1>4 DEF Entries
    <2>2. /\ GoTo(p, "settling", t) /\ todo' = [todo EXCEPT ![p] = Entries(t)]
          /\ recovering' = [recovering EXCEPT ![p] = TRUE]
      BY Zenon, <1>4 DEF RecoverOne
    <2>3. /\ pc'[p] = "settling" /\ tx'[p] = t /\ todo'[p] = Changed(plan[t])
          /\ \A q \in Procs \ {p} : pc'[q] = pc[q] /\ recovering'[q] = recovering[q]
      BY Zenon, <1>1, <2>1, <2>2 DEF GoTo, TypeOK
    <2>4. /\ pc' \in [Procs -> Places] /\ tx' \in [Procs -> Txs \cup {NoTx}]
          /\ todo' \in [Procs -> SUBSET Files] /\ recovering' \in [Procs -> BOOLEAN]
      BY SMTT(60), <1>1, <2>1, <2>2, ChangedIsFiles DEF GoTo, TypeOK, Places, Holding
    <2>5. TypeOK'
      BY Zenon, <1>1, <1>2, <1>3, <2>4 DEF TypeOK, journalVars, ghostVars, countVars
    <2>6. ProcInv(p)'
      BY Zenon, <1>2, <1>4, <2>3, ProcSettling DEF journalVars
    <2> QED BY Zenon, <1>2, <2>3, <2>5, <2>6, QuietFrame DEF journalVars, ghostVars
  <1>5. CASE phase[t] # "committing"
    <2>1. UNCHANGED <<pc, tx, todo, recovering>>
      BY Zenon, <1>5 DEF RecoverOne
    <2>2. TypeOK'
      BY Zenon, <1>1, <1>2, <1>3, <2>1 DEF TypeOK, journalVars, ghostVars, countVars
    <2>3. ProcInv(p)'
      BY Zenon, <1>1, <1>2, <2>1, ProcScanning
    <2> QED BY Zenon, <1>2, <2>1, <2>2, <2>3, QuietFrame DEF journalVars, ghostVars
  <1> QED BY Zenon, <1>4, <1>5

\* What Close does to its process.
LEMMA CloseEnds ==
    ASSUME TypeOK, NEW p \in Procs, lock \in {p, NoProc}, Close(p)
    PROVE  /\ lock' = NoProc /\ pc'[p] = "closed" /\ ~recovering'[p]
           /\ \A q \in Procs \ {p} : pc'[q] = pc[q] /\ recovering'[q] = recovering[q]
           /\ pc' \in [Procs -> Places] /\ tx' \in [Procs -> Txs \cup {NoTx}]
           /\ todo' \in [Procs -> SUBSET Files] /\ scan' \in [Procs -> SUBSET Txs]
           /\ recovering' \in [Procs -> BOOLEAN]
  <1>1. lock' = NoProc
    BY Zenon DEF Close
  <1>2. /\ pc'[p] = "closed" /\ ~recovering'[p]
        /\ \A q \in Procs \ {p} : pc'[q] = pc[q] /\ recovering'[q] = recovering[q]
    BY Zenon DEF Close, GoTo, TypeOK
  <1>3. /\ pc' \in [Procs -> Places] /\ tx' \in [Procs -> Txs \cup {NoTx}]
        /\ todo' \in [Procs -> SUBSET Files] /\ scan' \in [Procs -> SUBSET Txs]
        /\ recovering' \in [Procs -> BOOLEAN]
    BY Zenon DEF Close, GoTo, TypeOK, Places
  <1> QED BY Zenon, <1>1, <1>2, <1>3

LEMMA RecoverFailsStep ==
    ASSUME RTInv, NEW p \in Procs, NEW t \in Txs, RecoverFails(p, t)
    PROVE  RTInv'
  <1>1. TypeOK /\ pc[p] = "scanning" /\ Close(p) /\ UNCHANGED <<disk, linked, journalVars, ghostVars, countVars>>
    BY Zenon DEF RTInv, RecoverFails
  <1>2. lock = p
    BY Zenon, <1>1, Whereabouts DEF Holding
  <1>3. /\ lock' = NoProc /\ pc'[p] = "closed" /\ ~recovering'[p]
        /\ \A q \in Procs \ {p} : pc'[q] = pc[q] /\ recovering'[q] = recovering[q]
    BY Zenon, <1>1, <1>2, CloseEnds
  <1>4. /\ pc' \in [Procs -> Places] /\ tx' \in [Procs -> Txs \cup {NoTx}]
        /\ todo' \in [Procs -> SUBSET Files] /\ scan' \in [Procs -> SUBSET Txs]
        /\ recovering' \in [Procs -> BOOLEAN]
    BY Zenon, <1>1, <1>2, CloseEnds
  <1>5. TypeOK'
    BY Zenon, <1>1, <1>3, <1>4 DEF TypeOK, journalVars, ghostVars, countVars
  <1>6. ProcInv(p)'
    BY Zenon, <1>3, ProcIdle, RTNames
  <1> QED BY Zenon, <1>1, <1>2, <1>3, <1>5, <1>6, QuietFrame DEF journalVars, ghostVars

LEMMA FinishRecoveryStep ==
    ASSUME RTInv, NEW p \in Procs, FinishRecovery(p)
    PROVE  RTInv'
  <1>1. /\ TypeOK /\ pc[p] = "scanning" /\ Return(p)
        /\ UNCHANGED <<disk, linked, journalVars, scan, recovering, ghostVars, countVars>>
    BY Zenon DEF RTInv, FinishRecovery
  <1>2. lock = p /\ ~recovering[p]
    BY Zenon, <1>1, Whereabouts DEF Holding
  <1>3. lock' = NoProc /\ pc'[p] = "open" /\ \A q \in Procs \ {p} : pc'[q] = pc[q]
    BY Zenon, <1>1 DEF Return, GoTo, TypeOK
  <1>4. /\ pc' \in [Procs -> Places] /\ tx' \in [Procs -> Txs \cup {NoTx}]
        /\ todo' \in [Procs -> SUBSET Files]
    BY Zenon, <1>1 DEF Return, GoTo, TypeOK, Places
  <1>5. TypeOK'
    BY Zenon, <1>1, <1>3, <1>4 DEF TypeOK, journalVars, ghostVars, countVars
  <1>6. ProcInv(p)'
    BY Zenon, <1>1, <1>2, <1>3, ProcIdle, RTNames
  <1> QED BY Zenon, <1>1, <1>2, <1>3, <1>5, <1>6, QuietFrame DEF journalVars, ghostVars

-----------------------------------------------------------------------------
(* Disturbances.                                                           *)

LEMMA ProcSame ==
    ASSUME NEW q \in Procs, ProcInv(q), lock' = q <=> lock = q,
           pc'[q] = pc[q], tx'[q] = tx[q], todo'[q] = todo[q], recovering'[q] = recovering[q],
           UNCHANGED <<phase, plan, done, asked>>,
           pc[q] \in Holding =>
              /\ raced \subseteq raced'
              /\ \A f : disk'[f] = disk[f] \/ f \in raced'
    PROVE  ProcInv(q)'
  <1>1. /\ Changed(plan[tx[q]])' = Changed(plan[tx[q]]) /\ First(todo[q])' = First(todo[q])
        /\ Released(tx[q])' = Released(tx[q]) /\ Journals' = Journals
    BY Zenon DEF Changed, First, Released, Journals
  <1>2. pc[q] = "checked" => pc[q] \in Holding
    BY Zenon DEF Holding
  <1> QED BY Zenon, <1>1, <1>2 DEF ProcInv

\* A crash outside of an operation.
LEMMA IdleCrashStep ==
    ASSUME RTInv, NEW p \in Procs, Crash(p), pc[p] \notin Holding
    PROVE  RTInv'
  <1>1. /\ TypeOK /\ Close(p) /\ crashes' = crashes + 1 /\ crashes < MaxCrashes
        /\ UNCHANGED <<disk, linked, plan, acked, ghostVars, faults, edits>>
    BY Zenon DEF RTInv, Crash
  <1>2. UNCHANGED <<phase, payload>>
    BY Zenon DEF Crash, Holding
  <1>3. lock # p /\ ~recovering[p]
    BY Zenon, Whereabouts DEF Holding
  <1>4. lock' = lock
    BY Zenon, <1>1, <1>3 DEF Close
  <1>5. /\ pc'[p] = "closed" /\ ~recovering'[p]
        /\ \A q \in Procs \ {p} : /\ pc'[q] = pc[q] /\ tx'[q] = tx[q] /\ todo'[q] = todo[q]
                                  /\ recovering'[q] = recovering[q]
    BY Zenon, <1>1 DEF Close, GoTo, TypeOK
  <1>6. /\ pc' \in [Procs -> Places] /\ tx' \in [Procs -> Txs \cup {NoTx}]
        /\ todo' \in [Procs -> SUBSET Files] /\ scan' \in [Procs -> SUBSET Txs]
        /\ recovering' \in [Procs -> BOOLEAN] /\ crashes' \in 0..MaxCrashes
    BY SMTT(60), <1>1, RTLimits DEF Close, GoTo, TypeOK, Places
  <1>7. TypeOK'
    BY Zenon, <1>1, <1>2, <1>4, <1>6 DEF TypeOK, ghostVars
  <1>8. ASSUME NEW q \in Procs PROVE ProcInv(q)'
    <2>1. CASE q = p
      BY Zenon, <1>3, <1>4, <1>5, <2>1, ProcIdle
    <2>2. CASE q # p
      BY Zenon, <1>1, <1>2, <1>4, <1>5, <2>2, ProcSame DEF RTInv, ghostVars
    <2> QED BY Zenon, <2>1, <2>2
  <1>9. \A u \in Txs : TxInv(u)'
    BY Zenon, <1>1, <1>2, TxSame DEF RTInv, SparesTx, ghostVars
  <1>10. CommittingAreDisjoint' /\ ClaimsAreUnique'
    BY SMTT(60), <1>1, <1>2 DEF RTInv, CommittingAreDisjoint, ClaimsAreUnique, Journals, Changed
  <1> QED BY Zenon, <1>7, <1>8, <1>9, <1>10 DEF RTInv

\* A crash inside of an operation; one that removes a directory may be half-way.
LEMMA BusyCrashStep ==
    ASSUME RTInv, NEW p \in Procs, Crash(p), pc[p] \in Holding
    PROVE  RTInv'
  <1>1. /\ TypeOK /\ ProcInv(p) /\ Close(p) /\ crashes' = crashes + 1 /\ crashes < MaxCrashes
        /\ UNCHANGED <<disk, linked, plan, acked, ghostVars, faults, edits>>
    BY Zenon DEF RTInv, Crash
  <1>2. lock = p
    BY Zenon, Whereabouts
  <1>3. /\ lock' = NoProc /\ pc'[p] = "closed" /\ ~recovering'[p]
        /\ \A q \in Procs \ {p} : pc'[q] = pc[q] /\ recovering'[q] = recovering[q]
    BY Zenon, <1>1, <1>2, CloseEnds
  <1>4. /\ pc' \in [Procs -> Places] /\ tx' \in [Procs -> Txs \cup {NoTx}]
        /\ todo' \in [Procs -> SUBSET Files] /\ scan' \in [Procs -> SUBSET Txs]
        /\ recovering' \in [Procs -> BOOLEAN]
    BY Zenon, <1>1, <1>2, CloseEnds
  <1>5. crashes' \in 0..MaxCrashes
    BY SMTT(60), <1>1, RTLimits DEF TypeOK
  <1>6. CASE UNCHANGED <<phase, payload>>
    <2>1. TypeOK'
      BY Zenon, <1>1, <1>3, <1>4, <1>5, <1>6 DEF TypeOK, ghostVars
    <2>2. ProcInv(p)'
      BY Zenon, <1>3, ProcIdle, RTNames
    <2> QED BY Zenon, <1>1, <1>2, <1>3, <1>6, <2>1, <2>2, QuietFrame DEF ghostVars
  <1>7. CASE pc[p] = "removing" /\ HalfRemoved(tx[p])
    <2>1. PICK t \in Txs : t = tx[p]
      BY Zenon, <1>7, Whereabouts DEF Holding
    <2>2. TxInv(t) /\ phase[t] \in Terminal
      BY Zenon, <1>1, <1>7, <2>1 DEF RTInv, ProcInv, Released
    <2>3. PICK g \in {phase[t], "bare", "none"} :
             phase' = [phase EXCEPT ![t] = g] /\ payload' = [payload EXCEPT ![t] = FALSE]
      BY Zenon, <1>7, <2>1 DEF HalfRemoved
    <2>4. /\ phase'[t] = g /\ plan' = plan /\ done'[t] = done[t]
          /\ acked'[t] = acked[t] /\ asked'[t] = asked[t] /\ \A u \in Txs \ {t} : SparesTx(u)
      BY Zenon, <1>1, <2>3 DEF TypeOK, SparesTx, ghostVars
    <2>5. TxInv(t)'
      BY Zenon, <2>2, <2>4, TxGoesOn DEF TxInv, Terminal
    <2>6. phase' \in [Txs -> Phases] /\ payload' \in [Txs -> BOOLEAN]
      BY Zenon, <1>1, <2>2, <2>3 DEF TypeOK, Phases
    <2>7. TypeOK'
      BY Zenon, <1>1, <1>3, <1>4, <1>5, <2>6 DEF TypeOK, ghostVars
    <2>8. t \in Journals /\ phase'[t] # "committing"
      BY Zenon, <2>2, <2>4 DEF Journals, Terminal
    <2> QED BY Zenon, <1>2, <1>3, <2>4, <2>5, <2>7, <2>8, EndStep
  <1> QED BY Zenon, <1>6, <1>7 DEF Crash

LEMMA EditStep ==
    ASSUME RTInv, NEW f \in Files, Edit(f)
    PROVE  RTInv'
  <1>1. /\ TypeOK /\ edits' = edits + 1 /\ edits < MaxEdits
        /\ UNCHANGED <<journalVars, lock, procVars, done, asked, crashes, faults>>
    BY Zenon DEF RTInv, Edit
  <1>2. PICK c \in FileStates : disk' = [disk EXCEPT ![f] = c]
    BY Zenon DEF Edit
  <1>3. raced' = IF lock = NoProc THEN raced ELSE raced \cup {f}
    BY Zenon DEF Edit
  <1>4. TypeOK'
    <2>1. disk' \in [Files -> FileStates] /\ raced' \subseteq Files
      BY Zenon, <1>1, <1>2, <1>3 DEF TypeOK
    <2>2. edits' \in 0..MaxEdits
      BY SMTT(60), <1>1, RTLimits DEF TypeOK
    <2>3. linked' \subseteq Files
      BY Zenon, <1>1 DEF TypeOK, Edit
    <2> QED BY Zenon, <1>1, <2>1, <2>2, <2>3 DEF TypeOK, journalVars, procVars
  <1>5. ASSUME NEW q \in Procs PROVE ProcInv(q)'
    <2>1. ProcInv(q)
      BY Zenon DEF RTInv
    <2>2. pc[q] \in Holding => raced' = raced \cup {f}
      BY Zenon, <1>3, <2>1, RTNames DEF ProcInv
    <2>3. pc[q] \in Holding => raced \subseteq raced' /\ \A g : disk'[g] = disk[g] \/ g \in raced'
      BY SMTT(60), <1>1, <1>2, <2>2 DEF TypeOK
    <2> QED BY Zenon, <1>1, <2>1, <2>3, ProcSame DEF journalVars, procVars
  <1>6. \A u \in Txs : TxInv(u)'
    BY Zenon, <1>1, TxSame DEF RTInv, SparesTx, journalVars
  <1>7. CommittingAreDisjoint' /\ ClaimsAreUnique'
    BY SMTT(60), <1>1
       DEF RTInv, CommittingAreDisjoint, ClaimsAreUnique, Journals, Changed, journalVars
  <1> QED BY Zenon, <1>4, <1>5, <1>6, <1>7 DEF RTInv

LEMMA ShadowCommitStep ==
    ASSUME RTInv, NEW p \in Procs, ShadowCommit(p)
    PROVE  RTInv'
  <1>1. /\ TypeOK /\ pc[p] = "open" /\ lock = NoProc /\ UNCHANGED <<lock, raced>>
        /\ UNCHANGED <<linked, journalVars, procVars, done, asked, countVars>>
    BY Zenon DEF RTInv, ShadowCommit, Briefly
  <1>2. disk' \in [Files -> FileStates]
    <2>1. PICK m \in Mutations : disk' = [f \in Files |-> IF m[f] = Keep THEN disk[f] ELSE m[f]]
      BY Zenon DEF ShadowCommit
    <2>2. m \in [Files -> FileStates \cup {Keep}]
      BY Zenon, RTMutations
    <2> QED BY Zenon, <1>1, <2>1, <2>2 DEF TypeOK
  <1>3. TypeOK'
    BY Zenon, <1>1, <1>2 DEF TypeOK, journalVars, procVars, countVars
  <1>4. ProcInv(p)'
    BY Zenon, <1>1, Whereabouts, ProcIdle, RTNames DEF procVars, Holding
  <1> QED BY Zenon, <1>1, <1>3, <1>4, QuietFrame DEF journalVars, procVars

LEMMA StutterStep ==
    ASSUME RTInv, UNCHANGED vars
    PROVE  RTInv'
  <1>1. UNCHANGED <<disk, linked, journalVars, lock, procVars, ghostVars, countVars>>
    BY Zenon DEF vars
  <1>2. TypeOK'
    BY Zenon, <1>1 DEF RTInv, TypeOK, journalVars, procVars, ghostVars, countVars
  <1>3. \A q \in Procs : ProcInv(q)'
    BY Zenon, <1>1, ProcSame DEF RTInv, journalVars, procVars, ghostVars
  <1>4. \A u \in Txs : TxInv(u)'
    BY Zenon, <1>1, TxSame DEF RTInv, SparesTx, journalVars, ghostVars
  <1>5. CommittingAreDisjoint' /\ ClaimsAreUnique'
    BY SMTT(60), <1>1
       DEF RTInv, CommittingAreDisjoint, ClaimsAreUnique, Journals, Changed, journalVars
  <1> QED BY Zenon, <1>2, <1>3, <1>4, <1>5 DEF RTInv

-----------------------------------------------------------------------------
(* The invariant.                                                          *)

LEMMA RTStep == RTInv /\ [Next]_vars => RTInv'
  <1> SUFFICES ASSUME RTInv, [Next]_vars PROVE RTInv'
    BY Zenon
  <1>1. ASSUME NEW p \in Procs, Progress(p) PROVE RTInv'
    BY ZenonT(60), <1>1, PrepareJournalStep, PersistFinalStep, StartSettlementStep, SettleInPlaceStep,
       SettleCheckStep, SettleApplyStep, UnlinkStep, SettleDoneStep, SettleManualStep, RemoveStep,
       ReopenStep, FinishRecoveryStep, RecoverOneStep, RecoverFailsStep DEF Progress
  <1>2. ASSUME NEW p \in Procs, Call(p) PROVE RTInv'
    BY Zenon, <1>2, PrepareStageStep, CommitPointStep, CommitAgainStep, RefusalStep,
       AckVerifiedStep, AckPersistStep, AckRemoveStep DEF Call
  <1>3. ASSUME NEW p \in Procs, Disturbance(p) PROVE RTInv'
    BY Zenon, <1>3, PrepareAbandonedStep, DropTokenStep, IdleCrashStep, BusyCrashStep,
       SettleFaultStep, PersistFaultStep DEF Disturbance
  <1>4. ASSUME NEW p \in Procs, ShadowCommit(p) PROVE RTInv'
    BY Zenon, <1>4, ShadowCommitStep
  <1>5. ASSUME NEW f \in Files, Edit(f) PROVE RTInv'
    BY Zenon, <1>5, EditStep
  <1> QED BY Zenon, <1>1, <1>2, <1>3, <1>4, <1>5, StutterStep DEF Next

\* The inductive invariant of runtime transactions: lock, operation, journal,
\* files and acknowledgements agree at every step of every process.
THEOREM RTInvariance == Spec => []RTInv
  BY RTInitially, RTStep, PTL DEF Spec

\* Every variable keeps its type.
THEOREM RTTypeCorrect == Spec => []TypeOK
  BY RTInvariance, PTL DEF RTInv

\* A claim never has two journals: prepare_runtime_transaction looks the claim
\* up and journals it under one lock.
THEOREM ClaimsStayUnique == Spec => []ClaimsAreUnique
  BY RTInvariance, PTL DEF RTInv

\* A rejected or cancelled mutation wrote nothing, a committed one everything.
THEOREM OutcomesMatchFiles == Spec => []OutcomeMatchesFiles
  <1>1. RTInv => OutcomeMatchesFiles
    BY Zenon DEF RTInv, TxInv, OutcomeMatchesFiles, Entries
  <1> QED BY <1>1, RTInvariance, PTL

-----------------------------------------------------------------------------
(* The kinds of steps, by what they do to the journals and the files.      *)

\* A step that neither moves a journal nor writes a file.
Quiet == UNCHANGED <<disk, phase, plan, done>>

\* A directory is made for a new transaction.
Begins(t) ==
    /\ plan[t] = NoPlan
    /\ phase' = [phase EXCEPT ![t] = "bare"]
    /\ \E r \in Plans : plan' = [plan EXCEPT ![t] = r]
    /\ UNCHANGED <<disk, done>>

Moves(t, g) ==
    /\ phase' = [phase EXCEPT ![t] = g]
    /\ UNCHANGED plan

\* The life cycle of a journal, and what a step of it takes.
Lifecycle(t, g) ==
    \/ phase[t] = "bare" /\ g = "none"
    \/ /\ phase[t] = "bare" /\ g = "prepared" /\ payload'[t] /\ done[t] = {}
       /\ \A u \in Journals : plan[u].claim # plan[t].claim
    \/ phase[t] = "prepared" /\ g \in {"rejected", "cancelled"}
    \/ phase[t] = "prepared" /\ g = "committing" /\ Readable(t) /\ ~Conflict(t)
    \/ phase[t] = "committing" /\ g = "committed" /\ done[t] = Changed(plan[t])
    \/ /\ phase[t] = "committing" /\ g = "manual"
       /\ faults' # faults \/ \E p \in Procs : tx[p] = t /\ Foreign(p)
    \/ Released(t) /\ g \in {"bare", "none"}

\* p publishes f for its transaction, or finds it published.
Publishes(p, f) ==
    /\ pc[p] = "checked" /\ f \in First(todo[p]) /\ Publishable(tx[p], f)
    /\ disk' = [disk EXCEPT ![f] = plan[tx[p]].after[f]]
    /\ done' = [done EXCEPT ![tx[p]] = @ \cup {f}]

Finds(p, f) ==
    /\ pc[p] = "settling" /\ f \in First(todo[p]) /\ disk[f] = plan[tx[p]].after[f]
    /\ disk' = disk
    /\ done' = [done EXCEPT ![tx[p]] = @ \cup {f}]

StepKind ==
    \/ Quiet
    \/ \E t \in Txs : Begins(t)
    \/ \E t \in Txs, g \in Phases : Moves(t, g) /\ Lifecycle(t, g) /\ UNCHANGED <<disk, done>>
    \/ \E p \in Procs : \E f \in Files :
          Publishes(p, f) /\ edits' = edits /\
            (UNCHANGED <<phase, plan>> \/ (faults' # faults /\ Moves(tx[p], "manual")))
    \/ \E p \in Procs : \E f \in Files : Finds(p, f) /\ UNCHANGED <<phase, plan>>
    \/ \E p \in Procs : ShadowCommit(p)
    \/ \E f \in Files : Edit(f)

LEMMA QuietSteps ==
    ASSUME RTInv, NEW p \in Procs,
           \/ StartSettlement(p) \/ SettleCheck(p) \/ Unlink(p) \/ Reopen(p) \/ FinishRecovery(p)
           \/ DropToken(p) \/ PersistFault(p)
           \/ \E t \in Txs : \/ RecoverOne(p, t) \/ RecoverFails(p, t) \/ CommitAgain(p, t)
                             \/ Reject(p, t) \/ Cancel(p, t) \/ AckVerified(p, t)
                             \/ \E a \in Acks : AckPersist(p, t, a) \/ AckRemove(p, t, a)
    PROVE  Quiet
  <1>1. CASE \/ StartSettlement(p) \/ SettleCheck(p) \/ Unlink(p) \/ Reopen(p) \/ FinishRecovery(p)
             \/ DropToken(p) \/ PersistFault(p)
    BY Zenon, <1>1
       DEF StartSettlement, SettleCheck, Unlink, Reopen, FinishRecovery, DropToken, PersistFault,
       journalVars, ghostVars, Quiet
  <1>2. CASE \E t \in Txs : \/ RecoverOne(p, t) \/ RecoverFails(p, t) \/ CommitAgain(p, t)
                            \/ Reject(p, t) \/ Cancel(p, t)
    BY Zenon, <1>2
       DEF RecoverOne, RecoverFails, CommitAgain, Reject, Cancel, journalVars, ghostVars, Quiet
  <1>3. CASE \E t \in Txs : \/ AckVerified(p, t)
                            \/ \E a \in Acks : AckPersist(p, t, a) \/ AckRemove(p, t, a)
    BY Zenon, <1>3 DEF AckVerified, AckPersist, AckRemove, journalVars, Quiet
  <1> QED BY Zenon, <1>1, <1>2, <1>3

\* The transaction that p works on.
LEMMA Working ==
    ASSUME RTInv, NEW p \in Procs
    PROVE  /\ pc[p] = "staging" =>
                /\ tx[p] \in Txs /\ phase[tx[p]] = "bare" /\ done[tx[p]] = {}
                /\ \A u \in Journals : plan[u].claim # plan[tx[p]].claim
           /\ pc[p] \in {"rejecting", "cancelling"} => tx[p] \in Txs /\ phase[tx[p]] = "prepared"
           /\ pc[p] \in {"settling", "checked"} =>
                /\ tx[p] \in Txs /\ phase[tx[p]] = "committing"
                /\ todo[p] \subseteq Changed(plan[tx[p]])
                /\ Changed(plan[tx[p]]) \ todo[p] \subseteq done[tx[p]]
                /\ done[tx[p]] \subseteq Changed(plan[tx[p]])
           /\ pc[p] = "removing" => tx[p] \in Txs /\ Released(tx[p])
  <1>1. ProcInv(p) /\ \A t \in Txs : TxInv(t)
    BY Zenon DEF RTInv
  <1>2. pc[p] \in {"staging", "rejecting", "cancelling", "settling", "checked", "removing"} => tx[p] \in Txs
    BY Zenon, <1>1 DEF ProcInv, Holding
  <1> QED BY Zenon, <1>1, <1>2 DEF ProcInv, TxInv

LEMMA MovingSteps ==
    ASSUME RTInv, NEW p \in Procs
    PROVE  /\ PrepareJournal(p) => Moves(tx[p], "prepared") /\ Lifecycle(tx[p], "prepared")
           /\ PrepareAbandoned(p) => Moves(tx[p], "none") /\ Lifecycle(tx[p], "none")
           /\ PersistFinal(p) => \E g \in {"rejected", "cancelled"} : Moves(tx[p], g) /\ Lifecycle(tx[p], g)
           /\ SettleDone(p) => Moves(tx[p], "committed") /\ Lifecycle(tx[p], "committed")
           /\ SettleManual(p) => Moves(tx[p], "manual") /\ Lifecycle(tx[p], "manual")
           /\ Remove(p) => Moves(tx[p], "none") /\ Lifecycle(tx[p], "none")
           /\ \A t \in Txs : CommitPoint(p, t) => Moves(t, "committing") /\ Lifecycle(t, "committing")
  <1>1. ASSUME PrepareJournal(p) PROVE Moves(tx[p], "prepared") /\ Lifecycle(tx[p], "prepared")
    <2>1. pc[p] = "staging" /\ Moves(tx[p], "prepared") /\ payload' = [payload EXCEPT ![tx[p]] = TRUE]
      BY Zenon, <1>1 DEF PrepareJournal, Moves
    <2>2. payload'[tx[p]]
      BY Zenon, <2>1, Working DEF RTInv, TypeOK
    <2> QED BY Zenon, <2>1, <2>2, Working DEF Lifecycle
  <1>2. ASSUME PrepareAbandoned(p) PROVE Moves(tx[p], "none") /\ Lifecycle(tx[p], "none")
    BY Zenon, <1>2, Working DEF PrepareAbandoned, Moves, Lifecycle
  <1>3. ASSUME PersistFinal(p)
        PROVE  \E g \in {"rejected", "cancelled"} : Moves(tx[p], g) /\ Lifecycle(tx[p], g)
    <2>1. pc[p] \in {"rejecting", "cancelling"} /\ Moves(tx[p], FinalPhase[pc[p]])
      BY Zenon, <1>3 DEF PersistFinal, FinalPhase, Moves
    <2>2. FinalPhase[pc[p]] \in {"rejected", "cancelled"}
      BY SMTT(60), <2>1 DEF FinalPhase
    <2> QED BY Zenon, <2>1, <2>2, Working DEF Lifecycle
  <1>4. ASSUME SettleDone(p) PROVE Moves(tx[p], "committed") /\ Lifecycle(tx[p], "committed")
    <2>1. pc[p] = "settling" /\ todo[p] = {} /\ Moves(tx[p], "committed")
      BY Zenon, <1>4 DEF SettleDone, Moves
    <2>2. done[tx[p]] = Changed(plan[tx[p]]) /\ phase[tx[p]] = "committing"
      BY Zenon, <2>1, Working
    <2> QED BY Zenon, <2>1, <2>2 DEF Lifecycle
  <1>5. ASSUME SettleManual(p) PROVE Moves(tx[p], "manual") /\ Lifecycle(tx[p], "manual")
    <2>1. pc[p] \in {"settling", "checked"} /\ Foreign(p) /\ Moves(tx[p], "manual")
      BY Zenon, <1>5 DEF SettleManual, Foreign, Moves
    <2> QED BY Zenon, <2>1, Working DEF Lifecycle
  <1>6. ASSUME Remove(p) PROVE Moves(tx[p], "none") /\ Lifecycle(tx[p], "none")
    BY Zenon, <1>6, Working DEF Remove, Moves, Lifecycle
  <1>7. ASSUME NEW t \in Txs, CommitPoint(p, t)
        PROVE  Moves(t, "committing") /\ Lifecycle(t, "committing")
    BY Zenon, <1>7 DEF CommitPoint, Moves, Lifecycle
  <1> QED BY Zenon, <1>1, <1>2, <1>3, <1>4, <1>5, <1>6, <1>7

\* The steps of an operation that write no file.
LEMMA KindOfMove ==
    ASSUME NEW t \in Txs, NEW g \in Phases, Moves(t, g), Lifecycle(t, g), UNCHANGED <<disk, done>>
    PROVE  StepKind
  BY Zenon DEF StepKind

LEMMA KindOfCrash ==
    ASSUME RTInv, NEW p \in Procs, Crash(p)
    PROVE  StepKind
  <1>1. UNCHANGED <<disk, done>> /\ plan' = plan
    BY Zenon DEF Crash, ghostVars
  <1>2. CASE phase' = phase
    BY Zenon, <1>1, <1>2 DEF StepKind, Quiet
  <1>3. CASE phase' # phase
    <2>1. pc[p] = "removing" /\ HalfRemoved(tx[p])
      BY Zenon, <1>3 DEF Crash
    <2>2. tx[p] \in Txs /\ Released(tx[p])
      BY Zenon, <2>1, Working
    <2>3. PICK g \in {phase[tx[p]], "bare", "none"} : phase' = [phase EXCEPT ![tx[p]] = g]
      BY Zenon, <2>1 DEF HalfRemoved
    <2>4. g \in {"bare", "none"}
      BY Zenon, <1>3, <2>3 DEF RTInv, TypeOK
    <2>5. g \in Phases /\ Moves(tx[p], g) /\ Lifecycle(tx[p], g)
      BY Zenon, <1>1, <2>2, <2>3, <2>4 DEF Phases, Moves, Lifecycle
    <2> QED BY Zenon, <1>1, <2>2, <2>5, KindOfMove
  <1> QED BY Zenon, <1>2, <1>3

LEMMA KindOfFault ==
    ASSUME RTInv, NEW p \in Procs, SettleFault(p)
    PROVE  StepKind
  <1>1. /\ pc[p] \in {"settling", "checked"} /\ plan' = plan /\ edits' = edits /\ faults' # faults
        /\ tx[p] \in Txs /\ phase[tx[p]] = "committing"
    BY SMTT(60), Working DEF SettleFault, RTInv, TypeOK
  <1>2. PICK g \in {"manual", "committing"} : phase' = [phase EXCEPT ![tx[p]] = g]
    BY Zenon DEF SettleFault
  <1>3. g = "committing" => phase' = phase
    BY Zenon, <1>1, <1>2 DEF RTInv, TypeOK
  <1>4. g = "manual" => Moves(tx[p], "manual") /\ Lifecycle(tx[p], "manual")
    BY Zenon, <1>1, <1>2 DEF Moves, Lifecycle
  <1>5. CASE UNCHANGED <<disk, done>>
    <2>1. CASE g = "committing"
      BY Zenon, <1>1, <1>3, <1>5, <2>1 DEF StepKind, Quiet
    <2>2. CASE g = "manual"
      BY Zenon, <1>1, <1>4, <1>5, <2>2, KindOfMove DEF Phases
    <2> QED BY Zenon, <2>1, <2>2
  <1>6. CASE \E f \in First(todo[p]) : Publishes(p, f)
    <2>1. PICK f \in Files : Publishes(p, f)
      BY Zenon, <1>6 DEF First, RTInv, TypeOK
    <2>2. UNCHANGED <<phase, plan>> \/ (faults' # faults /\ Moves(tx[p], "manual"))
      BY Zenon, <1>1, <1>2, <1>3, <1>4
    <2> QED BY Zenon, <1>1, <2>1, <2>2 DEF StepKind
  <1> QED BY ZenonT(60), <1>5, <1>6 DEF SettleFault, Publishes

LEMMA StepKinds ==
    ASSUME RTInv, Next
    PROVE  StepKind
  <1>1. ASSUME NEW p \in Procs, Progress(p) PROVE StepKind
    <2>1. CASE \/ StartSettlement(p) \/ SettleCheck(p) \/ Unlink(p) \/ Reopen(p) \/ FinishRecovery(p)
               \/ \E t \in Txs : RecoverOne(p, t) \/ RecoverFails(p, t)
      BY Zenon, <2>1, QuietSteps DEF StepKind
    <2>2. CASE PrepareJournal(p) \/ PersistFinal(p) \/ SettleDone(p) \/ SettleManual(p) \/ Remove(p)
      <3>1. tx[p] \in Txs
        BY Zenon, <2>2, Working
           DEF PrepareJournal, PersistFinal, SettleDone, SettleManual, Foreign, Remove, FinalPhase
      <3>2. UNCHANGED <<disk, done>>
        BY Zenon, <2>2 DEF PrepareJournal, PersistFinal, SettleDone, SettleManual, Remove, ghostVars
      <3>3. {"prepared", "none", "rejected", "cancelled", "committed", "manual"} \subseteq Phases
        BY Zenon DEF Phases, Open, Terminal
      <3>4. \E g \in Phases : Moves(tx[p], g) /\ Lifecycle(tx[p], g)
        BY Zenon, <2>2, <3>3, MovingSteps
      <3> QED BY Zenon, <3>1, <3>2, <3>4, KindOfMove
    <2>3. CASE SettleInPlace(p)
      <3>1. PICK f \in First(todo[p]) : Finds(p, f)
        BY Zenon, <2>3 DEF SettleInPlace, Finds
      <3>2. f \in Files /\ UNCHANGED <<phase, plan>>
        BY Zenon, <2>3 DEF SettleInPlace, journalVars, First, RTInv, TypeOK
      <3> QED BY Zenon, <3>1, <3>2 DEF StepKind
    <2>4. CASE SettleApply(p)
      <3>1. PICK f \in First(todo[p]) : Publishes(p, f)
        BY Zenon, <2>4 DEF SettleApply, Publishes
      <3>2. f \in Files /\ UNCHANGED <<phase, plan>> /\ edits' = edits
        BY Zenon, <2>4 DEF SettleApply, journalVars, countVars, First, RTInv, TypeOK
      <3> QED BY Zenon, <3>1, <3>2 DEF StepKind
    <2> QED BY Zenon, <1>1, <2>1, <2>2, <2>3, <2>4 DEF Progress
  <1>2. ASSUME NEW p \in Procs, Call(p) PROVE StepKind
    <2>1. CASE \E t \in Txs, c \in Claims, m \in Mutations : PrepareStage(p, t, c, m)
      <3>1. PICK t \in Txs, c \in Claims, m \in Mutations : PrepareStage(p, t, c, m)
        BY Zenon, <2>1
      <3>2. PlanOf(c, m) \in Plans
        BY Zenon, PlanOfIsAPlan DEF RTInv, TypeOK
      <3>3. Begins(t)
        BY Zenon, <3>1, <3>2 DEF PrepareStage, Begins
      <3> QED BY Zenon, <3>3 DEF StepKind
    <2>2. CASE \E t \in Txs : CommitPoint(p, t)
      <3>1. PICK t \in Txs : CommitPoint(p, t)
        BY Zenon, <2>2
      <3>2. UNCHANGED <<disk, done>> /\ "committing" \in Phases
        BY Zenon, <3>1 DEF CommitPoint, Phases, Open
      <3> QED BY Zenon, <3>1, <3>2, MovingSteps, KindOfMove
    <2>3. CASE \E t \in Txs : \/ CommitAgain(p, t) \/ Reject(p, t) \/ Cancel(p, t) \/ AckVerified(p, t)
                              \/ \E a \in Acks : AckPersist(p, t, a) \/ AckRemove(p, t, a)
      BY Zenon, <2>3, QuietSteps DEF StepKind
    <2> QED BY Zenon, <1>2, <2>1, <2>2, <2>3 DEF Call
  <1>3. ASSUME NEW p \in Procs, Disturbance(p) PROVE StepKind
    <2>1. CASE PrepareAbandoned(p)
      <3>1. tx[p] \in Txs /\ UNCHANGED <<disk, done>> /\ "none" \in Phases
        BY Zenon, <2>1, Working DEF PrepareAbandoned, ghostVars, Phases
      <3> QED BY Zenon, <2>1, <3>1, MovingSteps, KindOfMove
    <2>2. CASE DropToken(p) \/ PersistFault(p)
      BY Zenon, <2>2, QuietSteps DEF StepKind
    <2> QED BY Zenon, <1>3, <2>1, <2>2, KindOfCrash, KindOfFault DEF Disturbance
  <1>4. CASE (\E p \in Procs : ShadowCommit(p)) \/ (\E f \in Files : Edit(f))
    BY Zenon, <1>4 DEF StepKind
  <1> QED BY Zenon, <1>1, <1>2, <1>3, <1>4 DEF Next

-----------------------------------------------------------------------------
(* What a step may never do.                                               *)

\* The journals a step moves.
LEMMA JournalMoves ==
    ASSUME RTInv, Next, NEW t \in Txs, phase'[t] # phase[t]
    PROVE  \/ phase[t] = "none" /\ phase'[t] = "bare"
           \/ Lifecycle(t, phase'[t]) /\ plan'[t] = plan[t]
  <1>1. TypeOK /\ TxInv(t)
    BY Zenon DEF RTInv
  <1>2. CASE Quiet \/ (\E p \in Procs : ShadowCommit(p)) \/ (\E f \in Files : Edit(f))
    BY Zenon, <1>2 DEF Quiet, ShadowCommit, Edit, journalVars
  <1>3. CASE \E u \in Txs : Begins(u)
    BY Zenon, <1>1, <1>3 DEF Begins, TypeOK, TxInv
  <1>4. CASE \E u \in Txs, g \in Phases : Moves(u, g) /\ Lifecycle(u, g)
    <2>1. PICK u \in Txs, g \in Phases : Moves(u, g) /\ Lifecycle(u, g)
      BY Zenon, <1>4
    <2>2. t = u /\ phase'[t] = g
      BY Zenon, <1>1, <2>1 DEF Moves, TypeOK
    <2> QED BY Zenon, <2>1, <2>2 DEF Moves
  <1>5. CASE \E p \in Procs : \E f \in Files :
               Publishes(p, f) /\ faults' # faults /\ Moves(tx[p], "manual")
    <2>1. PICK p \in Procs : pc[p] = "checked" /\ faults' # faults /\ Moves(tx[p], "manual")
      BY Zenon, <1>5 DEF Publishes
    <2>2. t = tx[p] /\ phase'[t] = "manual" /\ phase[tx[p]] = "committing"
      BY Zenon, <1>1, <2>1, Working DEF Moves, TypeOK
    <2> QED BY Zenon, <2>1, <2>2 DEF Lifecycle, Moves
  <1> QED BY Zenon, StepKinds, <1>2, <1>3, <1>4, <1>5 DEF StepKind

\* An outcome stays what the claim resolves to until it is acknowledged.
THEOREM OutcomesStay == Spec => OutcomesAreKept
  <1>1. ASSUME RTInv, [Next]_vars, NEW t \in Txs, phase[t] \in Terminal
        PROVE  \/ phase'[t] = phase[t]
               \/ /\ phase'[t] \in {"none", "bare"}
                  /\ IF phase[t] = "committed" THEN asked[t] = Acks ELSE "resolution" \in asked[t]
    <2>1. CASE UNCHANGED vars
      BY Zenon, <2>1 DEF vars, journalVars
    <2>2. CASE Next /\ phase'[t] # phase[t]
      <3>1. Lifecycle(t, phase'[t])
        BY Zenon, <1>1, <2>2, JournalMoves DEF Terminal
      <3> QED BY Zenon, <1>1, <3>1 DEF Lifecycle, Released, Terminal
    <2> QED BY Zenon, <1>1, <2>1, <2>2
  <1>2. RTInv /\ [Next]_vars =>
          \A t \in Txs : phase[t] \in Terminal =>
              \/ phase'[t] = phase[t]
              \/ /\ phase'[t] \in {"none", "bare"}
                 /\ IF phase[t] = "committed" THEN asked[t] = Acks ELSE "resolution" \in asked[t]
    BY Zenon, <1>1
  <1> QED BY <1>2, RTInvariance, PTL DEF Spec, OutcomesAreKept

\* Settlement replaces only what the mutation was planned on, or what another
\* program changed under the settlement's own lock.
THEOREM OnlyPlannedReplaced == Spec => OnlyPlannedIsReplaced
  <1>1. ASSUME RTInv, [Next]_vars, NEW p \in Procs, NEW f \in Files,
               pc[p] = "checked", disk'[f] # disk[f], edits' = edits
        PROVE  disk[f] = plan[tx[p]].before[f] \/ f \in raced
    <2>1. Next
      BY Zenon, <1>1 DEF vars
    <2>2. lock = p /\ p # NoProc
      BY Zenon, <1>1, Whereabouts, RTNames DEF Holding
    <2>3. \A q \in Procs : ~ShadowCommit(q)
      BY Zenon, <2>2 DEF ShadowCommit, Briefly
    <2>4. \A g \in Files : ~Edit(g)
      BY SMTT(60), <1>1 DEF Edit, RTInv, TypeOK
    <2>5. ~Quiet /\ (\A t \in Txs : ~Begins(t)) /\ ~UNCHANGED <<disk, done>>
          /\ \A q \in Procs, g \in Files : ~Finds(q, g)
      BY Zenon, <1>1 DEF Quiet, Begins, Finds
    <2>6. PICK q \in Procs, g \in Files : Publishes(q, g)
      BY ZenonT(60), <1>1, <2>1, <2>3, <2>4, <2>5, StepKinds DEF StepKind
    <2>7. q = p
      BY Zenon, <1>1, <2>2, <2>6, Whereabouts DEF Publishes, Holding
    <2>8. f = g
      BY Zenon, <1>1, <2>6 DEF Publishes, RTInv, TypeOK
    <2> QED BY ZenonT(60), <1>1, <2>6, <2>7, <2>8 DEF RTInv, ProcInv, Publishes
  <1>2. RTInv /\ [Next]_vars =>
          \A p \in Procs : \A f \in Files :
              (pc[p] = "checked" /\ disk'[f] # disk[f] /\ edits' = edits) =>
                  disk[f] = plan[tx[p]].before[f] \/ f \in raced
    BY Zenon, <1>1
  <1> QED BY <1>2, RTInvariance, PTL DEF Spec, OnlyPlannedIsReplaced
-----------------------------------------------------------------------------
(* Disturbances are counted.                                               *)

Calm == UNCHANGED countVars /\ raced' \in {raced, {}}

Disturbed ==
    \/ crashes' = crashes + 1 /\ UNCHANGED <<faults, edits, raced>>
    \/ faults' = faults + 1 /\ UNCHANGED <<crashes, edits, raced>>
    \/ edits' = edits + 1 /\ UNCHANGED <<crashes, faults>>

LEMMA CalmOrDisturbed ==
    ASSUME Next
    PROVE  Calm \/ Disturbed
  <1>1. ASSUME NEW p \in Procs, Progress(p) PROVE Calm
    <2>1. CASE \/ PrepareJournal(p) \/ PersistFinal(p) \/ StartSettlement(p) \/ SettleInPlace(p)
               \/ SettleCheck(p) \/ SettleApply(p) \/ Unlink(p)
      BY Zenon, <2>1 DEF PrepareJournal, PersistFinal, StartSettlement, SettleInPlace, SettleCheck,
         SettleApply, Unlink, ghostVars, Calm
    <2>2. CASE SettleDone(p) \/ SettleManual(p) \/ Remove(p) \/ Reopen(p) \/ FinishRecovery(p)
      BY Zenon, <2>2
         DEF SettleDone, SettleManual, Remove, Reopen, FinishRecovery, TakeLock, ghostVars, Calm
    <2>3. CASE \E t \in Txs : RecoverOne(p, t) \/ RecoverFails(p, t)
      BY Zenon, <2>3 DEF RecoverOne, RecoverFails, ghostVars, Calm
    <2> QED BY Zenon, <1>1, <2>1, <2>2, <2>3 DEF Progress
  <1>2. ASSUME NEW p \in Procs, Call(p) PROVE Calm
    <2>1. CASE \E t \in Txs : \/ \E c \in Claims, m \in Mutations : PrepareStage(p, t, c, m)
                              \/ CommitPoint(p, t) \/ CommitAgain(p, t)
      BY Zenon, <2>1 DEF PrepareStage, CommitPoint, CommitAgain, TakeLock, Calm
    <2>2. CASE \E t \in Txs : Reject(p, t) \/ Cancel(p, t) \/ AckVerified(p, t)
      BY Zenon, <2>2 DEF Reject, Cancel, AckVerified, TakeLock, Calm
    <2>3. CASE \E t \in Txs : \E a \in Acks : AckPersist(p, t, a) \/ AckRemove(p, t, a)
      BY Zenon, <2>3 DEF AckPersist, AckRemove, TakeLock, Briefly, Calm
    <2> QED BY Zenon, <1>2, <2>1, <2>2, <2>3 DEF Call
  <1>3. ASSUME NEW p \in Procs, Disturbance(p) PROVE Calm \/ Disturbed
    <2>1. CASE PrepareAbandoned(p) \/ DropToken(p)
      BY Zenon, <2>1 DEF PrepareAbandoned, DropToken, ghostVars, Calm
    <2>2. CASE Crash(p)
      BY Zenon, <2>2 DEF Crash, ghostVars, Disturbed
    <2>3. CASE SettleFault(p)
      BY Zenon, <2>3 DEF SettleFault, Disturbed
    <2>4. CASE PersistFault(p)
      BY Zenon, <2>4 DEF PersistFault, ghostVars, Disturbed
    <2> QED BY Zenon, <1>3, <2>1, <2>2, <2>3, <2>4 DEF Disturbance
  <1>4. ASSUME NEW p \in Procs, ShadowCommit(p) PROVE Calm
    BY Zenon, <1>4 DEF ShadowCommit, Briefly, Calm
  <1>5. ASSUME NEW f \in Files, Edit(f) PROVE Disturbed
    BY Zenon, <1>5 DEF Edit, Disturbed
  <1> QED BY Zenon, <1>1, <1>2, <1>3, <1>4, <1>5 DEF Next

LEMMA CountsGrow ==
    ASSUME RTInv, Next
    PROVE  /\ crashes' + faults' = 0 => crashes + faults = 0
           /\ edits' + faults' = 0 =>
                edits + faults = 0 /\ edits' = edits /\ faults' = faults /\ raced' \in {raced, {}}
  <1>1. crashes \in Nat /\ faults \in Nat /\ edits \in Nat
    BY SMTT(60), RTLimits DEF RTInv, TypeOK
  <1> QED BY SMTT(60), <1>1, CalmOrDisturbed DEF Calm, Disturbed, countVars

-----------------------------------------------------------------------------
(* A journal that cannot be read has a cause.                              *)

\* t's refusal is being journalled.
Refusing(t) == \E p \in Procs : pc[p] \in {"rejecting", "cancelling"} /\ tx[p] = t

\* Payloads are gone only from what was refused, or is about to be.
Payloads ==
    crashes + faults = 0 =>
        \A t \in Journals : payload[t] \/ phase[t] \in {"rejected", "cancelled"} \/ Refusing(t)

\* Only p may have moved.
OnlyMoves(p) == \A q \in Procs \ {p} : pc'[q] = pc[q] /\ tx'[q] = tx[q]

LEMMA GoToMoves ==
    ASSUME TypeOK, NEW p \in Procs, NEW place, NEW u, GoTo(p, place, u)
    PROVE  OnlyMoves(p) /\ pc'[p] = place /\ tx'[p] = u
  BY Zenon DEF GoTo, TypeOK, OnlyMoves

LEMMA RefusalsGoOn ==
    ASSUME NEW p \in Procs, OnlyMoves(p), pc[p] \notin {"rejecting", "cancelling"}, NEW t,
    Refusing(t)
    PROVE  Refusing(t)'
  BY Zenon DEF OnlyMoves, Refusing

\* What a step without a crash or an I/O error does to the payloads of t.
PayloadMove(t) ==
    \/ payload'[t] = payload[t] /\ (Refusing(t) => Refusing(t)')
    \/ payload'[t]
    \/ Refusing(t)'
    \/ phase'[t] \in {"none", "rejected", "cancelled"}

LEMMA EndingsMove ==
    ASSUME TypeOK, NEW p \in Procs
    PROVE  /\ Return(p) => OnlyMoves(p)
           /\ Close(p) => OnlyMoves(p)
           /\ Settled(p) => OnlyMoves(p)
           /\ NotSettled(p) => OnlyMoves(p)
  <1>1. Return(p) => OnlyMoves(p)
    BY Zenon, GoToMoves DEF Return
  <1>2. Close(p) => OnlyMoves(p)
    BY Zenon, GoToMoves DEF Close
  <1>3. Settled(p) => OnlyMoves(p)
    BY Zenon, <1>1, GoToMoves DEF Settled
  <1>4. NotSettled(p) => OnlyMoves(p)
    BY Zenon, <1>1, <1>2 DEF NotSettled
  <1> QED BY Zenon, <1>1, <1>2, <1>3, <1>4

LEMMA PayloadMoves ==
    ASSUME RTInv, Next, crashes' + faults' = 0, NEW t \in Txs
    PROVE  PayloadMove(t)
  <1>1. TypeOK /\ crashes \in Nat /\ faults \in Nat /\ crashes' \in Nat /\ faults' \in Nat
    <2>1. RTInv'
      BY Zenon, RTStep
    <2> QED BY SMTT(60), <2>1, RTLimits DEF RTInv, TypeOK
  <1>2. crashes + faults = 0
    BY Zenon, CountsGrow
  <1>9. crashes' # crashes + 1 /\ faults' # faults + 1
    <2>1. \A m, n \in Nat : m + n = 0 => m = 0 /\ n = 0
      OBVIOUS
    <2>2. crashes' = 0 /\ faults' = 0
      BY Zenon, <1>1, <2>1
    <2>3. crashes = 0 /\ faults = 0
      BY Zenon, <1>1, <1>2, <2>1
    <2> QED BY SMTT(60), <2>2, <2>3
  <1>3. ASSUME NEW p \in Procs, OnlyMoves(p), pc[p] \notin {"rejecting", "cancelling"}, payload' = payload
        PROVE  PayloadMove(t)
    BY Zenon, <1>3, RefusalsGoOn DEF PayloadMove
  <1>4. ASSUME NEW p \in Procs, OnlyMoves(p), pc[p] \notin {"rejecting", "cancelling"},
               NEW u \in Txs, NEW b \in BOOLEAN, payload' = [payload EXCEPT ![u] = b],
               t = u => PayloadMove(t)
        PROVE  PayloadMove(t)
    <2>1. CASE t # u
      <3>1. payload'[t] = payload[t]
        BY Zenon, <1>1, <1>4, <2>1 DEF TypeOK
      <3> QED BY Zenon, <1>4, <3>1, RefusalsGoOn DEF PayloadMove
    <2> QED BY Zenon, <1>4, <2>1
  <1>5. ASSUME NEW p \in Procs, Progress(p) PROVE PayloadMove(t)
    <2>1. CASE PrepareJournal(p)
      <3>1. /\ pc[p] = "staging" /\ OnlyMoves(p) /\ tx[p] \in Txs
            /\ payload' = [payload EXCEPT ![tx[p]] = TRUE]
        BY Zenon, <1>1, <2>1, Working, EndingsMove DEF PrepareJournal
      <3>2. t = tx[p] => PayloadMove(t)
        BY Zenon, <1>1, <3>1 DEF TypeOK, PayloadMove
      <3> QED BY Zenon, <1>4, <3>1, <3>2
    <2>2. CASE PersistFinal(p)
      <3>1. /\ pc[p] \in {"rejecting", "cancelling"} /\ OnlyMoves(p) /\ tx[p] \in Txs
            /\ phase' = [phase EXCEPT ![tx[p]] = FinalPhase[pc[p]]] /\ payload' = payload
        BY ZenonT(60), <1>1, <2>2, Working, EndingsMove DEF PersistFinal, FinalPhase
      <3>2. FinalPhase[pc[p]] \in {"rejected", "cancelled"}
        BY SMTT(60), <3>1 DEF FinalPhase
      <3>3. CASE t = tx[p]
        BY Zenon, <1>1, <3>1, <3>2, <3>3 DEF TypeOK, PayloadMove
      <3>4. CASE t # tx[p]
        BY Zenon, <3>1, <3>4 DEF OnlyMoves, Refusing, PayloadMove
      <3> QED BY Zenon, <3>3, <3>4
    <2>3. CASE Remove(p)
      <3>1. /\ pc[p] = "removing" /\ OnlyMoves(p) /\ tx[p] \in Txs
            /\ payload' = [payload EXCEPT ![tx[p]] = FALSE] /\ phase' = [phase EXCEPT ![tx[p]] = "none"]
        BY Zenon, <1>1, <2>3, Working, EndingsMove DEF Remove
      <3>2. t = tx[p] => PayloadMove(t)
        BY Zenon, <1>1, <3>1 DEF TypeOK, PayloadMove
      <3> QED BY Zenon, <1>4, <3>1, <3>2
    <2>4. CASE StartSettlement(p) \/ SettleCheck(p) \/ SettleApply(p) \/ Unlink(p) \/ SettleInPlace(p)
      <3>1. payload' = payload /\ pc[p] \notin {"rejecting", "cancelling"}
        BY Zenon, <2>4 DEF StartSettlement, SettleCheck, SettleApply, Unlink, SettleInPlace, journalVars
      <3>2. OnlyMoves(p)
        BY ZenonT(60), <1>1, <2>4, GoToMoves
           DEF StartSettlement, SettleCheck, SettleApply, Unlink, SettleInPlace, procVars, OnlyMoves
      <3> QED BY Zenon, <1>3, <3>1, <3>2
    <2>5. CASE SettleDone(p) \/ SettleManual(p) \/ Reopen(p) \/ FinishRecovery(p)
      <3>1. payload' = payload /\ pc[p] \notin {"rejecting", "cancelling"}
        BY Zenon, <2>5 DEF SettleDone, SettleManual, Foreign, Reopen, FinishRecovery, journalVars
      <3>2. OnlyMoves(p)
        BY ZenonT(60), <1>1, <2>5, GoToMoves, EndingsMove
           DEF SettleDone, SettleManual, Reopen, FinishRecovery
      <3> QED BY Zenon, <1>3, <3>1, <3>2
    <2>6. CASE \E u \in Txs : RecoverOne(p, u) \/ RecoverFails(p, u)
      <3>1. payload' = payload /\ pc[p] \notin {"rejecting", "cancelling"}
        BY Zenon, <2>6 DEF RecoverOne, RecoverFails, journalVars
      <3>2. OnlyMoves(p)
        BY Zenon, <1>1, <2>6, GoToMoves, EndingsMove DEF RecoverOne, RecoverFails, OnlyMoves
      <3> QED BY Zenon, <1>3, <3>1, <3>2
    <2> QED BY ZenonT(60), <1>5, <2>1, <2>2, <2>3, <2>4, <2>5, <2>6 DEF Progress
  <1>6. ASSUME NEW p \in Procs, Call(p) PROVE PayloadMove(t)
    <2>1. CASE \E u \in Txs : Reject(p, u) \/ Cancel(p, u)
      <3>1. PICK u \in Txs : Reject(p, u) \/ Cancel(p, u)
        BY Zenon, <2>1
      <3>2. /\ pc[p] = "open" /\ payload' = [payload EXCEPT ![u] = FALSE]
            /\ GoTo(p, "rejecting", u) \/ GoTo(p, "cancelling", u)
        BY Zenon, <3>1 DEF Reject, Cancel
      <3>3. OnlyMoves(p) /\ pc'[p] \in {"rejecting", "cancelling"} /\ tx'[p] = u
        BY Zenon, <1>1, <3>2, GoToMoves
      <3>4. t = u => PayloadMove(t)
        BY Zenon, <3>3 DEF Refusing, PayloadMove
      <3> QED BY Zenon, <1>4, <3>2, <3>3, <3>4
    <2>2. CASE \E u \in Txs : \/ \E c \in Claims, m \in Mutations : PrepareStage(p, u, c, m)
                              \/ CommitPoint(p, u) \/ CommitAgain(p, u)
      <3>1. payload' = payload /\ pc[p] = "open"
        BY Zenon, <2>2 DEF PrepareStage, CommitPoint, CommitAgain, journalVars
      <3>2. OnlyMoves(p)
        BY ZenonT(60), <1>1, <2>2, GoToMoves DEF PrepareStage, CommitPoint, CommitAgain
      <3> QED BY Zenon, <1>3, <3>1, <3>2
    <2>3. CASE \E u \in Txs : \/ AckVerified(p, u)
                              \/ \E a \in Acks : AckPersist(p, u, a) \/ AckRemove(p, u, a)
      <3>1. payload' = payload /\ pc[p] = "open"
        BY Zenon, <2>3 DEF AckVerified, AckPersist, AckRemove, journalVars
      <3>2. OnlyMoves(p)
        BY Zenon, <1>1, <2>3, GoToMoves DEF AckVerified, AckPersist, AckRemove, procVars, OnlyMoves
      <3> QED BY Zenon, <1>3, <3>1, <3>2
    <2> QED BY Zenon, <1>6, <2>1, <2>2, <2>3 DEF Call
  <1>7. ASSUME NEW p \in Procs, Disturbance(p) PROVE PayloadMove(t)
    <2>1. ~Crash(p) /\ ~SettleFault(p) /\ ~PersistFault(p)
      BY Zenon, <1>9 DEF Crash, SettleFault, PersistFault
    <2>2. CASE PrepareAbandoned(p) \/ DropToken(p)
      <3>1. payload' = payload /\ pc[p] \notin {"rejecting", "cancelling"} /\ Return(p)
        BY Zenon, <2>2 DEF PrepareAbandoned, DropToken, journalVars
      <3> QED BY Zenon, <1>1, <1>3, <3>1, EndingsMove
    <2> QED BY Zenon, <1>7, <2>1, <2>2 DEF Disturbance
  <1>8. CASE (\E p \in Procs : ShadowCommit(p)) \/ (\E f \in Files : Edit(f))
    <2>1. payload' = payload /\ pc' = pc /\ tx' = tx
      BY Zenon, <1>8 DEF ShadowCommit, Edit, journalVars, procVars
    <2> QED BY Zenon, <2>1 DEF Refusing, PayloadMove
  <1> QED BY ZenonT(60), <1>5, <1>6, <1>7, <1>8 DEF Next

LEMMA PayloadsStep == RTInv /\ Payloads /\ [Next]_vars => Payloads'
  <1> SUFFICES ASSUME RTInv, Payloads, [Next]_vars, crashes' + faults' = 0, NEW t \in Journals'
               PROVE  payload'[t] \/ phase'[t] \in {"rejected", "cancelled"} \/ Refusing(t)'
    BY Zenon DEF Payloads
  <1>1. CASE UNCHANGED vars
    <2>1. UNCHANGED <<phase, payload, pc, tx, crashes, faults>>
      BY Zenon, <1>1 DEF vars, journalVars, procVars, countVars
    <2>2. t \in Journals /\ (Refusing(t) => Refusing(t)')
      BY Zenon, <2>1 DEF Journals, Refusing
    <2> QED BY Zenon, <2>1, <2>2 DEF Payloads
  <1>2. CASE Next
    <2>1. t \in Txs /\ phase'[t] \notin {"none", "bare"}
      BY Zenon DEF Journals
    <2>2. PayloadMove(t) /\ crashes + faults = 0
      BY Zenon, <1>2, <2>1, PayloadMoves, CountsGrow
    <2>3. CASE phase'[t] = phase[t]
      <3>1. t \in Journals
        BY Zenon, <2>1, <2>3 DEF Journals
      <3> QED BY Zenon, <2>1, <2>2, <2>3, <3>1 DEF Payloads, PayloadMove
    <2>4. CASE phase'[t] # phase[t]
      <3>1. Lifecycle(t, phase'[t])
        BY Zenon, <1>2, <2>1, <2>4, JournalMoves
      <3>2. payload'[t] \/ (t \in Journals /\ phase[t] \notin {"rejected", "cancelled"})
        BY Zenon, <2>1, <3>1 DEF Lifecycle, Journals, Released, Terminal
      <3> QED BY Zenon, <2>1, <2>2, <3>2 DEF Payloads, PayloadMove
    <2> QED BY Zenon, <2>3, <2>4
  <1> QED BY Zenon, <1>1, <1>2

\* A journal that cannot be read was left by a crash or an I/O error between the
\* removal of its payloads and the outcome that no longer needs them.
THEOREM UnreadableHasCause == Spec => []UnreadableHasACause
  <1>1. Init => Payloads
    BY ZenonT(60) DEF Init, Payloads, Journals
  <1>2. RTInv /\ Payloads => UnreadableHasACause
    <2> SUFFICES ASSUME RTInv, Payloads, crashes + faults = 0, lock = NoProc, NEW t \in Journals
                 PROVE  Valid(t)
      BY Zenon DEF UnreadableHasACause
    <2>1. ~Refusing(t)
      BY Zenon, Whereabouts, RTNames DEF Refusing, Holding
    <2> QED BY Zenon, <2>1 DEF Payloads, Valid, Entries
  <1> QED BY <1>1, <1>2, PayloadsStep, RTInvariance, PTL DEF Spec

-----------------------------------------------------------------------------
(* Manual recovery has a cause.                                            *)

\* A file of t's mutation is as the settlement of t left it.
AsSettled(t, f) == disk[f] = IF f \in done[t] THEN plan[t].after[f] ELSE plan[t].before[f]

Undisturbed ==
    edits + faults = 0 =>
        /\ raced = {}
        /\ \A t \in Txs : phase[t] = "committing" => \A f \in Changed(plan[t]) : AsSettled(t, f)

\* f has two names, and no process is about to remove one of them.
Stuck(f) == f \in linked /\ \A p \in Procs : pc[p] = "settling" => f \notin Linking(p)

\* The file that p has checked can be read.
LinkInv(p) == pc[p] = "checked" => Linking(p) = {} /\ First(todo[p]) \cap linked = {}

Snags ==
    /\ \A p \in Procs : LinkInv(p)
    /\ edits + faults = 0 =>
          \A t \in Txs : phase[t] = "manual" => \E f \in Changed(plan[t]) : Stuck(f)

\* Without shadow commits of other processes, an undisturbed settlement is stopped
\* by nothing but a file that a crash left with two names.
LEMMA ForeignIsStuck ==
    ASSUME RTInv, Undisturbed, Snags, edits + faults = 0, NEW p \in Procs, Foreign(p)
    PROVE  \E f \in Changed(plan[tx[p]]) : Stuck(f)
  <1>1. pc[p] \in {"settling", "checked"}
    BY Zenon DEF Foreign
  <1>2. /\ tx[p] \in Txs /\ phase[tx[p]] = "committing" /\ todo[p] \subseteq Changed(plan[tx[p]])
        /\ Changed(plan[tx[p]]) \ todo[p] \subseteq done[tx[p]]
    BY Zenon, <1>1, Working
  <1>3. raced = {} /\ \A f \in Changed(plan[tx[p]]) : AsSettled(tx[p], f)
    BY Zenon, <1>2 DEF Undisturbed
  <1>4. CASE pc[p] = "settling" /\ Linking(p) = {} /\ \E f \in First(todo[p]) :
                f \in linked \/ disk[f] \notin {plan[tx[p]].before[f], plan[tx[p]].after[f]}
    <2>1. PICK f \in First(todo[p]) :
                f \in linked \/ disk[f] \notin {plan[tx[p]].before[f], plan[tx[p]].after[f]}
      BY Zenon, <1>4
    <2>2. f \in Changed(plan[tx[p]])
      BY Zenon, <1>2 DEF First
    <2>3. disk[f] \in {plan[tx[p]].before[f], plan[tx[p]].after[f]}
      BY Zenon, <1>3, <2>2 DEF AsSettled
    <2>4. \A q \in Procs : pc[q] = "settling" => q = p
      BY Zenon, <1>1, Whereabouts DEF Holding
    <2> QED BY Zenon, <1>4, <2>1, <2>2, <2>3, <2>4 DEF Stuck
  <1>5. CASE pc[p] = "checked" /\ \E f \in First(todo[p]) : ~Publishable(tx[p], f)
    <2>1. PICK f \in First(todo[p]) : ~Publishable(tx[p], f)
      BY Zenon, <1>5
    <2>2. f \in Changed(plan[tx[p]]) /\ f \notin linked
      BY Zenon, <1>2, <1>5 DEF First, Snags, LinkInv
    <2>3. disk[f] = plan[tx[p]].before[f]
      BY ZenonT(60), <1>3, <1>5 DEF RTInv, ProcInv
    <2>4. plan[tx[p]].before[f] # plan[tx[p]].after[f]
      BY Zenon, <2>2 DEF Changed
    <2> QED BY Zenon, <2>1, <2>2, <2>3, <2>4 DEF Publishable
  <1>6. CASE todo[p] = {} /\ ~FilesAreThere(tx[p])
    <2>1. PICK f \in Changed(plan[tx[p]]) : plan[tx[p]].after[f] # Absent /\ disk[f] = Absent
      BY Zenon, <1>6 DEF FilesAreThere
    <2>2. f \in done[tx[p]] /\ AsSettled(tx[p], f)
      BY Zenon, <1>2, <1>3, <1>6, <2>1
    <2> QED BY Zenon, <2>1, <2>2 DEF AsSettled
  <1> QED BY ZenonT(60), <1>4, <1>5, <1>6 DEF Foreign

\* Only p may have moved, or taken a file off its list.
OnlyWorks(p) == \A q \in Procs \ {p} : pc'[q] = pc[q] /\ tx'[q] = tx[q] /\ todo'[q] = todo[q]

\* What a step does to the files with two names and to the settlements.
LinkKind(p) ==
    \/ UNCHANGED <<linked, pc, tx, todo>>
    \/ /\ OnlyWorks(p)
       /\ \/ linked' \subseteq linked /\ pc'[p] \notin {"settling", "checked"}
             /\ (edits' = edits /\ faults' = faults => linked' = linked)
          \/ /\ linked' = linked /\ pc'[p] = "settling" /\ todo'[p] = Changed(plan[tx'[p]])
             /\ plan' = plan
          \/ SettleInPlace(p) \/ SettleCheck(p) \/ SettleApply(p) \/ Unlink(p)

LEMMA EndingsWork ==
    ASSUME TypeOK, NEW p \in Procs
    PROVE  /\ Return(p) => OnlyWorks(p) /\ pc'[p] = "open"
           /\ Close(p) => OnlyWorks(p) /\ pc'[p] = "closed"
           /\ Settled(p) => OnlyWorks(p) /\ pc'[p] \in {"open", "scanning"}
           /\ NotSettled(p) => OnlyWorks(p) /\ pc'[p] \in {"open", "closed"}
           /\ \A place, u : GoTo(p, place, u) /\ todo' = todo => OnlyWorks(p) /\ pc'[p] = place
           /\ \A place, u, S : GoTo(p, place, u) /\ todo' = [todo EXCEPT ![p] = S] =>
                 OnlyWorks(p) /\ pc'[p] = place /\ tx'[p] = u /\ todo'[p] = S
  <1>1. ASSUME NEW place, NEW u, NEW S, GoTo(p, place, u), todo' = [todo EXCEPT ![p] = S]
        PROVE  OnlyWorks(p) /\ pc'[p] = place /\ tx'[p] = u /\ todo'[p] = S
    BY Zenon, <1>1 DEF GoTo, TypeOK, OnlyWorks
  <1>2. ASSUME NEW place, NEW u, GoTo(p, place, u), todo' = todo
        PROVE  OnlyWorks(p) /\ pc'[p] = place
    BY Zenon, <1>2 DEF GoTo, TypeOK, OnlyWorks
  <1>3. Return(p) => OnlyWorks(p) /\ pc'[p] = "open"
    BY Zenon, <1>1 DEF Return
  <1>4. Close(p) => OnlyWorks(p) /\ pc'[p] = "closed"
    BY Zenon, <1>1 DEF Close
  <1>5. Settled(p) => OnlyWorks(p) /\ pc'[p] \in {"open", "scanning"}
    BY Zenon, <1>1, <1>3 DEF Settled
  <1>6. NotSettled(p) => OnlyWorks(p) /\ pc'[p] \in {"open", "closed"}
    BY Zenon, <1>3, <1>4 DEF NotSettled
  <1> QED BY Zenon, <1>1, <1>2, <1>3, <1>4, <1>5, <1>6

LEMMA LinkKinds ==
    ASSUME RTInv, Next
    PROVE  (\E p \in Procs : LinkKind(p)) \/ (\E f \in Files : Edit(f))
  <1>1. TypeOK /\ faults \in Nat
    BY SMTT(60), RTLimits DEF RTInv, TypeOK
  <1>2. ASSUME NEW p \in Procs, OnlyWorks(p), linked' = linked, pc'[p] \notin {"settling", "checked"}
        PROVE  LinkKind(p)
    BY Zenon, <1>2 DEF LinkKind
  <1>7. ASSUME NEW p \in Procs, todo' = todo, linked' = linked, NEW u,
               NEW place \in {"staging", "token", "rejecting", "cancelling", "removing", "scanning"},
               GoTo(p, place, u)
        PROVE  LinkKind(p)
    <2>1. OnlyWorks(p) /\ pc'[p] = place
      BY Zenon, <1>1, <1>7, EndingsWork
    <2>2. place \notin {"settling", "checked"}
      BY Zenon
    <2> QED BY Zenon, <1>2, <1>7, <2>1, <2>2
  <1>3. ASSUME NEW p \in Procs, Progress(p) PROVE LinkKind(p)
    <2>1. CASE PrepareJournal(p) \/ PersistFinal(p) \/ Remove(p) \/ FinishRecovery(p)
      BY Zenon, <1>1, <1>2, <2>1, EndingsWork
         DEF PrepareJournal, PersistFinal, Remove, FinishRecovery
    <2>2. CASE SettleDone(p) \/ SettleManual(p)
      BY Zenon, <1>1, <1>2, <2>2, EndingsWork DEF SettleDone, SettleManual
    <2>3. CASE Reopen(p)
      <3>1. GoTo(p, "scanning", NoTx) /\ todo' = todo /\ linked' = linked
        BY Zenon, <2>3 DEF Reopen
      <3> QED BY Zenon, <1>7, <3>1
    <2>4. CASE StartSettlement(p)
      <3>1. pc[p] = "token" /\ GoTo(p, "settling", tx[p]) /\ todo' = [todo EXCEPT ![p] = Entries(tx[p])]
            /\ linked' = linked /\ plan' = plan
        BY Zenon, <2>4 DEF StartSettlement, journalVars
      <3>2. phase[tx[p]] = "committing"
        BY Zenon, <3>1 DEF RTInv, ProcInv
      <3>3. Entries(tx[p]) = Changed(plan[tx[p]])
        BY Zenon, <3>2 DEF Entries
      <3>4. OnlyWorks(p) /\ pc'[p] = "settling" /\ tx'[p] = tx[p] /\ todo'[p] = Entries(tx[p])
        BY Zenon, <1>1, <3>1, EndingsWork
      <3> QED BY Zenon, <3>1, <3>3, <3>4 DEF LinkKind
    <2>5. CASE SettleInPlace(p) \/ SettleCheck(p) \/ SettleApply(p) \/ Unlink(p)
      <3>1. OnlyWorks(p)
        BY ZenonT(60), <1>1, <2>5
           DEF SettleInPlace, SettleCheck, SettleApply, Unlink, GoTo, TypeOK, procVars, OnlyWorks
      <3> QED BY Zenon, <2>5, <3>1 DEF LinkKind
    <2>6. ASSUME NEW t \in Txs, RecoverFails(p, t) PROVE LinkKind(p)
      BY Zenon, <1>1, <1>2, <2>6, EndingsWork DEF RecoverFails
    <2>7. ASSUME NEW t \in Txs, RecoverOne(p, t) PROVE LinkKind(p)
      <3>1. linked' = linked /\ plan' = plan
        BY Zenon, <2>7 DEF RecoverOne, journalVars
      <3>2. CASE phase[t] = "committing"
        <4>1. GoTo(p, "settling", t) /\ todo' = [todo EXCEPT ![p] = Entries(t)]
          BY Zenon, <2>7, <3>2 DEF RecoverOne
        <4>2. Entries(t) = Changed(plan[t])
          BY Zenon, <3>2 DEF Entries
        <4>3. OnlyWorks(p) /\ pc'[p] = "settling" /\ tx'[p] = t /\ todo'[p] = Entries(t)
          BY Zenon, <1>1, <4>1, EndingsWork
        <4> QED BY Zenon, <3>1, <4>2, <4>3 DEF LinkKind
      <3>3. CASE phase[t] # "committing"
        BY Zenon, <2>7, <3>1, <3>3 DEF RecoverOne, LinkKind
      <3> QED BY Zenon, <3>2, <3>3
    <2> QED BY ZenonT(60), <1>3, <2>1, <2>2, <2>3, <2>4, <2>5, <2>6, <2>7 DEF Progress
  <1>4. ASSUME NEW p \in Procs, Call(p) PROVE LinkKind(p)
    <2>1. CASE \E t \in Txs : \/ \E c \in Claims, m \in Mutations : PrepareStage(p, t, c, m)
                              \/ CommitPoint(p, t) \/ CommitAgain(p, t)
      <3>1. /\ todo' = todo /\ linked' = linked
            /\ \E u : GoTo(p, "staging", u) \/ GoTo(p, "token", u)
        BY Zenon, <2>1 DEF PrepareStage, CommitPoint, CommitAgain
      <3> QED BY Zenon, <1>7, <3>1
    <2>2. CASE \E t \in Txs : Reject(p, t) \/ Cancel(p, t) \/ AckVerified(p, t)
      <3>1. /\ todo' = todo /\ linked' = linked
            /\ \E u : GoTo(p, "rejecting", u) \/ GoTo(p, "cancelling", u) \/ GoTo(p, "removing", u)
        BY Zenon, <2>2 DEF Reject, Cancel, AckVerified
      <3> QED BY Zenon, <1>7, <3>1
    <2>3. CASE \E t \in Txs : \E a \in Acks : AckRemove(p, t, a)
      <3>1. todo' = todo /\ linked' = linked /\ \E u : GoTo(p, "removing", u)
        BY Zenon, <2>3 DEF AckRemove
      <3> QED BY Zenon, <1>7, <3>1
    <2>4. CASE \E t \in Txs : \E a \in Acks : AckPersist(p, t, a)
      BY Zenon, <2>4 DEF AckPersist, procVars, LinkKind
    <2> QED BY Zenon, <1>4, <2>1, <2>2, <2>3, <2>4 DEF Call
  <1>5. ASSUME NEW p \in Procs, Disturbance(p) PROVE LinkKind(p)
    <2>1. CASE PrepareAbandoned(p) \/ DropToken(p) \/ PersistFault(p) \/ Crash(p)
      BY Zenon, <1>1, <1>2, <2>1, EndingsWork DEF PrepareAbandoned, DropToken, PersistFault, Crash
    <2>2. CASE SettleFault(p)
      <3>1. OnlyWorks(p) /\ pc'[p] \in {"open", "closed"}
        BY Zenon, <1>1, <2>2, EndingsWork DEF SettleFault
      <3>2. linked' \subseteq linked
        BY Zenon, <2>2 DEF SettleFault
      <3>3. faults' # faults
        BY SMTT(60), <1>1, <2>2 DEF SettleFault
      <3> QED BY Zenon, <3>1, <3>2, <3>3 DEF LinkKind
    <2> QED BY Zenon, <1>5, <2>1, <2>2 DEF Disturbance
  <1>6. ASSUME NEW p \in Procs, ShadowCommit(p) PROVE LinkKind(p)
    BY Zenon, <1>6 DEF ShadowCommit, procVars, LinkKind
  <1> QED BY Zenon, <1>3, <1>4, <1>5, <1>6 DEF Next

\* A transaction keeps its plan.
LEMMA PlansAreKept ==
    ASSUME RTInv, Next, NEW t \in Txs, phase[t] # "none"
    PROVE  plan'[t] = plan[t]
  <1>1. TypeOK /\ plan[t] # NoPlan
    BY Zenon DEF RTInv, TxInv
  <1>2. CASE plan' = plan
    BY Zenon, <1>2
  <1>3. CASE \E u \in Txs : Begins(u)
    BY Zenon, <1>1, <1>3 DEF Begins, TypeOK
  <1> QED BY Zenon, <1>2, <1>3, StepKinds
             DEF StepKind, Quiet, Moves, ShadowCommit, Edit, journalVars

\* A settlement that does not move keeps what it has linked.
LEMMA LinkingSame ==
    ASSUME RTInv, Next, NEW q \in Procs, pc[q] \in {"settling", "checked"},
           tx'[q] = tx[q], todo'[q] = todo[q]
    PROVE  /\ Linking(q)' = linked' \cap (Changed(plan[tx[q]]) \ todo[q])
           /\ First(todo[q])' = First(todo[q])
  <1>1. plan'[tx[q]] = plan[tx[q]]
    BY Zenon, Working, PlansAreKept
  <1> QED BY Zenon, <1>1 DEF Linking, Changed, First

LEMMA LinkInvStep ==
    ASSUME RTInv, Next, \A p \in Procs : LinkInv(p)
    PROVE  \A p \in Procs : LinkInv(p)'
  <1> SUFFICES ASSUME NEW q \in Procs, pc'[q] = "checked"
               PROVE  Linking(q)' = {} /\ First(todo[q])' \cap linked' = {}
    BY Zenon DEF LinkInv
  <1>1. ASSUME pc[q] = "checked", tx'[q] = tx[q], todo'[q] = todo[q], linked' \subseteq linked
        PROVE  Linking(q)' = {} /\ First(todo[q])' \cap linked' = {}
    <2>1. /\ Linking(q)' = linked' \cap (Changed(plan[tx[q]]) \ todo[q])
          /\ First(todo[q])' = First(todo[q])
      BY Zenon, <1>1, LinkingSame
    <2> QED BY Zenon, <1>1, <2>1 DEF LinkInv, Linking
  <1>2. CASE \E f \in Files : Edit(f)
    <2>1. UNCHANGED <<pc, tx, todo>> /\ linked' \subseteq linked
      BY Zenon, <1>2 DEF Edit, procVars
    <2> QED BY Zenon, <1>1, <2>1
  <1>3. ASSUME NEW p \in Procs, LinkKind(p)
        PROVE  Linking(q)' = {} /\ First(todo[q])' \cap linked' = {}
    <2>1. CASE UNCHANGED <<linked, pc, tx, todo>>
      BY Zenon, <1>1, <2>1
    <2>2. CASE q # p /\ OnlyWorks(p) /\ linked' \subseteq linked
      BY Zenon, <1>1, <2>2 DEF OnlyWorks
    <2>3. CASE q # p /\ OnlyWorks(p) /\ SettleApply(p)
      BY Zenon, <2>3, Whereabouts DEF OnlyWorks, SettleApply, Holding
    <2>4. CASE q = p /\ SettleCheck(p)
      <3>1. /\ pc[p] = "settling" /\ Linking(p) = {} /\ UNCHANGED <<linked, todo>>
            /\ tx' = [tx EXCEPT ![p] = tx[p]]
        BY Zenon, <2>4 DEF SettleCheck, GoTo
      <3>2. PICK f \in First(todo[p]) : f \notin linked
        BY Zenon, <2>4 DEF SettleCheck
      <3>3. tx'[p] = tx[p] /\ todo'[p] = todo[p] /\ todo[p] \subseteq Nat
        BY Zenon, <3>1, RTFiles DEF RTInv, TypeOK
      <3>4. \A g \in First(todo[p]) : g = f
        BY SMTT(60), <3>2, <3>3 DEF First
      <3>5. /\ Linking(p)' = linked' \cap (Changed(plan[tx[p]]) \ todo[p])
            /\ First(todo[p])' = First(todo[p])
        BY Zenon, <3>1, <3>3, LinkingSame
      <3> QED BY Zenon, <2>4, <3>1, <3>2, <3>4, <3>5 DEF Linking
    <2>5. CASE q = p /\ (SettleInPlace(p) \/ SettleApply(p) \/ Unlink(p))
      <3>1. pc'[p] = "settling"
        BY Zenon, <2>5 DEF SettleInPlace, SettleApply, Unlink, GoTo, procVars, RTInv, TypeOK
      <3> QED BY Zenon, <2>5, <3>1
    <2>6. SettleInPlace(p) \/ SettleCheck(p) \/ Unlink(p) => linked' \subseteq linked
      BY Zenon DEF SettleInPlace, SettleCheck, Unlink
    <2> QED BY ZenonT(60), <1>3, <2>1, <2>2, <2>3, <2>4, <2>5, <2>6 DEF LinkKind
  <1> QED BY Zenon, <1>2, <1>3, LinkKinds

\* A file that a crash left with two names keeps them: no operation may touch it.
LEMMA StuckStays ==
    ASSUME RTInv, Next, \A p \in Procs : LinkInv(p), edits' = edits, faults' = faults,
           NEW f, Stuck(f)
    PROVE  Stuck(f)'
  <1>1. \A g \in Files : ~Edit(g)
    BY SMTT(60) DEF Edit, RTInv, TypeOK
  <1>2. PICK p \in Procs : LinkKind(p)
    BY Zenon, <1>1, LinkKinds
  <1>3. f \in linked /\ \A q \in Procs : pc[q] = "settling" => f \notin Changed(plan[tx[q]]) \ todo[q]
    BY Zenon DEF Stuck, Linking
  <1>4. f \in linked'
    <2>1. Unlink(p) => linked' = linked \ Linking(p) /\ pc[p] = "settling"
      BY Zenon DEF Unlink
    <2>2. SettleApply(p) => linked \subseteq linked'
      BY Zenon DEF SettleApply
    <2>3. SettleInPlace(p) \/ SettleCheck(p) => linked' = linked
      BY Zenon DEF SettleInPlace, SettleCheck
    <2> QED BY ZenonT(60), <1>2, <1>3, <2>1, <2>2, <2>3 DEF LinkKind, Stuck
  <1>5. ASSUME NEW q \in Procs, pc'[q] = "settling", pc[q] = "settling", tx'[q] = tx[q], todo'[q] = todo[q]
        PROVE  f \notin Linking(q)'
    BY Zenon, <1>3, <1>5, LinkingSame
  <1>6. ASSUME NEW q \in Procs, pc'[q] = "settling" PROVE f \notin Linking(q)'
    <2>1. CASE UNCHANGED <<linked, pc, tx, todo>> \/ (q # p /\ OnlyWorks(p))
      BY Zenon, <1>5, <1>6, <2>1 DEF OnlyWorks
    <2>2. CASE q = p /\ todo'[p] = Changed(plan[tx'[p]]) /\ plan' = plan
      BY Zenon, <2>2 DEF Linking, Changed
    <2>3. CASE q = p /\ (SettleInPlace(p) \/ SettleApply(p))
      <3>1. /\ pc[p] \in {"settling", "checked"} /\ f \notin Changed(plan[tx[p]]) \ todo[p]
            /\ tx'[p] = tx[p] /\ plan' = plan
        <4>1. CASE SettleInPlace(p)
          BY Zenon, <1>3, <4>1 DEF SettleInPlace, GoTo, journalVars
        <4>2. CASE SettleApply(p)
          <5>1. pc[p] = "checked" /\ tx'[p] = tx[p] /\ plan' = plan
            BY Zenon, <4>2 DEF SettleApply, GoTo, journalVars, RTInv, TypeOK
          <5>2. Linking(p) = {}
            BY Zenon, <5>1 DEF LinkInv
          <5> QED BY Zenon, <1>3, <5>1, <5>2 DEF Linking
        <4> QED BY Zenon, <2>3, <4>1, <4>2
      <3>2. PICK g : g \notin linked /\ todo' = [todo EXCEPT ![p] = @ \ {g}]
        BY Zenon, <2>3 DEF SettleInPlace, SettleApply, Publishable
      <3>3. tx'[p] = tx[p] /\ todo'[p] = todo[p] \ {g}
        BY Zenon, <3>1, <3>2 DEF RTInv, TypeOK
      <3>4. Linking(p)' = linked' \cap (Changed(plan[tx[p]]) \ (todo[p] \ {g}))
        BY Zenon, <3>1, <3>3 DEF Linking, Changed
      <3> QED BY Zenon, <1>3, <2>3, <3>1, <3>2, <3>4
    <2>4. CASE q = p /\ Unlink(p)
      BY Zenon, <1>5, <1>6, <2>4 DEF Unlink, procVars
    <2>5. CASE q = p /\ SettleCheck(p)
      <3>1. pc'[p] = "checked"
        BY Zenon, <2>5 DEF SettleCheck, GoTo, RTInv, TypeOK
      <3> QED BY Zenon, <1>6, <2>5, <3>1
    <2> QED BY ZenonT(60), <1>2, <1>6, <2>1, <2>2, <2>3, <2>4, <2>5 DEF LinkKind
  <1> QED BY Zenon, <1>4, <1>6 DEF Stuck

\* A file that is published for t, or found in place, is as t's settlement left it,
\* and no other settlement is about that file.
LEMMA SettlingKeeps ==
    ASSUME RTInv, NEW p \in Procs, NEW g \in Files, Publishes(p, g) \/ Finds(p, g),
           plan' = plan, NEW t \in Txs, phase[t] = "committing",
           NEW f \in Changed(plan[t]), AsSettled(t, f)
    PROVE  AsSettled(t, f)'
  <1>1. tx[p] \in Txs /\ phase[tx[p]] = "committing" /\ g \in Changed(plan[tx[p]]) /\ TypeOK
    BY Zenon, Working DEF Publishes, Finds, First, RTInv
  <1>2. done'[t] = IF t = tx[p] THEN done[t] \cup {g} ELSE done[t]
    BY Zenon, <1>1 DEF Publishes, Finds, TypeOK
  <1>3. f = g => t = tx[p]
    BY Zenon, <1>1 DEF RTInv, CommittingAreDisjoint
  <1>4. f \in Files
    BY Zenon DEF Changed
  <1>5. disk'[f] = IF f = g THEN plan[t].after[f] ELSE disk[f]
    BY ZenonT(60), <1>1, <1>3, <1>4 DEF Publishes, Finds, TypeOK
  <1> QED BY Zenon, <1>2, <1>3, <1>5 DEF AsSettled

LEMMA UndisturbedStep ==
    ASSUME ShadowWriters = {}
    PROVE  RTInv /\ Undisturbed /\ [Next]_vars => Undisturbed'
  <1> SUFFICES ASSUME RTInv, Undisturbed, [Next]_vars, edits' + faults' = 0
               PROVE  /\ raced' = {}
                      /\ \A t \in Txs : phase'[t] = "committing" =>
                            \A f \in Changed(plan[t])' : AsSettled(t, f)'
    BY Zenon DEF Undisturbed
  <1>1. CASE UNCHANGED vars
    <2>1. UNCHANGED <<edits, faults, raced, phase, plan, disk, done>>
      BY Zenon, <1>1 DEF vars, journalVars, ghostVars, countVars
    <2> QED BY Zenon, <2>1 DEF Undisturbed, AsSettled, Changed
  <1>2. CASE Next
    <2>1. edits + faults = 0 /\ edits' = edits /\ faults' = faults /\ raced' \in {raced, {}}
      BY Zenon, <1>2, CountsGrow
    <2>2. /\ raced' = {}
          /\ \A t \in Txs : phase[t] = "committing" => \A f \in Changed(plan[t]) : AsSettled(t, f)
      BY Zenon, <2>1 DEF Undisturbed
    <2>4. ASSUME NEW t \in Txs, phase'[t] = "committing", NEW f \in Changed(plan[t])'
          PROVE  AsSettled(t, f)'
      <3>1. CASE phase[t] # "committing"
        <4>1. phase[t] = "prepared" /\ Readable(t) /\ ~Conflict(t) /\ plan'[t] = plan[t]
          BY Zenon, <1>2, <2>4, <3>1, JournalMoves DEF Lifecycle, Released
        <4>2. done[t] = {} /\ f \in Changed(plan[t])
          BY ZenonT(60), <2>4, <4>1 DEF RTInv, TxInv, Changed
        <4>3. disk[f] = plan[t].before[f]
          BY Zenon, <4>1, <4>2 DEF Conflict, Readable
        <4>4. CASE UNCHANGED <<disk, done>>
          BY Zenon, <4>1, <4>2, <4>3, <4>4 DEF AsSettled
        <4>5. CASE phase' = phase
          BY Zenon, <2>4, <3>1, <4>5
        <4>6. CASE \E p \in Procs : Moves(tx[p], "manual")
          BY ZenonT(60), <2>4, <3>1, <4>6 DEF Moves, RTInv, TypeOK
        <4>7. CASE (\E p \in Procs : ShadowCommit(p)) \/ (\E g \in Files : Edit(g))
          BY Zenon, <4>5, <4>7 DEF ShadowCommit, Edit, journalVars
        <4> QED BY ZenonT(60), <1>2, StepKinds, <4>4, <4>5, <4>6, <4>7 DEF StepKind, Quiet, Begins
      <3>2. CASE phase[t] = "committing"
        <4>1. TypeOK /\ plan[t] # NoPlan
          BY Zenon, <3>2 DEF RTInv, TxInv
        <4>2. CASE plan' = plan
          <5>1. f \in Changed(plan[t]) /\ AsSettled(t, f)
            BY Zenon, <2>2, <2>4, <3>2, <4>2 DEF Changed
          <5>2. CASE UNCHANGED <<disk, done>>
            BY Zenon, <4>2, <5>1, <5>2 DEF AsSettled
          <5>3. CASE \E p \in Procs, g \in Files : Publishes(p, g) \/ Finds(p, g)
            BY ZenonT(60), <3>2, <4>2, <5>1, <5>3, SettlingKeeps
          <5>4. \A g \in Files : ~Edit(g)
            BY SMTT(60), <2>1 DEF Edit, RTInv, TypeOK
          <5>5. \A p \in Procs : ~ShadowCommit(p)
            BY Zenon DEF ShadowCommit
          <5> QED BY ZenonT(60), <1>2, StepKinds, <5>2, <5>3, <5>4, <5>5 DEF StepKind, Quiet, Begins
        <4>3. CASE \E u \in Txs : Begins(u)
          <5>1. plan'[t] = plan[t] /\ UNCHANGED <<disk, done>>
            BY Zenon, <4>1, <4>3 DEF Begins, TypeOK
          <5>2. f \in Changed(plan[t]) /\ AsSettled(t, f)
            BY Zenon, <2>2, <2>4, <3>2, <5>1 DEF Changed
          <5> QED BY Zenon, <5>1, <5>2 DEF AsSettled
        <4> QED BY Zenon, <1>2, StepKinds, <4>2, <4>3
             DEF StepKind, Quiet, Moves, ShadowCommit, Edit, journalVars
      <3> QED BY Zenon, <3>1, <3>2
    <2> QED BY Zenon, <2>2, <2>4
  <1> QED BY Zenon, <1>1, <1>2

LEMMA SnagsStep ==
    ASSUME RTInv, Undisturbed, Snags, [Next]_vars
    PROVE  Snags'
  <1>1. CASE UNCHANGED vars
    BY ZenonT(60), <1>1 DEF vars, journalVars, procVars, ghostVars, countVars, Snags, LinkInv, Stuck,
       Linking, Changed, First
  <1>2. CASE Next
    <2>1. \A p \in Procs : LinkInv(p)'
      BY Zenon, <1>2, LinkInvStep DEF Snags
    <2>2. ASSUME edits' + faults' = 0, NEW t \in Txs, phase'[t] = "manual"
          PROVE  \E f \in Changed(plan[t])' : Stuck(f)'
      <3>1. edits + faults = 0 /\ edits' = edits /\ faults' = faults
        BY Zenon, <1>2, <2>2, CountsGrow
      <3>2. (\E f \in Changed(plan[t]) : Stuck(f)) /\ phase[t] # "none"
        <4>1. CASE phase[t] = "manual"
          BY Zenon, <3>1, <4>1 DEF Snags
        <4>2. CASE phase[t] # "manual"
          <5>1. Lifecycle(t, "manual")
            BY Zenon, <1>2, <2>2, <4>2, JournalMoves
          <5>2. phase[t] = "committing" /\ \E p \in Procs : tx[p] = t /\ Foreign(p)
            BY Zenon, <3>1, <5>1 DEF Lifecycle
          <5> QED BY Zenon, <3>1, <5>2, ForeignIsStuck
        <4> QED BY Zenon, <4>1, <4>2
      <3>3. PICK f \in Changed(plan[t]) : Stuck(f)
        BY Zenon, <3>2
      <3>4. Stuck(f)'
        BY Zenon, <1>2, <3>1, <3>3, StuckStays DEF Snags
      <3>5. plan'[t] = plan[t]
        BY Zenon, <1>2, <3>2, PlansAreKept
      <3> QED BY Zenon, <3>3, <3>4, <3>5 DEF Changed
    <2> QED BY Zenon, <2>1, <2>2 DEF Snags
  <1> QED BY Zenon, <1>1, <1>2

\* When nothing else writes the collection's files, runtime commits never bring
\* each other to manual recovery, however their settlements overlap: what does
\* is a crash that left a file of that transaction with two names.
THEOREM ManualHasCause ==
    ASSUME ShadowWriters = {}
    PROVE  Spec => []ManualHasACause
  <1>1. Init => Undisturbed /\ Snags
    BY Zenon DEF Init, Undisturbed, Snags, LinkInv
  <1>2. Snags => ManualHasACause
    BY Zenon DEF Snags, Stuck, ManualHasACause, Readable
  <1>3. RTInv /\ Undisturbed /\ [Next]_vars => Undisturbed'
    BY Zenon, UndisturbedStep
  <1>4. RTInv /\ Undisturbed /\ Snags /\ [Next]_vars => Snags'
    BY Zenon, SnagsStep
  <1> QED BY <1>1, <1>2, <1>3, <1>4, RTInvariance, PTL DEF Spec

-----------------------------------------------------------------------------
(* The refinement of ClaimedMutations.                                     *)

\* What a claim resolves to is the phase of its one journal.
ClaimFacts ==
    /\ \A t \in Journals : /\ plan[t].claim \in Claims
                           /\ ClaimState[plan[t].claim] = phase[t]
                           /\ ClaimChange[plan[t].claim] = Patch(plan[t])
    /\ \A c \in Claims : (\A t \in Journals : plan[t].claim # c) =>
          ClaimState[c] = "absent" /\ ClaimChange[c] = [f \in Files |-> Keep]

LEMMA ClaimIs == RTInv => ClaimFacts
  <1> SUFFICES ASSUME RTInv PROVE ClaimFacts
    BY Zenon
  <1>1. ASSUME NEW t \in Journals
        PROVE  /\ plan[t].claim \in Claims
               /\ ClaimState[plan[t].claim] = phase[t]
               /\ ClaimChange[plan[t].claim] = Patch(plan[t])
    <2>1. plan[t].claim \in Claims
      BY Zenon DEF Journals, RTInv, TxInv
    <2>2. Of(plan[t].claim) = {t}
      BY Zenon DEF Of, RTInv, ClaimsAreUnique
    <2>3. (CHOOSE u \in Of(plan[t].claim) : TRUE) = t
      BY Zenon, <2>2
    <2> QED BY ZenonT(60), <2>1, <2>2, <2>3 DEF ClaimState, ClaimChange
  <1>2. ASSUME NEW c \in Claims, \A t \in Journals : plan[t].claim # c
        PROVE  ClaimState[c] = "absent" /\ ClaimChange[c] = [f \in Files |-> Keep]
    <2>1. Of(c) = {}
      BY Zenon, <1>2 DEF Of
    <2> QED BY Zenon, <2>1 DEF ClaimState, ClaimChange
  <1> QED BY Zenon, <1>1, <1>2 DEF ClaimFacts

\* A file is as the one settlement that owes it will leave it.
FileFacts ==
    /\ RolledForward \in [Files -> FileStates]
    /\ \A f \in Files, t \in Txs : t \in Owing(f) => RolledForward[f] = plan[t].after[f]
    /\ \A f \in Files : Owing(f) = {} => RolledForward[f] = disk[f]

LEMMA FileIs == RTInv => FileFacts
  <1> SUFFICES ASSUME RTInv PROVE FileFacts
    BY Zenon
  <1>1. ASSUME NEW f \in Files, NEW t \in Txs, t \in Owing(f)
        PROVE  RolledForward[f] = plan[t].after[f]
    <2>1. Owing(f) = {t}
      BY Zenon, <1>1 DEF Owing, RTInv, CommittingAreDisjoint
    <2>2. (CHOOSE u \in Owing(f) : TRUE) = t
      BY Zenon, <2>1
    <2> QED BY Zenon, <2>1, <2>2 DEF RolledForward
  <1>2. ASSUME NEW f \in Files, Owing(f) = {} PROVE RolledForward[f] = disk[f]
    BY Zenon, <1>2 DEF RolledForward
  <1>3. ASSUME NEW f \in Files PROVE RolledForward[f] \in FileStates
    <2>1. CASE Owing(f) = {}
      BY ZenonT(60), <1>2, <2>1 DEF RTInv, TypeOK
    <2>2. CASE Owing(f) # {}
      <3>1. PICK t \in Txs : t \in Owing(f)
        BY Zenon, <2>2 DEF Owing
      <3> QED BY SMTT(60), <1>1, <3>1 DEF RTInv, TypeOK, Plans
    <2> QED BY Zenon, <2>1, <2>2
  <1>4. RolledForward = [f \in Files |-> RolledForward[f]]
    BY SMTT(60) DEF RolledForward
  <1> QED BY Zenon, <1>1, <1>2, <1>3, <1>4 DEF FileFacts

LEMMA FactsNext ==
    ASSUME RTInv, RTInv'
    PROVE  ClaimFacts /\ ClaimFacts' /\ FileFacts /\ FileFacts'
  BY ClaimIs, FileIs, PTL

\* A step that moves the journal of one claim leaves the others alone.
LEMMA OtherClaims ==
    ASSUME RTInv, RTInv', NEW t \in Txs, NEW c,
           \A u \in Txs \ {t} : phase'[u] = phase[u] /\ plan'[u] = plan[u],
           t \in Journals => plan[t].claim = c, t \in Journals' => plan'[t].claim = c,
           NEW d \in Claims, d # c
    PROVE  ClaimState'[d] = ClaimState[d] /\ ClaimChange'[d] = ClaimChange[d]
  <1>1. ClaimFacts /\ ClaimFacts'
    BY Zenon, FactsNext
  <1>2. \A u \in Txs \ {t} : u \in Journals' <=> u \in Journals
    BY Zenon DEF Journals
  <1>3. CASE \E u \in Journals : plan[u].claim = d
    <2>1. PICK u \in Journals : plan[u].claim = d
      BY Zenon, <1>3
    <2>2. u \in Txs \ {t} /\ u \in Journals' /\ plan'[u] = plan[u] /\ phase'[u] = phase[u]
      BY Zenon, <1>2, <2>1 DEF Journals
    <2>3. Patch(plan[u])' = Patch(plan[u])
      BY Zenon, <2>2 DEF Patch, Changed
    <2>4. ClaimState[d] = phase[u] /\ ClaimChange[d] = Patch(plan[u])
      BY Zenon, <1>1, <2>1 DEF ClaimFacts
    <2>5. ClaimState'[d] = phase'[u] /\ ClaimChange'[d] = Patch(plan[u])'
      BY ZenonT(60), <1>1, <2>1, <2>2 DEF ClaimFacts
    <2> QED BY Zenon, <2>2, <2>3, <2>4, <2>5
  <1>4. CASE \A u \in Journals : plan[u].claim # d
    <2>1. \A u \in Journals' : plan'[u].claim # d
      BY Zenon, <1>2, <1>4 DEF Journals
    <2>2. ClaimState[d] = "absent" /\ ClaimChange[d] = [f \in Files |-> Keep]
      BY Zenon, <1>1, <1>4 DEF ClaimFacts
    <2>3. ClaimState'[d] = "absent" /\ ClaimChange'[d] = [f \in Files |-> Keep]
      BY ZenonT(60), <1>1, <2>1 DEF ClaimFacts
    <2> QED BY Zenon, <2>2, <2>3
  <1> QED BY Zenon, <1>3, <1>4

LEMMA ClaimsAreFunctions ==
    /\ ClaimState = [c \in Claims |-> ClaimState[c]]
    /\ ClaimChange = [c \in Claims |-> ClaimChange[c]]
    /\ ClaimState' = [c \in Claims |-> ClaimState'[c]]
    /\ ClaimChange' = [c \in Claims |-> ClaimChange'[c]]
  BY SMTT(60) DEF ClaimState, ClaimChange

\* A step that moves no journal.
LEMMA NoClaimMoves ==
    ASSUME RTInv, RTInv', NEW t \in Txs, t \notin Journals, t \notin Journals',
           \A u \in Txs \ {t} : phase'[u] = phase[u] /\ plan'[u] = plan[u]
    PROVE  ClaimState' = ClaimState /\ ClaimChange' = ClaimChange
  <1>1. \A d \in Claims : ClaimState'[d] = ClaimState[d] /\ ClaimChange'[d] = ClaimChange[d]
    BY ZenonT(60), OtherClaims, RTNames
  <1> QED BY Zenon, <1>1, ClaimsAreFunctions

\* A step that moves one journal.
LEMMA OneClaimMoves ==
    ASSUME RTInv, RTInv', NEW t \in Txs, NEW g, Moves(t, g)
    PROVE  LET c == plan[t].claim IN
           /\ t \in Journals /\ t \in Journals' =>
                 c \in Claims /\ ClaimState' = [ClaimState EXCEPT ![c] = g] /\ ClaimChange' = ClaimChange
           /\ t \in Journals /\ t \notin Journals' =>
                 /\ c \in Claims /\ ClaimState' = [ClaimState EXCEPT ![c] = "absent"]
                 /\ ClaimChange' = [ClaimChange EXCEPT ![c] = [f \in Files |-> Keep]]
           /\ t \notin Journals /\ t \in Journals' =>
                 /\ c \in Claims /\ ClaimState[c] = "absent" /\ ClaimState' = [ClaimState EXCEPT ![c] = g]
                 /\ ClaimChange' = [ClaimChange EXCEPT ![c] = Patch(plan[t])]
  <1> DEFINE c == plan[t].claim
  <1>1. /\ plan' = plan /\ phase'[t] = g
        /\ \A u \in Txs \ {t} : phase'[u] = phase[u] /\ plan'[u] = plan[u]
    BY Zenon DEF Moves, RTInv, TypeOK
  <1>2. ClaimFacts /\ ClaimFacts' /\ ClaimsAreUnique /\ ClaimsAreUnique'
    BY Zenon, FactsNext DEF RTInv
  <1>3. \A d \in Claims \ {c} : ClaimState'[d] = ClaimState[d] /\ ClaimChange'[d] = ClaimChange[d]
    BY SMTT(60), <1>1, OtherClaims
  <1>4. t \in Journals => c \in Claims /\ ClaimState[c] = phase[t] /\ ClaimChange[c] = Patch(plan[t])
    BY Zenon, <1>2 DEF ClaimFacts
  <1>5. t \in Journals' => c \in Claims /\ ClaimState'[c] = g /\ ClaimChange'[c] = Patch(plan[t])
    <2>1. Patch(plan[t])' = Patch(plan[t])
      BY Zenon, <1>1 DEF Patch, Changed
    <2> QED BY Zenon, <1>1, <1>2, <2>1 DEF ClaimFacts
  <1>6. \A u \in Txs \ {t} : u \in Journals' <=> u \in Journals
    BY Zenon, <1>1 DEF Journals
  <1>7. t \in Journals /\ t \notin Journals' =>
           ClaimState'[c] = "absent" /\ ClaimChange'[c] = [f \in Files |-> Keep]
    <2> SUFFICES ASSUME t \in Journals, t \notin Journals'
                 PROVE  ClaimState'[c] = "absent" /\ ClaimChange'[c] = [f \in Files |-> Keep]
      BY Zenon
    <2>1. \A u \in Journals' : u \in Txs \ {t} /\ u \in Journals
      BY Zenon, <1>6 DEF Journals
    <2>2. \A u \in Journals' : plan'[u].claim # c
      BY ZenonT(60), <1>1, <1>2, <2>1 DEF ClaimsAreUnique
    <2>3. c \in Claims
      BY Zenon, <1>4
    <2> QED BY Zenon, <1>2, <2>2, <2>3 DEF ClaimFacts
  <1>8. t \notin Journals /\ t \in Journals' => ClaimState[c] = "absent"
    <2> SUFFICES ASSUME t \notin Journals, t \in Journals' PROVE ClaimState[c] = "absent"
      BY Zenon
    <2>1. \A u \in Journals : u \in Txs \ {t} /\ u \in Journals'
      BY ZenonT(60), <1>6 DEF Journals
    <2>2. \A u \in Journals : plan[u].claim # c
      BY Zenon, <1>1, <1>2, <2>1 DEF ClaimsAreUnique
    <2>3. c \in Claims
      BY Zenon, <1>5
    <2> QED BY Zenon, <1>2, <2>2, <2>3 DEF ClaimFacts
  <1> HIDE DEF c
  <1>9. CASE t \in Journals /\ t \in Journals'
    BY ZenonT(60), <1>3, <1>4, <1>5, <1>9, ClaimsAreFunctions DEF c
  <1>10. CASE t \in Journals /\ t \notin Journals'
    BY ZenonT(60), <1>3, <1>4, <1>7, <1>10, ClaimsAreFunctions DEF c
  <1>11. CASE t \notin Journals /\ t \in Journals'
    BY Zenon, <1>3, <1>5, <1>8, <1>11, ClaimsAreFunctions DEF c
  <1> QED BY Zenon, <1>9, <1>10, <1>11

\* A file that a step neither writes nor makes a commit owe stays what it is.
LEMMA SameFile ==
    ASSUME RTInv, RTInv', NEW f \in Files, disk'[f] = disk[f],
           \A u \in Txs : /\ u \in Owing(f)' <=> u \in Owing(f)
                          /\ u \in Owing(f) => plan'[u] = plan[u]
    PROVE  RolledForward'[f] = RolledForward[f]
  <1>1. FileFacts /\ FileFacts'
    BY Zenon, FactsNext
  <1>2. CASE Owing(f) = {}
    <2>1. Owing(f)' = {}
      BY ZenonT(60), <1>2 DEF Owing
    <2> QED BY Zenon, <1>1, <1>2, <2>1 DEF FileFacts
  <1>3. CASE Owing(f) # {}
    <2>1. PICK t \in Txs : t \in Owing(f)
      BY Zenon, <1>3 DEF Owing
    <2> QED BY SMTT(60), <1>1, <2>1 DEF FileFacts
  <1> QED BY Zenon, <1>2, <1>3

\* Files change only where a step writes or owes something.
LEMMA OnlyThisFile ==
    ASSUME NEW f \in Files, \A e \in Files \ {f} : RolledForward'[e] = RolledForward[e]
    PROVE  RolledForward' = [RolledForward EXCEPT ![f] = RolledForward'[f]]
  <1>1. /\ RolledForward = [e \in Files |-> RolledForward[e]]
        /\ RolledForward' = [e \in Files |-> RolledForward'[e]]
    BY SMTT(60) DEF RolledForward
  <1> QED BY ZenonT(60), <1>1

LEMMA SameFiles ==
    ASSUME \A f \in Files : RolledForward'[f] = RolledForward[f]
    PROVE  RolledForward' = RolledForward
  BY Zenon DEF RolledForward

\* A step of t's journal matters only to the files that t's settlement owes.
LEMMA OthersFiles ==
    ASSUME RTInv, RTInv', NEW t \in Txs, NEW f \in Files, disk'[f] = disk[f],
           \A u \in Txs \ {t} : phase'[u] = phase[u] /\ plan'[u] = plan[u] /\ done'[u] = done[u],
           t \notin Owing(f), t \notin Owing(f)'
    PROVE  RolledForward'[f] = RolledForward[f]
  <1>1. \A u \in Txs : /\ u \in Owing(f)' <=> u \in Owing(f)
                       /\ u \in Owing(f) => plan'[u] = plan[u]
    <2> TAKE u \in Txs
    <2>1. CASE u = t
      BY Zenon, <2>1
    <2>2. CASE u # t
      BY ZenonT(60), <2>2 DEF Owing, Changed
    <2> QED BY Zenon, <2>1, <2>2
  <1> QED BY Zenon, <1>1, SameFile

LEMMA QuietRefines ==
    ASSUME Quiet
    PROVE  UNCHANGED Abstract!ClaimVars
  BY SMTT(60)
     DEF Quiet, Abstract!ClaimVars, RolledForward, ClaimState, ClaimChange, Owing, Of, Journals,
     Patch, Changed

LEMMA BeginsRefines ==
    ASSUME RTInv, RTInv', NEW t \in Txs, Begins(t)
    PROVE  UNCHANGED Abstract!ClaimVars
  <1>1. /\ phase[t] = "none" /\ phase'[t] = "bare" /\ UNCHANGED <<disk, done>>
        /\ \A u \in Txs \ {t} : phase'[u] = phase[u] /\ plan'[u] = plan[u]
    BY SMTT(60) DEF Begins, RTInv, TypeOK, TxInv
  <1>2. t \notin Journals /\ t \notin Journals' /\ \A f \in Files : t \notin Owing(f) /\ t \notin Owing(f)'
    BY Zenon, <1>1 DEF Journals, Owing
  <1>3. \A f \in Files : RolledForward'[f] = RolledForward[f]
    BY Zenon, <1>1, <1>2, OthersFiles
  <1> QED BY ZenonT(60), <1>1, <1>2, <1>3, NoClaimMoves, SameFiles DEF Abstract!ClaimVars

\* The mutation a claim was prepared with.
LEMMA PatchIs ==
    ASSUME RTInv, NEW t \in Txs
    PROVE  /\ Patch(plan[t]) \in [Files -> FileStates \cup {Keep}]
           /\ \A f \in Files : Patch(plan[t])[f] = Keep <=> f \notin Changed(plan[t])
           /\ \A f \in Changed(plan[t]) : Patch(plan[t])[f] = plan[t].after[f]
  <1>1. plan[t].after \in [Files -> FileStates]
    BY Zenon DEF RTInv, TypeOK, Plans
  <1> QED BY Zenon, <1>1, RTContents DEF Patch, Changed

\* A journal that appears or goes, or is closed, changes no file.
LEMMA JournalRefines ==
    ASSUME RTInv, RTInv', NEW t \in Txs, NEW g \in Phases, Moves(t, g), UNCHANGED <<disk, done>>,
           \A f \in Files : t \notin Owing(f) /\ t \notin Owing(f)'
    PROVE  UNCHANGED RolledForward
  <1>1. \A u \in Txs \ {t} : phase'[u] = phase[u] /\ plan'[u] = plan[u] /\ done'[u] = done[u]
    BY Zenon DEF Moves, RTInv, TypeOK
  <1>2. \A f \in Files : RolledForward'[f] = RolledForward[f]
    BY Zenon, <1>1, OthersFiles
  <1> QED BY Zenon, <1>2, SameFiles

LEMMA PrepareRefines ==
    ASSUME RTInv, RTInv', NEW t \in Txs, Moves(t, "prepared"), phase[t] = "bare", UNCHANGED <<disk,
    done>>
    PROVE  Abstract!Prepare(plan[t].claim) /\ plan[t].claim \in Claims
  <1>1. phase'[t] = "prepared"
    BY Zenon DEF Moves, RTInv, TypeOK
  <1>2. t \notin Journals /\ t \in Journals' /\ \A f \in Files : t \notin Owing(f) /\ t \notin Owing(f)'
    BY Zenon, <1>1 DEF Journals, Owing
  <1>3. UNCHANGED RolledForward
    BY Zenon, <1>2, JournalRefines DEF Phases, Open
  <1>4. Changed(plan[t]) # {}
    BY Zenon DEF RTInv, TxInv
  <1>5. Patch(plan[t]) # [f \in Files |-> Keep]
    BY Zenon, <1>4, PatchIs, ChangedIsFiles
  <1> QED BY ZenonT(60), <1>2, <1>3, <1>5, OneClaimMoves, PatchIs
             DEF Abstract!Prepare, Abstract!None

LEMMA RefuseRefines ==
    ASSUME RTInv, RTInv', NEW t \in Txs, NEW g \in {"rejected", "cancelled"}, Moves(t, g),
           phase[t] = "prepared", UNCHANGED <<disk, done>>
    PROVE  Abstract!Refuse(plan[t].claim) /\ plan[t].claim \in Claims
  <1>1. phase'[t] = g
    BY Zenon DEF Moves, RTInv, TypeOK
  <1>2. t \in Journals /\ t \in Journals' /\ \A f \in Files : t \notin Owing(f) /\ t \notin Owing(f)'
    BY Zenon, <1>1 DEF Journals, Owing
  <1>3. UNCHANGED RolledForward
    BY Zenon, <1>2, JournalRefines DEF Phases, Terminal
  <1>4. ClaimState[plan[t].claim] = "prepared"
    BY Zenon, <1>2, FactsNext DEF ClaimFacts
  <1> QED BY ZenonT(60), <1>2, <1>3, <1>4, OneClaimMoves DEF Abstract!Refuse

LEMMA SettleRefines ==
    ASSUME RTInv, RTInv', NEW t \in Txs, Moves(t, "committed"), phase[t] = "committing",
           done[t] = Changed(plan[t]), UNCHANGED <<disk, done>>
    PROVE  Abstract!Settle(plan[t].claim) /\ plan[t].claim \in Claims
  <1>1. phase'[t] = "committed"
    BY Zenon DEF Moves, RTInv, TypeOK
  <1>2. t \in Journals /\ t \in Journals' /\ \A f \in Files : t \notin Owing(f) /\ t \notin Owing(f)'
    BY Zenon, <1>1 DEF Journals, Owing
  <1>3. UNCHANGED RolledForward
    BY Zenon, <1>2, JournalRefines DEF Phases, Terminal
  <1>4. ClaimState[plan[t].claim] = "committing"
    BY Zenon, <1>2, FactsNext DEF ClaimFacts
  <1> QED BY ZenonT(60), <1>2, <1>3, <1>4, OneClaimMoves DEF Abstract!Settle

LEMMA ForgetRefines ==
    ASSUME RTInv, RTInv', NEW t \in Txs, NEW g \in {"bare", "none"}, Moves(t, g),
           phase[t] \in Terminal, UNCHANGED <<disk, done>>
    PROVE  Abstract!Forget(plan[t].claim) /\ plan[t].claim \in Claims
  <1>1. phase'[t] = g
    BY Zenon DEF Moves, RTInv, TypeOK
  <1>2. t \in Journals /\ t \notin Journals' /\ \A f \in Files : t \notin Owing(f) /\ t \notin Owing(f)'
    BY Zenon, <1>1 DEF Journals, Owing, Terminal
  <1>3. UNCHANGED RolledForward
    BY Zenon, <1>2, JournalRefines DEF Phases
  <1>4. ClaimState[plan[t].claim] \in {"committed", "rejected", "cancelled"}
    BY Zenon, <1>2, FactsNext DEF ClaimFacts, Terminal
  <1> QED BY ZenonT(60), <1>2, <1>3, <1>4, OneClaimMoves DEF Abstract!Forget, Abstract!None

\* The commit point: to hosts, every file changes at once.
LEMMA CommitRefines ==
    ASSUME RTInv, RTInv', NEW t \in Txs, Moves(t, "committing"), phase[t] = "prepared",
           Readable(t), ~Conflict(t), UNCHANGED <<disk, done>>
    PROVE  Abstract!Commit(plan[t].claim) /\ plan[t].claim \in Claims
  <1>1. /\ phase'[t] = "committing" /\ plan' = plan /\ done[t] = {} /\ done' = done
        /\ \A u \in Txs \ {t} : phase'[u] = phase[u] /\ plan'[u] = plan[u] /\ done'[u] = done[u]
    <2>1. phase \in [Txs -> Phases] /\ done[t] = {}
      BY Zenon DEF RTInv, TypeOK, TxInv
    <2> QED BY ZenonT(60), <2>1 DEF Moves
  <1>2. t \in Journals /\ t \in Journals'
    BY Zenon, <1>1 DEF Journals
  <1>3. FileFacts /\ FileFacts' /\ ClaimFacts
    BY Zenon, FactsNext
  <1>4. ASSUME NEW f \in Files, f \notin Changed(plan[t]) PROVE RolledForward'[f] = RolledForward[f]
    <2>1. t \notin Owing(f) /\ t \notin Owing(f)'
      BY Zenon, <1>1, <1>4 DEF Owing, Changed
    <2> QED BY Zenon, <1>1, <2>1, OthersFiles
  <1>5. ASSUME NEW f \in Changed(plan[t])
        PROVE  f \in Files /\ RolledForward'[f] = plan[t].after[f] /\ RolledForward[f] # plan[t].after[f]
    <2>1. f \in Files /\ plan[t].before[f] # plan[t].after[f]
      BY Zenon DEF Changed
    <2>2. t \in Owing(f)'
      BY Zenon, <1>1, <2>1 DEF Owing, Changed
    <2>3. RolledForward'[f] = plan[t].after[f]
      BY ZenonT(60), <1>1, <1>3, <2>1, <2>2 DEF FileFacts
    <2>4. Owing(f) = {}
      BY Zenon DEF Conflict, Owing
    <2>5. RolledForward[f] = disk[f] /\ disk[f] = plan[t].before[f]
      BY Zenon, <1>3, <2>1, <2>4 DEF FileFacts, Conflict, Readable
    <2> QED BY Zenon, <2>1, <2>3, <2>5
  <1>6. ClaimState[plan[t].claim] = "prepared" /\ ClaimChange[plan[t].claim] = Patch(plan[t])
    BY Zenon, <1>2, <1>3 DEF ClaimFacts
  <1>7. RolledForward' = [f \in Files |-> IF Patch(plan[t])[f] = Keep THEN RolledForward[f]
                                           ELSE Patch(plan[t])[f]]
    <2>1. \A f \in Files : RolledForward'[f] = IF Patch(plan[t])[f] = Keep THEN RolledForward[f]
                                               ELSE Patch(plan[t])[f]
      BY ZenonT(60), <1>4, <1>5, PatchIs
    <2>2. RolledForward' = [f \in Files |-> RolledForward'[f]]
      BY SMTT(60) DEF RolledForward
    <2> QED BY Zenon, <2>1, <2>2
  <1>8. RolledForward' # RolledForward
    <2>1. PICK f \in Changed(plan[t]) : TRUE
      BY ZenonT(60) DEF RTInv, TxInv
    <2> QED BY ZenonT(60), <1>5, <2>1
  <1> QED BY ZenonT(60), <1>2, <1>6, <1>7, <1>8, OneClaimMoves DEF Abstract!Commit

\* A settlement that asks for a person leaves the other files alone.
LEMMA AbandonRefines ==
    ASSUME RTInv, RTInv', NEW t \in Txs, Moves(t, "manual"), phase[t] = "committing",
           \A f \in Files \ Changed(plan[t]) : disk'[f] = disk[f],
           \A u \in Txs \ {t} : done'[u] = done[u]
    PROVE  Abstract!Abandon(plan[t].claim) /\ plan[t].claim \in Claims
  <1>1. /\ phase'[t] = "manual" /\ plan' = plan
        /\ \A u \in Txs \ {t} : phase'[u] = phase[u] /\ plan'[u] = plan[u]
    BY Zenon DEF Moves, RTInv, TypeOK
  <1>2. t \in Journals /\ t \in Journals'
    BY Zenon, <1>1 DEF Journals
  <1>3. FileFacts' /\ ClaimFacts
    BY Zenon, FactsNext
  <1>4. ASSUME NEW f \in Files, f \notin Changed(plan[t]) PROVE RolledForward'[f] = RolledForward[f]
    <2>1. t \notin Owing(f) /\ t \notin Owing(f)'
      BY Zenon, <1>1, <1>4 DEF Owing, Changed
    <2> QED BY ZenonT(60), <1>1, <1>4, <2>1, OthersFiles
  <1>5. ClaimState[plan[t].claim] = "committing" /\ ClaimChange[plan[t].claim] = Patch(plan[t])
    BY ZenonT(60), <1>2, <1>3 DEF ClaimFacts
  <1>6. \A f \in Files : ClaimChange[plan[t].claim][f] = Keep => RolledForward'[f] = RolledForward[f]
    BY ZenonT(60), <1>4, <1>5, PatchIs
  <1>7. RolledForward' \in [Files -> FileStates]
    BY Zenon, <1>3 DEF FileFacts, FileStates
  <1> QED BY ZenonT(60), <1>2, <1>5, <1>6, <1>7, OneClaimMoves DEF Abstract!Abandon

\* A file that is published, found in place or edited: to hosts, that file may change.
LEMMA WriteRefines ==
    ASSUME RTInv, RTInv', NEW f \in Files, UNCHANGED <<phase, plan>>,
           \A e \in Files \ {f} : disk'[e] = disk[e],
           \A u \in Txs : done'[u] \ {f} = done[u] \ {f}
    PROVE  Abstract!EditFile(f)
  <1>1. ASSUME NEW e \in Files \ {f} PROVE RolledForward'[e] = RolledForward[e]
    <2>1. \A u \in Txs : u \in Owing(e)' <=> u \in Owing(e)
      BY Zenon DEF Owing, Changed
    <2> QED BY Zenon, <2>1, SameFile
  <1>2. RolledForward' = [RolledForward EXCEPT ![f] = RolledForward'[f]]
    BY Zenon, <1>1, OnlyThisFile
  <1>3. RolledForward'[f] \in FileStates
    BY ZenonT(60), FactsNext DEF FileFacts, FileStates
  <1>4. ClaimState' = ClaimState /\ ClaimChange' = ClaimChange
    BY SMTT(60) DEF ClaimState, ClaimChange, Of, Journals, Patch, Changed
  <1> QED BY ZenonT(60), <1>2, <1>3, <1>4 DEF Abstract!EditFile

\* What a settlement writes belongs to its transaction.
LEMMA SettlingWrites ==
    ASSUME RTInv, NEW p \in Procs, NEW f \in Files, Publishes(p, f) \/ Finds(p, f)
    PROVE  /\ tx[p] \in Txs /\ phase[tx[p]] = "committing" /\ f \in Changed(plan[tx[p]])
           /\ \A e \in Files \ {f} : disk'[e] = disk[e]
           /\ \A u \in Txs \ {tx[p]} : done'[u] = done[u]
           /\ done'[tx[p]] = done[tx[p]] \cup {f}
  <1>1. tx[p] \in Txs /\ phase[tx[p]] = "committing" /\ f \in Changed(plan[tx[p]]) /\ TypeOK
    BY Zenon, Working DEF Publishes, Finds, First, RTInv
  <1> QED BY Zenon, <1>1 DEF Publishes, Finds, TypeOK

LEMMA MoveRefines ==
    ASSUME RTInv, RTInv', NEW t \in Txs, NEW g \in Phases, Moves(t, g), Lifecycle(t, g),
           UNCHANGED <<disk, done>>
    PROVE  [Abstract!ClaimNext]_(Abstract!ClaimVars)
  <1>1. CASE phase[t] = "bare" /\ g = "none"
    <2>1. /\ phase'[t] = "none"
          /\ \A u \in Txs \ {t} : phase'[u] = phase[u] /\ plan'[u] = plan[u]
      BY ZenonT(60), <1>1 DEF Moves, RTInv, TypeOK
    <2>2. t \notin Journals /\ t \notin Journals' /\ \A f \in Files : t \notin Owing(f) /\ t \notin Owing(f)'
      BY Zenon, <1>1, <2>1 DEF Journals, Owing
    <2> QED BY ZenonT(60), <2>1, <2>2, NoClaimMoves, JournalRefines DEF Abstract!ClaimVars
  <1>2. CASE phase[t] = "bare" /\ g = "prepared"
    BY Zenon, <1>2, PrepareRefines DEF Abstract!ClaimNext
  <1>3. CASE phase[t] = "prepared" /\ g \in {"rejected", "cancelled"}
    BY Zenon, <1>3, RefuseRefines DEF Abstract!ClaimNext
  <1>4. CASE phase[t] = "prepared" /\ g = "committing" /\ Readable(t) /\ ~Conflict(t)
    BY Zenon, <1>4, CommitRefines DEF Abstract!ClaimNext
  <1>5. CASE phase[t] = "committing" /\ g = "committed" /\ done[t] = Changed(plan[t])
    BY Zenon, <1>5, SettleRefines DEF Abstract!ClaimNext
  <1>6. CASE phase[t] = "committing" /\ g = "manual"
    BY ZenonT(60), <1>6, AbandonRefines DEF Abstract!ClaimNext
  <1>7. CASE Released(t) /\ g \in {"bare", "none"}
    BY Zenon, <1>7, ForgetRefines DEF Abstract!ClaimNext, Released
  <1> QED BY ZenonT(60), <1>1, <1>2, <1>3, <1>4, <1>5, <1>6, <1>7 DEF Lifecycle

LEMMA StepRefines ==
    ASSUME ShadowWriters = {}
    PROVE  RTInv /\ RTInv' /\ [Next]_vars => [Abstract!ClaimNext]_(Abstract!ClaimVars)
  <1> SUFFICES ASSUME RTInv, RTInv', [Next]_vars
               PROVE  [Abstract!ClaimNext]_(Abstract!ClaimVars)
    BY Zenon
  <1>1. CASE Quiet
    BY Zenon, <1>1, QuietRefines
  <1>2. CASE UNCHANGED vars
    <2>1. Quiet
      BY Zenon, <1>2 DEF vars, journalVars, ghostVars, Quiet
    <2> QED BY Zenon, <2>1, QuietRefines
  <1>3. CASE \E t \in Txs : Begins(t)
    BY Zenon, <1>3, BeginsRefines
  <1>4. CASE \E t \in Txs, g \in Phases : Moves(t, g) /\ Lifecycle(t, g) /\ UNCHANGED <<disk, done>>
    BY Zenon, <1>4, MoveRefines
  <1>5. ASSUME NEW p \in Procs, NEW f \in Files, Publishes(p, f) \/ Finds(p, f), UNCHANGED <<phase, plan>>
        PROVE  Abstract!ClaimNext
    <2>1. /\ \A e \in Files \ {f} : disk'[e] = disk[e]
          /\ \A u \in Txs : done'[u] \ {f} = done[u] \ {f}
      BY Zenon, <1>5, SettlingWrites
    <2>2. Abstract!EditFile(f)
      BY Zenon, <1>5, <2>1, WriteRefines
    <2> QED BY Zenon, <2>2 DEF Abstract!ClaimNext
  <1>6. ASSUME NEW p \in Procs, NEW f \in Files, Publishes(p, f), Moves(tx[p], "manual")
        PROVE  Abstract!ClaimNext
    <2>1. /\ tx[p] \in Txs /\ phase[tx[p]] = "committing"
          /\ \A e \in Files \ Changed(plan[tx[p]]) : disk'[e] = disk[e]
          /\ \A u \in Txs \ {tx[p]} : done'[u] = done[u]
      BY Zenon, <1>6, SettlingWrites
    <2> QED BY ZenonT(60), <1>6, <2>1, AbandonRefines DEF Abstract!ClaimNext
  <1>7. ASSUME NEW f \in Files, Edit(f) PROVE Abstract!ClaimNext
    <2>1. UNCHANGED <<phase, plan>> /\ done' = done /\ \A e \in Files \ {f} : disk'[e] = disk[e]
      BY ZenonT(60), <1>7 DEF Edit, journalVars, RTInv, TypeOK
    <2>2. Abstract!EditFile(f)
      BY Zenon, <2>1, WriteRefines
    <2> QED BY Zenon, <2>2 DEF Abstract!ClaimNext
  <1>8. \A p \in Procs : ~ShadowCommit(p)
    BY Zenon DEF ShadowCommit
  <1> QED BY ZenonT(60), <1>1, <1>2, <1>3, <1>4, <1>5, <1>6, <1>7, <1>8, StepKinds DEF StepKind

\* To hosts a commit is one step that changes every file or none, and a claim goes
\* through the life cycle that ClaimedMutations has, through crashes, I/O errors and
\* edits, when no other process makes shadow commits.
THEOREM ClaimsRefinement ==
    ASSUME ShadowWriters = {}
    PROVE  Spec => ImplementsClaims
  <1>1. Init => Abstract!ClaimInit
    <2> SUFFICES ASSUME Init PROVE Abstract!ClaimInit
      BY Zenon
    <2>1. Journals = {} /\ \A f : Owing(f) = {}
      BY Zenon DEF Init, Journals, Owing
    <2>2. \A c : Of(c) = {}
      BY Zenon, <2>1 DEF Of
    <2>3. disk \in [Files -> FileStates]
      BY Zenon, RTInitial DEF Init
    <2> QED BY ZenonT(60), <2>1, <2>2, <2>3
               DEF Abstract!ClaimInit, Abstract!None, RolledForward, ClaimState, ClaimChange
  <1>2. RTInv /\ RTInv' /\ [Next]_vars => [Abstract!ClaimNext]_(Abstract!ClaimVars)
    BY Zenon, StepRefines
  <1> QED BY <1>1, <1>2, RTInvariance, PTL DEF Spec, ImplementsClaims, Abstract!ClaimSpec

=============================================================================
