----------------------- MODULE WorkflowRuntimeProofs -----------------------
(***************************************************************************)
(* The runtime as a whole keeps what the engine and admission keep each on *)
(* its own, and a replacement never overlaps with what it replaces         *)
(* (RuntimeInv of WorkflowRuntime).                                        *)
(***************************************************************************)
EXTENDS WorkflowRuntime, RunAdmissionProofs, WorkflowEngineProofs

-----------------------------------------------------------------------------
(* The engine, as admission sees it.                                       *)

\* Runs go on without one being started, and nothing else happens to the store.
GoOn ==
    /\ \A r \in Runs : Follows(runs[r], runs'[r])
    /\ \A r \in Runs \ present : runs'[r] = runs[r]
    /\ present' = present /\ now' = now

LEMMA StillGoOn ==
    ASSUME runs' = runs, present' = present, now' = now
    PROVE  GoOn
  BY ZenonT(60), FollowsItself DEF GoOn

\* A commit of the engine is something admission allows for.
LEMMA CommitGoesOn ==
    ASSUME TypeOK, WorkInv, NEW w \in Workers, pc[w] # "idle", SoundCommit(w), FormCommit(w)
    PROVE  GoOn
  <1>0. PICK c \in Claim : \E label : Commit(w, c, label) /\ Form(w, c.run, label)
    BY Zenon DEF FormCommit
  <1>1. PICK label : Commit(w, c, label) /\ Form(w, c.run, label)
    BY ZenonT(60), <1>0
  <1>2. CASE ~CommitAllowed(w, Id(w), Run(w)) /\ Leave(w) /\ UNCHANGED leaseVars
    BY ZenonT(60), <1>2, StillGoOn DEF leaseVars
  <1>3. CASE CommitRun(w, Id(w), Run(w), c.run)
    <2> DEFINE r == Id(w)
               new == NextRevision(c.run)
    <2>1. r \in Runs /\ Run(w) = runs[r] /\ Run(w).status = "running" /\ r \in present
      BY ZenonT(60), <1>3, AcceptedIsCurrent DEF CommitRun, CommitAllowed
    <2>2. /\ runs'[r] = new /\ \A q \in Runs : q # r => runs'[q] = runs[q]
          /\ present' = present /\ now' = now
      BY ZenonT(60), <1>3, <2>1 DEF CommitRun, TypeOK, LeaseTypeOK
    <2>3. Good(r, Run(w))
      BY ZenonT(60), InHand
    <2>4. Good(r, c.run) /\ Pinned(Run(w), c.run)
      BY ZenonT(60), <1>1, <2>1, <2>3, FormGood, FormPins
    <2>5. Pinned(c.run, new)
      BY ZenonT(60), <2>4, StepsPin DEF Good, Shape
    <2>6. Pinned(runs[r], runs'[r])
      BY ZenonT(60), <2>1, <2>2, <2>4, <2>5, PinsAdd
    <2>7. /\ runs'[r].status = runs[r].status \/ Terminal(runs'[r].status)
          /\ runs'[r].cancel = runs[r].cancel
      <3>1. RunsKept \/ \E s \in Contract!Ended : EndSeen(r, s)
        BY ZenonT(60), CommitSeen
      <3>2. CASE RunsKept
        BY ZenonT(60), <2>1, <3>2 DEF RunsKept
      <3>3. ASSUME NEW s \in Contract!Ended, EndSeen(r, s)
            PROVE  Terminal(runs'[r].status) /\ runs'[r].cancel = runs[r].cancel
        <4>1. RunStatus' = [RunStatus EXCEPT ![r] = s]
          BY ZenonT(60), <3>3 DEF EndSeen, BecomesSeen
        <4>2. RunStatus'[r] = s
          BY ZenonT(60), <2>1, <4>1 DEF RunStatus
        <4>3. runs'[r].status = s
          BY ZenonT(60), <2>1, <4>2 DEF RunStatus
        <4>4. Good(r, new) /\ new.cancel = c.run.cancel
          BY ZenonT(60), <2>1, <2>4, NextRevisionGood
        <4>5. runs'[r].cancel = runs[r].cancel
          <5>1. CancelIntent' = CancelIntent
            BY ZenonT(60), <3>3 DEF EndSeen, BecomesSeen
          <5>2. runs[r].cancel \in BOOLEAN /\ runs'[r].cancel \in BOOLEAN
            BY ZenonT(60), <2>1, <2>2, <2>3, <4>4 DEF Good, Shape, RunRecord
          <5> QED BY ZenonT(60), <2>1, <5>1, <5>2 DEF CancelIntent
        <4> QED BY ZenonT(60), <4>3, <4>5 DEF Terminal, Contract!Ended
      <3> QED BY ZenonT(60), <3>1, <3>2, <3>3
    <2>8. Follows(runs[r], runs'[r])
      <3>1. ~Terminal(runs[r].status)
        BY ZenonT(60), <2>1 DEF Terminal
      <3>2. \A s : Terminal(s) => s \notin {"queued", "running", "waiting"}
        BY ZenonT(60) DEF Terminal
      <3> QED BY ZenonT(60), <2>6, <2>7, <3>1, <3>2 DEF Follows, Pinned
    <2> QED BY ZenonT(60), <2>1, <2>2, <2>8, FollowsItself DEF GoOn
  <1> QED BY ZenonT(60), <1>1, <1>2, <1>3 DEF Commit

\* A cancellation is too.
LEMMA CancelGoesOn ==
    ASSUME TypeOK, WorkInv, NEW r \in Runs, CancelRun(r)
    PROVE  GoOn
  <1> DEFINE new == NextRevision(RequestCancel(runs[r]))
  <1>1. /\ r \in present /\ runs'[r] = new /\ \A q \in Runs : q # r => runs'[q] = runs[q]
        /\ present' = present /\ now' = now
    BY ZenonT(60) DEF CancelRun, TypeOK, LeaseTypeOK
  <1>2. Follows(runs[r], new)
    BY ZenonT(60), CancelRecord DEF TypeOK, LeaseTypeOK
  <1> QED BY ZenonT(60), <1>1, <1>2, FollowsItself DEF GoOn

\* All the engine does is start a run or let runs go on.
LEMMA EngineGoesOn ==
    ASSUME TypeOK, WorkInv, Next
    PROVE  GoOn \/ \E w \in Workers : WorkOnce(w)
  <1>1. ASSUME UNCHANGED leaseVars PROVE GoOn
    BY ZenonT(60), <1>1, StillGoOn DEF leaseVars
  <1>2. ASSUME NEW w \in Workers, PlainCommit(w) \/ CallAnswered(w)
        PROVE  GoOn
    BY ZenonT(60), <1>2, PlainSound, AnswerSound, CommitForms, CommitGoesOn
  <1>3. ASSUME NEW w \in Workers, CallUnknown(w)
        PROVE  GoOn
    BY ZenonT(60), <1>1, <1>3, UnknownSound, CommitForms, CommitGoesOn
  <1>4. ASSUME NEW w \in Workers, WorkIdle(w)
        PROVE  GoOn
    BY ZenonT(60), <1>4, StillGoOn DEF WorkIdle, ClaimNothing
  <1>5. ASSUME NEW w \in Workers, RecoverIdempotent(w) \/ StartLoop(w) \/ CallProvider(w) \/ Crash(w)
        PROVE  GoOn
    BY ZenonT(60), <1>1, <1>5 DEF RecoverIdempotent, StartLoop, CallProvider, Crash, Goto
  <1>6. ASSUME NEW r \in Runs, Lapse(r) \/ Cancel(r) \/ DeadlinePasses(r)
        PROVE  GoOn
    BY ZenonT(60), <1>1, <1>6, StillGoOn, CancelGoesOn DEF Lapse, LeaseExpires, Cancel, DeadlinePasses
  <1> QED BY ZenonT(60), <1>1, <1>2, <1>3, <1>4, <1>5, <1>6, NextCases

\* What a step of the engine leaves of admission's invariant: all of it.
LEMMA EngineAdmission ==
    ASSUME TypeOK, WorkInv, AdmissionInv, EngineStep, LeaseTypeOK'
    PROVE  /\ AdmissionInv' /\ present' = present
           /\ \/ GoOn /\ started' = started
              \/ \E w \in Workers, r \in Runs : ClaimRun(w, r) /\ started' = started \cup {r}
  <1>1. UNCHANGED <<head, seen>> /\ Next
        /\ started' = started \cup {q \in present : runs'[q].status = "running"}
    BY ZenonT(60) DEF EngineStep
  <1>2. \A q \in present : runs[q].status = "running" => q \in started
    BY Zenon DEF AdmissionInv, StartedIsKept
  <1>3. present \subseteq Runs /\ AdmissionTypeOK
    BY Zenon DEF AdmissionInv, AdmissionTypeOK, LeaseTypeOK
  <1>4. CASE GoOn
    <2>1. \A q \in present : runs'[q].status = "running" => q \in started
      BY ZenonT(60), <1>2, <1>3, <1>4 DEF GoOn, Follows
    <2>2. started' = started
      BY ZenonT(60), <1>1, <2>1
    <2>3. AdmissionTypeOK'
      BY ZenonT(60), <1>1, <1>3, <2>2 DEF AdmissionTypeOK
    <2>4. AdmissionInv'
      BY ZenonT(60), <1>1, <1>4, <2>2, <2>3, GoOnPreserves DEF GoOn
    <2> QED BY ZenonT(60), <1>4, <2>2, <2>4 DEF GoOn
  <1>5. ASSUME NEW w \in Workers, WorkOnce(w)
        PROVE  /\ AdmissionInv' /\ present' = present
               /\ \E r \in Runs : ClaimRun(w, r) /\ started' = started \cup {r}
    <2>1. PICK r \in Runs : ClaimRun(w, r)
      BY ZenonT(60), <1>5 DEF WorkOnce
    <2>2. r \in present /\ runs'[r].status = "running"
      BY ZenonT(60), <2>1, ClaimRecords
    <2>3. present' = present /\ \A q \in Runs : q # r => runs'[q] = runs[q]
      BY ZenonT(60), <2>1 DEF ClaimRun, TypeOK, LeaseTypeOK
    <2>4. \A q \in present : q # r /\ runs'[q].status = "running" => q \in started
      BY ZenonT(60), <1>2, <1>3, <2>3
    <2>5. started' = started \cup {r}
      BY ZenonT(60), <1>1, <2>2, <2>4
    <2>6. AdmissionInv'
      BY ZenonT(60), <1>1, <2>1, <2>5, ClaimPreserves
    <2> QED BY ZenonT(60), <2>1, <2>3, <2>5, <2>6
  <1> QED BY ZenonT(60), <1>1, <1>4, <1>5, EngineGoesOn

\* A replacement starts when its predecessors are over, and they stay so.
LEMMA EngineOver ==
    ASSUME TypeOK, WorkInv, AdmissionInv, PredecessorsAreOver, AbsentAreQueued,
           EngineStep, LeaseTypeOK', RecordsKept
    PROVE  PredecessorsAreOver' /\ AbsentAreQueued'
  <1>1. started \subseteq Runs /\ started \subseteq present /\ present \subseteq Runs
    BY ZenonT(60) DEF AdmissionInv, AdmissionTypeOK, LeaseTypeOK, StartedIsKept
  <1>2. \A r \in present : runs[r].blockers \subseteq present
    BY ZenonT(60) DEF AdmissionInv, PredecessorsEnd
  <1>3. ASSUME NEW r \in present, NEW b \in runs[r].blockers,
               Terminal(runs[b].status), runs[b].status # "indeterminate"
        PROVE  Terminal(runs'[b].status) /\ runs'[b].status # "indeterminate"
    BY ZenonT(60), <1>1, <1>2, <1>3 DEF RecordsKept
  <1>4. CASE GoOn /\ started' = started
    <2>1. \A r \in Runs : runs'[r].blockers = runs[r].blockers
      BY ZenonT(60), <1>4 DEF GoOn, Follows
    <2>2. PredecessorsAreOver'
      BY ZenonT(60), <1>1, <1>3, <1>4, <2>1 DEF PredecessorsAreOver
    <2>3. AbsentAreQueued'
      BY ZenonT(60), <1>4 DEF AbsentAreQueued, GoOn
    <2> QED BY ZenonT(60), <2>2, <2>3
  <1>5. ASSUME NEW w \in Workers, NEW r \in Runs, ClaimRun(w, r), started' = started \cup {r},
               present' = present
        PROVE  PredecessorsAreOver' /\ AbsentAreQueued'
    <2>1. /\ r \in present /\ GroupIsRunnable(r)
          /\ \A o \in Runs : runs'[o].blockers = runs[o].blockers
      BY ZenonT(60), <1>5, ClaimRecords
    <2>2. \A q \in Runs : q # r => runs'[q] = runs[q]
      BY ZenonT(60), <1>5 DEF ClaimRun, TypeOK, LeaseTypeOK
    <2>3. ASSUME NEW b \in runs[r].blockers
          PROVE  Terminal(runs[b].status) /\ runs[b].status # "indeterminate"
      <3>1. /\ b \in present /\ SameGroup(b, r) /\ Plans[r].policy = "replace"
            /\ Terminal(runs[b].status) \/ runs[b].status = "running"
        BY ZenonT(60), <2>1, <2>3 DEF AdmissionInv, PredecessorsEnd
      <3>2. Plans[r].policy # "allow" /\ b # r /\ Plans[b].group = Plans[r].group
        BY ZenonT(60), <3>1 DEF SameGroup
      <3>3. runs[b].status # "running" /\ runs[b].status # "indeterminate"
        BY ZenonT(60), <2>1, <2>3, <3>1, <3>2 DEF GroupIsRunnable
      <3> QED BY ZenonT(60), <3>1, <3>3
    <2>4. ASSUME NEW q \in started', NEW b \in runs'[q].blockers
          PROVE  Terminal(runs'[b].status) /\ runs'[b].status # "indeterminate"
      <3>1. q \in present /\ q \in Runs /\ b \in runs[q].blockers
        BY ZenonT(60), <1>1, <1>5, <2>1, <2>4
      <3>2. Terminal(runs[b].status) /\ runs[b].status # "indeterminate"
        BY ZenonT(60), <1>5, <2>3, <2>4, <3>1 DEF PredecessorsAreOver
      <3> QED BY ZenonT(60), <1>3, <3>1, <3>2
    <2>5. AbsentAreQueued'
      BY ZenonT(60), <1>5, <2>1, <2>2 DEF AbsentAreQueued
    <2> QED BY ZenonT(60), <2>4, <2>5 DEF PredecessorsAreOver
  <1> QED BY ZenonT(60), <1>4, <1>5, EngineAdmission

\* Every step of the engine preserves the invariant.
LEMMA EngineKeeps ==
    ASSUME RuntimeInv, EngineStep
    PROVE  IInv' /\ (ClaimsKnown' => RuntimeInv')
  <1>1. IInv /\ ContractInv /\ SuccessInv /\ AdmissionInv /\ PredecessorsAreOver /\ AbsentAreQueued
    BY ZenonT(60) DEF RuntimeInv
  <1>2. Next /\ TypeOK /\ WorkInv
    BY ZenonT(60), <1>1 DEF EngineStep, IInv
  <1>3. TypeOK' /\ WorkInv' /\ DoubtInv' /\ RecordsKept
    BY ZenonT(60), <1>1, <1>2, WorkStep, DoubtStep, KeepStep
  <1>4. AdmissionInv'
    BY ZenonT(60), <1>1, <1>2, <1>3, EngineAdmission DEF TypeOK
  <1>5. PredecessorsAreOver' /\ AbsentAreQueued'
    BY ZenonT(60), <1>1, <1>2, <1>3, EngineOver DEF TypeOK
  <1>6. ClaimsKnown' => ContractInv'
    BY ZenonT(60), <1>1, <1>2, <1>3, ContractInvStep
  <1>7. SuccessInv'
    BY ZenonT(60), <1>1, <1>2, SuccessInvStep
  <1> QED BY ZenonT(60), <1>3, <1>4, <1>5, <1>6, <1>7 DEF RuntimeInv, IInv

-----------------------------------------------------------------------------
(* Admission, as the engine sees it.                                       *)

\* What admission makes of run o: what has ended it leaves alone; of what is
\* under way it at most asks the cancellation, under a new revision and with
\* the lease as it is; what waits it keeps waiting or ends.
Carried(o, st) ==
    LET old == runs[o]
        new == st.runs[o]
    IN  /\ Good(o, new) /\ Witnessed(o, new)
        /\ Terminal(new.status) => st.lease[o] = NoWorker
        /\ o \notin st.present => new.status = "queued"
        /\ Terminal(old.status) => new = old
        /\ old.status = "running" =>
              /\ st.lease[o] = lease[o] /\ new.status = "running"
              /\ new.active = old.active /\ new.attempts = old.attempts
              /\ new.blockers = old.blockers
              /\ old.revision <= new.revision
              /\ new.revision = old.revision => new = old
        /\ old.status = "queued" => new.status \in {"queued", "cancelled"}

\* The statuses runs have in the composed runtime.
Running == \A o \in Runs : runs[o].status \in {"queued", "running"} \/ Terminal(runs[o].status)

LEMMA StatusesDiffer ==
    /\ ~Terminal("queued") /\ ~Terminal("running") /\ ~Terminal("waiting") /\ Terminal("cancelled")
  BY ZenonT(60) DEF Terminal

\* A record that waits, in the place of one that did.
LEMMA WaitingCarried ==
    ASSUME NEW o \in Runs, NEW st, NEW new, Carried(o, st), Running,
           st.runs[o].status = "queued", new.runs[o].status = "queued",
           Good(o, new.runs[o]), Witnessed(o, new.runs[o])
    PROVE  Carried(o, new)
  <1>1. runs[o].status = "queued"
    BY ZenonT(60), StatusesDiffer DEF Carried, Running
  <1> QED BY ZenonT(60), <1>1, StatusesDiffer DEF Carried

\* A run that nothing is done to.
LEMMA LeftCarried ==
    ASSUME NEW o \in Runs, NEW st, NEW new, Carried(o, st),
           new.runs[o] = st.runs[o], new.lease[o] = st.lease[o], o \in st.present => o \in new.present
    PROVE  Carried(o, new)
  BY ZenonT(60) DEF Carried

\* Superseded runs are dropped.
LEMMA DiscardCarries ==
    ASSUME NEW st \in Stores, \A o \in Runs : Carried(o, st), Running, NEW r \in Runs
    PROVE  LET rest == Discard(st, Obsolete(st, r))
           IN  rest \in Stores /\ \A o \in Runs : Carried(o, rest)
  <1> DEFINE gone == Obsolete(st, r)
             rest == Discard(st, gone)
  <1>1. gone \in SUBSET st.present /\ \A o \in gone : st.runs[o].status = "queued"
    BY ZenonT(60) DEF Obsolete
  <1>2. st.present \subseteq Runs
    BY ZenonT(60) DEF Stores
  <1> HIDE DEF gone
  <1>3. /\ rest \in Stores /\ rest.present = st.present \ gone
        /\ \A o \in Runs \ gone : rest.runs[o] = st.runs[o] /\ rest.lease[o] = st.lease[o]
        /\ \A o \in gone : rest.runs[o] = Absent(o)
    BY SMTT(60), <1>1, DiscardStore
  <1> HIDE DEF rest
  <1>4. ASSUME NEW o \in Runs, o \in gone PROVE Carried(o, rest)
    <2>1. 0 \in Nat /\ {} \in SUBSET Runs
      BY SMTT(60)
    <2>2. Good(o, Absent(o)) /\ Absent(o).status = "queued" /\ Witnessed(o, Absent(o))
      BY ZenonT(60), <2>1, AdmittedGood, AdmittedWitnessed DEF Absent
    <2> QED BY ZenonT(60), <1>1, <1>3, <1>4, <2>2, WaitingCarried
  <1>5. ASSUME NEW o \in Runs, o \notin gone PROVE Carried(o, rest)
    BY ZenonT(60), <1>3, <1>5, LeftCarried
  <1> QED BY ZenonT(60), <1>3, <1>4, <1>5 DEF rest, gone

\* The predecessors of a replacement are cancelled.
LEMMA CancelCarries ==
    ASSUME LeaseTypeOK, NEW st \in Stores, \A o \in Runs : Carried(o, st), Running, NEW group
    PROVE  LET active == ActiveGroupRuns(st, group)
               new == CancelAll(st, active)
           IN  /\ new \in Stores /\ new.present = st.present /\ active \in SUBSET Runs
               /\ \A o \in Runs : Carried(o, new)
  <1> DEFINE active == ActiveGroupRuns(st, group)
             new == CancelAll(st, active)
  <1>1. /\ active \in SUBSET Runs /\ active \subseteq st.present
        /\ \A o \in active : OccupiesGroup(st.runs[o].status)
    BY ZenonT(60) DEF ActiveGroupRuns, Stores
  <1> HIDE DEF active
  <1>2. /\ new \in Stores /\ new.present = st.present
        /\ \A o \in Runs \ active : new.runs[o] = st.runs[o] /\ new.lease[o] = st.lease[o]
        /\ \A o \in active :
              /\ new.runs[o] = NextRevision(RequestCancel(st.runs[o]))
              /\ new.lease[o] = IF Terminal(RequestCancel(st.runs[o]).status)
                                THEN NoWorker ELSE st.lease[o]
    BY ZenonT(60), <1>1, CancelStore
  <1> HIDE DEF new
  <1>3. ASSUME NEW o \in Runs, o \in active PROVE Carried(o, new)
    <2> DEFINE x == st.runs[o]
               mid == RequestCancel(x)
               y == NextRevision(mid)
    <2>1. Good(o, x) /\ x.status \in {"queued", "running", "waiting"} /\ o \in new.present
      BY ZenonT(60), <1>1, <1>2, <1>3 DEF Carried, OccupiesGroup
    <2>2. /\ Good(o, mid) /\ mid.revision = x.revision /\ mid.attempts = x.attempts
          /\ x.status \in {"queued", "waiting"} => mid.status = "cancelled"
          /\ x.status \notin {"queued", "waiting"} => mid.status = x.status /\ mid.active = x.active
      BY ZenonT(60), <2>1, RequestCancelGood
    <2>3. x.revision \in Nat
      BY ZenonT(60), <2>1 DEF Good, Shape, RunRecord
    <2>9. y.blockers = x.blockers
      BY ZenonT(60), <2>1, CancelRecord DEF Good, Shape, Follows
    <2>10. Witnessed(o, y)
      <3>1. Witnessed(o, x) /\ ~Terminal(x.status)
        BY ZenonT(60), <2>1, StatusesDiffer DEF Carried
      <3> QED BY ZenonT(60), <2>1, <3>1, CancelWitnessed
    <2> HIDE DEF mid, x
    <2>4. /\ Good(o, y) /\ y.status = mid.status /\ y.active = mid.active
          /\ y.attempts = mid.attempts /\ y.revision = mid.revision + 1
      BY ZenonT(60), <2>2, NextRevisionGood
    <2> HIDE DEF y
    <2>5. ASSUME NEW k \in Nat, k <= x.revision
          PROVE  k <= y.revision /\ y.revision # k
      BY SMTT(60), <2>2, <2>3, <2>4, <2>5
    <2>6. /\ new.runs[o] = y
          /\ new.lease[o] = IF Terminal(mid.status) THEN NoWorker ELSE st.lease[o]
      BY ZenonT(60), <1>2, <1>3 DEF y, mid, x
    <2>7. CASE x.status = "running"
      <3>1. runs[o].status = "running"
        BY ZenonT(60), <2>7, StatusesDiffer DEF Carried, Running, x
      <3>2. /\ st.lease[o] = lease[o] /\ x.active = runs[o].active
            /\ x.attempts = runs[o].attempts /\ x.blockers = runs[o].blockers
            /\ runs[o].revision <= x.revision
        BY ZenonT(60), <3>1 DEF Carried, x
      <3>3. runs[o].revision <= y.revision /\ y.revision # runs[o].revision
        <4>1. runs[o].revision \in Nat
          BY ZenonT(60), <3>1 DEF LeaseTypeOK, RunRecord
        <4> QED BY ZenonT(60), <2>5, <3>2, <4>1
      <3>4. mid.status = "running" /\ mid.active = x.active
        BY ZenonT(60), <2>2, <2>7
      <3> QED BY ZenonT(60), <2>1, <2>2, <2>4, <2>6, <2>9, <2>10, <3>1, <3>2, <3>3, <3>4, StatusesDiffer DEF Carried
    <2>8. CASE x.status \in {"queued", "waiting"}
      <3>1. runs[o].status = "queued"
        BY ZenonT(60), <2>8, StatusesDiffer DEF Carried, Running, x
      <3>2. y.status = "cancelled" /\ new.lease[o] = NoWorker
        BY ZenonT(60), <2>2, <2>4, <2>6, <2>8, StatusesDiffer
      <3> QED BY ZenonT(60), <2>1, <2>4, <2>6, <2>10, <3>1, <3>2, StatusesDiffer DEF Carried
    <2> QED BY ZenonT(60), <2>1, <2>7, <2>8
  <1>4. ASSUME NEW o \in Runs, o \notin active PROVE Carried(o, new)
    BY ZenonT(60), <1>2, <1>4, LeftCarried
  <1> QED BY ZenonT(60), <1>1, <1>2, <1>3, <1>4 DEF new, active

\* A run joins.
LEMMA InsertCarries ==
    ASSUME NEW st \in Stores, \A o \in Runs : Carried(o, st), Running, now \in Nat,
           NEW r \in Runs, r \notin st.present, NEW c \in Nat, NEW blockers \in SUBSET Runs
    PROVE  LET new == Insert(st, r, c, blockers)
           IN  new \in Stores /\ \A o \in Runs : Carried(o, new)
  <1> DEFINE new == Insert(st, r, c, blockers)
  <1>1. /\ new \in Stores /\ new.present = st.present \cup {r}
        /\ \A o \in Runs \ {r} : new.runs[o] = st.runs[o]
        /\ new.runs[r] = Admitted(r, c, now, blockers) /\ new.lease = st.lease
    BY SMTT(60), InsertStore
  <1> HIDE DEF new
  <1>2. Good(r, new.runs[r]) /\ new.runs[r].status = "queued" /\ Witnessed(r, new.runs[r])
    <2> DEFINE rec == Admitted(r, c, now, blockers)
    <2>1. Good(r, rec) /\ rec.status = "queued" /\ Witnessed(r, rec)
      BY ZenonT(60), AdmittedGood, AdmittedWitnessed
    <2> HIDE DEF rec
    <2>2. new.runs[r] = rec
      BY ZenonT(60), <1>1 DEF rec
    <2> QED BY ZenonT(60), <2>1, <2>2
  <1>3. Carried(r, new)
    <2>1. st.runs[r].status = "queued"
      BY ZenonT(60) DEF Carried
    <2> QED BY ZenonT(60), <1>2, <2>1, WaitingCarried
  <1>4. \A o \in Runs : o # r => Carried(o, new)
    BY ZenonT(60), <1>1, LeftCarried
  <1> QED BY ZenonT(60), <1>1, <1>3, <1>4 DEF new

\* One planned run.
LEMMA AdmitRunCarries ==
    ASSUME LeaseTypeOK, NEW st \in Stores, \A o \in Runs : Carried(o, st), Running, now \in Nat,
           NEW r \in Runs, NEW c \in Nat
    PROVE  LET new == AdmitRun(st, r, c)
           IN  new \in Stores /\ \A o \in Runs : Carried(o, new)
  <1> DEFINE rest   == Discard(st, Obsolete(st, r))
             active == ActiveGroupRuns(rest, Plans[r].group)
             mid    == CancelAll(rest, active)
             new    == AdmitRun(st, r, c)
  <1>1. \/ new = st
        \/ new = rest
        \/ /\ ~Duplicate(rest, r)
           /\ new = Insert(mid, r, c, active) \/ new = Insert(rest, r, c, {})
    BY ZenonT(60), AdmitRunCases
  <1>2. rest \in Stores /\ \A o \in Runs : Carried(o, rest)
    BY ZenonT(60), DiscardCarries
  <1>3. ~Duplicate(rest, r) => r \notin rest.present
    BY ZenonT(60) DEF Duplicate
  <1> HIDE DEF rest
  <1>4. /\ mid \in Stores /\ mid.present = rest.present /\ active \in SUBSET Runs
        /\ \A o \in Runs : Carried(o, mid)
    BY ZenonT(60), <1>2, CancelCarries
  <1> HIDE DEF mid, active, new
  <1>5. ASSUME r \notin rest.present, new = Insert(mid, r, c, active)
        PROVE  new \in Stores /\ \A o \in Runs : Carried(o, new)
    <2>1. r \notin mid.present
      BY ZenonT(60), <1>4, <1>5
    <2> QED BY ZenonT(60), <1>4, <1>5, <2>1, InsertCarries
  <1>6. ASSUME r \notin rest.present, new = Insert(rest, r, c, {})
        PROVE  new \in Stores /\ \A o \in Runs : Carried(o, new)
    <2>1. {} \in SUBSET Runs
      BY ZenonT(60)
    <2> QED BY ZenonT(60), <1>2, <1>6, <2>1, InsertCarries
  <1>7. new \in Stores /\ \A o \in Runs : Carried(o, new)
    BY ZenonT(60), <1>1, <1>2, <1>3, <1>5, <1>6
  <1> QED BY ZenonT(60), <1>7 DEF new

\* All that an event plans.
LEMMA AdmitRunsCarries ==
    ASSUME LeaseTypeOK, Store \in Stores, \A o \in Runs : Carried(o, Store), Running, now \in Nat,
           NEW planned \in Seq(Runs), NEW c \in Nat
    PROVE  \A o \in Runs : Carried(o, AdmitRuns(planned, c))
  <1> DEFINE n == Len(planned)
  <1>1. n \in Nat /\ \A i \in 1..n : planned[i] \in Runs
    BY SMTT(60)
  <1>2. PICK after : /\ AdmitRuns(planned, c) = after[n]
                     /\ after[0] = Store
                     /\ \A i \in 1..n : after[i] = AdmitRun(after[i - 1], planned[i], c)
    BY ZenonT(60), AdmitRunsUnfolds
  <1> DEFINE S == {i \in 0..n : after[i] \in Stores /\ \A o \in Runs : Carried(o, after[i])}
  <1>3. 0 \in S /\ n \in 0..n /\ \A i \in 1..n : i \in 0..n
    <2>1. 0 \in 0..n /\ n \in 0..n /\ \A i \in 1..n : i \in 0..n
      BY SMTT(60), <1>1
    <2> QED BY ZenonT(60), <1>2, <2>1
  <1>4. \A i \in 1..n : i - 1 \in S => i \in S
    BY ZenonT(60), <1>1, <1>2, <1>3, AdmitRunCarries
  <1>5. n \in S
    <2> HIDE DEF n, S
    <2> QED BY ZenonT(60), <1>1, <1>3, <1>4, UpTo
  <1> QED BY ZenonT(60), <1>2, <1>5

\* An event delivered preserves the invariant.
LEMMA DeliverKeeps ==
    ASSUME RuntimeInv, NEW e \in Events, Deliver(e)
    PROVE  /\ RuntimeInv'
           /\ \A r \in Runs : Terminal(runs[r].status) => runs'[r] = runs[r]
  <1> DEFINE st == AdmitRuns(Planned[e], head + 1)
  <1>1. /\ TypeOK /\ WorkInv /\ DoubtInv /\ ContractInv /\ SuccessInv /\ AdmissionInv
        /\ PredecessorsAreOver /\ AbsentAreQueued
    BY ZenonT(60) DEF RuntimeInv, IInv
  <1>2. /\ present' = st.present /\ runs' = st.runs /\ lease' = st.lease /\ started' = started
        /\ pc' = pc /\ claim' = claim /\ calls' = calls /\ ledger' = ledger
        /\ late' = late /\ crashes' = crashes /\ lapses' = lapses
    BY ZenonT(60) DEF Deliver, AdmitEvent, engineVars, workVars, ghostVars
  <1>3. AdmissionInv'
    BY ZenonT(60), <1>1, AdmitPreserves DEF Deliver
  <1>4. \A o \in Runs : Carried(o, st)
    <2>1. head + 1 \in Nat /\ now \in Nat
      BY SMTT(60), <1>1, BoundsAssumption DEF AdmissionInv, AdmissionTypeOK, LeaseTypeOK
    <2>2. Planned[e] \in Seq(Runs)
      BY ZenonT(60), PlannedAssumption
    <2>3. LeaseTypeOK /\ Store \in Stores
      BY ZenonT(60), <1>1, StoreIsKept DEF AdmissionInv, AdmissionTypeOK, Kept
    <2>4. Running
      BY ZenonT(60), <1>1 DEF Running, ContractInv, TypeOK, LeaseTypeOK, RunRecord, RunStatuses, Terminal
    <2>5. ASSUME NEW o \in Runs PROVE Carried(o, Store)
      <3>1. /\ Good(o, runs[o]) /\ (Terminal(runs[o].status) => lease[o] = NoWorker)
            /\ Witnessed(o, runs[o])
        BY ZenonT(60), <1>1 DEF WorkInv, SuccessInv
      <3>2. runs[o].revision <= runs[o].revision
        <4>1. runs[o].revision \in Nat
          BY ZenonT(60), <2>3 DEF LeaseTypeOK, RunRecord
        <4> QED BY SMTT(60), <4>1
      <3>3. o \notin present => runs[o].status = "queued"
        BY ZenonT(60), <1>1 DEF AbsentAreQueued
      <3> QED BY ZenonT(60), <3>1, <3>2, <3>3, StoreFields DEF Carried
    <2> QED BY ZenonT(60), <2>1, <2>2, <2>3, <2>4, <2>5, AdmitRunsCarries
  <1> HIDE DEF st
  <1>5. \A o \in Runs : Good(o, runs'[o]) /\ (Terminal(runs'[o].status) => lease'[o] = NoWorker)
    BY ZenonT(60), <1>2, <1>4 DEF Carried
  <1>6. \A o \in Runs : Terminal(runs[o].status) => runs'[o] = runs[o]
    BY ZenonT(60), <1>2, <1>4 DEF Carried
  <1>7. \A o \in Runs : runs[o].status = "running" =>
           /\ lease'[o] = lease[o] /\ runs'[o].status = "running"
           /\ runs'[o].active = runs[o].active /\ runs'[o].attempts = runs[o].attempts
           /\ runs'[o].blockers = runs[o].blockers
           /\ runs[o].revision <= runs'[o].revision
           /\ runs'[o].revision = runs[o].revision => runs'[o] = runs[o]
    BY ZenonT(60), <1>2, <1>4 DEF Carried
  <1>8. \A o \in Runs : runs[o].status = "queued" => runs'[o].status \in {"queued", "cancelled"}
    BY ZenonT(60), <1>2, <1>4 DEF Carried
  <1>9. \A o \in Runs : runs[o].status \in {"queued", "running"} \/ Terminal(runs[o].status)
    BY ZenonT(60), <1>1 DEF ContractInv, TypeOK, LeaseTypeOK, RunRecord, RunStatuses, Terminal
  <1>10. TypeOK'
    BY ZenonT(60), <1>1, <1>2, <1>3 DEF TypeOK, AdmissionInv, AdmissionTypeOK
  <1>11. WorkInv'
    <2>1. ASSUME NEW w \in Workers, pc[w] # "idle"
          PROVE  At(pc[w], claim[w]) /\ CopyIsCurrent(w)'
      <3> DEFINE o == Id(w)
      <3>1. At(pc[w], claim[w]) /\ CopyIsCurrent(w) /\ o \in Runs /\ runs[o].status # "queued"
        BY ZenonT(60), <1>1, <2>1, InHand DEF WorkInv, ContractInv
      <3>2. Id(w)' = o /\ Run(w)' = Run(w)
        BY ZenonT(60), <1>2 DEF Id, Run
      <3>3. ASSUME lease'[o] = w
            PROVE  /\ Run(w).revision <= runs'[o].revision
                   /\ Run(w).revision = runs'[o].revision => Run(w) = runs'[o]
        <4>1. runs[o].status = "running"
          BY ZenonT(60), <1>5, <1>6, <1>9, <3>1, <3>3, WorkersAssumption
        <4>2. /\ Run(w).revision <= runs[o].revision
              /\ Run(w).revision = runs[o].revision => Run(w) = runs[o]
              /\ runs[o].revision <= runs'[o].revision
              /\ runs'[o].revision = runs[o].revision => runs'[o] = runs[o]
          BY ZenonT(60), <1>7, <3>1, <3>3, <4>1 DEF CopyIsCurrent
        <4>3. Run(w).revision \in Nat /\ runs[o].revision \in Nat /\ runs'[o].revision \in Nat
          BY ZenonT(60), <1>1, <1>10, <3>1 DEF TypeOK, LeaseTypeOK, RunRecord, Claim, Run
        <4>4. /\ Run(w).revision <= runs'[o].revision
              /\ Run(w).revision = runs'[o].revision => Run(w).revision = runs[o].revision
          BY SMTT(60), <4>2, <4>3
        <4>5. ASSUME Run(w).revision = runs'[o].revision PROVE Run(w) = runs'[o]
          <5>1. Run(w).revision = runs[o].revision
            BY ZenonT(60), <4>4, <4>5
          <5>2. Run(w) = runs[o] /\ runs'[o].revision = runs[o].revision
            BY ZenonT(60), <4>2, <4>5, <5>1
          <5> QED BY ZenonT(60), <4>2, <5>2
        <4> QED BY ZenonT(60), <4>4, <4>5
      <3> QED BY ZenonT(60), <3>1, <3>2, <3>3 DEF CopyIsCurrent
    <2> QED BY ZenonT(60), <1>2, <1>5, <2>1 DEF WorkInv, At
  <1>12. DoubtInv'
    <2>1. ASSUME NEW r \in Runs, NEW k \in Keys, Remembered(r, k) PROVE Remembered(r, k)'
      <3>1. CASE runs[r].status = "indeterminate"
        BY ZenonT(60), <1>6, <3>1 DEF Remembered, Terminal
      <3>2. CASE runs[r].status = "running" /\ runs[r].active # 0 /\ ActiveKey(runs[r]) = k
        <4>1. /\ runs'[r].status = "running" /\ runs'[r].active # 0
              /\ runs'[r].active = runs[r].active /\ runs'[r].attempts = runs[r].attempts
          BY ZenonT(60), <1>7, <3>2
        <4>2. ActiveKey(runs'[r]) = k
          BY ZenonT(60), <3>2, <4>1 DEF ActiveKey, ActiveAttempt
        <4> QED BY ZenonT(60), <4>1, <4>2 DEF Remembered
      <3> QED BY ZenonT(60), <2>1, <3>1, <3>2 DEF Remembered
    <2>2. \A w \in Workers, r \in Runs, k \in Keys : Poised(w, r, k)' <=> Poised(w, r, k)
      BY ZenonT(60), <1>2 DEF Poised, Id, Run
    <2> QED BY ZenonT(60), <1>1, <1>2, <2>1, <2>2 DEF DoubtInv
  <1>13. ContractInv'
    <2>1. \A r \in Runs : runs'[r].status # "waiting"
      BY ZenonT(60), <1>6, <1>7, <1>8, <1>9, StatusesDiffer
    <2>2. ASSUME NEW w \in Workers, pc[w] # "idle" PROVE runs'[Id(w)].status # "queued"
      <3>1. Id(w) \in Runs /\ runs[Id(w)].status # "queued"
        BY ZenonT(60), <1>1, <2>2, InHand DEF ContractInv
      <3> QED BY ZenonT(60), <1>6, <1>7, <1>9, <3>1
    <2>3. \A w \in Workers : Id(w)' = Id(w) /\ Run(w)' = Run(w)
      BY ZenonT(60), <1>2 DEF Id, Run
    <2> QED BY ZenonT(60), <1>1, <1>2, <2>1, <2>2, <2>3 DEF ContractInv
  <1>14. PredecessorsAreOver'
    <2>1. ASSUME NEW r \in started, NEW b \in runs'[r].blockers
          PROVE  Terminal(runs'[b].status) /\ runs'[b].status # "indeterminate"
      <3>1. r \in present /\ r \in Runs /\ runs[r].status # "queued"
        BY ZenonT(60), <1>1 DEF AdmissionInv, AdmissionTypeOK, LeaseTypeOK, StartedIsKept
      <3>2. b \in runs[r].blockers
        BY ZenonT(60), <1>6, <1>7, <1>9, <2>1, <3>1
      <3>3. b \in Runs
        BY ZenonT(60), <1>1, <3>1, <3>2 DEF TypeOK, LeaseTypeOK, RunRecord
      <3>4. Terminal(runs[b].status) /\ runs[b].status # "indeterminate"
        BY ZenonT(60), <1>1, <3>2 DEF PredecessorsAreOver
      <3> QED BY ZenonT(60), <1>6, <3>3, <3>4
    <2> QED BY ZenonT(60), <1>2, <2>1 DEF PredecessorsAreOver
  <1>15. AbsentAreQueued'
    BY ZenonT(60), <1>2, <1>4 DEF AbsentAreQueued, Carried
  <1>16. SuccessInv'
    <2>1. \A o \in Runs : Witnessed(o, runs'[o])
      BY ZenonT(60), <1>2, <1>4 DEF Carried
    <2>2. CallsKept
      BY ZenonT(60), <1>2 DEF CallsKept
    <2>3. WitnessStep
      BY ZenonT(60), <1>2, <2>1, <2>2 DEF WitnessStep
    <2> QED BY ZenonT(60), <1>1, <1>11, <2>3, WitnessStepKeeps
  <1> QED BY ZenonT(60), <1>3, <1>6, <1>10, <1>11, <1>12, <1>13, <1>14, <1>15, <1>16 DEF RuntimeInv, IInv

-----------------------------------------------------------------------------
(* Theorems.                                                               *)

LEMMA RuntimeInvInit == RuntimeInit => RuntimeInv
  <1> SUFFICES ASSUME RuntimeInit PROVE RuntimeInv
    BY ZenonT(60)
  <1>1. AdmissionInit /\ WorkersInit
    BY ZenonT(60) DEF RuntimeInit
  <1>2. AdmissionInv
    BY ZenonT(60), <1>1, AdmissionInvInit
  <1>3. \A r \in Runs : runs[r] = Absent(r) /\ lease[r] = NoWorker
    BY ZenonT(60), <1>1 DEF AdmissionInit
  <1>4. ASSUME NEW r \in Runs
        PROVE  Good(r, runs[r]) /\ runs[r].status = "queued" /\ Witnessed(r, runs[r])
    <2>1. 0 \in Nat /\ {} \in SUBSET Runs
      BY SMTT(60)
    <2>2. Good(r, Absent(r)) /\ Absent(r).status = "queued" /\ Witnessed(r, Absent(r))
      BY ZenonT(60), <2>1, AdmittedGood, AdmittedWitnessed DEF Absent
    <2> QED BY ZenonT(60), <1>3, <2>2
  <1>5. /\ \A w \in Workers : pc[w] = "idle"
        /\ \A r \in Runs, k \in Keys : ledger[r][k] = "none"
    BY ZenonT(60), <1>1 DEF WorkersInit
  <1>6. TypeOK
    <2>1. LeaseTypeOK
      BY ZenonT(60), <1>2 DEF AdmissionInv, AdmissionTypeOK
    <2>2. 0 \in 0..2 /\ 0 \in 0..MaxCrashes /\ 0 \in 0..MaxLapses
      BY SMTT(60), EngineAssumption
    <2>3. claim \in [Workers -> Claim]
      BY ZenonT(60), <1>1, NoClaimType DEF WorkersInit
    <2>4. pc \in [Workers -> Labels] /\ ledger \in [Runs -> [Keys -> Outcomes]]
      BY ZenonT(60), <1>1 DEF WorkersInit, Labels, Outcomes
    <2>5. calls \in [Runs -> [Keys -> 0..2]]
      BY ZenonT(60), <1>1, <2>2 DEF WorkersInit
    <2> QED BY ZenonT(60), <1>1, <2>1, <2>2, <2>3, <2>4, <2>5 DEF TypeOK, WorkersInit
  <1>7. WorkInv
    BY ZenonT(60), <1>3, <1>4, <1>5 DEF WorkInv
  <1>8. DoubtInv
    BY ZenonT(60), <1>5 DEF DoubtInv, Poised
  <1>9. ContractInv
    BY ZenonT(60), <1>4, <1>5 DEF ContractInv
  <1>10. PredecessorsAreOver /\ AbsentAreQueued
    BY ZenonT(60), <1>1, <1>4 DEF AdmissionInit, PredecessorsAreOver, AbsentAreQueued
  <1>11. SuccessInv
    BY ZenonT(60), <1>4, <1>5 DEF SuccessInv
  <1> QED BY ZenonT(60), <1>2, <1>6, <1>7, <1>8, <1>9, <1>10, <1>11 DEF RuntimeInv, IInv

\* Nothing happens.
LEMMA StutterKeeps ==
    ASSUME RuntimeInv, UNCHANGED runtimeVars
    PROVE  IInv' /\ (ClaimsKnown' => RuntimeInv')
  <1>1. IInv /\ ContractInv /\ SuccessInv /\ AdmissionInv /\ PredecessorsAreOver /\ AbsentAreQueued
    BY ZenonT(60) DEF RuntimeInv
  <1>2. UNCHANGED vars /\ UNCHANGED allVars /\ UNCHANGED <<runs, present, started>>
    BY ZenonT(60) DEF runtimeVars, vars, allVars, leaseVars, admissionVars
  <1>3. TypeOK' /\ WorkInv' /\ DoubtInv'
    BY ZenonT(60), <1>1, <1>2, WorkStep, DoubtStep DEF IInv
  <1>4. AdmissionInv'
    BY ZenonT(60), <1>1, <1>2, AdmissionInvStep
  <1>5. PredecessorsAreOver' /\ AbsentAreQueued'
    BY ZenonT(60), <1>1, <1>2 DEF PredecessorsAreOver, AbsentAreQueued
  <1>6. ClaimsKnown' => ContractInv'
    BY ZenonT(60), <1>1, <1>2, <1>3, ContractInvStep
  <1>7. SuccessInv'
    BY ZenonT(60), <1>1, <1>2, SuccessInvStep
  <1> QED BY ZenonT(60), <1>3, <1>4, <1>5, <1>6, <1>7 DEF RuntimeInv, IInv

\* RuntimeInv holds always: the invariants of the engine and of admission are
\* kept together, for any number of events, runs, workers, steps and items.
THEOREM RuntimeInvariance == RuntimeSpec => []RuntimeInv
  <1>1. RuntimeInv /\ [RuntimeNext]_runtimeVars => IInv' /\ (ClaimsKnown' => RuntimeInv')
    <2>1. ASSUME RuntimeInv, NEW e \in Events, Deliver(e)
          PROVE  IInv' /\ RuntimeInv'
      BY ZenonT(60), <2>1, DeliverKeeps DEF RuntimeInv
    <2> QED BY ZenonT(60), <2>1, EngineKeeps, StutterKeeps DEF RuntimeNext
  <1> QED BY <1>1, RuntimeInvInit, ClaimsAreKnown, PTL DEF RuntimeSpec

\* From the moment a replacement starts, no unsafe call of a run it replaced
\* has an unknown outcome.
THEOREM ReplacementsStayApart == RuntimeSpec => []ReplacementsNeverOverlap
  <1>1. RuntimeInv => ReplacementsNeverOverlap
    <2> SUFFICES ASSUME RuntimeInv, NEW r \in started \cap present, NEW b \in runs[r].blockers,
                        NEW k \in Keys, Unsafe(b, k), ledger[b][k] = "open"
                 PROVE  FALSE
      BY ZenonT(60) DEF ReplacementsNeverOverlap
    <2>1. r \in Runs /\ b \in Runs
      BY ZenonT(60) DEF RuntimeInv, IInv, TypeOK, LeaseTypeOK, RunRecord
    <2>2. Terminal(runs[b].status) /\ runs[b].status # "indeterminate"
      BY ZenonT(60) DEF RuntimeInv, PredecessorsAreOver
    <2>3. Remembered(b, k)
      BY ZenonT(60), <2>1 DEF RuntimeInv, IInv, DoubtInv
    <2> QED BY ZenonT(60), <2>2, <2>3, StatusesDiffer DEF Remembered
  <1> QED BY <1>1, RuntimeInvariance, PTL

\* The cancellation of a replaced run is not lost to the worker driving it.
THEOREM ReplacedAreTold == RuntimeSpec => []ReplacedRunsKnow
  <1>1. RuntimeInv => ReplacedRunsKnow
    BY ZenonT(60) DEF RuntimeInv, AdmissionInv, PredecessorsEnd, ReplacedRunsKnow
  <1> QED BY <1>1, RuntimeInvariance, PTL

\* With events arriving while workers are at work, no commit overwrites what
\* the worker has not seen, records show at most one open attempt, doubt is
\* reported, and every success recorded was seen.
THEOREM EngineIsUndisturbed ==
    RuntimeSpec => [](/\ CommitsOverwriteNothing /\ AttemptsAreSettled
                      /\ DoubtIsReported /\ SuccessIsWitnessed)
  <1>1. RuntimeInv => IInv /\ SuccessIsWitnessed
    BY ZenonT(60), WitnessesSuccess DEF RuntimeInv
  <1> QED BY <1>1, StoreIsSafe, RuntimeInvariance, PTL

\* With workers that crash, lose leases and come late, groups stay exclusive,
\* queues in order, and work with one key is started once.
THEOREM AdmissionIsUndisturbed ==
    RuntimeSpec => [](GroupsAreExclusive /\ QueueOrderIsKept /\ KeysRunOnce /\ StartedRunsStay)
  <1>1. RuntimeInv => GroupsAreExclusive /\ QueueOrderIsKept /\ KeysRunOnce /\ StartedRunsStay
    BY ZenonT(60) DEF RuntimeInv, AdmissionInv, KeysDiffer, StartedIsKept, KeysRunOnce, StartedRunsStay
  <1> QED BY <1>1, RuntimeInvariance, PTL

\* Neither an unsafe item of unknown outcome is sent again, nor is the record
\* of a run that has ended changed, by anything the runtime does.
THEOREM RuntimeIsFinal == RuntimeSpec => AmbiguityIsNeverReplayed /\ EndedRunsAreFinal
  <1>1. RuntimeInv => [\A w \in Workers :
                          Calling(w) /\ ~Idempotent(Id(w), ActiveKey(Run(w)))
                              => ledger[Id(w)][ActiveKey(Run(w))] # "open"]_vars
    BY ZenonT(60), NothingOpenIsCalled DEF Calling, RuntimeInv
  <1>2. RuntimeInv /\ [RuntimeNext]_runtimeVars =>
           [\A r \in Runs : Terminal(runs[r].status) => runs'[r] = runs[r]]_vars
    <2>1. ASSUME RuntimeInv, EngineStep
          PROVE  \A r \in Runs : Terminal(runs[r].status) => runs'[r] = runs[r]
      BY ZenonT(60), <2>1, KeepStep DEF RuntimeInv, EngineStep, RecordsKept
    <2>2. ASSUME RuntimeInv, NEW e \in Events, Deliver(e)
          PROVE  \A r \in Runs : Terminal(runs[r].status) => runs'[r] = runs[r]
      BY ZenonT(60), <2>2, DeliverKeeps
    <2>3. UNCHANGED runtimeVars => UNCHANGED vars
      BY ZenonT(60) DEF runtimeVars, vars
    <2> QED BY ZenonT(60), <2>1, <2>2, <2>3 DEF RuntimeNext
  <1> QED BY <1>1, <1>2, RuntimeInvariance, PTL
          DEF AmbiguityIsNeverReplayed, EndedRunsAreFinal, RuntimeSpec

=============================================================================
