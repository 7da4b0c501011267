------------------------- MODULE RunAdmissionProofs -------------------------
(***************************************************************************)
(* What is proved of RunAdmission, for any runs, plans, events, workers    *)
(* and faults: every decision taken for a planned run keeps the inductive  *)
(* invariant, an admission is a sequence of such decisions, and so the     *)
(* invariant holds after it.                                               *)
(***************************************************************************)
EXTENDS RunAdmission, WellFoundedInduction, TLAPS

-----------------------------------------------------------------------------
(* Induction over the planned runs: a least counterexample.                *)

LEMMA BelowIsWellFounded == IsWellFoundedOn({p \in Nat \X Nat : p[1] < p[2]}, Nat)
  BY SMTT(60), NatLessThanWellFounded DEF OpToRel

\* A set of numbers that is not empty has a least element.
LEMMA LeastElement ==
    ASSUME NEW T \in SUBSET Nat, T # {}
    PROVE  \E n \in T : \A m \in T : n <= m
  <1> DEFINE R == {p \in Nat \X Nat : p[1] < p[2]}
  <1>1. \E n \in T : \A m \in T : <<m, n>> \notin R
    <2>1. IsWellFoundedOn(R, Nat)
      BY Zenon, BelowIsWellFounded
    <2> HIDE DEF R
    <2> QED BY Zenon, <2>1, WFMin
  <1>2. \A m, n \in T : <<m, n>> \notin R => n <= m
    BY SMTT(60)
  <1> QED BY Zenon, <1>1, <1>2

\* What holds at 0 and passes from each number below n to the next holds of all
\* numbers up to n: the set of those it holds of is everything.
LEMMA UpTo ==
    ASSUME NEW n \in Nat, NEW S, 0 \in S,
           \A i \in 1..n : i - 1 \in S => i \in S
    PROVE  \A i \in 0..n : i \in S
  <1> DEFINE T == {i \in 0..n : i \notin S}
  <1> SUFFICES ASSUME T # {} PROVE FALSE
    BY Zenon
  <1>1. T \in SUBSET Nat
    BY SMTT(60)
  <1>2. PICK i \in T : \A j \in T : i <= j
    BY Zenon, <1>1, LeastElement
  <1>3. i \in 0..n /\ i # 0
    BY Zenon, <1>2
  <1>4. i \in 1..n /\ i - 1 \in 0..n /\ ~(i <= i - 1)
    BY SMTT(60), <1>3
  <1>5. i - 1 \in S
    BY Zenon, <1>2, <1>4
  <1> QED BY Zenon, <1>2, <1>4, <1>5

\* The store after the first planned runs is what the recursion says.
LEMMA AdmitRunsUnfolds ==
    ASSUME NEW planned \in Seq(Runs), NEW cursor
    PROVE  \E after :
              /\ AdmitRuns(planned, cursor) = after[Len(planned)]
              /\ after[0] = Store
              /\ \A i \in 1..Len(planned) : after[i] = AdmitRun(after[i - 1], planned[i], cursor)
  <1> DEFINE n == Len(planned)
             Of(f, i) == IF i = 0 THEN Store ELSE AdmitRun(f[i - 1], planned[i], cursor)
             S == {k \in 0..n : \E f : f = [i \in 0..k |-> Of(f, i)]}
             after == CHOOSE f : f = [i \in 0..n |-> Of(f, i)]
  <1>1. n \in Nat
    BY SMTT(60)
  <1>2. 0 \in S
    <2> DEFINE f == [i \in 0..0 |-> Store]
    <2>1. f = [i \in 0..0 |-> Of(f, i)]
      BY SMTT(60)
    <2>2. 0 \in 0..n
      BY SMTT(60), <1>1
    <2> HIDE DEF f
    <2> QED BY Zenon, <2>1, <2>2
  <1>3. ASSUME NEW k \in 1..n, k - 1 \in S PROVE k \in S
    <2>1. PICK f : f = [i \in 0..(k - 1) |-> Of(f, i)]
      BY Zenon, <1>3
    <2> DEFINE g == [i \in 0..k |-> IF i = k THEN AdmitRun(f[k - 1], planned[k], cursor) ELSE f[i]]
    <2>2. \A i \in 0..k : g[i] = Of(g, i)
      BY SMTT(60), <2>1, <1>1
    <2>3. g = [i \in 0..k |-> Of(g, i)]
      BY Zenon, <2>2
    <2>4. k \in 0..n
      BY SMTT(60), <1>1
    <2> QED BY Zenon, <2>3, <2>4
  <1>4. n \in S
    <2>1. \A i \in 0..n : i \in S
      <3> HIDE DEF S, n
      <3> QED BY Zenon, <1>1, <1>2, <1>3, UpTo
    <2> QED BY SMTT(60), <2>1, <1>1
  <1>5. after = [i \in 0..n |-> Of(after, i)]
    BY Zenon, <1>4
  <1>6. AdmitRuns(planned, cursor) = after[n]
    BY Zenon DEF AdmitRuns
  <1> HIDE DEF after
  <1>7. after[0] = Store /\ \A i \in 1..n : after[i] = AdmitRun(after[i - 1], planned[i], cursor)
    BY SMTT(60), <1>1, <1>5
  <1> QED BY Zenon, <1>6, <1>7

-----------------------------------------------------------------------------
(* Records.                                                                *)

LEMMA PlanFields ==
    ASSUME NEW r \in Runs
    PROVE  /\ Plans[r].interval \in Nat /\ Plans[r].debounce \in Nat
           /\ Plans[r].policy \in Policies /\ NumSteps(r) \in Nat
  BY SMTT(60), PlansAssumption DEF NumSteps, PlannedRun

\* A run as admission puts it into the store.
LEMMA AdmittedRecord ==
    ASSUME NEW r \in Runs, NEW cursor \in Nat, NEW time \in Nat, NEW blockers \in SUBSET Runs
    PROVE  LET new == Admitted(r, cursor, time, blockers)
           IN  /\ new \in RunRecord /\ new.status = "queued"
               /\ new.cursor = cursor /\ new.created = time
               /\ new.notBefore = time + Plans[r].debounce /\ new.blockers = blockers
  <1> DEFINE n == NumSteps(r)
             steps == [s \in 1..n |-> [status |-> "pending", outputs |-> 0]]
             start == time + Plans[r].debounce
             new == Admitted(r, cursor, time, blockers)
  <1>1. n \in Nat /\ start \in Nat
    BY SMTT(60), PlanFields
  <1>2. [status |-> "pending", outputs |-> 0] \in StepRecord
    BY SMTT(60) DEF StepRecord, StepStatuses
  <1>3. steps \in Seq(StepRecord)
    <2> HIDE DEF n
    <2> QED BY SMTT(60), <1>1, <1>2
  <1>4. new = [status |-> "queued", revision |-> 0, next |-> 1, steps |-> steps,
               attempts |-> << >>, active |-> 0, cancel |-> FALSE, cursor |-> cursor,
               created |-> time, notBefore |-> start, blockers |-> blockers]
    BY Zenon DEF Admitted
  <1> HIDE DEF new, steps, start, n
  <1>5. << >> \in Seq(ActionAttempt)
    BY SMTT(60)
  <1>6. /\ new \in RunRecord /\ new.status = "queued"
        /\ new.cursor = cursor /\ new.created = time
        /\ new.notBefore = start /\ new.blockers = blockers
    BY Zenon, <1>1, <1>3, <1>4, <1>5 DEF RunRecord, RunStatuses
  <1> QED BY Zenon, <1>6 DEF new, start

\* A record after it in the store: same admission, no way back to the queue or
\* from an end, no start, and no cancellation undone.
Follows(old, new) ==
    /\ new.cursor = old.cursor /\ new.created = old.created
    /\ new.notBefore = old.notBefore /\ new.blockers = old.blockers
    /\ new.status \in {"queued", "running", "waiting"} => new.status = old.status
    /\ Terminal(old.status) => Terminal(new.status)
    /\ old.cancel => new.cancel

LEMMA EndStepsSeq ==
    ASSUME NEW run \in RunRecord, NEW status \in StepStatuses
    PROVE  EndSteps(run, status) \in Seq(StepRecord)
  <1> DEFINE n == Len(run.steps)
  <1>1. run.steps \in [1..n -> StepRecord] /\ n \in Nat
    BY SMTT(60) DEF RunRecord
  <1>2. EndSteps(run, status) \in [1..n -> StepRecord]
    BY Zenon, <1>1 DEF EndSteps, StepRecord, StepStatuses
  <1> QED BY SMTT(60), <1>1, <1>2

\* A run brought to an end.
LEMMA EndRunRecord ==
    ASSUME NEW run \in RunRecord, NEW status \in RunStatuses, NEW stepStatus \in StepStatuses
    PROVE  LET new == EndRun(run, status, stepStatus)
           IN  /\ new \in RunRecord /\ new.status = status /\ new.cancel = run.cancel
               /\ new.cursor = run.cursor /\ new.created = run.created
               /\ new.notBefore = run.notBefore /\ new.blockers = run.blockers
  <1>1. EndSteps(run, stepStatus) \in Seq(StepRecord)
    BY Zenon, EndStepsSeq
  <1>2. Len(run.steps) + 1 \in Nat
    BY SMTT(60) DEF RunRecord
  <1> QED BY Zenon, <1>1, <1>2 DEF EndRun, RunRecord

LEMMA NextRevisionRecord ==
    ASSUME NEW run \in RunRecord
    PROVE  LET new == NextRevision(run)
           IN  /\ new \in RunRecord /\ new.status = run.status /\ new.cancel = run.cancel
               /\ new.cursor = run.cursor /\ new.created = run.created
               /\ new.notBefore = run.notBefore /\ new.blockers = run.blockers
  <1>1. run.revision + 1 \in Nat
    BY SMTT(60) DEF RunRecord
  <1> QED BY Zenon, <1>1 DEF NextRevision, RunRecord

\* A recorded cancellation.
LEMMA CancelRecord ==
    ASSUME NEW run \in RunRecord
    PROVE  LET new == NextRevision(RequestCancel(run))
           IN  /\ new \in RunRecord /\ Follows(run, new) /\ new.cancel
               /\ run.status \in {"queued", "waiting"} => new.status = "cancelled"
               /\ run.status \notin {"queued", "waiting"} => new.status = run.status
               /\ RequestCancel(run).status = new.status
  <1> DEFINE mid == RequestCancel(run)
             new == NextRevision(mid)
             ended == EndRun(run, "cancelled", "cancelled")
  <1>0. "cancelled" \in RunStatuses /\ "cancelled" \in StepStatuses
    BY Zenon DEF RunStatuses, StepStatuses
  <1>1. /\ ended \in RunRecord /\ ended.status = "cancelled"
        /\ ended.cursor = run.cursor /\ ended.created = run.created
        /\ ended.notBefore = run.notBefore /\ ended.blockers = run.blockers
    BY ZenonT(60), <1>0, EndRunRecord
  <1> HIDE DEF ended
  <1>2. /\ mid \in RunRecord /\ mid.cancel
        /\ mid.cursor = run.cursor /\ mid.created = run.created
        /\ mid.notBefore = run.notBefore /\ mid.blockers = run.blockers
        /\ mid.status = IF run.status \in {"queued", "waiting"} THEN "cancelled" ELSE run.status
    <2>1. CASE run.status \in {"queued", "waiting"}
      <3>1. mid = [ended EXCEPT !.cancel = TRUE]
        BY Zenon, <2>1 DEF RequestCancel, ended
      <3> HIDE DEF mid
      <3> QED BY Zenon, <2>1, <3>1, <1>1 DEF RunRecord
    <2>2. CASE run.status \notin {"queued", "waiting"}
      <3>1. mid = [run EXCEPT !.cancel = TRUE]
        BY Zenon, <2>2 DEF RequestCancel
      <3> HIDE DEF mid
      <3> QED BY Zenon, <2>2, <3>1 DEF RunRecord
    <2> QED BY Zenon, <2>1, <2>2
  <1> HIDE DEF mid
  <1>3. /\ new \in RunRecord /\ new.status = mid.status /\ new.cancel = mid.cancel
        /\ new.cursor = mid.cursor /\ new.created = mid.created
        /\ new.notBefore = mid.notBefore /\ new.blockers = mid.blockers
    BY Zenon, <1>2, NextRevisionRecord
  <1> HIDE DEF new
  <1>4. Follows(run, new)
    BY Zenon, <1>2, <1>3 DEF Follows, Terminal
  <1> QED BY Zenon, <1>2, <1>3, <1>4 DEF mid, new

\* A committed end.
LEMMA EndRecord ==
    ASSUME NEW run \in RunRecord, NEW s \in {"succeeded", "failed", "cancelled", "indeterminate"}
    PROVE  LET new == NextRevision(EndRun(run, s, s))
           IN  new \in RunRecord /\ Follows(run, new)
  <1> DEFINE mid == EndRun(run, s, s)
             new == NextRevision(mid)
  <1>0. s \in RunStatuses /\ s \in StepStatuses /\ Terminal(s)
    BY Zenon DEF RunStatuses, StepStatuses, Terminal
  <1>1. /\ mid \in RunRecord /\ mid.status = s /\ mid.cancel = run.cancel
        /\ mid.cursor = run.cursor /\ mid.created = run.created
        /\ mid.notBefore = run.notBefore /\ mid.blockers = run.blockers
    BY Zenon, <1>0, EndRunRecord
  <1> HIDE DEF mid
  <1>2. /\ new \in RunRecord /\ new.status = mid.status /\ new.cancel = mid.cancel
        /\ new.cursor = mid.cursor /\ new.created = mid.created
        /\ new.notBefore = mid.notBefore /\ new.blockers = mid.blockers
    BY Zenon, <1>1, NextRevisionRecord
  <1> HIDE DEF new
  <1>3. s \notin {"queued", "running", "waiting"}
    BY Zenon
  <1>4. Follows(run, new)
    BY Zenon, <1>0, <1>1, <1>2, <1>3 DEF Follows
  <1> QED BY Zenon, <1>2, <1>4 DEF mid, new

-----------------------------------------------------------------------------
(* Stores in the middle of an admission: the parts of the invariant, with  *)
(* c the cursor of the event being admitted.                               *)

Stores == [present: SUBSET Runs, runs: [Runs -> RunRecord],
           lease: [Runs -> Workers \cup {NoWorker}]]

Dated(st, c) == \A r \in st.present : st.runs[r].cursor <= c /\ st.runs[r].created <= now

Keyed(st) == \A r, o \in st.present : r # o => Plans[r].key # Plans[o].key

Begun(st) ==
    /\ \A r \in started : r \in st.present /\ st.runs[r].status # "queued"
    /\ \A r \in started : st.runs[r].cursor <= head
    /\ \A r \in st.present : st.runs[r].status = "running" => r \in started

Ending(run) == Terminal(run.status) \/ (run.status = "running" /\ run.cancel)

Ends(st) ==
    \A r \in st.present : \A b \in st.runs[r].blockers :
        /\ b \in st.present /\ SameGroup(b, r) /\ Plans[r].policy = "replace"
        /\ Ending(st.runs[b])

Exclusive(st) ==
    \A r, o \in st.present :
        SameGroup(r, o) /\ st.runs[r].status = "running" /\ st.runs[o].status = "running"
            => "allow" \in {Plans[r].policy, Plans[o].policy}

Before(old, oid, new, rid) == old.cursor < new.cursor \/ (old.cursor = new.cursor /\ oid < rid)

InOrder(st) ==
    \A r \in started, o \in st.present :
        SameGroup(r, o) /\ Plans[r].policy # "allow" /\ Before(st.runs[o], o, st.runs[r], r)
            => st.runs[o].status # "queued"

Spaced(st) ==
    \A r, o \in st.present :
        r # o /\ Plans[r].trigger = Plans[o].trigger /\ st.runs[o].cursor < st.runs[r].cursor
            => st.runs[o].created + Plans[r].interval <= st.runs[r].created

Silent(run) == run.status = "queued" /\ run.notBefore > now

OneQuiet(st) ==
    \A r, o \in st.present :
        r # o /\ Plans[r].trigger = Plans[o].trigger /\ Plans[r].debounce > 0
            => ~(Silent(st.runs[r]) /\ Silent(st.runs[o]))

Kept(st, c) ==
    /\ st \in Stores
    /\ Dated(st, c) /\ Keyed(st) /\ Begun(st) /\ Ends(st)
    /\ Exclusive(st) /\ InOrder(st) /\ Spaced(st) /\ OneQuiet(st)

LEMMA FollowsItself == \A run : Follows(run, run)
  BY Zenon DEF Follows

LEMMA EndingFollows ==
    ASSUME NEW old, NEW new \in RunRecord, Follows(old, new), Ending(old)
    PROVE  Ending(new)
  <1>1. Terminal(new.status) \/ new.status \in {"queued", "running", "waiting"}
    BY Zenon DEF RunRecord, RunStatuses, Terminal
  <1> QED BY Zenon, <1>1 DEF Follows, Ending, Terminal

\* Records that go on as they may, and queued runs that are taken out, leave
\* the store as it should be.
LEMMA StoreGoesOn ==
    ASSUME NEW c, NEW st, Kept(st, c), NEW new \in Stores,
           new.present \subseteq st.present,
           \A r \in new.present : Follows(st.runs[r], new.runs[r]),
           \A r \in st.present \ new.present : st.runs[r].status = "queued"
    PROVE  Kept(new, c)
  <1>1. /\ new.present \subseteq Runs /\ \A r \in Runs : new.runs[r] \in RunRecord
        /\ started \subseteq new.present
    BY Zenon DEF Kept, Begun, Stores
  <1>2. Dated(new, c)
    BY Zenon DEF Kept, Dated, Follows
  <1>3. Keyed(new)
    BY Zenon DEF Kept, Keyed
  <1>4. Begun(new)
    BY Zenon, <1>1 DEF Kept, Begun, Follows
  <1>5. Ends(new)
    <2> SUFFICES ASSUME NEW r \in new.present, NEW b \in new.runs[r].blockers
                 PROVE  /\ b \in new.present /\ SameGroup(b, r) /\ Plans[r].policy = "replace"
                        /\ Ending(new.runs[b])
      BY Zenon DEF Ends
    <2>1. b \in st.runs[r].blockers
      BY Zenon DEF Follows
    <2>2. b \in st.present /\ SameGroup(b, r) /\ Plans[r].policy = "replace" /\ Ending(st.runs[b])
      BY Zenon, <2>1 DEF Kept, Ends
    <2>3. b \in new.present
      BY Zenon, <2>2 DEF Ending, Terminal
    <2> QED BY Zenon, <2>2, <2>3, <1>1, EndingFollows
  <1>6. Exclusive(new)
    BY ZenonT(60) DEF Kept, Exclusive, Follows
  <1>7. InOrder(new)
    <2> SUFFICES ASSUME NEW r \in started, NEW o \in new.present,
                        SameGroup(r, o), Plans[r].policy # "allow",
                        Before(new.runs[o], o, new.runs[r], r), new.runs[o].status = "queued"
                 PROVE  FALSE
      BY Zenon DEF InOrder
    <2>1. Before(st.runs[o], o, st.runs[r], r) /\ st.runs[o].status = "queued"
      BY Zenon, <1>1 DEF Follows, Before
    <2> QED BY Zenon, <2>1 DEF Kept, InOrder
  <1>8. Spaced(new)
    BY Zenon DEF Kept, Spaced, Follows
  <1>9. OneQuiet(new)
    <2>1. \A r \in new.present : Silent(new.runs[r]) => Silent(st.runs[r])
      BY Zenon DEF Silent, Follows
    <2> QED BY Zenon, <2>1 DEF Kept, OneQuiet
  <1> QED BY Zenon, <1>2, <1>3, <1>4, <1>5, <1>6, <1>7, <1>8, <1>9 DEF Kept

\* A new run leaves the store as it should be if its key is new, the interval
\* of its trigger is over, nothing of a debounced trigger waits, and the runs it
\* replaces are asked to end.
LEMMA Joins ==
    ASSUME NEW c \in Nat, head \in Nat, head < c, now \in Nat,
           NEW st, Kept(st, c), NEW new \in Stores,
           NEW r \in Runs, r \notin st.present, new.present = st.present \cup {r},
           \A o \in st.present : new.runs[o] = st.runs[o],
           new.runs[r].status = "queued", new.runs[r].cursor = c, new.runs[r].created = now,
           new.runs[r].notBefore = now + Plans[r].debounce,
           \A o \in st.present : Plans[o].key # Plans[r].key,
           \A o \in st.present :
              Plans[o].trigger = Plans[r].trigger /\ Plans[r].interval > 0
                  => st.runs[o].created + Plans[r].interval <= now,
           \A o \in st.present :
              Plans[o].trigger = Plans[r].trigger /\ Plans[r].debounce > 0 => ~Silent(st.runs[o]),
           \A b \in new.runs[r].blockers :
              /\ b \in st.present /\ SameGroup(b, r) /\ Plans[r].policy = "replace"
              /\ Ending(st.runs[b])
    PROVE  Kept(new, c)
  <1>1. /\ st.present \subseteq Runs /\ r \notin started /\ started \subseteq st.present
        /\ \A o \in Runs : new.runs[o] \in RunRecord
        /\ \A o \in st.present : new.runs[o].created \in Nat /\ new.runs[o].cursor \in Nat
    BY Zenon DEF Kept, Begun, Stores, RunRecord
  <1>2. Dated(new, c)
    <2>1. c <= c /\ now <= now
      BY SMTT(60)
    <2> QED BY Zenon, <2>1 DEF Kept, Dated
  <1>3. Keyed(new)
    BY Zenon DEF Kept, Keyed
  <1>4. Begun(new)
    BY Zenon, <1>1 DEF Kept, Begun
  <1>5. Ends(new)
    <2> SUFFICES ASSUME NEW o \in new.present, NEW b \in new.runs[o].blockers
                 PROVE  /\ b \in new.present /\ SameGroup(b, o) /\ Plans[o].policy = "replace"
                        /\ Ending(new.runs[b])
      BY Zenon DEF Ends
    <2>1. CASE o = r
      BY Zenon, <2>1
    <2>2. CASE o \in st.present
      BY Zenon, <2>2 DEF Kept, Ends
    <2> QED BY Zenon, <2>1, <2>2
  <1>6. Exclusive(new)
    BY Zenon DEF Kept, Exclusive
  <1>7. InOrder(new)
    <2> SUFFICES ASSUME NEW q \in started, NEW o \in new.present,
                        SameGroup(q, o), Plans[q].policy # "allow",
                        Before(new.runs[o], o, new.runs[q], q), new.runs[o].status = "queued"
                 PROVE  FALSE
      BY Zenon DEF InOrder
    <2>1. new.runs[q] = st.runs[q] /\ st.runs[q].cursor <= head /\ st.runs[q].cursor \in Nat
      BY Zenon, <1>1 DEF Kept, Begun
    <2>2. CASE o = r
      <3>1. ~(c < st.runs[q].cursor) /\ c # st.runs[q].cursor
        BY SMTT(60), <2>1
      <3> QED BY Zenon, <2>1, <2>2, <3>1 DEF Before
    <2>3. CASE o \in st.present
      BY Zenon, <2>1, <2>3 DEF Kept, InOrder
    <2> QED BY Zenon, <2>2, <2>3
  <1>8. Spaced(new)
    <2> SUFFICES ASSUME NEW q \in new.present, NEW o \in new.present, q # o,
                        Plans[q].trigger = Plans[o].trigger,
                        new.runs[o].cursor < new.runs[q].cursor
                 PROVE  new.runs[o].created + Plans[q].interval <= new.runs[q].created
      BY Zenon DEF Spaced
    <2>1. CASE q = r
      <3>1. o \in st.present /\ new.runs[o] = st.runs[o] /\ st.runs[o].created <= now
            /\ st.runs[o].created \in Nat
        BY Zenon, <2>1, <1>1 DEF Kept, Dated
      <3>2. CASE Plans[r].interval > 0
        BY Zenon, <2>1, <3>1, <3>2
      <3>3. CASE ~(Plans[r].interval > 0)
        <4>1. st.runs[o].created + Plans[r].interval <= now
          BY SMTT(60), <3>1, <3>3, PlanFields
        <4> QED BY ZenonT(60), <4>1, <2>1, <3>1
      <3> QED BY Zenon, <3>2, <3>3
    <2>2. CASE o = r
      <3>1. q \in st.present /\ new.runs[q].cursor \in Nat /\ new.runs[q].cursor <= c
        BY Zenon, <2>2, <1>1 DEF Kept, Dated
      <3> QED BY SMTT(60), <3>1, <2>2
    <2>3. CASE q \in st.present /\ o \in st.present
      BY Zenon, <2>3 DEF Kept, Spaced
    <2> QED BY Zenon, <2>1, <2>2, <2>3
  <1>9. OneQuiet(new)
    <2>1. Plans[r].debounce > 0 \/ ~Silent(new.runs[r])
      <3>1. Plans[r].debounce > 0 \/ ~(now + Plans[r].debounce > now)
        BY SMTT(60), PlanFields
      <3> QED BY Zenon, <3>1 DEF Silent
    <2>2. \A o \in st.present : Plans[o].trigger = Plans[r].trigger
                                 => ~(Silent(new.runs[r]) /\ Silent(new.runs[o]))
      BY Zenon, <2>1
    <2> QED BY Zenon, <2>2 DEF Kept, OneQuiet
  <1> QED BY Zenon, <1>2, <1>3, <1>4, <1>5, <1>6, <1>7, <1>8, <1>9 DEF Kept

-----------------------------------------------------------------------------
(* One planned run.                                                        *)

\* What is taken out of the store is there no more, the rest stays as it is.
LEMMA DiscardStore ==
    ASSUME NEW st \in Stores, NEW gone \in SUBSET st.present
    PROVE  LET new == Discard(st, gone)
           IN  /\ new \in Stores /\ new.present = st.present \ gone
               /\ \A r \in Runs \ gone : new.runs[r] = st.runs[r] /\ new.lease[r] = st.lease[r]
               /\ \A r \in gone : new.runs[r] = Absent(r) /\ new.lease[r] = NoWorker
  <1> DEFINE new == Discard(st, gone)
             f == [o \in Runs |-> IF o \in gone THEN Absent(o) ELSE st.runs[o]]
             g == [o \in Runs |-> IF o \in gone THEN NoWorker ELSE st.lease[o]]
  <1>1. \A r \in Runs : Absent(r) \in RunRecord
    <2>1. 0 \in Nat /\ {} \in SUBSET Runs
      BY SMTT(60)
    <2> QED BY Zenon, <2>1, AdmittedRecord DEF Absent
  <1>2. st.present \in SUBSET Runs /\ st.runs \in [Runs -> RunRecord]
        /\ st.lease \in [Runs -> Workers \cup {NoWorker}]
    BY Zenon DEF Stores
  <1>3. f \in [Runs -> RunRecord] /\ g \in [Runs -> Workers \cup {NoWorker}]
    BY Zenon, <1>1, <1>2
  <1>4. new.present = st.present \ gone /\ new.runs = f /\ new.lease = g
        /\ new = [present |-> st.present \ gone, runs |-> f, lease |-> g]
    BY Zenon DEF Discard
  <1>5. st.present \ gone \in SUBSET Runs /\ gone \subseteq Runs
    BY Zenon, <1>2
  <1>6. new \in Stores
    <2> HIDE DEF f, g, new
    <2> QED BY Zenon, <1>3, <1>4, <1>5 DEF Stores
  <1> HIDE DEF new
  <1> QED BY Zenon, <1>4, <1>5, <1>6 DEF new

\* Cancelling the active runs of a group.
LEMMA CancelStore ==
    ASSUME NEW st \in Stores, NEW active \in SUBSET Runs
    PROVE  LET new == CancelAll(st, active)
           IN  /\ new \in Stores /\ new.present = st.present
               /\ \A r \in Runs \ active : new.runs[r] = st.runs[r] /\ new.lease[r] = st.lease[r]
               /\ \A r \in active :
                     /\ new.runs[r] = NextRevision(RequestCancel(st.runs[r]))
                     /\ new.lease[r] = IF Terminal(RequestCancel(st.runs[r]).status)
                                       THEN NoWorker ELSE st.lease[r]
  <1> DEFINE new == CancelAll(st, active)
             f == [o \in Runs |-> IF o \in active THEN NextRevision(RequestCancel(st.runs[o]))
                                                 ELSE st.runs[o]]
             g == [o \in Runs |-> IF o \in active /\ Terminal(RequestCancel(st.runs[o]).status)
                                 THEN NoWorker ELSE st.lease[o]]
  <1>1. st.present \in SUBSET Runs /\ st.runs \in [Runs -> RunRecord]
        /\ st.lease \in [Runs -> Workers \cup {NoWorker}]
    BY Zenon DEF Stores
  <1>2. \A r \in Runs : NextRevision(RequestCancel(st.runs[r])) \in RunRecord
    BY Zenon, <1>1, CancelRecord
  <1>3. f \in [Runs -> RunRecord] /\ g \in [Runs -> Workers \cup {NoWorker}]
    BY Zenon, <1>1, <1>2
  <1>4. new.present = st.present /\ new.runs = f /\ new.lease = g
        /\ new = [present |-> st.present, runs |-> f, lease |-> g]
    BY Zenon DEF CancelAll
  <1>5. new \in Stores
    <2> HIDE DEF f, g, new
    <2> QED BY Zenon, <1>1, <1>3, <1>4 DEF Stores
  <1>6. \A r \in Runs \ active : f[r] = st.runs[r] /\ g[r] = st.lease[r]
    BY Zenon
  <1>7. \A r \in active : f[r] = NextRevision(RequestCancel(st.runs[r]))
    BY Zenon
  <1>8. \A r \in active : g[r] = IF Terminal(RequestCancel(st.runs[r]).status)
                                 THEN NoWorker ELSE st.lease[r]
    BY SMTT(60)
  <1> HIDE DEF new, f, g
  <1> QED BY Zenon, <1>4, <1>5, <1>6, <1>7, <1>8 DEF new

\* Putting a new run into the store.
LEMMA InsertStore ==
    ASSUME NEW st \in Stores, NEW r \in Runs, NEW c \in Nat, NEW blockers \in SUBSET Runs,
           now \in Nat
    PROVE  LET new == Insert(st, r, c, blockers)
           IN  /\ new \in Stores /\ new.present = st.present \cup {r}
               /\ \A o \in Runs \ {r} : new.runs[o] = st.runs[o]
               /\ new.runs[r] = Admitted(r, c, now, blockers) /\ new.lease = st.lease
  <1> DEFINE new == Insert(st, r, c, blockers)
             rec == Admitted(r, c, now, blockers)
             f == [st.runs EXCEPT ![r] = rec]
  <1>1. st.present \in SUBSET Runs /\ st.runs \in [Runs -> RunRecord]
        /\ st.lease \in [Runs -> Workers \cup {NoWorker}]
    BY Zenon DEF Stores
  <1>2. rec \in RunRecord
    BY Zenon, AdmittedRecord
  <1> HIDE DEF rec
  <1>3. f \in [Runs -> RunRecord] /\ f[r] = rec /\ \A o \in Runs \ {r} : f[o] = st.runs[o]
    BY Zenon, <1>1, <1>2
  <1>4. new.present = st.present \cup {r} /\ new.runs = f /\ new.lease = st.lease
    BY Zenon DEF Insert, Stores, rec
  <1>5. st.present \cup {r} \in SUBSET Runs
    BY Zenon, <1>1
  <1>6. new = [st EXCEPT !.present = st.present \cup {r}, !.runs = f]
    BY Zenon DEF Insert, Stores, rec
  <1> HIDE DEF f, new
  <1>7. new \in Stores
    BY Zenon, <1>3, <1>5, <1>6 DEF Stores
  <1>8. new.runs[r] = rec /\ \A o \in Runs \ {r} : new.runs[o] = st.runs[o]
    BY Zenon, <1>3, <1>4
  <1> QED BY Zenon, <1>4, <1>7, <1>8 DEF new, rec

\* The four ends of the loop's body.
LEMMA AdmitRunCases ==
    ASSUME NEW st, NEW r, NEW c
    PROVE  LET new    == AdmitRun(st, r, c)
               rest   == Discard(st, Obsolete(st, r))
               active == ActiveGroupRuns(rest, Plans[r].group)
           IN  \/ new = st
               \/ new = rest
               \/ /\ ~MinimumIntervalSuppresses(st, r) /\ ~Duplicate(rest, r)
                  /\ \/ /\ Plans[r].policy = "replace"
                        /\ new = Insert(CancelAll(rest, active), r, c, active)
                     \/ new = Insert(rest, r, c, {})
  BY Zenon DEF AdmitRun

\* Superseded runs leave the store as it should be.
LEMMA DiscardKeeps ==
    ASSUME NEW c, NEW st, Kept(st, c), NEW r \in Runs
    PROVE  LET rest == Discard(st, Obsolete(st, r))
           IN  /\ Kept(rest, c) /\ rest \in Stores /\ rest.present \subseteq st.present
               /\ \A o \in rest.present : rest.runs[o] = st.runs[o]
               /\ \A o \in rest.present :
                     Plans[o].trigger = Plans[r].trigger /\ Plans[r].debounce > 0
                         => ~Silent(rest.runs[o])
  <1> DEFINE gone == Obsolete(st, r)
             rest == Discard(st, gone)
  <1>1. st \in Stores /\ gone \in SUBSET st.present
    BY Zenon DEF Kept, Obsolete
  <1>2. \A o \in gone : st.runs[o].status = "queued"
    BY Zenon DEF Obsolete
  <1>3. \A o \in st.present \ gone :
            Plans[o].trigger = Plans[r].trigger /\ Plans[r].debounce > 0 => ~Silent(st.runs[o])
    BY Zenon DEF Obsolete, Silent
  <1> HIDE DEF gone
  <1>4. /\ rest \in Stores /\ rest.present = st.present \ gone
        /\ \A o \in Runs \ gone : rest.runs[o] = st.runs[o]
    BY SMTT(60), <1>1, DiscardStore
  <1> HIDE DEF rest
  <1>5. rest.present \subseteq Runs
    BY Zenon, <1>4 DEF Stores
  <1>6. \A o \in rest.present : rest.runs[o] = st.runs[o] /\ Follows(st.runs[o], rest.runs[o])
    BY Zenon, <1>4, <1>5, FollowsItself
  <1>7. Kept(rest, c)
    BY Zenon, <1>2, <1>4, <1>6, StoreGoesOn
  <1> QED BY Zenon, <1>3, <1>4, <1>6, <1>7 DEF rest, gone

\* Cancelling the active runs of a group leaves the store as it should be.
LEMMA CancelKeeps ==
    ASSUME NEW c, NEW st, Kept(st, c), NEW group
    PROVE  LET active == ActiveGroupRuns(st, group)
               new    == CancelAll(st, active)
           IN  /\ Kept(new, c) /\ new.present = st.present
               /\ active \in SUBSET st.present
               /\ \A b \in active : Plans[b].group = group /\ Ending(new.runs[b])
               /\ \A o \in st.present : Follows(st.runs[o], new.runs[o])
  <1> DEFINE active == ActiveGroupRuns(st, group)
             new == CancelAll(st, active)
  <1>1. st \in Stores /\ st.present \subseteq Runs /\ \A o \in Runs : st.runs[o] \in RunRecord
    BY Zenon DEF Kept, Stores
  <1>2. active \in SUBSET st.present /\ \A b \in active : Plans[b].group = group
    BY Zenon DEF ActiveGroupRuns
  <1>3. \A b \in active : st.runs[b].status \in {"queued", "running", "waiting"}
    BY Zenon DEF ActiveGroupRuns, OccupiesGroup
  <1> HIDE DEF active
  <1>4. active \in SUBSET Runs
    BY Zenon, <1>1, <1>2
  <1>5. /\ new \in Stores /\ new.present = st.present
        /\ \A r \in Runs \ active : new.runs[r] = st.runs[r]
        /\ \A r \in active : new.runs[r] = NextRevision(RequestCancel(st.runs[r]))
    BY Zenon, <1>1, <1>4, CancelStore
  <1> HIDE DEF new
  <1>6. \A r \in active : /\ Follows(st.runs[r], new.runs[r]) /\ new.runs[r].cancel
                           /\ new.runs[r].status \in {"cancelled", "running"}
    <2> SUFFICES ASSUME NEW r \in active
                 PROVE  /\ Follows(st.runs[r], new.runs[r]) /\ new.runs[r].cancel
                        /\ new.runs[r].status \in {"cancelled", "running"}
      BY Zenon
    <2>1. st.runs[r] \in RunRecord
      BY Zenon, <1>1, <1>4
    <2> QED BY ZenonT(60), <2>1, <1>3, <1>5, CancelRecord
  <1>7. \A b \in active : Ending(new.runs[b])
    BY Zenon, <1>6 DEF Ending, Terminal
  <1>8. \A r \in st.present : Follows(st.runs[r], new.runs[r])
    BY Zenon, <1>1, <1>5, <1>6, FollowsItself
  <1>9. Kept(new, c)
    BY Zenon, <1>5, <1>8, StoreGoesOn
  <1> QED BY Zenon, <1>2, <1>5, <1>7, <1>8, <1>9 DEF active, new

\* The interval of the trigger is over for a run that is not suppressed.
LEMMA NotSuppressed ==
    ASSUME NEW st \in Stores, NEW r \in Runs, ~MinimumIntervalSuppresses(st, r), now \in Nat
    PROVE  \A o \in st.present : Plans[o].trigger = Plans[r].trigger /\ Plans[r].interval > 0
               => st.runs[o].created + Plans[r].interval <= now
  <1> SUFFICES ASSUME NEW o \in st.present, Plans[o].trigger = Plans[r].trigger,
                      Plans[r].interval > 0
               PROVE  st.runs[o].created + Plans[r].interval <= now
    BY Zenon
  <1>1. ~(st.runs[o].created + Plans[r].interval > now)
    BY Zenon DEF MinimumIntervalSuppresses
  <1>2. st.runs[o].created \in Nat
    BY Zenon DEF Stores, RunRecord
  <1> QED BY SMTT(60), <1>1, <1>2, PlanFields

\* The body of admit's loop keeps the store as it should be.
LEMMA AdmitRunKeeps ==
    ASSUME NEW c \in Nat, head \in Nat, head < c, now \in Nat,
           NEW st, Kept(st, c), NEW r \in Runs
    PROVE  Kept(AdmitRun(st, r, c), c)
  <1> DEFINE rest   == Discard(st, Obsolete(st, r))
             active == ActiveGroupRuns(rest, Plans[r].group)
             mid    == CancelAll(rest, active)
             new    == AdmitRun(st, r, c)
  <1>1. \/ new = st
        \/ new = rest
        \/ /\ ~MinimumIntervalSuppresses(st, r) /\ ~Duplicate(rest, r)
           /\ \/ Plans[r].policy = "replace" /\ new = Insert(mid, r, c, active)
              \/ new = Insert(rest, r, c, {})
    BY Zenon, AdmitRunCases
  <1>2. /\ Kept(rest, c) /\ rest \in Stores /\ rest.present \subseteq st.present
        /\ \A o \in rest.present : rest.runs[o] = st.runs[o]
        /\ \A o \in rest.present :
              Plans[o].trigger = Plans[r].trigger /\ Plans[r].debounce > 0
                  => ~Silent(rest.runs[o])
    BY Zenon, DiscardKeeps
  <1> HIDE DEF rest
  <1>3. /\ Kept(mid, c) /\ mid.present = rest.present
        /\ active \in SUBSET rest.present
        /\ \A b \in active : Plans[b].group = Plans[r].group /\ Ending(mid.runs[b])
        /\ \A o \in rest.present : Follows(rest.runs[o], mid.runs[o])
    BY Zenon, <1>2, CancelKeeps
  <1> HIDE DEF mid, active
  <1>4. st \in Stores /\ mid \in Stores
    BY Zenon, <1>3 DEF Kept
  <1>5. ASSUME ~MinimumIntervalSuppresses(st, r), ~Duplicate(rest, r),
               NEW base \in {rest, mid}, NEW blockers \in SUBSET rest.present,
               new = Insert(base, r, c, blockers),
               \A b \in blockers : /\ Plans[b].group = Plans[r].group /\ Ending(base.runs[b])
                                    /\ Plans[r].policy = "replace"
        PROVE  Kept(new, c)
    <2>1. base \in Stores /\ Kept(base, c) /\ base.present = rest.present
      BY Zenon, <1>2, <1>3, <1>4
    <2>2. \A o \in rest.present : Follows(rest.runs[o], base.runs[o])
      BY Zenon, <1>3, FollowsItself
    <2>3. blockers \in SUBSET Runs
      BY Zenon, <1>2 DEF Stores
    <2>4. /\ new \in Stores /\ new.present = base.present \cup {r}
          /\ \A o \in Runs \ {r} : new.runs[o] = base.runs[o]
          /\ new.runs[r] = Admitted(r, c, now, blockers)
      <3> HIDE DEF new
      <3> QED BY SMTT(60), <1>5, <2>1, <2>3, InsertStore
    <2>5. /\ new.runs[r].status = "queued" /\ new.runs[r].cursor = c
          /\ new.runs[r].created = now
          /\ new.runs[r].notBefore = now + Plans[r].debounce /\ new.runs[r].blockers = blockers
      <3> HIDE DEF new
      <3> QED BY SMTT(60), <2>3, <2>4, AdmittedRecord
    <2>6. \A o \in base.present : Plans[o].key # Plans[r].key
      BY Zenon, <1>5, <2>1 DEF Duplicate
    <2>7. r \notin base.present
      BY Zenon, <2>6
    <2>8. \A o \in base.present : o \in Runs \ {r} /\ new.runs[o] = base.runs[o]
      BY Zenon, <2>1, <2>4, <2>7 DEF Stores
    <2>9. \A o \in base.present :
             Plans[o].trigger = Plans[r].trigger /\ Plans[r].interval > 0
                 => base.runs[o].created + Plans[r].interval <= now
      BY ZenonT(60), <1>2, <1>4, <1>5, <2>1, <2>2, NotSuppressed DEF Follows
    <2>10. \A o \in base.present :
             Plans[o].trigger = Plans[r].trigger /\ Plans[r].debounce > 0
                 => ~Silent(base.runs[o])
      BY Zenon, <1>2, <2>1, <2>2 DEF Follows, Silent
    <2>11. \A b \in new.runs[r].blockers :
              /\ b \in base.present /\ SameGroup(b, r) /\ Plans[r].policy = "replace"
              /\ Ending(base.runs[b])
      BY Zenon, <1>5, <2>1, <2>5, <2>7 DEF SameGroup
    <2> HIDE DEF new
    <2> QED BY ZenonT(60), <2>1, <2>4, <2>5, <2>6, <2>7, <2>8, <2>9, <2>10, <2>11, Joins
  <1>6. {} \in SUBSET rest.present
    BY Zenon
  <1> QED BY Zenon, <1>1, <1>2, <1>3, <1>5, <1>6

\* An admission keeps the store as it should be.
LEMMA AdmitRunsKeeps ==
    ASSUME NEW c \in Nat, head \in Nat, head < c, now \in Nat,
           NEW planned \in Seq(Runs), Kept(Store, c)
    PROVE  Kept(AdmitRuns(planned, c), c)
  <1> DEFINE n == Len(planned)
  <1>1. n \in Nat /\ \A i \in 1..n : planned[i] \in Runs
    BY SMTT(60)
  <1>2. PICK after : /\ AdmitRuns(planned, c) = after[n]
                     /\ after[0] = Store
                     /\ \A i \in 1..n : after[i] = AdmitRun(after[i - 1], planned[i], c)
    BY Zenon, AdmitRunsUnfolds
  <1> DEFINE S == {i \in 0..n : Kept(after[i], c)}
  <1>3. 0 \in S /\ n \in 0..n /\ \A i \in 1..n : i \in 0..n
    <2>1. 0 \in 0..n /\ n \in 0..n /\ \A i \in 1..n : i \in 0..n
      BY SMTT(60), <1>1
    <2> QED BY Zenon, <1>2, <2>1
  <1>4. \A i \in 1..n : i - 1 \in S => i \in S
    BY Zenon, <1>1, <1>2, <1>3, AdmitRunKeeps
  <1>5. n \in S
    <2> HIDE DEF n, S
    <2> QED BY Zenon, <1>1, <1>3, <1>4, UpTo
  <1> QED BY Zenon, <1>2, <1>5

-----------------------------------------------------------------------------
(* Steps.                                                                  *)

LEMMA StoreFields == Store.present = present /\ Store.runs = runs /\ Store.lease = lease
  BY Zenon DEF Store

\* The invariant, as one of the store.
LEMMA StoreIsKept ==
    ASSUME AdmissionInv
    PROVE  Kept(Store, head)
  <1>0. Store.present = present /\ Store.runs = runs /\ Store.lease = lease
    BY Zenon, StoreFields
  <1>1. Store \in Stores
    BY Zenon DEF AdmissionInv, AdmissionTypeOK, LeaseTypeOK, Store, Stores
  <1>2. Dated(Store, head)
    BY Zenon, <1>0 DEF AdmissionInv, RunsAreDated, Dated
  <1>3. Keyed(Store)
    BY Zenon, <1>0 DEF AdmissionInv, KeysDiffer, Keyed
  <1>4. Begun(Store)
    BY Zenon, <1>0 DEF AdmissionInv, StartedIsKept, RunsAreDated, Begun
  <1>5. Ends(Store)
    BY Zenon, <1>0 DEF AdmissionInv, PredecessorsEnd, Ends, Ending
  <1>6. Exclusive(Store)
    BY Zenon, <1>0 DEF AdmissionInv, GroupsAreExclusive, Exclusive
  <1>7. InOrder(Store)
    BY Zenon, <1>0 DEF AdmissionInv, StartedIsKept, QueueOrderIsKept, QueuedBefore, InOrder, Before
  <1>8. Spaced(Store)
    BY Zenon, <1>0 DEF AdmissionInv, IntervalsAreKept, Spaced
  <1>9. OneQuiet(Store)
    BY Zenon, <1>0 DEF AdmissionInv, DebounceKeepsOne, Quiet, OneQuiet, Silent
  <1> HIDE DEF Store
  <1> QED BY Zenon, <1>1, <1>2, <1>3, <1>4, <1>5, <1>6, <1>7, <1>8, <1>9 DEF Kept

\* A step that leaves such a store behind keeps the invariant.
LEMMA KeptAfter ==
    ASSUME NEW st, NEW c, Kept(st, c), AdmissionTypeOK',
           present' = st.present, runs' = st.runs, now' = now, started' = started, head' = c
    PROVE  AdmissionInv'
  <1>1. RunsAreDated'
    BY Zenon DEF Kept, RunsAreDated, Dated
  <1>2. KeysDiffer'
    BY Zenon DEF Kept, KeysDiffer, Keyed
  <1>3. StartedIsKept'
    BY Zenon DEF Kept, StartedIsKept, Begun
  <1>4. PredecessorsEnd'
    BY Zenon DEF Kept, PredecessorsEnd, Ends, Ending
  <1>5. GroupsAreExclusive'
    BY Zenon DEF Kept, GroupsAreExclusive, Exclusive
  <1>6. QueueOrderIsKept'
    BY Zenon DEF Kept, QueueOrderIsKept, QueuedBefore, InOrder, Before
  <1>7. IntervalsAreKept'
    BY Zenon DEF Kept, IntervalsAreKept, Spaced
  <1>8. DebounceKeepsOne'
    BY Zenon DEF Kept, DebounceKeepsOne, Quiet, OneQuiet, Silent
  <1> QED BY Zenon, <1>1, <1>2, <1>3, <1>4, <1>5, <1>6, <1>7, <1>8 DEF AdmissionInv

\* A step in which records go on as they may keeps the invariant.
LEMMA GoOnPreserves ==
    ASSUME AdmissionInv, AdmissionTypeOK',
           present' = present, now' = now, started' = started, head' = head,
           \A r \in Runs : Follows(runs[r], runs'[r])
    PROVE  AdmissionInv'
  <1> DEFINE new == [present |-> present', runs |-> runs', lease |-> lease']
  <1>1. Kept(Store, head)
    BY Zenon, StoreIsKept
  <1>2. Store.present = present /\ Store.runs = runs
    BY Zenon, StoreFields
  <1>3. new.present = present' /\ new.runs = runs' /\ new \in Stores
    BY Zenon DEF AdmissionTypeOK, LeaseTypeOK, Stores
  <1>4. new.present \subseteq Runs
    BY Zenon, <1>3 DEF Stores
  <1> HIDE DEF new
  <1>5. Kept(new, head)
    BY Zenon, <1>1, <1>2, <1>3, <1>4, StoreGoesOn
  <1> QED BY Zenon, <1>3, <1>5, KeptAfter

\* A step in which at most time passes keeps the invariant.
LEMMA StillPreserves ==
    ASSUME AdmissionInv, AdmissionTypeOK',
           UNCHANGED <<present, runs, started, head>>, now <= now'
    PROVE  AdmissionInv'
  <1>1. now \in Nat /\ now' \in Nat
    BY SMTT(60), BoundsAssumption DEF AdmissionInv, AdmissionTypeOK, LeaseTypeOK
  <1>2. \A r \in present : runs[r].created \in Nat /\ runs[r].notBefore \in Nat
    BY Zenon DEF AdmissionInv, AdmissionTypeOK, LeaseTypeOK, RunRecord
  <1>3. RunsAreDated'
    <2>1. \A r \in present : runs[r].created <= now => runs[r].created <= now'
      BY SMTT(60), <1>1, <1>2
    <2> QED BY Zenon, <2>1 DEF AdmissionInv, RunsAreDated
  <1>4. KeysDiffer'
    BY Zenon DEF AdmissionInv, KeysDiffer
  <1>5. StartedIsKept'
    BY Zenon DEF AdmissionInv, StartedIsKept
  <1>6. PredecessorsEnd'
    BY Zenon DEF AdmissionInv, PredecessorsEnd
  <1>7. GroupsAreExclusive'
    BY Zenon DEF AdmissionInv, GroupsAreExclusive
  <1>8. QueueOrderIsKept'
    BY Zenon DEF AdmissionInv, QueueOrderIsKept, QueuedBefore
  <1>9. IntervalsAreKept'
    BY Zenon DEF AdmissionInv, IntervalsAreKept
  <1>10. DebounceKeepsOne'
    <2>1. \A r \in present : runs[r].notBefore > now' => runs[r].notBefore > now
      BY SMTT(60), <1>1, <1>2
    <2> QED BY ZenonT(60), <2>1 DEF AdmissionInv, DebounceKeepsOne, Quiet
  <1> QED BY ZenonT(60), <1>3, <1>4, <1>5, <1>6, <1>7, <1>8, <1>9, <1>10 DEF AdmissionInv

\* What a claim does to the records.
LEMMA ClaimRecords ==
    ASSUME AdmissionInv, NEW w \in Workers, NEW r, ClaimRun(w, r)
    PROVE  /\ r \in present /\ r \in Runs /\ GroupIsRunnable(r)
           /\ runs[r].status \in {"queued", "running"}
           /\ runs' \in [Runs -> RunRecord] /\ runs'[r].status = "running"
           /\ \A o \in Runs : /\ runs'[o].cursor = runs[o].cursor
                               /\ runs'[o].created = runs[o].created
                               /\ runs'[o].notBefore = runs[o].notBefore
                               /\ runs'[o].blockers = runs[o].blockers
                               /\ runs'[o].cancel = runs[o].cancel
           /\ \A o \in Runs \ {r} : runs'[o].status = runs[o].status
           /\ LeaseTypeOK'
  <1>1. /\ r \in present /\ GroupIsRunnable(r) /\ runs[r].status \in {"queued", "running"}
    BY Zenon DEF ClaimRun, Candidates, Scanned, Unleased
  <1>2. r \in Runs /\ runs \in [Runs -> RunRecord] /\ lease \in [Runs -> Workers \cup {NoWorker}]
    BY Zenon, <1>1 DEF AdmissionInv, AdmissionTypeOK, LeaseTypeOK
  <1> DEFINE new == [runs[r] EXCEPT !.status = "running"]
  <1>3. runs' = [runs EXCEPT ![r] = new]
    BY Zenon, <1>2 DEF ClaimRun
  <1>4. /\ new \in RunRecord /\ new.status = "running"
        /\ new.cursor = runs[r].cursor /\ new.created = runs[r].created
        /\ new.notBefore = runs[r].notBefore /\ new.blockers = runs[r].blockers
        /\ new.cancel = runs[r].cancel
    <2>1. runs[r] \in RunRecord /\ "running" \in RunStatuses
      BY Zenon, <1>2 DEF RunStatuses
    <2> QED BY Zenon, <2>1 DEF RunRecord
  <1> HIDE DEF new
  <1>5. runs' \in [Runs -> RunRecord] /\ runs'[r] = new /\ \A o \in Runs \ {r} : runs'[o] = runs[o]
    BY Zenon, <1>2, <1>3, <1>4
  <1>6. \A o \in Runs : /\ runs'[o].cursor = runs[o].cursor
                         /\ runs'[o].created = runs[o].created
                         /\ runs'[o].notBefore = runs[o].notBefore
                         /\ runs'[o].blockers = runs[o].blockers
                         /\ runs'[o].cancel = runs[o].cancel
    BY SMTT(60), <1>4, <1>5
  <1>7. LeaseTypeOK'
    <2>1. lease' \in [Runs -> Workers \cup {NoWorker}]
      <3>1. UnexpiredLease \in [Runs -> Workers \cup {NoWorker}]
        BY Zenon, <1>2 DEF UnexpiredLease
      <3> QED BY Zenon, <1>2, <3>1 DEF ClaimRun
    <2> QED BY Zenon, <1>5, <2>1 DEF AdmissionInv, AdmissionTypeOK, LeaseTypeOK, ClaimRun
  <1> QED BY Zenon, <1>1, <1>2, <1>4, <1>5, <1>6, <1>7

\* A claim keeps the invariant.
LEMMA ClaimPreserves ==
    ASSUME AdmissionInv, NEW w \in Workers, NEW r, ClaimRun(w, r),
           started' = started \cup {r}, UNCHANGED <<head, seen>>
    PROVE  AdmissionInv'
  <1>1. /\ r \in present /\ r \in Runs /\ GroupIsRunnable(r)
        /\ runs[r].status \in {"queued", "running"}
        /\ runs' \in [Runs -> RunRecord] /\ runs'[r].status = "running"
        /\ \A o \in Runs : /\ runs'[o].cursor = runs[o].cursor
                            /\ runs'[o].created = runs[o].created
                            /\ runs'[o].notBefore = runs[o].notBefore
                            /\ runs'[o].blockers = runs[o].blockers
                            /\ runs'[o].cancel = runs[o].cancel
        /\ \A o \in Runs \ {r} : runs'[o].status = runs[o].status
        /\ LeaseTypeOK'
    BY Zenon, ClaimRecords
  <1>2. present' = present /\ now' = now /\ present \subseteq Runs /\ started \subseteq present
    BY Zenon DEF ClaimRun, AdmissionInv, AdmissionTypeOK, LeaseTypeOK, StartedIsKept
  <1>3. AdmissionTypeOK'
    BY Zenon, <1>1 DEF AdmissionInv, AdmissionTypeOK
  <1>4. RunsAreDated'
    BY Zenon, <1>1, <1>2 DEF AdmissionInv, RunsAreDated
  <1>5. KeysDiffer'
    BY Zenon, <1>2 DEF AdmissionInv, KeysDiffer
  <1>6. StartedIsKept'
    <2>1. \A o \in started' : o \in present' /\ runs'[o].status # "queued"
      BY Zenon, <1>1, <1>2 DEF AdmissionInv, StartedIsKept
    <2>2. \A o \in present' : runs'[o].status = "running" => o \in started'
      BY Zenon, <1>1, <1>2 DEF AdmissionInv, StartedIsKept
    <2> QED BY Zenon, <2>1, <2>2 DEF StartedIsKept
  <1>7. PredecessorsEnd'
    <2> SUFFICES ASSUME NEW q \in present, NEW b \in runs[q].blockers
                 PROVE  /\ b \in present /\ SameGroup(b, q) /\ Plans[q].policy = "replace"
                        /\ Terminal(runs'[b].status) \/ (runs'[b].status = "running" /\ runs'[b].cancel)
      BY ZenonT(60), <1>1, <1>2 DEF PredecessorsEnd
    <2>1. /\ b \in present /\ SameGroup(b, q) /\ Plans[q].policy = "replace"
          /\ Terminal(runs[b].status) \/ (runs[b].status = "running" /\ runs[b].cancel)
      BY Zenon DEF AdmissionInv, PredecessorsEnd
    <2>2. CASE b = r
      <3>1. ~Terminal(runs[b].status)
        BY Zenon, <1>1, <2>2 DEF Terminal
      <3> QED BY Zenon, <1>1, <2>1, <2>2, <3>1
    <2>3. CASE b # r
      BY Zenon, <1>1, <1>2, <2>1, <2>3
    <2> QED BY Zenon, <2>2, <2>3
  <1>8. Plans[r].policy = "allow" \/
        \A o \in present \ {r} : Plans[o].group = Plans[r].group =>
            runs[o].status # "running" /\ ~(runs[o].status = "queued" /\ QueuedBefore(o, r))
    BY Zenon, <1>1 DEF GroupIsRunnable
  <1>9. GroupsAreExclusive'
    <2> SUFFICES ASSUME NEW q \in present, NEW o \in present, SameGroup(q, o),
                        runs'[q].status = "running", runs'[o].status = "running"
                 PROVE  "allow" \in {Plans[q].policy, Plans[o].policy}
      BY Zenon, <1>2 DEF GroupsAreExclusive
    <2>1. CASE q = r
      BY Zenon, <2>1, <1>1, <1>2, <1>8 DEF SameGroup
    <2>2. CASE o = r
      BY Zenon, <2>2, <1>1, <1>2, <1>8 DEF SameGroup
    <2>3. CASE q # r /\ o # r
      BY ZenonT(60), <2>3, <1>1, <1>2 DEF AdmissionInv, GroupsAreExclusive
    <2> QED BY Zenon, <2>1, <2>2, <2>3
  <1>10. QueueOrderIsKept'
    <2> SUFFICES ASSUME NEW q \in started \cup {r}, NEW o \in present, SameGroup(q, o),
                        Plans[q].policy # "allow", QueuedBefore(o, q)',
                        runs'[o].status = "queued"
                 PROVE  FALSE
      BY Zenon, <1>2 DEF QueueOrderIsKept
    <2>1. QueuedBefore(o, q) /\ o # r /\ runs[o].status = "queued" /\ q \in present
      BY Zenon, <1>1, <1>2 DEF QueuedBefore
    <2>2. CASE q = r
      BY Zenon, <2>1, <2>2, <1>8 DEF SameGroup
    <2>3. CASE q \in started
      BY Zenon, <2>1, <2>3 DEF AdmissionInv, QueueOrderIsKept
    <2> QED BY Zenon, <2>2, <2>3
  <1>11. IntervalsAreKept'
    <2> SUFFICES ASSUME NEW q \in present, NEW o \in present, q # o,
                        Plans[q].trigger = Plans[o].trigger, runs'[o].cursor < runs'[q].cursor
                 PROVE  runs'[o].created + Plans[q].interval <= runs'[q].created
      BY Zenon, <1>2 DEF IntervalsAreKept
    <2>1. /\ runs'[o].cursor = runs[o].cursor /\ runs'[q].cursor = runs[q].cursor
          /\ runs'[o].created = runs[o].created /\ runs'[q].created = runs[q].created
      BY Zenon, <1>1, <1>2
    <2> QED BY Zenon, <2>1 DEF AdmissionInv, IntervalsAreKept
  <1>12. DebounceKeepsOne'
    <2>1. \A o \in present : Quiet(o)' => Quiet(o)
      BY Zenon, <1>1, <1>2 DEF Quiet
    <2> QED BY Zenon, <1>2, <2>1 DEF AdmissionInv, DebounceKeepsOne
  <1> QED BY ZenonT(60), <1>3, <1>4, <1>5, <1>6, <1>7, <1>9, <1>10, <1>11, <1>12 DEF AdmissionInv

\* An admission keeps the invariant.
LEMMA AdmitPreserves ==
    ASSUME AdmissionInv, NEW e \in Events, AdmitEvent(e)
    PROVE  AdmissionInv'
  <1> DEFINE c == head + 1
             st == AdmitRuns(Planned[e], c)
  <1>1. head \in Nat /\ c \in Nat /\ head < c /\ now \in Nat
    BY SMTT(60), BoundsAssumption DEF AdmissionInv, AdmissionTypeOK, LeaseTypeOK
  <1>2. Planned[e] \in Seq(Runs)
    BY Zenon, PlannedAssumption
  <1>3. Kept(Store, c)
    <2>1. Kept(Store, head)
      BY Zenon, StoreIsKept
    <2>2. \A r \in Store.present : Store.runs[r].cursor \in Nat /\ Store.runs[r].cursor <= head
      BY Zenon, <2>1 DEF Kept, Stores, RunRecord, Dated
    <2>3. \A r \in Store.present : Store.runs[r].cursor <= c
      <3>1. ASSUME NEW k \in Nat, k <= head PROVE k <= c
        BY SMTT(60), <1>1, <3>1
      <3> QED BY Zenon, <2>2, <3>1
    <2>4. Dated(Store, c)
      BY Zenon, <2>1, <2>3 DEF Kept, Dated
    <2> HIDE DEF c
    <2> QED BY Zenon, <2>1, <2>4 DEF Kept
  <1>4. Kept(st, c)
    <2> HIDE DEF c
    <2> QED BY Zenon, <1>1, <1>2, <1>3, AdmitRunsKeeps
  <1>5. /\ present' = st.present /\ runs' = st.runs /\ lease' = st.lease
        /\ expired' = {r \in expired : st.lease[r] # NoWorker}
        /\ head' = c /\ seen' = [seen EXCEPT ![e] = c]
        /\ now' = now /\ cancels' = cancels /\ started' = started
    BY Zenon DEF AdmitEvent
  <1> HIDE DEF st, c
  <1>6. AdmissionTypeOK'
    <2>1. LeaseTypeOK'
      BY Zenon, <1>4, <1>5 DEF Kept, Stores, AdmissionInv, AdmissionTypeOK, LeaseTypeOK
    <2>2. seen' \in [Events -> 0..head']
      <3>1. seen \in [Events -> 0..head]
        BY Zenon DEF AdmissionInv, AdmissionTypeOK
      <3>2. c \in 0..c /\ \A k \in 0..head : k \in 0..c
        BY SMTT(60), <1>1
      <3> QED BY Zenon, <1>5, <3>1, <3>2
    <2> QED BY Zenon, <1>1, <1>5, <2>1, <2>2 DEF AdmissionInv, AdmissionTypeOK
  <1> QED BY Zenon, <1>4, <1>5, <1>6, KeptAfter

\* A commit of a record that goes on as it may keeps the types.
LEMMA RewriteTypes ==
    ASSUME AdmissionInv, NEW r \in Runs, NEW new \in RunRecord,
           runs' = [runs EXCEPT ![r] = new], Follows(runs[r], new),
           DropLeaseIfEnded(r, new.status),
           UNCHANGED <<now, present, admissionVars>>, cancels' \in 0..MaxCancels
    PROVE  AdmissionTypeOK' /\ \A o \in Runs : Follows(runs[o], runs'[o])
  <1>1. runs \in [Runs -> RunRecord] /\ lease \in [Runs -> Workers \cup {NoWorker}]
    BY Zenon DEF AdmissionInv, AdmissionTypeOK, LeaseTypeOK
  <1>2. runs' \in [Runs -> RunRecord] /\ runs'[r] = new /\ \A o \in Runs \ {r} : runs'[o] = runs[o]
    BY Zenon, <1>1
  <1>3. \A o \in Runs : Follows(runs[o], runs'[o])
    BY Zenon, <1>2, FollowsItself
  <1>4. lease' \in [Runs -> Workers \cup {NoWorker}] /\ expired' \subseteq Runs
    <2>1. [lease EXCEPT ![r] = NoWorker] \in [Runs -> Workers \cup {NoWorker}]
      BY Zenon, <1>1
    <2>2. expired \subseteq Runs /\ expired \ {r} \subseteq Runs
      BY Zenon DEF AdmissionInv, AdmissionTypeOK, LeaseTypeOK
    <2> QED BY Zenon, <1>1, <2>1, <2>2 DEF DropLeaseIfEnded
  <1>5. LeaseTypeOK'
    BY Zenon, <1>2, <1>4 DEF AdmissionInv, AdmissionTypeOK, LeaseTypeOK
  <1>6. AdmissionTypeOK'
    BY Zenon, <1>5 DEF AdmissionInv, AdmissionTypeOK, admissionVars
  <1> QED BY Zenon, <1>3, <1>6

\* Committing the end of a run keeps the invariant.
LEMMA EndPreserves ==
    ASSUME AdmissionInv, NEW w \in Workers, NEW r \in Runs, Work(w, r)
    PROVE  AdmissionInv'
  <1>1. PICK s \in {"succeeded", "failed", "cancelled", "indeterminate"} :
            CommitRun(w, r, runs[r], EndRun(runs[r], s, s))
    BY Zenon DEF Work
  <1> DEFINE mid == EndRun(runs[r], s, s)
             new == NextRevision(mid)
  <1>2. runs[r] \in RunRecord /\ cancels \in 0..MaxCancels
    BY Zenon DEF AdmissionInv, AdmissionTypeOK, LeaseTypeOK
  <1>3. new \in RunRecord /\ Follows(runs[r], new)
    BY Zenon, <1>2, EndRecord
  <1>4. mid \in RunRecord
    <2>1. s \in RunStatuses /\ s \in StepStatuses
      BY Zenon DEF RunStatuses, StepStatuses
    <2> QED BY Zenon, <1>2, <2>1, EndRunRecord
  <1>5. runs' = [runs EXCEPT ![r] = new] /\ DropLeaseIfEnded(r, mid.status)
        /\ UNCHANGED <<now, present, cancels>> /\ UNCHANGED admissionVars
    BY Zenon, <1>1 DEF CommitRun, Work
  <1> HIDE DEF mid
  <1>6. new.status = mid.status
    BY Zenon, <1>4, NextRevisionRecord
  <1> HIDE DEF new
  <1>7. AdmissionTypeOK' /\ \A o \in Runs : Follows(runs[o], runs'[o])
    BY Zenon, <1>2, <1>3, <1>5, <1>6, RewriteTypes
  <1> QED BY Zenon, <1>5, <1>7, GoOnPreserves DEF admissionVars

\* A user's cancellation keeps the invariant.
LEMMA CancelPreserves ==
    ASSUME AdmissionInv, NEW r \in Runs, UserCancel(r)
    PROVE  AdmissionInv'
  <1> DEFINE new == NextRevision(RequestCancel(runs[r]))
  <1>1. runs[r] \in RunRecord /\ cancels \in 0..MaxCancels /\ runs \in [Runs -> RunRecord]
    BY Zenon DEF AdmissionInv, AdmissionTypeOK, LeaseTypeOK
  <1>2. new \in RunRecord /\ Follows(runs[r], new) /\ RequestCancel(runs[r]).status = new.status
    BY Zenon, <1>1, CancelRecord
  <1>3. /\ runs' = [runs EXCEPT ![r] = new] /\ DropLeaseIfEnded(r, RequestCancel(runs[r]).status)
        /\ UNCHANGED <<now, present>> /\ UNCHANGED admissionVars
        /\ cancels < MaxCancels /\ cancels' = cancels + 1
    BY Zenon, <1>1 DEF UserCancel, CancelRun
  <1>4. cancels' \in 0..MaxCancels
    BY SMTT(60), <1>1, <1>3, BoundsAssumption
  <1> HIDE DEF new
  <1>5. AdmissionTypeOK' /\ \A o \in Runs : Follows(runs[o], runs'[o])
    BY Zenon, <1>2, <1>3, <1>4, RewriteTypes
  <1> QED BY Zenon, <1>3, <1>5, GoOnPreserves DEF admissionVars

\* Leases that expire, and are dropped, and the clock do not matter.
LEMMA QuietPreserves ==
    ASSUME AdmissionInv, Poll \/ (\E r \in Runs : LeaseLost(r)) \/ TimePasses
    PROVE  AdmissionInv'
  <1>1. now \in 0..MaxTime /\ lease \in [Runs -> Workers \cup {NoWorker}]
    BY Zenon DEF AdmissionInv, AdmissionTypeOK, LeaseTypeOK
  <1>2. UNCHANGED <<present, runs, started, head, seen, cancels>>
    BY Zenon DEF Poll, ClaimNothing, LeaseLost, LeaseExpires, TimePasses, Tick, admissionVars
  <1>3. now <= now' /\ now' \in 0..MaxTime
    <2>1. now' = now \/ (now < MaxTime /\ now' = now + 1)
      BY Zenon DEF Poll, ClaimNothing, LeaseLost, LeaseExpires, TimePasses, Tick
    <2> QED BY SMTT(60), <1>1, <2>1, BoundsAssumption
  <1>4. lease' \in [Runs -> Workers \cup {NoWorker}] /\ expired' \subseteq Runs
    <2>1. UnexpiredLease \in [Runs -> Workers \cup {NoWorker}]
      BY Zenon, <1>1 DEF UnexpiredLease
    <2>2. lease' = UnexpiredLease \/ lease' = lease
      BY Zenon DEF Poll, ClaimNothing, LeaseLost, LeaseExpires, TimePasses, Tick
    <2>3. expired' = {} \/ expired' = expired \/ \E r \in Runs : expired' = expired \cup {r}
      BY Zenon DEF Poll, ClaimNothing, LeaseLost, LeaseExpires, TimePasses, Tick
    <2>4. expired \subseteq Runs
      BY Zenon DEF AdmissionInv, AdmissionTypeOK, LeaseTypeOK
    <2> QED BY Zenon, <1>1, <2>1, <2>2, <2>3, <2>4
  <1>5. AdmissionTypeOK'
    BY Zenon, <1>2, <1>3, <1>4 DEF AdmissionInv, AdmissionTypeOK, LeaseTypeOK
  <1> QED BY Zenon, <1>2, <1>3, <1>5, StillPreserves

LEMMA AdmissionInvInit == AdmissionInit => AdmissionInv
  <1> SUFFICES ASSUME AdmissionInit PROVE AdmissionInv
    BY Zenon
  <1>1. \A r \in Runs : Absent(r) \in RunRecord
    <2>1. 0 \in Nat /\ {} \in SUBSET Runs
      BY SMTT(60)
    <2> QED BY Zenon, <2>1, AdmittedRecord DEF Absent
  <1>2. 0 \in 0..MaxTime /\ 0 \in 0..MaxCancels /\ 0 \in Nat /\ 0 \in 0..0
    BY SMTT(60), BoundsAssumption
  <1>3. LeaseTypeOK
    BY Zenon, <1>1, <1>2 DEF AdmissionInit, LeaseTypeOK
  <1>4. AdmissionTypeOK
    BY Zenon, <1>2, <1>3 DEF AdmissionInit, AdmissionTypeOK
  <1>5. present = {} /\ started = {}
    BY Zenon DEF AdmissionInit
  <1> QED BY Zenon, <1>4, <1>5 DEF AdmissionInv, RunsAreDated, KeysDiffer, StartedIsKept,
             PredecessorsEnd, GroupsAreExclusive, QueueOrderIsKept, IntervalsAreKept, DebounceKeepsOne

LEMMA AdmissionInvStep == AdmissionInv /\ [AdmissionNext]_allVars => AdmissionInv'
  <1> SUFFICES ASSUME AdmissionInv, [AdmissionNext]_allVars PROVE AdmissionInv'
    BY Zenon
  <1>1. ASSUME NEW e \in Events, AdmitEvent(e) PROVE AdmissionInv'
    BY Zenon, <1>1, AdmitPreserves
  <1>2. ASSUME NEW w \in Workers, Start(w) PROVE AdmissionInv'
    BY Zenon, <1>2, ClaimPreserves DEF Start
  <1>3. ASSUME NEW w \in Workers, NEW r \in Runs, Work(w, r) PROVE AdmissionInv'
    BY Zenon, <1>3, EndPreserves
  <1>4. ASSUME NEW r \in Runs, UserCancel(r) PROVE AdmissionInv'
    BY Zenon, <1>4, CancelPreserves
  <1>5. ASSUME Poll \/ (\E r \in Runs : LeaseLost(r)) \/ TimePasses PROVE AdmissionInv'
    BY Zenon, <1>5, QuietPreserves
  <1>6. CASE UNCHANGED allVars
    <2>1. UNCHANGED <<now, present, runs, lease, expired, cancels, head, seen, started>>
      BY Zenon, <1>6 DEF allVars, leaseVars, admissionVars
    <2>2. AdmissionTypeOK'
      BY Zenon, <2>1 DEF AdmissionInv, AdmissionTypeOK, LeaseTypeOK
    <2>3. now <= now'
      BY SMTT(60), <2>1, BoundsAssumption DEF AdmissionInv, AdmissionTypeOK, LeaseTypeOK
    <2> QED BY Zenon, <2>1, <2>2, <2>3, StillPreserves
  <1> QED BY Zenon, <1>1, <1>2, <1>3, <1>4, <1>5, <1>6 DEF AdmissionNext

-----------------------------------------------------------------------------
(* Theorems.                                                               *)

\* The invariant holds for any runs, plans, events, workers and faults.
THEOREM AdmissionInvariance == AdmissionSpec => []AdmissionInv
  BY PTL, AdmissionInvInit, AdmissionInvStep DEF AdmissionSpec

\* Of the runs of a concurrency group that are under way together, at most one
\* lacks the policy allow (group_is_runnable).
THEOREM GroupsStayExclusive == AdmissionSpec => []GroupsAreExclusive
  <1>1. AdmissionInv => GroupsAreExclusive
    BY Zenon DEF AdmissionInv
  <1> QED BY PTL, <1>1, AdmissionInvariance

\* No run starts before an earlier run of its group that still waits.
THEOREM QueueOrderStays == AdmissionSpec => []QueueOrderIsKept
  <1>1. AdmissionInv => QueueOrderIsKept
    BY Zenon DEF AdmissionInv
  <1> QED BY PTL, <1>1, AdmissionInvariance

\* Work with one idempotency key is started at most once: no two runs in the
\* store share a key, and what has started is never taken out.
THEOREM KeysStartOnce == AdmissionSpec => [](KeysRunOnce /\ StartedRunsStay)
  <1>1. AdmissionInv => KeysRunOnce /\ StartedRunsStay
    BY Zenon DEF AdmissionInv, KeysDiffer, StartedIsKept, KeysRunOnce, StartedRunsStay
  <1> QED BY PTL, <1>1, AdmissionInvariance

\* Runs of a trigger are its minimum interval apart.
THEOREM IntervalsStay == AdmissionSpec => []IntervalsAreKept
  <1>1. AdmissionInv => IntervalsAreKept
    BY Zenon DEF AdmissionInv
  <1> QED BY PTL, <1>1, AdmissionInvariance

\* A debounced trigger never has two runs waiting for their quiet period.
THEOREM DebounceKeeps == AdmissionSpec => []DebounceKeepsOne
  <1>1. AdmissionInv => DebounceKeepsOne
    BY Zenon DEF AdmissionInv
  <1> QED BY PTL, <1>1, AdmissionInvariance

=============================================================================
