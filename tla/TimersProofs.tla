---------------------------- MODULE TimersProofs ----------------------------
(***************************************************************************)
(* Proofs about Timers and EventJournal for any number of timers, workers, *)
(* readers and events, any clock and any limit of generations.             *)
(***************************************************************************)
EXTENDS Timers, TLAPS

Keys == HostEvents \cup (TimerIds \X Generations)
Entries == [key : Keys, data : HostEvents \cup Specs \cup {NoSpec}]

JournalType ==
    /\ log \in Seq(Entries)
    /\ retained \in Nat /\ retained <= Len(log)
    /\ kept = {c \in Cursors : c > retained}
    /\ reading \subseteq Readers /\ raced \subseteq Readers
    /\ mark \in [Readers -> Nat] /\ position \in [Readers -> Nat]

\* A reader that no prune has overtaken has read the mark that holds.
MarksHold == \A r \in reading : r \notin raced => mark[r] = retained

JournalInv == JournalType /\ MarksHold /\ EveryEventOnce

TimersType ==
    /\ now \in Nat
    /\ timer \in [TimerIds -> Records]
    /\ lease \in [TimerIds -> Workers \cup {NoWorker}]
    /\ at \in [Workers -> {"idle", "looking", "claimed"}]
    /\ seen \in [Workers -> Nat]
    /\ claim \in [Workers -> [id : Nat, rec : Records]]

\* An active timer has a specification; the clock read is not ahead of the clock;
\* and a claim is of a timer that is due.
ClaimsAreDue ==
    /\ \A t \in TimerIds : timer[t].status # "absent" => timer[t].spec \in Specs
    /\ \A w \in Workers : seen[w] <= now
    /\ \A w \in Workers : at[w] = "claimed" =>
          /\ claim[w].id \in TimerIds
          /\ claim[w].rec.status = "firing"
          /\ claim[w].rec.spec \in Specs
          /\ FireAt[claim[w].rec.spec] <= now

Inv == JournalInv /\ TimersType /\ ClaimsAreDue /\ TimersInv

-----------------------------------------------------------------------------
(* The journal.                                                            *)

\* After an admission the known keys are those known before and the event's own,
\* and the journal's invariant is kept.
LEMMA AdmitKnows ==
    ASSUME JournalInv, NEW event \in Entries, Admit(event)
    PROVE  /\ JournalInv'
           /\ \A key : Known(key)' <=> Known(key) \/ key = event.key
           /\ ~Known(event.key) => Len(log') \in Nat /\ log'[Len(log')] = event
<1>1. CASE Known(event.key)
  <2>1. UNCHANGED journalVars
    BY Zenon, <1>1 DEF Admit, journalVars
  <2>2. (\A key : Known(key)' <=> Known(key)) /\ JournalInv'
    BY Zenon, <2>1 DEF journalVars, readVars, Known, Cursors, JournalInv, JournalType, MarksHold,
                EveryEventOnce
  <2> QED BY Zenon, <1>1, <2>2
<1>2. CASE ~Known(event.key)
  <2>1. /\ log' = Append(log, event) /\ kept' = kept \cup {Len(log) + 1}
        /\ UNCHANGED <<retained, readVars>>
    BY Zenon, <1>2 DEF Admit
  <2>2. /\ log \in Seq(Entries) /\ log' \in Seq(Entries) /\ Len(log) \in Nat
        /\ Len(log') = Len(log) + 1 /\ log'[Len(log) + 1] = event
        /\ \A c \in 1..Len(log) : log'[c] = log[c]
    BY SMTT(60), <2>1 DEF JournalInv, JournalType
  <2>3. \A key : Known(key)' <=> Known(key) \/ key = event.key
    <3> SUFFICES ASSUME NEW key PROVE Known(key)' <=> Known(key) \/ key = event.key
      BY Zenon
    <3>1. Known(key)' => Known(key) \/ key = event.key
      BY SMTT(60), <2>2 DEF Known, Cursors
    <3>2. Known(key) => Known(key)'
      BY SMTT(60), <2>2 DEF Known, Cursors
    <3>3. key = event.key => Known(key)'
      <4>1. Len(log) + 1 \in 1..Len(log')
        BY SMTT(60), <2>2
      <4> QED BY Zenon, <2>2, <4>1 DEF Known, Cursors
    <3> QED BY Zenon, <3>1, <3>2, <3>3
  <2>4. kept' = {c \in Cursors' : c > retained'} /\ retained' <= Len(log')
    BY SMTT(60), <2>1, <2>2 DEF JournalInv, JournalType, Cursors
  <2>5. JournalType' /\ MarksHold'
    BY Zenon, <2>1, <2>2, <2>4 DEF JournalInv, JournalType, MarksHold, readVars
  <2>6. EveryEventOnce'
    <3>1. \A c \in 1..Len(log) : log[c].key # event.key
      BY Zenon, <1>2 DEF Known, Cursors
    <3>2. \A c, d \in 1..Len(log) : log[c].key = log[d].key => c = d
      BY Zenon DEF JournalInv, EveryEventOnce, Cursors
    <3>3. \A c \in 1..Len(log') : c \in 1..Len(log) \/ c = Len(log) + 1
      BY SMTT(60), <2>2
    <3>4. \A c, d \in 1..Len(log') : log'[c].key = log'[d].key => c = d
      BY Zenon, <2>2, <3>1, <3>2, <3>3
    <3>5. misled' = {}
      BY Zenon, <2>1 DEF readVars, JournalInv, EveryEventOnce
    <3> QED BY Zenon, <3>4, <3>5 DEF EveryEventOnce, Cursors
  <2> QED BY SMTT(60), <1>2, <2>2, <2>3, <2>5, <2>6 DEF JournalInv
<1> QED BY Zenon, <1>1, <1>2

\* What leaves the log alone leaves the fired generations alone.
LEMMA SameFirings ==
    ASSUME UNCHANGED log
    PROVE  FiredEvents' = FiredEvents
BY Zenon DEF FiredEvents, Known, Cursors

\* Pruning and reading keep the journal's invariant: a reader that no prune has
\* overtaken finds every envelope after its position.
LEMMA ReadsAndPrunes ==
    ASSUME JournalInv,
           \/ \E c \in Cursors : PruneEventsThrough(c)
           \/ \E r \in Readers : ReadMark(r) \/ ReadRows(r)
    PROVE  JournalInv' /\ UNCHANGED log
<1>1. ASSUME NEW c \in Cursors, PruneEventsThrough(c)
      PROVE  JournalInv' /\ UNCHANGED log
  <2>1. Len(log) \in Nat /\ c \in Nat /\ c <= Len(log)
    BY SMTT(60) DEF JournalInv, JournalType, Cursors
  <2>2. JournalType'
    BY SMTT(60), <1>1, <2>1 DEF PruneEventsThrough, JournalInv, JournalType, Cursors
  <2>3. MarksHold' /\ EveryEventOnce' /\ UNCHANGED log
    BY Zenon, <1>1 DEF PruneEventsThrough, JournalInv, MarksHold, EveryEventOnce, Cursors
  <2> QED BY Zenon, <2>2, <2>3 DEF JournalInv
<1>2. ASSUME NEW r \in Readers, ReadMark(r)
      PROVE  JournalInv' /\ UNCHANGED log
  BY ZenonT(60), <1>2 DEF ReadMark, JournalInv, JournalType, MarksHold, EveryEventOnce, Cursors
<1>3. ASSUME NEW r \in Readers, ReadRows(r)
      PROVE  JournalInv' /\ UNCHANGED log
  <2>1. /\ UNCHANGED <<log, kept, retained>> /\ mark' = [mark EXCEPT ![r] = 0]
        /\ reading' = reading \ {r} /\ raced' = raced \ {r} /\ r \in reading
    BY Zenon, <1>3 DEF ReadRows
  <2>2. position' \in [Readers -> Nat]
    <3>1. After(r) \subseteq Nat
      BY SMTT(60) DEF After, JournalInv, JournalType, Cursors
    <3> QED BY Zenon, <1>3, <3>1 DEF ReadRows, JournalInv, JournalType
  <2>3. misled' = {}
    <3>1. ASSUME position[r] >= mark[r], r \notin raced, NEW last \in After(r)
          PROVE  PassedOver(r, last) = {}
      BY SMTT(60), <3>1, <2>1 DEF PassedOver, After, JournalInv, JournalType, MarksHold, Cursors
    <3> QED BY Zenon, <1>3, <3>1 DEF ReadRows, JournalInv, EveryEventOnce
  <2>4. JournalType' /\ MarksHold'
    BY Zenon, <2>1, <2>2 DEF JournalInv, JournalType, MarksHold, Cursors
  <2>5. EveryEventOnce'
    BY Zenon, <2>1, <2>3 DEF JournalInv, EveryEventOnce, Cursors
  <2> QED BY Zenon, <2>1, <2>4, <2>5 DEF JournalInv
<1> QED BY Zenon, <1>1, <1>2, <1>3

-----------------------------------------------------------------------------
(* The timers.                                                             *)

\* A change of the records of the timers in T, each to a new generation or to
\* cancelled, with their leases revoked and everything else as it was.
HostChange(T) ==
    /\ T \subseteq TimerIds
    /\ timer' \in [TimerIds -> Records]
    /\ \A t \in TimerIds \ T : timer'[t] = timer[t]
    /\ \A t \in T :
          \/ /\ timer'[t].gen = timer[t].gen + 1 /\ timer'[t].gen \in Generations
             /\ timer'[t].status = "scheduled" /\ timer'[t].spec \in Specs
          \/ /\ timer[t].status \in Active
             /\ timer'[t].gen = timer[t].gen /\ timer'[t].status = "cancelled"
             /\ timer'[t].spec = timer[t].spec
    /\ Revoke(T)
    /\ UNCHANGED <<now, at, seen, claim, failures, lapses, journalVars>>

\* Every operation of a host is such a change.
LEMMA HostChanges ==
    ASSUME TimersType, Host
    PROVE  \E T \in SUBSET TimerIds : HostChange(T)
<1> USE LimitsAssumption
<1>1. ASSUME NEW t \in TimerIds, NEW s \in Specs, UpsertTimer(t, s)
      PROVE  HostChange({t})
  BY SMTT(60), <1>1 DEF UpsertTimer, HasGeneration, NextGeneration, HostChange, TimersType, Records,
              Generations, Statuses
<1>2. ASSUME NEW t \in TimerIds, CancelTimer(t)
      PROVE  HostChange({t})
  BY SMTT(60), <1>2 DEF CancelTimer, HostChange, TimersType, Records, Generations, Statuses
<1>3. ASSUME NEW prefix \in Prefixes, NEW D \in SUBSET prefix, NEW desired \in [D -> Specs],
             ReconcileTimers(prefix, desired)
      PROVE  \E T \in SUBSET TimerIds : HostChange(T)
  <2> DEFINE changed == {t \in DOMAIN desired : ~Matches(t, desired[t])}
             omitted == {t \in prefix \ DOMAIN desired : timer[t].status \in Active}
             new(t) == IF t \in changed THEN NextGeneration(t, desired[t])
                       ELSE IF t \in omitted THEN [timer[t] EXCEPT !.status = "cancelled"]
                       ELSE timer[t]
  <2>1. prefix \subseteq TimerIds /\ DOMAIN desired = D
    BY Zenon, TimersAssumption
  <2>2. changed \subseteq TimerIds /\ omitted \subseteq TimerIds /\ changed \cap omitted = {}
    BY Zenon, <2>1
  <2>3. /\ \A t \in changed : HasGeneration(t)
        /\ timer' = [t \in TimerIds |-> new(t)]
        /\ Revoke(changed \cup omitted)
        /\ UNCHANGED <<now, at, seen, claim, failures, lapses, journalVars>>
    BY Zenon, <1>3 DEF ReconcileTimers
  <2>4. ASSUME NEW t \in changed
        PROVE  /\ new(t) \in Records /\ new(t).gen = timer[t].gen + 1
               /\ new(t).status = "scheduled" /\ new(t).spec \in Specs
    <3>1. t \in TimerIds /\ HasGeneration(t) /\ desired[t] \in Specs
      BY Zenon, <2>1, <2>2, <2>3
    <3> QED BY SMTT(60), <3>1
               DEF HasGeneration, NextGeneration, TimersType, Records, Generations, Statuses
  <2>5. ASSUME NEW t \in omitted
        PROVE  /\ new(t) \in Records /\ new(t).gen = timer[t].gen
               /\ new(t).status = "cancelled" /\ new(t).spec = timer[t].spec
               /\ timer[t].status \in Active
    BY SMTT(60), <2>2 DEF TimersType, Records, Statuses
  <2>6. ASSUME NEW t \in TimerIds \ (changed \cup omitted)
        PROVE  new(t) = timer[t] /\ new(t) \in Records
    BY Zenon DEF TimersType
  <2> HIDE DEF new, changed, omitted
  <2>7. timer' \in [TimerIds -> Records]
    BY Zenon, <2>2, <2>3, <2>4, <2>5, <2>6
  <2>8. HostChange(changed \cup omitted)
    <3>1. \A t \in TimerIds : timer'[t] = new(t)
      BY Zenon, <2>3
    <3>2. \A t \in TimerIds : timer'[t].gen \in Generations
      BY Zenon, <2>7 DEF Records
    <3> QED BY Zenon, <2>2, <2>3, <2>4, <2>5, <2>6, <2>7, <3>1, <3>2 DEF HostChange
  <2> QED BY Zenon, <2>2, <2>8
<1> QED BY Zenon, <1>1, <1>2, <1>3 DEF Host, ReconcileTimerExact

\* What hosts do keeps the invariant: a new generation has no event yet, and a
\* claim on a changed timer has lost its lease.
LEMMA HostKeepsInv ==
    ASSUME Inv, NEW T \in SUBSET TimerIds, HostChange(T)
    PROVE  Inv'
<1> USE FirersAssumption, LimitsAssumption
<1>1. JournalInv'
  BY Zenon DEF HostChange, journalVars, readVars, Inv, JournalInv, JournalType, MarksHold,
         EveryEventOnce, Cursors
<1>2. TimersType'
  BY Zenon DEF HostChange, Revoke, Inv, TimersType
<1>3. ClaimsAreDue'
  <2>1. UNCHANGED <<now, at, seen, claim>>
    BY Zenon DEF HostChange
  <2>2. \A t \in TimerIds : timer'[t].status # "absent" => timer'[t].spec \in Specs
    BY Zenon DEF HostChange, Inv, ClaimsAreDue, Active
  <2> QED BY Zenon, <2>1, <2>2 DEF Inv, ClaimsAreDue
<1>4. TimersInv'
  <2>1. FiredEvents' = FiredEvents
    BY Zenon, SameFirings DEF HostChange, journalVars
  <2>2. ASSUME NEW w \in Workers, at'[w] = "claimed", lease'[claim'[w].id] = w
        PROVE  timer'[claim'[w].id] = claim'[w].rec
    <3>1. at[w] = "claimed" /\ claim'[w] = claim[w] /\ claim[w].id \in TimerIds
      BY Zenon, <2>2 DEF HostChange, Inv, ClaimsAreDue
    <3>2. claim[w].id \notin T /\ lease[claim[w].id] = w
      BY Zenon, <2>2, <3>1 DEF HostChange, Revoke
    <3> QED BY Zenon, <3>1, <3>2 DEF HostChange, Inv, TimersInv
  <2>3. ASSUME NEW t \in TimerIds
        PROVE  /\ timer'[t].status = "fired" <=> <<t, timer'[t].gen>> \in FiredEvents'
               /\ \A g \in Generations : g > timer'[t].gen => <<t, g>> \notin FiredEvents'
    <3>1. /\ timer[t].status = "fired" <=> <<t, timer[t].gen>> \in FiredEvents
          /\ \A g \in Generations : g > timer[t].gen => <<t, g>> \notin FiredEvents
          /\ timer[t].gen \in Nat
      BY SMTT(60) DEF Inv, TimersInv, TimersType, Records, Generations
    <3>2. CASE t \notin T
      BY Zenon, <2>1, <3>1, <3>2 DEF HostChange
    <3>3. CASE t \in T
      BY SMTT(60), <2>1, <3>1, <3>3 DEF HostChange, Active, Generations
    <3> QED BY Zenon, <3>2, <3>3
  <2> QED BY Zenon, <2>2, <2>3 DEF TimersInv
<1> QED BY Zenon, <1>1, <1>2, <1>3, <1>4 DEF Inv

\* The firing of a valid claim: the event is of the record as it is stored, which
\* is due, and it was not known.
LEMMA FireFacts ==
    ASSUME Inv, NEW w \in Workers, FireTimer(w)
    PROVE  LET t == claim[w].id IN
           /\ t \in TimerIds /\ timer[t] = claim[w].rec
           /\ timer[t].status = "firing" /\ DueBy(t, now)
           /\ EventOf(t, claim[w].rec) \in Entries
           /\ ~Known(EventOf(t, claim[w].rec).key)
           /\ timer' = [timer EXCEPT ![t].status = "fired"]
<1> DEFINE t == claim[w].id
<1>1. at[w] = "claimed" /\ lease[t] = w
  BY Zenon DEF FireTimer, ClaimIsValid
<1>2. t \in TimerIds /\ timer[t] = claim[w].rec /\ timer[t] \in Records
  BY Zenon, <1>1 DEF Inv, ClaimsAreDue, TimersInv, TimersType
<1>3. timer[t].status = "firing" /\ timer[t].spec \in Specs /\ FireAt[timer[t].spec] <= now
  BY Zenon, <1>1, <1>2 DEF Inv, ClaimsAreDue
<1>4. DueBy(t, now)
  BY Zenon, <1>3 DEF DueBy, Active
<1>5. EventOf(t, claim[w].rec) \in Entries
  BY Zenon, <1>2, <1>3 DEF EventOf, Entries, Keys, Records
<1>6. ~Known(EventOf(t, claim[w].rec).key)
  <2>1. EventOf(t, claim[w].rec).key = <<t, timer[t].gen>>
    BY Zenon, <1>2 DEF EventOf
  <2>2. <<t, timer[t].gen>> \in TimerIds \X Generations
    BY Zenon, <1>2 DEF Records
  <2>3. <<t, timer[t].gen>> \notin FiredEvents
    BY Zenon, <1>2, <1>3 DEF Inv, TimersInv
  <2> QED BY Zenon, <2>1, <2>2, <2>3 DEF FiredEvents
<1>7. timer' = [timer EXCEPT ![t].status = "fired"]
  BY Zenon, <1>2 DEF FireTimer, Inv, TimersType, Records
<1> QED BY Zenon, <1>2, <1>3, <1>4, <1>5, <1>6, <1>7

\* A firing keeps the invariant: the record and the journal change together.
LEMMA FireKeepsInv ==
    ASSUME Inv, NEW w \in Workers, FireTimer(w)
    PROVE  Inv'
<1> USE FirersAssumption, LimitsAssumption
<1> DEFINE t == claim[w].id
           event == EventOf(t, claim[w].rec)
<1>1. /\ t \in TimerIds /\ timer[t] = claim[w].rec /\ timer[t].status = "firing"
      /\ event \in Entries /\ ~Known(event.key)
      /\ timer' = [timer EXCEPT ![t].status = "fired"]
  BY Zenon, FireFacts
<1>2. /\ Admit(event) /\ Revoke({t}) /\ Return(w) /\ UNCHANGED now
  BY Zenon DEF FireTimer
<1>3. JournalInv' /\ \A key : Known(key)' <=> Known(key) \/ key = event.key
  BY Zenon, <1>1, <1>2, AdmitKnows DEF Inv
<1>4. event.key = <<t, timer[t].gen>>
  BY Zenon, <1>1 DEF EventOf
<1>5. TimersType'
  <2>1. NoClaim \in [id : Nat, rec : Records]
    BY SMTT(60) DEF NoClaim, NoRecord, Records, Generations, Statuses
  <2> QED BY SMTT(60), <1>1, <1>2, <2>1 DEF Revoke, Return, Inv, TimersType, Records, Statuses
<1>6. ClaimsAreDue'
  <2>1. \A u \in TimerIds : timer'[u].status # "absent" => timer'[u].spec \in Specs
    BY SMTT(60), <1>1 DEF Inv, ClaimsAreDue, TimersType, Records
  <2>2. \A v \in Workers : seen'[v] <= now'
    BY SMTT(60), <1>2 DEF Return, Inv, TimersType, ClaimsAreDue
  <2>3. \A v \in Workers : at'[v] = "claimed" => v # w /\ at[v] = "claimed" /\ claim'[v] = claim[v]
    BY Zenon, <1>2 DEF Return, Inv, TimersType
  <2> QED BY Zenon, <1>2, <2>1, <2>2, <2>3 DEF Inv, ClaimsAreDue
<1>7. TimersInv'
  <2>1. ASSUME NEW v \in Workers, at'[v] = "claimed", lease'[claim'[v].id] = v
        PROVE  timer'[claim'[v].id] = claim'[v].rec
    <3>1. v # w /\ at[v] = "claimed" /\ claim'[v] = claim[v]
      BY Zenon, <1>2, <2>1 DEF Return, Inv, TimersType
    <3>2. claim[v].id \in TimerIds
      BY Zenon, <3>1 DEF Inv, ClaimsAreDue
    <3>3. claim[v].id # t /\ lease[claim[v].id] = v
      BY Zenon, <1>2, <2>1, <3>1, <3>2 DEF Revoke
    <3>4. timer'[claim[v].id] = timer[claim[v].id]
      BY Zenon, <1>1, <3>2, <3>3 DEF Inv, TimersType
    <3> QED BY Zenon, <3>1, <3>3, <3>4 DEF Inv, TimersInv
  <2>2. FiredEvents' = FiredEvents \cup {<<t, timer[t].gen>>}
    <3>1. <<t, timer[t].gen>> \in TimerIds \X Generations
      BY Zenon, <1>1 DEF Inv, TimersType, Records
    <3> QED BY Zenon, <1>3, <1>4, <3>1 DEF FiredEvents
  <2>3. ASSUME NEW u \in TimerIds
        PROVE  /\ timer'[u].status = "fired" <=> <<u, timer'[u].gen>> \in FiredEvents'
               /\ \A g \in Generations : g > timer'[u].gen => <<u, g>> \notin FiredEvents'
    <3>1. /\ timer[u].status = "fired" <=> <<u, timer[u].gen>> \in FiredEvents
          /\ \A g \in Generations : g > timer[u].gen => <<u, g>> \notin FiredEvents
          /\ timer[u].gen \in Nat /\ timer[u] \in Records
      BY SMTT(60) DEF Inv, TimersInv, TimersType, Records, Generations
    <3>2. CASE u = t
      <4>1. timer'[u].gen = timer[u].gen /\ timer'[u].status = "fired"
        BY Zenon, <1>1, <3>1, <3>2 DEF Inv, TimersType, Records
      <4> QED BY SMTT(60), <2>2, <3>1, <3>2, <4>1 DEF Generations
    <3>3. CASE u # t
      <4>1. timer'[u] = timer[u]
        BY Zenon, <1>1, <3>3 DEF Inv, TimersType
      <4> QED BY Zenon, <2>2, <3>1, <3>3, <4>1
    <3> QED BY Zenon, <3>2, <3>3
  <2> QED BY Zenon, <2>1, <2>3 DEF TimersInv
<1> QED BY Zenon, <1>3, <1>5, <1>6, <1>7 DEF Inv

\* A claim keeps the invariant: the record claimed is the record stored, and no
\* other claim has a lease on it.
LEMMA ClaimKeepsInv ==
    ASSUME Inv, NEW w \in Workers, ClaimDueTimer(w)
    PROVE  Inv'
<1> USE FirersAssumption
<1>1. PICK t \in TimerIds :
         /\ DueBy(t, seen[w]) /\ lease[t] = NoWorker
         /\ timer' = [timer EXCEPT ![t].status = "firing"]
         /\ lease' = [lease EXCEPT ![t] = w]
         /\ claim' = [claim EXCEPT ![w] = [id |-> t, rec |-> timer'[t]]]
  BY Zenon DEF ClaimDueTimer, Claimable
<1>2. at' = [at EXCEPT ![w] = "claimed"] /\ UNCHANGED <<now, seen, journalVars>>
  BY Zenon DEF ClaimDueTimer
<1>3. /\ timer[t].spec \in Specs /\ FireAt[timer[t].spec] <= now
      /\ timer[t].status \in Active /\ t \in Nat
  <2>1. timer[t].status \in Active /\ FireAt[timer[t].spec] <= seen[w]
    BY Zenon, <1>1 DEF DueBy
  <2>2. timer[t].spec \in Specs
    BY Zenon, <2>1 DEF Active, Inv, ClaimsAreDue
  <2>3. FireAt[timer[t].spec] \in Nat /\ seen[w] \in Nat /\ now \in Nat /\ seen[w] <= now
    BY Zenon, <2>2, SpecsAssumption DEF Inv, TimersType, ClaimsAreDue
  <2> QED BY SMTT(60), <2>1, <2>2, <2>3, TimersAssumption
<1>4. /\ timer'[t].status = "firing" /\ timer'[t].spec = timer[t].spec
      /\ timer'[t].gen = timer[t].gen /\ timer'[t] \in Records
      /\ \A u \in TimerIds : u # t => timer'[u] = timer[u]
  <2>1. timer \in [TimerIds -> Records]
    BY Zenon DEF Inv, TimersType
  <2>2. timer'[t] = [timer[t] EXCEPT !.status = "firing"]
    BY Zenon, <1>1, <2>1
  <2>3. timer[t] \in Records
    BY Zenon, <1>1, <2>1
  <2>4. \A u \in TimerIds : u # t => timer'[u] = timer[u]
    BY Zenon, <1>1, <2>1
  <2> QED BY Zenon, <2>2, <2>3, <2>4 DEF Records, Statuses
<1>5. JournalInv'
  BY Zenon, <1>2 DEF journalVars, readVars, Inv, JournalInv, JournalType, MarksHold, EveryEventOnce,
              Cursors
<1>6. TimersType'
  <2>1. timer' \in [TimerIds -> Records] /\ lease' \in [TimerIds -> Workers \cup {NoWorker}]
    BY Zenon, <1>1, <1>4 DEF Inv, TimersType
  <2>2. claim' \in [Workers -> [id : Nat, rec : Records]]
    BY Zenon, <1>1, <1>3, <1>4 DEF Inv, TimersType
  <2> QED BY Zenon, <1>2, <2>1, <2>2 DEF Inv, TimersType
<1>7. /\ claim'[w].id = t /\ claim'[w].rec = timer'[t] /\ at'[w] = "claimed"
      /\ \A v \in Workers : v # w => claim'[v] = claim[v] /\ at'[v] = at[v]
  BY Zenon, <1>1, <1>2 DEF Inv, TimersType
<1>8. ClaimsAreDue'
  <2>1. \A u \in TimerIds : timer'[u].status # "absent" => timer'[u].spec \in Specs
    BY Zenon, <1>3, <1>4 DEF Inv, ClaimsAreDue
  <2> QED BY SMTT(60), <1>2, <1>3, <1>4, <1>7, <2>1 DEF Inv, ClaimsAreDue
<1>9. TimersInv'
  <2>1. ASSUME NEW v \in Workers, at'[v] = "claimed", lease'[claim'[v].id] = v
        PROVE  timer'[claim'[v].id] = claim'[v].rec
    <3>1. CASE v = w
      BY Zenon, <1>7, <3>1
    <3>2. CASE v # w
      <4>1. claim[v].id \in TimerIds /\ at[v] = "claimed" /\ claim'[v] = claim[v]
        BY Zenon, <1>7, <2>1, <3>2 DEF Inv, ClaimsAreDue
      <4>2. claim[v].id # t /\ lease[claim[v].id] = v
        BY Zenon, <1>1, <2>1, <3>2, <4>1 DEF Inv, TimersType
      <4> QED BY SMTT(60), <1>4, <4>1, <4>2 DEF Inv, TimersInv
    <3> QED BY Zenon, <3>1, <3>2
  <2>2. FiredEvents' = FiredEvents
    BY Zenon, <1>2, SameFirings DEF journalVars
  <2>3. ASSUME NEW u \in TimerIds
        PROVE  /\ timer'[u].status = "fired" <=> <<u, timer'[u].gen>> \in FiredEvents'
               /\ \A g \in Generations : g > timer'[u].gen => <<u, g>> \notin FiredEvents'
    <3>1. /\ timer[u].status = "fired" <=> <<u, timer[u].gen>> \in FiredEvents
          /\ \A g \in Generations : g > timer[u].gen => <<u, g>> \notin FiredEvents
      BY Zenon DEF Inv, TimersInv
    <3> QED BY Zenon, <1>3, <1>4, <2>2, <3>1 DEF Active
  <2> QED BY Zenon, <2>1, <2>3 DEF TimersInv
<1> QED BY Zenon, <1>5, <1>6, <1>8, <1>9 DEF Inv

\* A step that changes no record and makes no claim.
Quiet ==
    /\ UNCHANGED <<timer, journalVars>>
    /\ now' \in Nat /\ now <= now'
    /\ lease' \in [TimerIds -> Workers \cup {NoWorker}]
    /\ \A t \in TimerIds : lease'[t] \in {lease[t], NoWorker}
    /\ at' \in [Workers -> {"idle", "looking", "claimed"}]
    /\ seen' \in [Workers -> Nat]
    /\ claim' \in [Workers -> [id : Nat, rec : Records]]
    /\ \A w \in Workers : seen'[w] <= now'
    /\ \A w \in Workers : at'[w] = "claimed" => at[w] = "claimed" /\ claim'[w] = claim[w]

\* A quiet step keeps the invariant.
LEMMA QuietKeepsInv ==
    ASSUME Inv, Quiet
    PROVE  Inv'
<1> USE FirersAssumption
<1>1. JournalInv'
  BY Zenon
     DEF Quiet, journalVars, readVars, Inv, JournalInv, JournalType, MarksHold, EveryEventOnce,
         Cursors
<1>2. TimersType'
  BY Zenon DEF Quiet, Inv, TimersType
<1>3. ClaimsAreDue'
  <2>1. \A w \in Workers : at'[w] = "claimed" => FireAt[claim'[w].rec.spec] <= now'
    <3> SUFFICES ASSUME NEW w \in Workers, at'[w] = "claimed"
                 PROVE  FireAt[claim'[w].rec.spec] <= now'
      BY Zenon
    <3>1. claim'[w] = claim[w] /\ claim[w].rec.spec \in Specs /\ FireAt[claim[w].rec.spec] <= now
      BY Zenon DEF Quiet, Inv, ClaimsAreDue
    <3>2. FireAt[claim[w].rec.spec] \in Nat
      BY Zenon, <3>1, SpecsAssumption
    <3> QED BY SMTT(60), <3>1, <3>2 DEF Quiet, Inv, TimersType
  <2> QED BY Zenon, <2>1 DEF Quiet, Inv, ClaimsAreDue
<1>4. TimersInv'
  <2>1. FiredEvents' = FiredEvents
    BY Zenon, SameFirings DEF Quiet, journalVars
  <2>2. ASSUME NEW w \in Workers, at'[w] = "claimed", lease'[claim'[w].id] = w
        PROVE  timer'[claim'[w].id] = claim'[w].rec
    <3>1. at[w] = "claimed" /\ claim'[w] = claim[w] /\ claim[w].id \in TimerIds
      BY Zenon, <2>2 DEF Quiet, Inv, ClaimsAreDue
    <3>2. lease[claim[w].id] = w
      BY SMTT(60), <2>2, <3>1 DEF Quiet
    <3> QED BY Zenon, <3>1, <3>2 DEF Quiet, Inv, TimersInv
  <2> QED BY Zenon, <2>1, <2>2 DEF Quiet, Inv, TimersInv
<1> QED BY Zenon, <1>1, <1>2, <1>3, <1>4 DEF Inv

\* Looking for a timer, giving up a claim, the end of a lease and the passing of
\* time are quiet.
LEMMA QuietSteps ==
    ASSUME Inv,
           \/ \E w \in Workers : \/ ExpireTimerLeases(w) \/ FindNoTimer(w)
                                 \/ AbandonClaim(w) \/ FireRefused(w)
           \/ \E t \in TimerIds : LeaseExpires(t)
           \/ Tick
           \/ UNCHANGED vars
    PROVE  Quiet
<1>1. NoClaim \in [id : Nat, rec : Records]
  BY SMTT(60), LimitsAssumption DEF NoClaim, NoRecord, Records, Generations, Statuses
<1>2. ASSUME NEW w \in Workers, ExpireTimerLeases(w) PROVE Quiet
  BY <1>2, SMTT(30) DEF ExpireTimerLeases, Revoke, Quiet, Inv, TimersType, ClaimsAreDue
<1>3. ASSUME NEW w \in Workers, Return(w), UNCHANGED <<now, timer, lease, journalVars>>
      PROVE  Quiet
  BY <1>1, <1>3, SMTT(30) DEF Return, Quiet, Inv, TimersType, ClaimsAreDue
<1>4. ASSUME NEW w \in Workers, FindNoTimer(w) \/ AbandonClaim(w) \/ FireRefused(w)
      PROVE  Quiet
  BY Zenon, <1>3, <1>4 DEF FindNoTimer, AbandonClaim, FireRefused
<1>5. ASSUME NEW t \in TimerIds, LeaseExpires(t) PROVE Quiet
  BY <1>5, SMTT(30) DEF LeaseExpires, Quiet, Inv, TimersType, ClaimsAreDue
<1>6. CASE Tick
  <2>1. \A w \in Workers : seen[w] <= now + 1
    BY SMTT(30) DEF Inv, TimersType, ClaimsAreDue
  <2> QED BY SMTT(60), <1>6, <2>1 DEF Tick, Quiet, Inv, TimersType
<1>7. CASE UNCHANGED vars
  BY SMTT(60), <1>7 DEF vars, timerVars, Quiet, Inv, TimersType, ClaimsAreDue
<1> QED BY Zenon, <1>2, <1>4, <1>5, <1>6, <1>7

\* What only the journal does keeps the invariant: a host's event is no timer's.
LEMMA JournalKeepsInv ==
    ASSUME Inv, JournalNext, UNCHANGED timerVars
    PROVE  Inv' /\ FiredEvents' = FiredEvents
<1>1. JournalInv' /\ FiredEvents' = FiredEvents
  <2>1. ASSUME NEW h \in HostEvents, DeliverEvent(h)
        PROVE  JournalInv' /\ FiredEvents' = FiredEvents
    <3> DEFINE event == [key |-> h, data |-> h]
    <3>1. event \in Entries /\ Admit(event)
      BY Zenon, <2>1 DEF DeliverEvent, Entries, Keys
    <3>2. JournalInv' /\ \A key : Known(key)' <=> Known(key) \/ key = event.key
      BY Zenon, <3>1, AdmitKnows DEF Inv
    <3>3. \A k \in TimerIds \X Generations : k # event.key
      BY SMTT(60), KeysAssumption DEF Generations
    <3> QED BY Zenon, <3>2, <3>3 DEF FiredEvents
  <2>2. CASE \/ \E c \in Cursors : PruneEventsThrough(c)
             \/ \E r \in Readers : ReadMark(r) \/ ReadRows(r)
    BY Zenon, <2>2, ReadsAndPrunes, SameFirings DEF Inv
  <2> QED BY Zenon, <2>1, <2>2 DEF JournalNext
<1>2. TimersType' /\ ClaimsAreDue'
  BY Zenon DEF timerVars, Inv, TimersType, ClaimsAreDue
<1>3. TimersInv'
  <2>1. \A t \in TimerIds : timer[t].gen \in Generations
    BY Zenon DEF Inv, TimersType, Records
  <2> QED BY Zenon, <1>1, <2>1 DEF timerVars, Inv, TimersInv
<1> QED BY Zenon, <1>1, <1>2, <1>3 DEF Inv

-----------------------------------------------------------------------------
(* The results.                                                            *)

\* The steps of the specification, by kind.
LEMMA Steps ==
    ASSUME Inv, [Next]_vars
    PROVE  \/ \E T \in SUBSET TimerIds : HostChange(T)
           \/ \E w \in Workers : FireTimer(w) \/ ClaimDueTimer(w)
           \/ Quiet
           \/ JournalNext /\ UNCHANGED timerVars
<1>1. CASE Host
  BY Zenon, <1>1, HostChanges DEF Inv
<1>2. CASE \/ \E w \in Workers : \/ ExpireTimerLeases(w) \/ FindNoTimer(w)
                                 \/ AbandonClaim(w) \/ FireRefused(w)
           \/ \E t \in TimerIds : LeaseExpires(t)
           \/ Tick
           \/ UNCHANGED vars
  BY Zenon, <1>2, QuietSteps
<1> QED BY Zenon, <1>1, <1>2 DEF Next, Work

\* The invariant is inductive.
LEMMA InvHolds == Spec => []Inv
<1>1. TimersInit => Inv
  <2> SUFFICES ASSUME TimersInit PROVE Inv
    BY Zenon
  <2>1. log = << >> /\ Len(log) = 0 /\ Cursors = {}
    BY SMTT(60) DEF TimersInit, JournalInit, Cursors
  <2>2. JournalInv
    BY SMTT(60), <2>1
       DEF TimersInit, JournalInit, JournalInv, JournalType, MarksHold, EveryEventOnce
  <2>3. NoRecord \in Records /\ NoRecord.status = "absent"
    BY SMTT(60), LimitsAssumption DEF NoRecord, Records, Generations, Statuses
  <2>4. TimersType
    BY Zenon, <2>3 DEF TimersInit, TimersType, NoClaim
  <2>5. ClaimsAreDue
    BY SMTT(60), <2>3 DEF TimersInit, ClaimsAreDue
  <2>6. TimersInv
    BY Zenon, <2>1, <2>3 DEF TimersInit, TimersInv, FiredEvents, Known
  <2> QED BY Zenon, <2>2, <2>4, <2>5, <2>6 DEF Inv
<1>2. Inv /\ [Next]_vars => Inv'
  <2> SUFFICES ASSUME Inv, [Next]_vars PROVE Inv'
    BY Zenon
  <2> QED BY Zenon, Steps, HostKeepsInv, FireKeepsInv, ClaimKeepsInv, QuietKeepsInv, JournalKeepsInv
<1> QED BY <1>1, <1>2, PTL DEF Spec

\* While a claim has its lease the stored record is the claimed one, and the event
\* of a generation is admitted exactly when the record says so.
THEOREM TimersInvHolds == Spec => []TimersInv
BY InvHolds, PTL DEF Inv

\* An event has one cursor, and readers pass over none that they are not told of.
THEOREM EveryEventOnceHolds == Spec => []EveryEventOnce
<1>1. Inv => EveryEventOnce
  BY Zenon DEF Inv, JournalInv
<1> QED BY <1>1, InvHolds, PTL

\* What became of a generation is final.
THEOREM OutcomesAreFinalHolds == Spec => OutcomesAreFinal
<1> DEFINE Final(t) ==
              /\ timer'[t].gen >= timer[t].gen
              /\ timer[t].status \in {"fired", "cancelled"} /\ timer'[t].gen = timer[t].gen =>
                    timer'[t] = timer[t]
<1>1. Inv /\ [Next]_vars => [\A t \in TimerIds : Final(t)]_vars
  <2> SUFFICES ASSUME Inv, [Next]_vars, NEW t \in TimerIds PROVE Final(t)
    BY Zenon
  <2>1. timer[t] \in Records /\ timer[t].gen \in Nat
    BY LimitsAssumption, SMTT(30) DEF Inv, TimersType, Records, Generations
  <2>2. CASE UNCHANGED timer
    BY SMTT(60), <2>1, <2>2
  <2>3. ASSUME NEW T \in SUBSET TimerIds, HostChange(T) PROVE Final(t)
    BY SMTT(60), <2>1, <2>3 DEF HostChange, Active
  <2>4. ASSUME NEW w \in Workers, FireTimer(w) PROVE Final(t)
    <3>1. /\ timer[claim[w].id].status = "firing" /\ claim[w].id \in TimerIds
          /\ timer' = [timer EXCEPT ![claim[w].id].status = "fired"]
      BY Zenon, <2>4, FireFacts
    <3> QED BY SMTT(60), <2>1, <3>1 DEF Inv, TimersType, Records
  <2>5. ASSUME NEW w \in Workers, ClaimDueTimer(w) PROVE Final(t)
    <3>1. PICK u \in TimerIds : /\ timer[u].status \in Active
                                /\ timer' = [timer EXCEPT ![u].status = "firing"]
      BY Zenon, <2>5 DEF ClaimDueTimer, Claimable, DueBy
    <3> QED BY SMTT(60), <2>1, <3>1 DEF Inv, TimersType, Records, Active
  <2> QED BY Zenon, <2>2, <2>3, <2>4, <2>5, Steps DEF Quiet, timerVars
<1> QED BY <1>1, InvHolds, PTL DEF Spec, OutcomesAreFinal

\* Only a timer that is due fires, in its current generation and as specified.
THEOREM OnlyDueTimersFireHolds == Spec => OnlyDueTimersFire
<1> DEFINE Justified(t, g) ==
              /\ timer[t].gen = g /\ DueBy(t, now)
              /\ log'[Len(log')].data = timer[t].spec
           Fires == \A t \in TimerIds : \A g \in Generations :
                        <<t, g>> \in FiredEvents' \ FiredEvents => Justified(t, g)
<1>1. Inv /\ [Next]_vars => [Fires]_vars
  <2> SUFFICES ASSUME Inv, [Next]_vars,
                      NEW t \in TimerIds, NEW g \in Generations,
                      <<t, g>> \in FiredEvents' \ FiredEvents
               PROVE  Justified(t, g)
    BY Zenon
  <2>1. FiredEvents' # FiredEvents
    BY Zenon
  <2>2. PICK w \in Workers : FireTimer(w)
    <3>1. ~UNCHANGED log
      BY Zenon, <2>1, SameFirings
    <3> QED BY Zenon, <2>1, <3>1, Steps, JournalKeepsInv
               DEF HostChange, ClaimDueTimer, Quiet, journalVars
  <2> DEFINE u == claim[w].id
             event == EventOf(u, claim[w].rec)
  <2>3. /\ timer[u] = claim[w].rec /\ DueBy(u, now)
        /\ event \in Entries /\ ~Known(event.key) /\ Admit(event)
    BY Zenon, <2>2, FireFacts DEF FireTimer
  <2>4. /\ \A key : Known(key)' <=> Known(key) \/ key = event.key
        /\ log'[Len(log')] = event
    BY Zenon, <2>3, AdmitKnows DEF Inv
  <2>5. <<t, g>> = event.key
    BY Zenon, <2>4 DEF FiredEvents
  <2>6. t = u /\ g = timer[u].gen /\ event.data = timer[u].spec
    BY Zenon, <2>3, <2>5 DEF EventOf
  <2> QED BY Zenon, <2>3, <2>4, <2>6
<1> QED BY <1>1, InvHolds, PTL DEF Spec, OnlyDueTimersFire

=============================================================================
