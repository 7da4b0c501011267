------------------------------- MODULE Timers -------------------------------
(***************************************************************************)
(* Durable one-shot timers: hosts schedule, reconcile and cancel them,     *)
(* workers claim a due one under a lease and fire it, which admits its     *)
(* event to the journal in the same transaction (timer.rs, and the timer   *)
(* operations of memory.rs, sqlite/timers.rs and postgres/timers.rs).      *)
(*                                                                         *)
(* A specification of a timer stands for everything timer_matches compares.*)
(* A claimant stands for its lease token: one call of fire_due_timer has   *)
(* one claim.  Expiry of a lease is an event, as in RunLeases.             *)
(***************************************************************************)
EXTENDS EventJournal, FiniteSets

CONSTANTS
    TimerIds,           \* numbered in the order of their ids
    Prefixes,           \* the sets of timers that hosts reconcile
    Specs,
    FireAt,             \* FireAt[s]: fire_at of a timer specified by s
    NoSpec,
    Workers, NoWorker,
    MaxGeneration,      \* TIMER_GENERATION_MAX
    MaxTime,            \* bound on the clock
    MaxFailures,        \* bound on crashes and errors between a claim and its firing
    MaxLapses           \* bound on leases that expire while they are worked under

ASSUME TimersAssumption == TimerIds \subseteq Nat /\ Prefixes \subseteq SUBSET TimerIds
ASSUME SpecsAssumption == FireAt \in [Specs -> Nat] /\ NoSpec \notin Specs
ASSUME FirersAssumption == NoWorker \notin Workers
ASSUME LimitsAssumption == {MaxGeneration, MaxTime, MaxFailures, MaxLapses} \subseteq Nat
ASSUME KeysAssumption == \A t \in TimerIds, g \in 0..MaxGeneration : <<t, g>> \notin HostEvents

VARIABLES
    now,
    timer,      \* timer[t]: the record of t; its status is "absent" if there is none
    lease,      \* lease[t]: who holds the lease on t
    expired,    \* timers whose lease has outlived its expires_at
    at,         \* at[w]: where w is in fire_due_timer
    seen,       \* seen[w]: the time w has read
    claim,      \* claim[w]: the timer w has claimed, and the record it was given
    failures, lapses

timerVars == <<now, timer, lease, expired, at, seen, claim, failures, lapses>>
vars == <<timerVars, journalVars>>

Statuses == {"absent", "scheduled", "firing", "fired", "cancelled"}
Active == {"scheduled", "firing"}
Generations == 0..MaxGeneration
Records == [gen : Generations, status : Statuses, spec : Specs \cup {NoSpec}]
NoRecord == [gen |-> 0, status |-> "absent", spec |-> NoSpec]
NoClaim == [id |-> 0, rec |-> NoRecord]

TimersInit ==
    /\ JournalInit
    /\ now = 0
    /\ timer = [t \in TimerIds |-> NoRecord]
    /\ lease = [t \in TimerIds |-> NoWorker]
    /\ expired = {}
    /\ at = [w \in Workers |-> "idle"]
    /\ seen = [w \in Workers |-> 0]
    /\ claim = [w \in Workers |-> NoClaim]
    /\ failures = 0 /\ lapses = 0

-----------------------------------------------------------------------------
(* What hosts ask for.                                                     *)

\* timer_matches.
Matches(t, s) == timer[t].status \in {"scheduled", "firing", "fired"} /\ timer[t].spec = s

\* next_timer_generation.
NextGeneration(t, s) == [gen |-> timer[t].gen + 1, status |-> "scheduled", spec |-> s]

\* The generation counter of t is not exhausted.
HasGeneration(t) == timer[t].gen < MaxGeneration

\* The leases on the timers in T go with the change of their records.
Revoke(T) ==
    /\ lease' = [t \in TimerIds |-> IF t \in T THEN NoWorker ELSE lease[t]]
    /\ expired' = expired \ T

UpsertTimer(t, s) ==
    /\ HasGeneration(t)
    /\ timer' = [timer EXCEPT ![t] = NextGeneration(t, s)]
    /\ Revoke({t})
    /\ UNCHANGED <<now, at, seen, claim, failures, lapses, journalVars>>

\* reconcile_timer_exact, for a timer that does not match.
ReconcileTimerExact(t, s) == ~Matches(t, s) /\ UpsertTimer(t, s)

\* Seeded fault: the lease is left in place.
CancelTimerLeased(t) ==
    /\ timer[t].status \in Active
    /\ timer' = [timer EXCEPT ![t].status = "cancelled"]
    /\ UNCHANGED <<now, lease, expired, at, seen, claim, failures, lapses, journalVars>>

\* cancel_timer, for any generation or for the current one.
CancelTimer(t) ==
    /\ timer[t].status \in Active
    /\ timer' = [timer EXCEPT ![t].status = "cancelled"]
    /\ Revoke({t})
    /\ UNCHANGED <<now, at, seen, claim, failures, lapses, journalVars>>

\* reconcile_timers: `desired` has the timers of the prefix that are to be.  The
\* generations are worked out before anything is changed.
ReconcileTimers(prefix, desired) ==
    LET changed == {t \in DOMAIN desired : ~Matches(t, desired[t])}
        omitted == {t \in prefix \ DOMAIN desired : timer[t].status \in Active}
    IN  /\ changed \cup omitted # {}
        /\ \A t \in changed : HasGeneration(t)
        /\ timer' = [t \in TimerIds |->
                        IF t \in changed THEN NextGeneration(t, desired[t])
                        ELSE IF t \in omitted THEN [timer[t] EXCEPT !.status = "cancelled"]
                        ELSE timer[t]]
        /\ Revoke(changed \cup omitted)
        /\ UNCHANGED <<now, at, seen, claim, failures, lapses, journalVars>>

-----------------------------------------------------------------------------
(* fire_due_timer.                                                         *)

\* The call of w ends; its locals are gone.
Return(w) ==
    /\ at' = [at EXCEPT ![w] = "idle"]
    /\ seen' = [seen EXCEPT ![w] = 0]
    /\ claim' = [claim EXCEPT ![w] = NoClaim]

\* Seeded fault: expired leases stay.
ExpireNoLeases(w) ==
    /\ at[w] = "idle"
    /\ at' = [at EXCEPT ![w] = "looking"]
    /\ seen' = [seen EXCEPT ![w] = now]
    /\ UNCHANGED <<now, timer, lease, expired, claim, failures, lapses, journalVars>>

\* The time is read, and claim_due_timer begins by dropping expired leases, in
\* PostgreSQL in a transaction of its own.
ExpireTimerLeases(w) ==
    /\ at[w] = "idle"
    /\ at' = [at EXCEPT ![w] = "looking"]
    /\ seen' = [seen EXCEPT ![w] = now]
    /\ Revoke(expired)
    /\ UNCHANGED <<now, timer, claim, failures, lapses, journalVars>>

DueBy(t, time) == timer[t].status \in Active /\ FireAt[timer[t].spec] <= time
Claimable(w) == {t \in TimerIds : DueBy(t, seen[w]) /\ lease[t] = NoWorker}

\* ORDER BY fire_at, id.
Before(t, u) ==
    \/ FireAt[timer[t].spec] < FireAt[timer[u].spec]
    \/ FireAt[timer[t].spec] = FireAt[timer[u].spec] /\ t <= u

ClaimDueTimer(w) ==
    /\ at[w] = "looking"
    /\ \E t \in Claimable(w) :
          /\ \A u \in Claimable(w) : Before(t, u)
          /\ timer' = [timer EXCEPT ![t].status = "firing"]
          /\ lease' = [lease EXCEPT ![t] = w]
          /\ claim' = [claim EXCEPT ![w] = [id |-> t, rec |-> timer'[t]]]
    /\ at' = [at EXCEPT ![w] = "claimed"]
    /\ UNCHANGED <<now, expired, seen, failures, lapses, journalVars>>

FindNoTimer(w) ==
    /\ at[w] = "looking" /\ Claimable(w) = {}
    /\ Return(w)
    /\ UNCHANGED <<now, timer, lease, expired, failures, lapses, journalVars>>

\* The process stops, or prepare_event fails.
AbandonClaim(w) ==
    /\ at[w] = "claimed" /\ failures < MaxFailures
    /\ failures' = failures + 1
    /\ Return(w)
    /\ UNCHANGED <<now, timer, lease, expired, lapses, journalVars>>

EventOf(t, rec) == [key |-> <<t, rec.gen>>, data |-> rec.spec]

\* Seeded fault: neither the lease nor the generation is compared.
AlwaysValid(w) == at[w] = "claimed"

\* fire_timer's checks; postgres/timers.rs compares the lease only.
ClaimIsValid(w) ==
    /\ at[w] = "claimed"
    /\ lease[claim[w].id] = w
    /\ timer[claim[w].id].gen = claim[w].rec.gen

\* The record stored is the claimed one, marked as fired.
FireTimer(w) ==
    /\ ClaimIsValid(w)
    /\ timer' = [timer EXCEPT ![claim[w].id] = [claim[w].rec EXCEPT !.status = "fired"]]
    /\ Revoke({claim[w].id})
    /\ Return(w)
    /\ Admit(EventOf(claim[w].id, claim[w].rec))
    /\ UNCHANGED <<now, failures, lapses>>

FireRefused(w) ==
    /\ at[w] = "claimed" /\ ~ClaimIsValid(w)
    /\ Return(w)
    /\ UNCHANGED <<now, timer, lease, expired, failures, lapses, journalVars>>

-----------------------------------------------------------------------------
(* Time.                                                                   *)

WorkedUnder(t) == \E w \in Workers : lease[t] = w /\ at[w] = "claimed" /\ claim[w].id = t

LeaseExpires(t) ==
    /\ lease[t] # NoWorker /\ t \notin expired
    /\ IF WorkedUnder(t) THEN lapses < MaxLapses /\ lapses' = lapses + 1
                         ELSE UNCHANGED lapses
    /\ expired' = expired \cup {t}
    /\ UNCHANGED <<now, timer, lease, at, seen, claim, failures, journalVars>>

Tick ==
    /\ now < MaxTime
    /\ now' = now + 1
    /\ UNCHANGED <<timer, lease, expired, at, seen, claim, failures, lapses, journalVars>>

-----------------------------------------------------------------------------

Host ==
    \/ \E t \in TimerIds : CancelTimer(t)
    \/ \E t \in TimerIds, s \in Specs : UpsertTimer(t, s) \/ ReconcileTimerExact(t, s)
    \/ \E prefix \in Prefixes : \E D \in SUBSET prefix : \E desired \in [D -> Specs] :
          ReconcileTimers(prefix, desired)

Work(w) ==
    \/ ExpireTimerLeases(w) \/ ClaimDueTimer(w) \/ FindNoTimer(w)
    \/ FireTimer(w) \/ FireRefused(w)

Next ==
    \/ Host
    \/ \E w \in Workers : Work(w) \/ AbandonClaim(w)
    \/ \E t \in TimerIds : LeaseExpires(t)
    \/ Tick
    \/ JournalNext /\ UNCHANGED timerVars

Spec == TimersInit /\ [][Next]_vars

\* Hosts drive fire_due_timer; a lease that nobody works under expires.
FairSpec ==
    /\ Spec
    /\ \A w \in Workers : WF_vars(Work(w))
    /\ \A t \in TimerIds : WF_vars(LeaseExpires(t) /\ ~WorkedUnder(t))

-----------------------------------------------------------------------------
(* Properties.                                                             *)

FiredEvents == {k \in TimerIds \X Generations : Known(k)}

\* While a claim has its lease, the stored record is the claimed one, so a
\* firing overwrites nothing and the comparison of generations that PostgreSQL
\* leaves out is not needed; the event of a generation is in the journal exactly
\* when the record says so, and no generation to come has one.
TimersInv ==
    /\ \A w \in Workers : at[w] = "claimed" /\ lease[claim[w].id] = w =>
          timer[claim[w].id] = claim[w].rec
    /\ \A t \in TimerIds :
          /\ timer[t].status = "fired" <=> <<t, timer[t].gen>> \in FiredEvents
          /\ \A g \in Generations : g > timer[t].gen => <<t, g>> \notin FiredEvents

\* What became of a generation is final: a cancelled one never fires, a fired one
\* is neither cancelled nor fired again, and generations only grow, however
\* claims, cancellations and reconciliations race.
OutcomesAreFinal ==
    [][\A t \in TimerIds :
          /\ timer'[t].gen >= timer[t].gen
          /\ timer[t].status \in {"fired", "cancelled"} /\ timer'[t].gen = timer[t].gen =>
                timer'[t] = timer[t]]_vars

\* An event of a timer is admitted only for the timer as it is specified at that
\* moment, and not before its time.
OnlyDueTimersFire ==
    [][\A t \in TimerIds : \A g \in Generations :
          <<t, g>> \in FiredEvents' \ FiredEvents =>
              /\ timer[t].gen = g /\ DueBy(t, now)
              /\ log'[Len(log')].data = timer[t].spec]_vars

\* A timer that is due does not stay due: it fires, unless it is cancelled or
\* rescheduled.  Crashes, errors and lost leases delay it only.
DueTimersFire == \A t \in TimerIds : DueBy(t, now) ~> ~DueBy(t, now)

=============================================================================
