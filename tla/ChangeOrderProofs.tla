-------------------------- MODULE ChangeOrderProofs --------------------------
(***************************************************************************)
(* Proofs about ChangeOrder, for any threads, commits, observations and    *)
(* crashes: the feed and the journals agree, what is reported is durable,  *)
(* and the feed stays usable as long as no commit loses its worker.        *)
(***************************************************************************)
EXTENDS ChangeOrder, TLAPS

-----------------------------------------------------------------------------
(* Sequences, as the feed uses them.                                       *)

\* The number of events is a natural number, and they are numbered from one.
LEMMA SeqIsNumbered ==
    ASSUME NEW S, NEW q \in Seq(S)
    PROVE  /\ Len(q) \in Nat /\ DOMAIN q = 1..Len(q)
           /\ \A i \in 1..Len(q) : q[i] \in S
OBVIOUS

\* An event is of a sequence when it has a place in it.
LEMMA InRange ==
    ASSUME NEW S, NEW q \in Seq(S), NEW e
    PROVE  e \in Range(q) <=> \E i \in 1..Len(q) : q[i] = e
BY Zenon, SeqIsNumbered DEF Range

\* What is appended comes after what was there.
LEMMA Appended ==
    ASSUME NEW S, NEW q \in Seq(S), NEW e \in S
    PROVE  /\ Append(q, e) \in Seq(S) /\ Len(Append(q, e)) = Len(q) + 1
           /\ \A i \in 1..Len(q) : Append(q, e)[i] = q[i]
           /\ Append(q, e)[Len(q) + 1] = e
OBVIOUS

\* The same, for several events at once.
LEMMA Joined ==
    ASSUME NEW S, NEW q \in Seq(S), NEW r \in Seq(S)
    PROVE  /\ q \o r \in Seq(S) /\ Len(q \o r) = Len(q) + Len(r)
           /\ \A i \in 1..Len(q) : (q \o r)[i] = q[i]
           /\ \A i \in 1..Len(r) : (q \o r)[Len(q) + i] = r[i]
OBVIOUS

\* A feed without its first n events.
LEMMA Shortened ==
    ASSUME NEW S, NEW q \in Seq(S), NEW n \in 0..Len(q)
    PROVE  /\ SubSeq(q, n + 1, Len(q)) \in Seq(S)
           /\ Len(SubSeq(q, n + 1, Len(q))) = Len(q) - n
           /\ \A i \in 1..(Len(q) - n) : SubSeq(q, n + 1, Len(q))[i] = q[n + i]
OBVIOUS

\* An arrangement of a set is a sequence that has all of it.
LEMMA Arranged ==
    ASSUME NEW S, NEW s \in Arrangements(S)
    PROVE  s \in Seq(S) /\ S \subseteq Range(s)
<1>1. PICK n \in 0..Cardinality(Commits) : s \in Bijection(1..n, S)
      BY Zenon DEF Arrangements
<1>2. s \in [1..n -> S] /\ \A e \in S : \E i \in 1..n : s[i] = e
      BY <1>1, Zenon DEF Bijection, Injection, Surjection
<1>3. n \in Nat
      BY CommitsAreCounted
<1>4. S \subseteq Range(s)
      BY <1>2, Zenon DEF Range
<1>5. QED
      BY <1>2, <1>3, <1>4

-----------------------------------------------------------------------------
(* What happens to the feed.                                               *)

\* To append is to join a sequence of one.
LEMMA AppendIsJoin ==
    ASSUME NEW S, NEW q \in Seq(S), NEW e \in S
    PROVE  Append(q, e) = q \o <<e>> /\ <<e>> \in Seq(S) /\ Len(<<e>>) = 1 /\ <<e>>[1] = e
OBVIOUS

\* A sequence of one has that one.
LEMMA OneInRange ==
    ASSUME NEW e
    PROVE  e \in Range(<<e>>)
<1>1. 1 \in DOMAIN <<e>> /\ <<e>>[1] = e
      OBVIOUS
<1>2. QED
      BY Zenon, <1>1 DEF Range

\* The step adds s to the end of the feed.
GrowsBy(s) ==
    /\ events' \in Seq(Events) /\ Len(events') = Len(events) + Len(s)
    /\ FeedHead' = FeedHead + Len(s)
    /\ \A i \in 1..Len(events) : events'[i] = events[i]
    /\ \A i \in 1..Len(s) : events'[Len(events) + i] = s[i]
    /\ Range(events') = Range(events) \cup Range(s)

\* The events of s belong to settled journals and have the next numbers.
Fits(s) ==
    \A i \in 1..Len(s) : s[i] \in Commits =>
        phase[s[i]] = "committed" /\ mark[s[i]] = FeedHead + i

\* A joined sequence has the events of both.
LEMMA JoinedSet ==
    ASSUME NEW S, NEW q \in Seq(S), NEW r \in Seq(S)
    PROVE  Range(q \o r) = Range(q) \cup Range(r)
<1> DEFINE j == q \o r
<1>1. /\ j \in Seq(S) /\ Len(j) = Len(q) + Len(r)
      /\ \A i \in 1..Len(q) : j[i] = q[i]
      /\ \A i \in 1..Len(r) : j[Len(q) + i] = r[i]
      BY Joined
<1>2. /\ Len(q) \in Nat /\ Len(r) \in Nat
      /\ DOMAIN q = 1..Len(q) /\ DOMAIN r = 1..Len(r) /\ DOMAIN j = 1..Len(j)
      BY Zenon, <1>1, SeqIsNumbered
<1> HIDE DEF j
<1>3. ASSUME NEW i \in 1..Len(j) PROVE j[i] \in Range(q) \cup Range(r)
  <2>1. CASE i <= Len(q)
        BY SMTT(60), <2>1, <1>1, <1>2 DEF Range
  <2>2. CASE ~(i <= Len(q))
    <3>1. i - Len(q) \in 1..Len(r) /\ Len(q) + (i - Len(q)) = i
          BY <2>2, <1>1, <1>2
    <3>2. QED
          BY Zenon, <3>1, <1>1, <1>2 DEF Range
  <2>3. QED
        BY Zenon, <2>1, <2>2
<1>4. ASSUME NEW i \in 1..Len(q) PROVE q[i] \in Range(j)
  <2>1. i \in DOMAIN j /\ j[i] = q[i]
        BY <1>1, <1>2
  <2>2. QED
        BY <2>1, Zenon DEF Range
<1>5. ASSUME NEW i \in 1..Len(r) PROVE r[i] \in Range(j)
  <2>1. Len(q) + i \in DOMAIN j /\ j[Len(q) + i] = r[i]
        BY <1>1, <1>2
  <2>2. QED
        BY <2>1, Zenon DEF Range
<1>6. Range(j) \subseteq Range(q) \cup Range(r)
      BY <1>2, <1>3, Zenon DEF Range
<1>7. Range(q) \subseteq Range(j)
      BY <1>2, <1>4, Zenon DEF Range
<1>8. Range(r) \subseteq Range(j)
      BY <1>2, <1>5, Zenon DEF Range
<1>9. QED
      BY <1>6, <1>7, <1>8, Zenon DEF j

\* What is in a feed that grew.
LEMMA FeedGrows ==
    ASSUME TypeOK, NEW s \in Seq(Events), events' = events \o s, acked' = acked
    PROVE  GrowsBy(s)
<1>1. events \in Seq(Events) /\ acked \in Nat
      BY Zenon DEF TypeOK
<1>2. /\ events' \in Seq(Events) /\ Len(events') = Len(events) + Len(s)
      /\ \A i \in 1..Len(events) : events'[i] = events[i]
      /\ \A i \in 1..Len(s) : events'[Len(events) + i] = s[i]
      BY <1>1, Joined
<1>3. Range(events') = Range(events) \cup Range(s)
  <2>1. Range(events \o s) = Range(events) \cup Range(s)
        BY <1>1, JoinedSet
  <2>2. QED
        BY <2>1, Zenon
<1>4. Len(events) \in Nat /\ Len(s) \in Nat
      BY Zenon, <1>1, SeqIsNumbered
<1>5. FeedHead' = FeedHead + Len(s)
      BY <1>1, <1>2, <1>4 DEF FeedHead
<1>6. QED
      BY <1>2, <1>3, <1>5, Zenon DEF GrowsBy

\* The feed may grow by events of settled journals that have the next numbers.
LEMMA GrownFeed ==
    ASSUME TypeOK, FeedInv, NEW s \in Seq(Events), GrowsBy(s), Fits(s),
           UNCHANGED <<phase, mark, evacked, acked, seen, delivered>>,
           told' \subseteq told \cup Range(events')
    PROVE  FeedInv'
<1>1. events \in Seq(Events) /\ Len(events) \in Nat /\ DOMAIN events = 1..Len(events)
      BY Zenon, SeqIsNumbered DEF TypeOK
<1>2. Len(s) \in Nat
      BY Zenon, SeqIsNumbered
<1>3. /\ events' \in Seq(Events) /\ Len(events') = Len(events) + Len(s)
      /\ FeedHead' = FeedHead + Len(s)
      /\ \A i \in 1..Len(events) : events'[i] = events[i]
      /\ \A i \in 1..Len(s) : events'[Len(events) + i] = s[i]
      /\ Range(events') = Range(events) \cup Range(s)
      BY Zenon DEF GrowsBy
<1>4. acked \in Nat /\ seen \in Nat /\ FeedHead = acked + Len(events)
      BY Zenon DEF TypeOK, FeedHead
<1>5. DOMAIN events' = 1..(Len(events) + Len(s))
      BY Zenon, <1>3, SeqIsNumbered
<1>6. ASSUME NEW i \in DOMAIN events', events'[i] \in Commits
      PROVE  phase'[events'[i]] = "committed" /\ mark'[events'[i]] = acked' + i
  <2>1. CASE i <= Len(events)
        BY <2>1, <1>1, <1>3, <1>5, <1>6 DEF FeedInv
  <2>2. CASE ~(i <= Len(events))
    <3>1. i - Len(events) \in 1..Len(s) /\ Len(events) + (i - Len(events)) = i
          BY <2>2, <1>1, <1>2, <1>5
    <3>2. events'[i] = s[i - Len(events)]
          BY Zenon, <3>1, <1>3
    <3>3. FeedHead + (i - Len(events)) = acked + i
          BY SMTT(60), <3>1, <1>1, <1>4, <1>5
    <3>4. QED
          BY Zenon, <3>1, <3>2, <3>3, <1>6 DEF Fits
  <2>3. QED
        BY Zenon, <2>1, <2>2
<1>7. \A c \in evacked' : phase'[c] = "committed" /\ mark'[c] <= FeedHead'
  <2> SUFFICES ASSUME NEW c \in evacked PROVE phase[c] = "committed" /\ mark[c] <= FeedHead + Len(s)
      BY Zenon, <1>3
  <2>1. phase[c] = "committed" /\ mark[c] <= FeedHead /\ mark[c] \in Nat
        BY Zenon DEF FeedInv, TypeOK
  <2>2. QED
        BY <2>1, <1>1, <1>2, <1>4
<1>8. acked' <= seen' /\ seen' <= FeedHead'
      BY SMTT(60), <1>1, <1>2, <1>3, <1>4 DEF FeedInv
<1>9. \A i \in 1..(seen' - acked') : events'[i] \in delivered'
  <2> SUFFICES ASSUME NEW i \in 1..(seen - acked) PROVE events'[i] \in delivered
      BY Zenon
  <2>1. i \in 1..Len(events)
        BY <1>1, <1>4 DEF FeedInv
  <2>2. QED
        BY Zenon, <2>1, <1>3 DEF FeedInv
<1>10. told' \subseteq Range(events') \cup delivered'
      BY Zenon, <1>3 DEF FeedInv
<1>11. QED
      BY Zenon, <1>6, <1>7, <1>8, <1>9, <1>10 DEF FeedInv

\* Nothing is wrong with the feed as long as settled journals stay as they are.
LEMMA KeptFeed ==
    ASSUME TypeOK, FeedInv,
           \A c \in Commits : phase[c] = "committed" => phase'[c] = "committed" /\ mark'[c] = mark[c],
           UNCHANGED <<evacked, acked, events, seen, delivered, told>>
    PROVE  FeedInv'
<1>1. FeedHead' = FeedHead
      BY Zenon DEF FeedHead
<1>2. evacked \subseteq Commits
      BY Zenon DEF TypeOK
<1>3. QED
      BY Zenon, <1>1, <1>2 DEF FeedInv

\* What reconcile adds to the feed is missing from it and has the next numbers.
LEMMA ReconciledFits ==
    ASSUME TypeOK, CanReconcile, events' = Reconciled, acked' = acked
    PROVE  \E s \in Seq(Events) : GrowsBy(s) /\ Fits(s) /\ Missing \subseteq Range(s)
<1>1. PICK s \in Arrangements(Missing) : AreNext(s) /\ events' = events \o s
      BY Zenon DEF CanReconcile, Reconciled
<1>2. s \in Seq(Missing) /\ Missing \subseteq Range(s)
      BY Arranged, Zenon
<1>3. DOMAIN s = 1..Len(s) /\ \A i \in 1..Len(s) : s[i] \in Missing
      BY <1>2, SeqIsNumbered, Zenon
<1>4. s \in Seq(Events)
  <2>1. Missing \subseteq Events
        BY Zenon DEF Missing, Events
  <2>2. QED
        BY <2>1, <1>2
<1>5. Fits(s)
      BY <1>1, <1>3, Zenon DEF Fits, AreNext, Missing
<1>6. GrowsBy(s)
      BY <1>1, <1>4, FeedGrows, Zenon
<1>7. QED
      BY <1>2, <1>4, <1>5, <1>6, Zenon

\* finish_resolution_inside: the feed stays, or grows by the event that is next.
LEMMA FinishedFeed ==
    ASSUME TypeOK, FeedInv, NEW c \in Commits, phase[c] = "committed", Finish(c),
           UNCHANGED <<phase, mark, evacked, acked, seen, delivered>>
    PROVE  /\ FeedInv' /\ order' \in Nat /\ events' \in Seq(Events) /\ told' \subseteq Commits
           /\ \/ UNCHANGED events
              \/ GrowsBy(<<c>>) /\ mark[c] = FeedHead + 1
<1> DEFINE ok == (mark[c] <= order \/ mark[c] = order + 1) /\ Appendable(c)
<1>0. /\ events \in Seq(Events) /\ c \in Events /\ mark[c] \in Nat /\ order \in Nat
      /\ told \subseteq Commits
      BY Zenon DEF TypeOK, Events
<1>1. /\ order' = IF mark[c] = order + 1 THEN mark[c] ELSE order
      /\ events' = IF ok THEN AppendKnown(c) ELSE events
      /\ told' = IF ok THEN told \cup {c} ELSE told
      BY Zenon DEF Finish
<1>2. order' \in Nat /\ told' \subseteq Commits
      BY <1>0, <1>1, Zenon
<1>3. CASE ok /\ c \notin Range(events)
  <2>1. /\ mark[c] = FeedHead + 1 /\ events' = Append(events, c)
        /\ told' = told \cup {c}
        BY <1>1, <1>3, Zenon DEF Appendable, AppendKnown
  <2>2. /\ <<c>> \in Seq(Events) /\ Len(<<c>>) = 1 /\ <<c>>[1] = c
        /\ events' = events \o <<c>>
        BY ZenonT(60), <2>1, <1>0, AppendIsJoin, Zenon
  <2>3. GrowsBy(<<c>>)
        BY <2>2, FeedGrows, Zenon
  <2>4. \A i \in 1..Len(<<c>>) : i = 1
        BY <2>2
  <2>5. Fits(<<c>>)
        BY <2>1, <2>2, <2>4, Zenon DEF Fits
  <2>6. c \in Range(<<c>>)
        BY OneInRange, Zenon
  <2>7. told' \subseteq told \cup Range(events')
        BY <2>1, <2>3, <2>6, Zenon DEF GrowsBy
  <2>8. FeedInv'
        BY <2>2, <2>3, <2>5, <2>7, GrownFeed, Zenon
  <2>9. QED
        BY <2>1, <2>3, <2>8, <1>2, Zenon DEF GrowsBy
<1>4. CASE ~(ok /\ c \notin Range(events))
  <2>1. events' = events /\ (told' = told \/ (told' = told \cup {c} /\ c \in Range(events)))
    <3>1. CASE ok
          BY <3>1, <1>1, <1>4, Zenon DEF AppendKnown
    <3>2. CASE ~ok
          BY <3>2, <1>1, Zenon
    <3>3. QED
          BY <3>1, <3>2, Zenon
  <2>2. FeedHead' = FeedHead
        BY Zenon, <2>1 DEF FeedHead
  <2>3. FeedInv'
        BY <2>1, <2>2, Zenon DEF FeedInv
  <2>4. QED
        BY <2>1, <2>3, <1>0, <1>2, Zenon
<1>5. QED
      BY Zenon, <1>3, <1>4

-----------------------------------------------------------------------------
(* What is in flight.                                                      *)

\* Who has the gate while the lock is free knows that nothing is in flight.
LEMMA NothingInFlight ==
    ASSUME PlacesInv, FlightInv, ~orphaned, lock = NoOne, NEW t \in Threads, gate = t
    PROVE  up /\ order = FeedHead /\ InFlight = {}
<1>1. pc[t] # "idle" /\ NoOne \notin Threads /\ Worker \notin Threads /\ NoOne # Worker
      BY ThreadsAreApart, Zenon DEF PlacesInv
<1>2. up /\ order = FeedHead
      BY <1>1, Zenon DEF PlacesInv, FlightInv
<1>3. ASSUME NEW c \in InFlight PROVE FALSE
  <2>1. CASE \E s \in Threads : pc[s] = "token" /\ job[s] = c
        BY <2>1, <1>1, Zenon DEF PlacesInv
  <2>2. CASE slot = c /\ wpc \in {"atgate", "settling", "settled"}
        BY <2>2, <1>1, Zenon DEF PlacesInv
  <2>3. QED
        BY <1>2, <2>1, <2>2, Zenon DEF FlightInv
<1>4. QED
      BY <1>2, <1>3, Zenon

\* Nobody stops working on a commit, and nobody begins to finalize one.
WorkGoesOn ==
    /\ \A t \in Threads : pc[t] = "token" => pc'[t] = "token" /\ job'[t] = job[t]
    /\ wpc \in {"atgate", "settling", "settled"} =>
            slot' = slot /\ wpc' \in {"atgate", "settling", "settled"}
    /\ \A t \in Threads : pc'[t] = "finalize" => pc[t] = "finalize" /\ job'[t] = job[t]

\* Then what is in flight stays the next.
LEMMA FlightGoesOn ==
    ASSUME FlightInv, WorkGoesOn, InFlight' \subseteq InFlight, FeedHead' = FeedHead,
           UNCHANGED <<orphaned, mark, order, up>>
    PROVE  FlightInv'
<1> SUFFICES ASSUME ~orphaned PROVE FlightInv'
    BY Zenon DEF FlightInv
<1>1. /\ \A c, d \in InFlight' : c = d
      /\ \A c \in InFlight' : mark'[c] = FeedHead' + 1
      /\ up' => order' = FeedHead'
      BY Zenon DEF FlightInv
<1>2. ASSUME up', NEW c \in InFlight'
      PROVE  \/ \E t \in Threads : pc'[t] = "token" /\ job'[t] = c
             \/ slot' = c /\ wpc' \in {"atgate", "settling", "settled"}
      BY <1>2, Zenon DEF FlightInv, WorkGoesOn
<1>3. \A t \in Threads : pc'[t] = "finalize" => job'[t] \notin InFlight'
      BY Zenon DEF FlightInv, WorkGoesOn
<1>4. QED
      BY <1>1, <1>2, <1>3, Zenon DEF FlightInv

\* With nothing in flight, only the order is left to show.
LEMMA FlightIsOver ==
    ASSUME InFlight' = {}, up' => order' = FeedHead'
    PROVE  FlightInv'
BY Zenon DEF FlightInv

\* What is in flight depends on the journals and the feed only.
LEMMA FlightSame ==
    ASSUME UNCHANGED <<phase, evacked, events, acked>>
    PROVE  InFlight' = InFlight /\ FeedHead' = FeedHead
BY Zenon DEF InFlight, FeedHead

-----------------------------------------------------------------------------
(* Steps outside the feed: one lemma for each action.                      *)

\* Only thread t moves, to a place and a job of its own.
Moves(t, place, what) ==
    /\ pc'[t] = place /\ job'[t] = what
    /\ \A s \in Threads \ {t} : pc'[s] = pc[s] /\ job'[s] = job[s]

\* Go moves a thread that keeps its job, or takes another one.
LEMMA GoMoves ==
    ASSUME TypeOK, NEW t \in Threads, NEW place, Go(t, place)
    PROVE  /\ job' = job => Moves(t, place, job[t])
           /\ \A what : job' = [job EXCEPT ![t] = what] => Moves(t, place, what)
BY Zenon DEF TypeOK, Go, Moves

\* Return moves a thread to its caller.
LEMMA ReturnMoves ==
    ASSUME TypeOK, NEW t \in Threads, Return(t)
    PROVE  Moves(t, "idle", None)
BY Zenon DEF TypeOK, Return, Moves

\* Nothing of the feed, the journals and their readers changes.
FeedKept == UNCHANGED <<order, durable, seen, delivered, told>>

\* Then the feed is in order, with the same commits in flight.
LEMMA FeedKeptInv ==
    ASSUME TypeOK, FeedInv, FeedKept
    PROVE  FeedInv' /\ InFlight' = InFlight /\ FeedHead' = FeedHead
<1>1. UNCHANGED <<phase, mark, evacked, acked, events, seen, delivered, told>>
      BY Zenon DEF FeedKept, durable
<1>2. FeedInv'
      BY <1>1, KeptFeed, Zenon
<1>3. QED
      BY <1>1, <1>2, FlightSame, Zenon

\* A step that touches neither the feed nor the work on a commit.
LEMMA QuietStep ==
    ASSUME OrderInv, FeedKept, UNCHANGED <<up, orphaned>>, WorkGoesOn, TypeOK', PlacesInv', JobsInv'
    PROVE  OrderInv'
<1>1. TypeOK /\ PlacesInv /\ JobsInv /\ FeedInv /\ FlightInv
      BY Zenon DEF OrderInv
<1>2. FeedInv' /\ InFlight' = InFlight /\ FeedHead' = FeedHead
      BY <1>1, FeedKeptInv, Zenon
<1>3. mark' = mark /\ order' = order
      BY Zenon DEF FeedKept, durable
<1>4. FlightInv'
      BY <1>1, <1>2, <1>3, FlightGoesOn, Zenon
<1>5. QED
      BY <1>2, <1>4, Zenon DEF OrderInv

\* commit begins.
LEMMA BeginCommitKeeps ==
    ASSUME OrderInv, NEW t \in Threads, NEW c \in Commits, BeginCommit(t, c)
    PROVE  OrderInv'
<1>1. TypeOK /\ PlacesInv /\ JobsInv
      BY Zenon DEF OrderInv
<1>2. up /\ pc[t] = "idle" /\ Moves(t, "await", c)
      BY <1>1, GoMoves, Zenon DEF BeginCommit
<1>3. UNCHANGED <<up, gate, lock, slot, wpc, order, durable, seen, history>>
      BY Zenon DEF BeginCommit
<1>4. FeedHead' = FeedHead
      BY Zenon, <1>3 DEF durable, FeedHead
<1>5. TypeOK'
      BY ZenonT(60), <1>1 DEF TypeOK, BeginCommit, durable, history, Events, Go
<1>6. PlacesInv'
      BY Zenon, <1>1, <1>2, <1>3, <1>4 DEF PlacesInv, Moves
<1>7. JobsInv'
      BY ZenonT(60), <1>1, <1>2, <1>3 DEF JobsInv, Moves, durable
<1>8. WorkGoesOn
      BY Zenon, <1>1, <1>2, <1>3 DEF WorkGoesOn, Moves
<1>9. QED
      BY <1>3, <1>5, <1>6, <1>7, <1>8, QuietStep, Zenon DEF FeedKept, history

\* An observation is taken.
LEMMA BeginIngestKeeps ==
    ASSUME OrderInv, NEW t \in Threads, NEW o \in Observations, BeginIngest(t, o)
    PROVE  OrderInv'
<1>1. TypeOK /\ PlacesInv /\ JobsInv
      BY Zenon DEF OrderInv
<1>2. up /\ pc[t] = "idle" /\ Moves(t, "atgate", o)
      BY <1>1, GoMoves, Zenon DEF BeginIngest
<1>3. UNCHANGED <<up, gate, lock, slot, wpc, order, durable, seen, history>>
      BY Zenon DEF BeginIngest
<1>4. FeedHead' = FeedHead
      BY Zenon, <1>3 DEF durable, FeedHead
<1>5. TypeOK'
      BY Zenon, <1>1 DEF TypeOK, BeginIngest, durable, history, Events, Go
<1>6. PlacesInv'
      BY Zenon, <1>1, <1>2, <1>3, <1>4 DEF PlacesInv, Moves
<1>7. JobsInv'
      BY ZenonT(60), <1>1, <1>2, <1>3 DEF JobsInv, Moves, durable
<1>8. WorkGoesOn
      BY Zenon, <1>1, <1>2, <1>3 DEF WorkGoesOn, Moves
<1>9. QED
      BY <1>3, <1>5, <1>6, <1>7, <1>8, QuietStep, Zenon DEF FeedKept, history

\* A commit has waited for the settlement before it.
LEMMA WaitForSettlementKeeps ==
    ASSUME OrderInv, NEW t \in Threads, WaitForSettlement(t)
    PROVE  OrderInv'
<1>1. TypeOK /\ PlacesInv /\ JobsInv
      BY Zenon DEF OrderInv
<1>2. pc[t] = "await" /\ Moves(t, "atgate", job[t])
      BY <1>1, GoMoves, Zenon DEF WaitForSettlement
<1>3. UNCHANGED <<up, gate, lock, slot, wpc, job, order, durable, seen, history>>
      BY Zenon DEF WaitForSettlement
<1>4. FeedHead' = FeedHead
      BY Zenon, <1>3 DEF durable, FeedHead
<1>5. TypeOK'
      BY ZenonT(60), <1>1 DEF TypeOK, WaitForSettlement, durable, history, Events, Go
<1>6. PlacesInv'
      BY Zenon, <1>1, <1>2, <1>3, <1>4 DEF PlacesInv, Moves
<1>7. JobsInv'
      BY Zenon, <1>1, <1>2, <1>3 DEF JobsInv, Moves, durable
<1>8. WorkGoesOn
      BY Zenon, <1>1, <1>2, <1>3 DEF WorkGoesOn, Moves
<1>9. QED
      BY <1>3, <1>5, <1>6, <1>7, <1>8, QuietStep, Zenon DEF FeedKept, history

\* A call enters the gate.
LEMMA EnterGateKeeps ==
    ASSUME OrderInv, NEW t \in Threads, EnterGate(t)
    PROVE  OrderInv'
<1>1. TypeOK /\ PlacesInv /\ JobsInv
      BY Zenon DEF OrderInv
<1>2. pc[t] = "atgate" /\ gate = NoOne /\ gate' = t /\ Moves(t, "ingate", job[t])
      BY <1>1, GoMoves, Zenon DEF EnterGate
<1>3. UNCHANGED <<up, lock, slot, wpc, job, order, durable, seen, history>>
      BY Zenon DEF EnterGate
<1>4. FeedHead' = FeedHead
      BY Zenon, <1>3 DEF durable, FeedHead
<1>5. TypeOK'
      BY Zenon, <1>1, ThreadsAreApart DEF TypeOK, EnterGate, durable, history, Events, Go
<1>6. PlacesInv'
      BY ZenonT(60), <1>1, <1>2, <1>3, <1>4, ThreadsAreApart DEF PlacesInv, Moves
<1>7. JobsInv'
      BY <1>1, <1>2, <1>3, ThreadsAreApart DEF JobsInv, Moves, durable
<1>8. WorkGoesOn
      BY Zenon, <1>1, <1>2, <1>3 DEF WorkGoesOn, Moves
<1>9. QED
      BY <1>3, <1>5, <1>6, <1>7, <1>8, QuietStep, Zenon DEF FeedKept, history

\* A deadline passes.
LEMMA GiveUpKeeps ==
    ASSUME OrderInv, NEW t \in Threads, GiveUp(t)
    PROVE  OrderInv'
<1>1. TypeOK /\ PlacesInv /\ JobsInv
      BY Zenon DEF OrderInv
<1>2. /\ pc[t] \in {"await", "atgate", "ingate", "waiting", "reconciled", "finalize", "acking"}
      /\ gate' = (IF gate = t THEN NoOne ELSE gate) /\ Moves(t, "idle", None)
      BY <1>1, ReturnMoves, Zenon DEF GiveUp
<1>3. UNCHANGED <<up, lock, slot, wpc, order, durable, seen, history>>
      BY Zenon DEF GiveUp
<1>4. FeedHead' = FeedHead
      BY Zenon, <1>3 DEF durable, FeedHead
<1>5. TypeOK'
      BY ZenonT(60), <1>1, ThreadsAreApart DEF TypeOK, GiveUp, durable, history, Events, Return
<1>6. PlacesInv'
      BY ZenonT(60), <1>1, <1>2, <1>3, <1>4, ThreadsAreApart DEF PlacesInv, Moves
<1>7. JobsInv'
      BY <1>1, <1>2, <1>3, ThreadsAreApart DEF JobsInv, Moves, durable
<1>8. WorkGoesOn
      BY Zenon, <1>1, <1>2, <1>3 DEF WorkGoesOn, Moves
<1>9. QED
      BY <1>3, <1>5, <1>6, <1>7, <1>8, QuietStep, Zenon DEF FeedKept, history

\* The worker enters the gate.
LEMMA WorkerGateKeeps ==
    ASSUME OrderInv, WorkerGate
    PROVE  OrderInv'
<1>1. TypeOK /\ PlacesInv /\ JobsInv
      BY Zenon DEF OrderInv
<1>2. wpc = "atgate" /\ gate = NoOne /\ gate' = Worker /\ wpc' = "settling"
      BY <1>1, Zenon DEF WorkerGate
<1>3. UNCHANGED <<up, lock, slot, threadVars, order, durable, seen, history>>
      BY Zenon DEF WorkerGate
<1>4. FeedHead' = FeedHead
      BY Zenon, <1>3 DEF durable, FeedHead
<1>5. TypeOK'
      BY Zenon, <1>1, ThreadsAreApart DEF TypeOK, WorkerGate, threadVars, durable, history, Events
<1>6. PlacesInv'
      BY Zenon, <1>1, <1>2, <1>3, <1>4, ThreadsAreApart DEF PlacesInv, Moves, threadVars
<1>7. JobsInv'
      BY <1>1, <1>2, <1>3, ThreadsAreApart DEF JobsInv, Moves, durable, threadVars
<1>8. WorkGoesOn
      BY Zenon, <1>1, <1>2, <1>3 DEF WorkGoesOn, threadVars
<1>9. QED
      BY <1>3, <1>5, <1>6, <1>7, <1>8, QuietStep, Zenon DEF FeedKept, history

\* The worker leaves.
LEMMA WorkerDoneKeeps ==
    ASSUME OrderInv, WorkerDone
    PROVE  OrderInv'
<1>1. TypeOK /\ PlacesInv /\ JobsInv
      BY Zenon DEF OrderInv
<1>2. /\ wpc = "done" /\ wpc' = "none" /\ slot' = None
      /\ lock' = (IF lock = Worker THEN NoOne ELSE lock)
      /\ pc' = [t \in Threads |-> IF pc[t] = "waiting" THEN "idle" ELSE pc[t]]
      /\ job' = [t \in Threads |-> IF pc[t] = "waiting" THEN None ELSE job[t]]
      BY <1>1, Zenon DEF WorkerDone
<1>3. UNCHANGED <<up, gate, order, durable, seen, history>>
      BY Zenon DEF WorkerDone
<1>4. FeedHead' = FeedHead
      BY Zenon, <1>3 DEF durable, FeedHead
<1>5. TypeOK'
      BY <1>1, ThreadsAreApart DEF TypeOK, WorkerDone, durable, history, Events
<1>6. PlacesInv'
      BY <1>1, <1>2, <1>3, <1>4, ThreadsAreApart DEF PlacesInv, Moves
<1>7. JobsInv'
      BY Zenon, <1>1, <1>2, <1>3, ThreadsAreApart DEF JobsInv, Moves, durable
<1>8. WorkGoesOn
      BY Zenon, <1>1, <1>2, <1>3 DEF WorkGoesOn, Moves
<1>9. QED
      BY <1>3, <1>5, <1>6, <1>7, <1>8, QuietStep, Zenon DEF FeedKept, history

\* An acknowledgement begins.
LEMMA BeginAckKeeps ==
    ASSUME OrderInv, NEW t \in Threads, NEW through \in Nat, BeginAck(t, through)
    PROVE  OrderInv'
<1>1. TypeOK /\ PlacesInv /\ JobsInv
      BY Zenon DEF OrderInv
<1>2. /\ up /\ pc[t] = "idle" /\ gate = NoOne /\ gate' = t
      /\ through \in (acked + 1)..seen /\ Moves(t, "acking", through)
      BY <1>1, GoMoves, Zenon DEF BeginAck
<1>3. UNCHANGED <<up, lock, slot, wpc, order, durable, seen, history>>
      BY Zenon DEF BeginAck
<1>4. FeedHead' = FeedHead
      BY Zenon, <1>3 DEF durable, FeedHead
<1>5. TypeOK'
      BY <1>1, ThreadsAreApart DEF TypeOK, BeginAck, durable, history, Events, Go
<1>6. PlacesInv'
      BY Zenon, <1>1, <1>2, <1>3, <1>4, ThreadsAreApart DEF PlacesInv, Moves
<1>7. JobsInv'
      BY ZenonT(60), <1>1, <1>2, <1>3, ThreadsAreApart DEF JobsInv, Moves, durable
<1>8. WorkGoesOn
      BY Zenon, <1>1, <1>2, <1>3 DEF WorkGoesOn, Moves
<1>9. QED
      BY <1>3, <1>5, <1>6, <1>7, <1>8, QuietStep, Zenon DEF FeedKept, history

-----------------------------------------------------------------------------
(* Steps of commits, of the worker and of the feed.                        *)

\* A call reconciles the feed inside the gate, or is refused.
LEMMA ReconcileKeeps ==
    ASSUME OrderInv, NEW t \in Threads, Reconcile(t)
    PROVE  OrderInv'
<1>1. TypeOK /\ PlacesInv /\ JobsInv /\ FeedInv /\ FlightInv
      BY Zenon DEF OrderInv
<1>2. /\ pc[t] = "ingate" /\ lock = NoOne
      /\ UNCHANGED <<up, lock, slot, wpc, phase, mark, evacked, acked, unseen, seen, history, crashes>>
      BY Zenon DEF Reconcile
<1>3. CASE CanReconcile /\ events' = Reconciled /\ order' = acked + Len(Reconciled)
           /\ Go(t, "reconciled") /\ UNCHANGED <<gate, job>>
  <2>1. PICK s \in Seq(Events) : GrowsBy(s) /\ Fits(s) /\ Missing \subseteq Range(s)
        BY <1>1, <1>2, <1>3, ReconciledFits, Zenon
  <2>2. order' = FeedHead' /\ Moves(t, "reconciled", job[t])
        BY <1>1, <1>2, <1>3, GoMoves, Zenon DEF FeedHead
  <2>3. FeedInv'
        BY <1>1, <1>2, <2>1, GrownFeed, Zenon DEF history
  <2>4. events' \in Seq(Events) /\ FeedHead' \in Nat
        BY <1>1, <1>2, <2>1, SeqIsNumbered DEF GrowsBy, FeedHead, TypeOK
  <2>5. TypeOK'
        BY Zenon, <1>1, <1>2, <1>3, <2>2, <2>4 DEF TypeOK, Go, history
  <2>6. PlacesInv'
        BY Zenon, <1>1, <1>2, <1>3, <2>2, ThreadsAreApart DEF PlacesInv, Moves
  <2>7. JobsInv'
        BY ZenonT(60), <1>1, <1>2, <2>2 DEF JobsInv, Moves
  <2>8. FlightInv'
    <3>1. CASE orphaned
          BY <3>1, <1>2, Zenon DEF FlightInv, history
    <3>2. CASE ~orphaned
      <4>1. InFlight = {}
            BY <3>2, <1>1, <1>2, NothingInFlight, Zenon DEF PlacesInv
      <4>2. InFlight' = {}
            BY <4>1, <1>2, <2>1, Zenon DEF InFlight, GrowsBy
      <4>3. QED
            BY <4>2, <2>2, FlightIsOver, Zenon
    <3>3. QED
          BY Zenon, <3>1, <3>2
  <2>9. QED
        BY <2>3, <2>5, <2>6, <2>7, <2>8, Zenon DEF OrderInv
<1>4. CASE gate' = NoOne /\ Return(t) /\ UNCHANGED <<events, order>>
  <2>1. Moves(t, "idle", None)
        BY <1>1, <1>4, ReturnMoves, Zenon
  <2>2. FeedKept
        BY Zenon, <1>2, <1>4 DEF FeedKept, durable, history
  <2>3. FeedHead' = FeedHead
        BY Zenon, <1>2, <1>4 DEF FeedHead
  <2>4. TypeOK'
        BY Zenon, <1>1, <1>2, <1>4 DEF TypeOK, Return, history
  <2>5. PlacesInv'
        BY <1>1, <1>2, <1>4, <2>1, <2>3, ThreadsAreApart DEF PlacesInv, Moves
  <2>6. JobsInv'
        BY Zenon, <1>1, <1>2, <2>1 DEF JobsInv, Moves
  <2>7. WorkGoesOn
        BY Zenon, <1>2, <2>1 DEF WorkGoesOn, Moves
  <2>8. QED
        BY <1>2, <2>2, <2>4, <2>5, <2>6, <2>7, QuietStep, Zenon DEF history
<1>5. QED
      BY <1>3, <1>4, Zenon DEF Reconcile

\* A thread that is about to commit has the gate, and nothing is in flight.
LEMMA AtCommitIsAlone ==
    ASSUME OrderInv, NEW t \in Threads, AtCommit(t)
    PROVE  /\ pc[t] = "reconciled" /\ gate = t /\ lock = NoOne /\ up
           /\ job[t] \in Commits /\ order = FeedHead
           /\ \A s \in Threads : pc[s] # "token"
           /\ ~orphaned => InFlight = {}
<1>1. PlacesInv /\ FlightInv
      BY Zenon DEF OrderInv
<1>2. pc[t] = "reconciled" /\ lock = NoOne /\ job[t] \in Commits
      BY Zenon DEF AtCommit
<1>3. gate = t /\ up /\ order = FeedHead
      BY <1>1, <1>2, Zenon DEF PlacesInv
<1>4. \A s \in Threads : pc[s] # "token"
      BY <1>1, <1>2, ThreadsAreApart, Zenon DEF PlacesInv
<1>5. ~orphaned => InFlight = {}
      BY <1>1, <1>2, <1>3, NothingInFlight, Zenon
<1>6. QED
      BY <1>2, <1>3, <1>4, <1>5, Zenon

\* The commit point: the next number is taken.
LEMMA CommitPointKeeps ==
    ASSUME OrderInv, NEW t \in Threads, CommitPoint(t)
    PROVE  OrderInv'
<1> DEFINE c == job[t]
<1>1. TypeOK /\ PlacesInv /\ JobsInv /\ FeedInv /\ FlightInv
      BY Zenon DEF OrderInv
<1>2. /\ pc[t] = "reconciled" /\ gate = t /\ lock = NoOne /\ up
      /\ c \in Commits /\ order = FeedHead
      /\ \A s \in Threads : pc[s] # "token"
      /\ ~orphaned => InFlight = {}
      BY AtCommitIsAlone, Zenon DEF CommitPoint
<1>3. /\ phase[c] = "prepared" /\ phase' = [phase EXCEPT ![c] = "committing"]
      /\ mark' = [mark EXCEPT ![c] = order + 1]
      /\ lock' = t /\ gate' = NoOne /\ Moves(t, "token", c)
      /\ UNCHANGED <<up, slot, wpc, job, order, evacked, acked, events, unseen, seen, history, crashes>>
      BY <1>1, GoMoves, Zenon DEF CommitPoint
<1> HIDE DEF c
<1>4. /\ phase'[c] = "committing" /\ mark'[c] = order + 1
      /\ \A d \in Commits \ {c} : phase'[d] = phase[d] /\ mark'[d] = mark[d]
      BY Zenon, <1>1, <1>2, <1>3 DEF TypeOK
<1>5. FeedHead' = FeedHead
      BY Zenon, <1>3 DEF FeedHead
<1>6. FeedInv'
  <2>1. \A d \in Commits : phase[d] = "committed" => phase'[d] = "committed" /\ mark'[d] = mark[d]
        BY Zenon, <1>3, <1>4
  <2>2. QED
        BY <2>1, <1>1, <1>3, KeptFeed, Zenon DEF history
<1>7. TypeOK'
      BY SMTT(60), <1>1, <1>2, <1>3 DEF TypeOK, CommitPoint, Go, history
<1>8. PlacesInv'
      BY ZenonT(60), <1>1, <1>2, <1>3, <1>5, ThreadsAreApart DEF PlacesInv, Moves
<1>9. JobsInv'
  <2>1. \A s \in Threads \ {t} : pc'[s] = pc[s] /\ job'[s] = job[s]
        BY Zenon, <1>3 DEF Moves
  <2>2. pc'[t] = "token" /\ job'[t] = c
        BY Zenon, <1>3 DEF Moves
  <2>3. wpc \notin {"atgate", "settling"} /\ wpc # "settled"
        BY <1>1, <1>2, ThreadsAreApart, Zenon DEF PlacesInv
  <2>4. ASSUME NEW s \in Threads
        PROVE  /\ pc'[s] = "token" => job'[s] \in Commits /\ phase'[job'[s]] = "committing"
               /\ pc'[s] = "finalize" => job'[s] \in Commits /\ phase'[job'[s]] = "committed"
               /\ pc'[s] = "acking" => job'[s] \in (acked' + 1)..seen'
    <3>1. CASE s = t
          BY Zenon, <3>1, <2>2, <1>2, <1>4
    <3>2. CASE s # t
          BY <3>2, <2>1, <1>1, <1>2, <1>3, <1>4 DEF JobsInv
    <3>3. QED
          BY Zenon, <3>1, <3>2
  <2>5. QED
        BY Zenon, <2>3, <2>4, <1>3 DEF JobsInv
<1>10. FlightInv'
  <2>1. CASE orphaned
        BY <2>1, <1>3, Zenon DEF FlightInv, history
  <2>2. CASE ~orphaned
    <3>1. \A d \in InFlight' : d = c
          BY <2>2, <1>2, <1>3, <1>4, Zenon DEF InFlight
    <3>2. mark'[c] = FeedHead' + 1 /\ order' = FeedHead'
          BY Zenon, <1>2, <1>3, <1>4, <1>5
    <3>3. pc'[t] = "token" /\ job'[t] = c
          BY Zenon, <1>3 DEF Moves
    <3>4. \A s \in Threads : pc'[s] = "finalize" => s # t /\ job'[s] = job[s] /\ pc[s] = "finalize"
          BY Zenon, <1>3, <3>3 DEF Moves
    <3>5. \A s \in Threads : pc'[s] = "finalize" => job'[s] \notin InFlight'
          BY <3>1, <3>4, <1>1, <1>3, Zenon DEF JobsInv
    <3>6. QED
          BY <3>1, <3>2, <3>3, <3>5, Zenon DEF FlightInv
  <2>3. QED
        BY Zenon, <2>1, <2>2
<1>11. QED
      BY <1>6, <1>7, <1>8, <1>9, <1>10, Zenon DEF OrderInv

\* A mutation is rejected, or was.
LEMMA RejectedKeeps ==
    ASSUME OrderInv, NEW t \in Threads, Rejected(t)
    PROVE  OrderInv'
<1> DEFINE c == job[t]
<1>1. TypeOK /\ PlacesInv /\ JobsInv /\ FeedInv /\ FlightInv
      BY Zenon DEF OrderInv
<1>2. pc[t] = "reconciled" /\ gate = t /\ lock = NoOne /\ c \in Commits
      BY AtCommitIsAlone, Zenon DEF Rejected
<1>3. /\ phase[c] \in {"prepared", "rejected"} /\ phase' = [phase EXCEPT ![c] = "rejected"]
      /\ gate' = NoOne /\ Moves(t, "idle", None)
      /\ UNCHANGED <<up, lock, slot, wpc, order, mark, evacked, acked, events, unseen, seen, history, crashes>>
      BY <1>1, ReturnMoves, Zenon DEF Rejected
<1> HIDE DEF c
<1>4. phase'[c] = "rejected" /\ \A d \in Commits \ {c} : phase'[d] = phase[d]
      BY Zenon, <1>1, <1>2, <1>3 DEF TypeOK
<1>5. FeedHead' = FeedHead
      BY Zenon, <1>3 DEF FeedHead
<1>6. FeedInv'
  <2>1. \A d \in Commits : phase[d] = "committed" => phase'[d] = "committed" /\ mark'[d] = mark[d]
        BY Zenon, <1>3, <1>4
  <2>2. QED
        BY <2>1, <1>1, <1>3, KeptFeed, Zenon DEF history
<1>7. TypeOK'
      BY Zenon, <1>1, <1>2, <1>3 DEF TypeOK, Rejected, Return, history
<1>8. PlacesInv'
      BY SMTT(60), <1>1, <1>2, <1>3, <1>5, ThreadsAreApart DEF PlacesInv, Moves
<1>9. JobsInv'
  <2>1. ASSUME NEW d \in Commits, NEW p \in {"committing", "committed"}, phase[d] = p
        PROVE  phase'[d] = p
        BY Zenon, <2>1, <1>3, <1>4
  <2>2. slot \in Commits \cup {None} /\ (slot = None <=> wpc = "none")
        BY Zenon, <1>1 DEF TypeOK, PlacesInv
  <2>3. QED
        BY <2>1, <2>2, <1>1, <1>3 DEF JobsInv, Moves
<1>10. FlightInv'
  <2>1. InFlight' \subseteq InFlight
        BY Zenon, <1>3, <1>4 DEF InFlight
  <2>2. WorkGoesOn
        BY Zenon, <1>2, <1>3 DEF WorkGoesOn, Moves
  <2>3. QED
        BY <2>1, <2>2, <1>1, <1>3, <1>5, FlightGoesOn, Zenon DEF history
<1>11. QED
      BY <1>6, <1>7, <1>8, <1>9, <1>10, Zenon DEF OrderInv

\* A commit is asked for again, before or after it settled, or was left to a human.
LEMMA CommitAgainKeeps ==
    ASSUME OrderInv, NEW t \in Threads, CommitAgain(t)
    PROVE  OrderInv'
<1>1. TypeOK /\ PlacesInv /\ JobsInv /\ FeedInv /\ FlightInv
      BY Zenon DEF OrderInv
<1>2. /\ pc[t] = "reconciled" /\ gate = t /\ lock = NoOne /\ job[t] \in Commits
      /\ \A s \in Threads : pc[s] # "token"
      /\ ~orphaned => InFlight = {}
      BY AtCommitIsAlone, Zenon DEF CommitAgain
<1>3. gate' = NoOne /\ UNCHANGED <<up, slot, wpc, order, durable, unseen, seen, history, crashes>>
      BY Zenon DEF CommitAgain
<1>4. FeedKept /\ FeedInv' /\ InFlight' = InFlight /\ FeedHead' = FeedHead
  <2>1. FeedKept
        BY <1>3, Zenon DEF FeedKept, history
  <2>2. QED
        BY <2>1, <1>1, FeedKeptInv, Zenon
<1>5. CASE phase[job[t]] = "committing" /\ lock' = t /\ Go(t, "token") /\ UNCHANGED job
  <2>1. Moves(t, "token", job[t])
        BY <1>1, <1>3, <1>5, GoMoves, Zenon
  <2>2. TypeOK'
        BY <1>1, <1>3, <1>5 DEF TypeOK, Go, durable, history
  <2>3. PlacesInv'
        BY ZenonT(60), <1>1, <1>2, <1>3, <1>4, <1>5, <2>1, ThreadsAreApart DEF PlacesInv, Moves
  <2>4. JobsInv'
        BY <1>1, <1>2, <1>3, <1>5, <2>1 DEF JobsInv, Moves, durable
  <2>5. WorkGoesOn
        BY Zenon, <1>2, <1>3, <2>1 DEF WorkGoesOn, Moves
  <2>6. QED
        BY <1>3, <1>4, <2>2, <2>3, <2>4, <2>5, QuietStep, Zenon DEF history
<1>6. CASE phase[job[t]] = "committed" /\ Go(t, "finalize") /\ UNCHANGED <<lock, job>>
  <2>1. Moves(t, "finalize", job[t])
        BY <1>1, <1>3, <1>6, GoMoves, Zenon
  <2>2. TypeOK'
        BY Zenon, <1>1, <1>3, <1>6 DEF TypeOK, Go, durable, history
  <2>3. PlacesInv'
        BY ZenonT(60), <1>1, <1>2, <1>3, <1>4, <1>6, <2>1, ThreadsAreApart DEF PlacesInv, Moves
  <2>4. JobsInv'
        BY SMTT(60), <1>1, <1>2, <1>3, <1>6, <2>1 DEF JobsInv, Moves, durable
  <2>5. FlightInv'
    <3>1. CASE orphaned
          BY <3>1, <1>3, Zenon DEF FlightInv, history
    <3>2. CASE ~orphaned
          BY <3>2, <1>1, <1>2, <1>3, <1>4, FlightIsOver, Zenon DEF FlightInv
    <3>3. QED
          BY <3>1, <3>2, Zenon
  <2>6. QED
        BY <1>4, <2>2, <2>3, <2>4, <2>5, Zenon DEF OrderInv
<1>7. CASE Return(t) /\ UNCHANGED lock
  <2>1. Moves(t, "idle", None)
        BY <1>1, <1>7, ReturnMoves, Zenon
  <2>2. TypeOK'
        BY Zenon, <1>1, <1>3, <1>7 DEF TypeOK, Return, durable, history
  <2>3. PlacesInv'
        BY ZenonT(60), <1>1, <1>2, <1>3, <1>4, <1>7, <2>1, ThreadsAreApart DEF PlacesInv, Moves
  <2>4. JobsInv'
        BY SMTT(60), <1>1, <1>2, <1>3, <2>1 DEF JobsInv, Moves, durable
  <2>5. WorkGoesOn
        BY Zenon, <1>2, <1>3, <2>1 DEF WorkGoesOn, Moves
  <2>6. QED
        BY <1>3, <1>4, <2>2, <2>3, <2>4, <2>5, QuietStep, Zenon DEF history
<1>8. QED
      BY <1>5, <1>6, <1>7, Zenon DEF CommitAgain

\* A worker takes a commit over, or the token is dropped.
LEMMA StartSettlementKeeps ==
    ASSUME OrderInv, NEW t \in Threads, StartSettlement(t)
    PROVE  OrderInv'
<1>1. TypeOK /\ PlacesInv /\ JobsInv /\ FeedInv /\ FlightInv
      BY Zenon DEF OrderInv
<1>2. /\ pc[t] = "token"
      /\ UNCHANGED <<up, gate, order, durable, unseen, seen, delivered, told, crashes>>
      BY Zenon DEF StartSettlement
<1>3. /\ lock = t /\ up /\ job[t] \in Commits /\ phase[job[t]] = "committing"
      /\ job[t] # None
      BY <1>1, <1>2, EventsAreApart, Zenon DEF PlacesInv, JobsInv
<1>4. FeedInv' /\ InFlight' = InFlight /\ FeedHead' = FeedHead
      BY <1>1, <1>2, FeedKeptInv, Zenon DEF FeedKept
<1>5. CASE /\ slot = None /\ slot' = job[t] /\ wpc' = "atgate" /\ lock' = Worker
           /\ Go(t, "waiting") /\ UNCHANGED <<job, orphaned>>
  <2>1. Moves(t, "waiting", job[t])
        BY <1>1, <1>5, GoMoves, Zenon
  <2>2. TypeOK'
        BY <1>1, <1>2, <1>3, <1>5 DEF TypeOK, Go, durable
  <2>3. PlacesInv'
        BY ZenonT(60), <1>1, <1>2, <1>3, <1>4, <1>5, <2>1, ThreadsAreApart DEF PlacesInv, Moves
  <2>4. JobsInv'
        BY <1>1, <1>2, <1>3, <1>5, <2>1 DEF JobsInv, Moves, durable
  <2>5. FlightInv'
    <3>1. CASE orphaned
          BY <3>1, <1>5, Zenon DEF FlightInv
    <3>2. CASE ~orphaned
      <4>1. /\ \A c, d \in InFlight' : c = d
            /\ \A c \in InFlight' : mark'[c] = FeedHead' + 1
            /\ up' => order' = FeedHead'
            BY <3>2, <1>1, <1>2, <1>4, Zenon DEF FlightInv, durable
      <4>2. \A s \in Threads : pc[s] = "token" => s = t
            BY <1>1, <1>3, Zenon DEF PlacesInv
      <4>3. wpc = "none"
            BY <1>1, <1>5, Zenon DEF PlacesInv
      <4>4. \A c \in InFlight' : c = job[t]
            BY <3>2, <4>2, <4>3, <1>1, <1>3, <1>4 DEF FlightInv
      <4>5. \A s \in Threads : pc'[s] = "finalize" => pc[s] = "finalize" /\ job'[s] = job[s]
            BY Zenon, <2>1 DEF Moves
      <4>6. \A s \in Threads : pc'[s] = "finalize" => job'[s] \notin InFlight'
            BY <3>2, <4>5, <1>1, <1>4, Zenon DEF FlightInv
      <4>7. QED
            BY <4>1, <4>4, <4>6, <1>5, Zenon DEF FlightInv
    <3>3. QED
          BY <3>1, <3>2, Zenon
  <2>6. QED
        BY <1>4, <2>2, <2>3, <2>4, <2>5, Zenon DEF OrderInv
<1>6. CASE slot # None /\ lock' = NoOne /\ orphaned' = TRUE /\ Return(t) /\ UNCHANGED <<slot, wpc>>
  <2>1. Moves(t, "idle", None)
        BY <1>1, <1>6, ReturnMoves, Zenon
  <2>2. TypeOK'
        BY Zenon, <1>1, <1>2, <1>6 DEF TypeOK, Return, durable
  <2>3. PlacesInv'
        BY Zenon, <1>1, <1>2, <1>3, <1>4, <1>6, <2>1, ThreadsAreApart DEF PlacesInv, Moves
  <2>4. JobsInv'
        BY ZenonT(60), <1>1, <1>2, <1>6, <2>1 DEF JobsInv, Moves, durable
  <2>5. FlightInv'
        BY <1>6, Zenon DEF FlightInv
  <2>6. QED
        BY <1>4, <2>2, <2>3, <2>4, <2>5, Zenon DEF OrderInv
<1>7. QED
      BY <1>5, <1>6, Zenon DEF StartSettlement

\* The worker's deadline passes at the gate.
LEMMA WorkerGivesUpKeeps ==
    ASSUME OrderInv, WorkerGivesUp
    PROVE  OrderInv'
<1>1. TypeOK /\ PlacesInv /\ JobsInv /\ FeedInv /\ FlightInv
      BY Zenon DEF OrderInv
<1>2. /\ wpc = "atgate" /\ wpc' = "done" /\ orphaned' = TRUE
      /\ UNCHANGED <<up, gate, lock, slot, threadVars, order, durable, unseen, seen, delivered, told, crashes>>
      BY Zenon DEF WorkerGivesUp
<1>3. FeedInv' /\ InFlight' = InFlight /\ FeedHead' = FeedHead
      BY <1>1, <1>2, FeedKeptInv, Zenon DEF FeedKept
<1>4. TypeOK'
      BY Zenon, <1>1, <1>2 DEF TypeOK, threadVars, durable
<1>5. PlacesInv'
      BY Zenon, <1>1, <1>2, <1>3 DEF PlacesInv, threadVars
<1>6. JobsInv'
      BY Zenon, <1>1, <1>2 DEF JobsInv, threadVars, durable
<1>7. FlightInv'
      BY <1>2, Zenon DEF FlightInv
<1>8. QED
      BY <1>3, <1>4, <1>5, <1>6, <1>7, Zenon DEF OrderInv

\* The worker writes the files and frees the lock.
LEMMA WorkerSettleKeeps ==
    ASSUME OrderInv, WorkerSettle
    PROVE  OrderInv'
<1>1. TypeOK /\ PlacesInv /\ JobsInv /\ FeedInv /\ FlightInv
      BY Zenon DEF OrderInv
<1>2. /\ wpc = "settling" /\ phase' = [phase EXCEPT ![slot] = "committed"]
      /\ lock' = NoOne /\ wpc' = "settled"
      /\ UNCHANGED <<up, gate, slot, threadVars, order, mark, evacked, acked, events, unseen, seen,
                     history, crashes>>
      BY Zenon DEF WorkerSettle
<1>3. lock = Worker /\ gate = Worker /\ slot \in Commits /\ phase[slot] = "committing"
      BY Zenon, <1>1, <1>2 DEF TypeOK, PlacesInv, JobsInv
<1>4. phase'[slot] = "committed" /\ \A d \in Commits \ {slot} : phase'[d] = phase[d]
      BY Zenon, <1>1, <1>2, <1>3 DEF TypeOK
<1>5. FeedHead' = FeedHead
      BY Zenon, <1>2 DEF FeedHead
<1>6. FeedInv'
  <2>1. \A d \in Commits : phase[d] = "committed" => phase'[d] = "committed" /\ mark'[d] = mark[d]
        BY Zenon, <1>2, <1>3, <1>4
  <2>2. QED
        BY <2>1, <1>1, <1>2, KeptFeed, Zenon DEF history
<1>7. TypeOK'
      BY Zenon, <1>1, <1>2, <1>3 DEF TypeOK, threadVars, history
<1>8. PlacesInv'
      BY <1>1, <1>2, <1>3, <1>5, ThreadsAreApart DEF PlacesInv, threadVars
<1>9. JobsInv'
  <2>1. \A s \in Threads : pc[s] # "token"
        BY <1>1, <1>3, ThreadsAreApart, Zenon DEF PlacesInv
  <2>2. QED
        BY ZenonT(60), <2>1, <1>1, <1>2, <1>3, <1>4 DEF JobsInv, threadVars
<1>10. FlightInv'
  <2>1. InFlight' \subseteq InFlight
        BY Zenon, <1>2, <1>3, <1>4 DEF InFlight
  <2>2. WorkGoesOn
        BY Zenon, <1>2 DEF WorkGoesOn, threadVars
  <2>3. QED
        BY <2>1, <2>2, <1>1, <1>2, <1>5, FlightGoesOn, Zenon DEF history
<1>11. QED
      BY <1>6, <1>7, <1>8, <1>9, <1>10, Zenon DEF OrderInv

\* The worker cannot write the files: the journal is left to a human, and its number
\* is free again, or nobody is at work on it any more.
LEMMA WorkerFailsKeeps ==
    ASSUME OrderInv, WorkerFails
    PROVE  OrderInv'
<1>1. TypeOK /\ PlacesInv /\ JobsInv /\ FeedInv /\ FlightInv
      BY Zenon DEF OrderInv
<1>2. /\ wpc = "settling" /\ lock' = NoOne /\ gate' = NoOne /\ wpc' = "done"
      /\ UNCHANGED <<up, slot, threadVars, order, mark, evacked, acked, events, unseen, seen,
                     delivered, told, crashes>>
      BY Zenon DEF WorkerFails
<1>3. lock = Worker /\ gate = Worker /\ slot \in Commits /\ phase[slot] = "committing"
      BY Zenon, <1>1, <1>2 DEF TypeOK, PlacesInv, JobsInv
<1>4. /\ phase' \in [Commits -> {"prepared", "committing", "committed", "rejected", "manual"}]
      /\ orphaned' \in BOOLEAN
      /\ \A d \in Commits \ {slot} : phase'[d] = phase[d]
      /\ ~orphaned' => ~orphaned /\ phase'[slot] = "manual"
      BY Zenon, <1>1, <1>3 DEF TypeOK, WorkerFails
<1>5. FeedHead' = FeedHead
      BY Zenon, <1>2 DEF FeedHead
<1>6. FeedInv'
  <2>1. \A d \in Commits : phase[d] = "committed" => phase'[d] = "committed" /\ mark'[d] = mark[d]
        BY Zenon, <1>2, <1>3, <1>4
  <2>2. QED
        BY <2>1, <1>1, <1>2, KeptFeed, Zenon
<1>7. TypeOK'
      BY Zenon, <1>1, <1>2, <1>4 DEF TypeOK, threadVars
<1>8. \A s \in Threads : pc[s] # "token"
      BY <1>1, <1>3, ThreadsAreApart, Zenon DEF PlacesInv
<1>9. PlacesInv'
  <2>1. \A s \in Threads : /\ pc'[s] \notin {"ingate", "reconciled", "acking", "token"}
                           /\ gate' # s /\ lock' # s
        BY <1>1, <1>2, <1>3, <1>8, ThreadsAreApart, Zenon DEF PlacesInv, threadVars
  <2>2. gate' # Worker /\ slot' # None /\ up'
        BY <1>1, <1>2, ThreadsAreApart, Zenon DEF PlacesInv
  <2>3. QED
        BY <2>1, <2>2, <1>2, Zenon DEF PlacesInv
<1>10. JobsInv'
      BY ZenonT(60), <1>1, <1>2, <1>3, <1>4, <1>8 DEF JobsInv, threadVars
<1>11. FlightInv'
  <2>1. CASE orphaned'
        BY <2>1, Zenon DEF FlightInv
  <2>2. CASE ~orphaned'
    <3>1. \A c \in InFlight : c = slot
          BY <2>2, <1>1, <1>2, <1>4, <1>8, Zenon DEF PlacesInv, FlightInv
    <3>2. InFlight' = {}
          BY <2>2, <3>1, <1>2, <1>4, Zenon DEF InFlight
    <3>3. up' => order' = FeedHead'
          BY <2>2, <1>1, <1>2, <1>4, <1>5, Zenon DEF FlightInv
    <3>4. QED
          BY <3>2, <3>3, FlightIsOver, Zenon
  <2>3. QED
        BY <2>1, <2>2, Zenon
<1>12. QED
      BY <1>6, <1>7, <1>9, <1>10, <1>11, Zenon DEF OrderInv

\* A commit that is in flight no more has had its number in the feed: to finish it
\* again changes neither the order nor the feed.
LEMMA FinishAgain ==
    ASSUME TypeOK, FeedInv, NEW c \in Commits, phase[c] = "committed", c \notin InFlight,
           order = FeedHead, Finish(c)
    PROVE  UNCHANGED <<order, events>>
<1>1. /\ acked \in Nat /\ order \in Nat /\ mark[c] \in Nat /\ events \in Seq(Events)
      /\ Len(events) \in Nat /\ DOMAIN events = 1..Len(events)
      BY Zenon, SeqIsNumbered DEF TypeOK
<1>2. c \in evacked \/ c \in Range(events)
      BY Zenon DEF InFlight
<1>3. mark[c] <= FeedHead
  <2>1. CASE c \in evacked
        BY <2>1, Zenon DEF FeedInv
  <2>2. CASE c \in Range(events)
    <3>1. PICK i \in DOMAIN events : events[i] = c
          BY Zenon, <2>2 DEF Range
    <3>2. mark[c] = acked + i
          BY <3>1, Zenon DEF FeedInv
    <3>3. QED
          BY <3>1, <3>2, <1>1 DEF FeedHead
  <2>3. QED
        BY Zenon, <1>2, <2>1, <2>2
<1>4. mark[c] # order + 1 /\ mark[c] # FeedHead + 1
      BY <1>1, <1>3
<1>5. order' = order
      BY <1>4, Zenon DEF Finish
<1>6. events' = events
      BY <1>4, Zenon DEF Finish, Appendable, AppendKnown
<1>7. QED
      BY Zenon, <1>5, <1>6

\* The worker publishes what it settled, and the callers that wait return.
LEMMA WorkerFinishKeeps ==
    ASSUME OrderInv, WorkerFinish
    PROVE  OrderInv'
<1>1. TypeOK /\ PlacesInv /\ JobsInv /\ FeedInv /\ FlightInv
      BY Zenon DEF OrderInv
<1>2. /\ wpc = "settled" /\ Finish(slot) /\ gate' = NoOne /\ wpc' = "done"
      /\ pc' = [t \in Threads |-> IF pc[t] = "waiting" THEN "idle" ELSE pc[t]]
      /\ job' = [t \in Threads |-> IF pc[t] = "waiting" THEN None ELSE job[t]]
      /\ UNCHANGED <<up, lock, slot, phase, mark, evacked, acked, unseen, seen, delivered, orphaned, crashes>>
      BY Zenon DEF WorkerFinish
<1>3. gate = Worker /\ up /\ slot \in Commits /\ phase[slot] = "committed"
      BY Zenon, <1>1, <1>2 DEF TypeOK, PlacesInv, JobsInv
<1>4. /\ FeedInv' /\ order' \in Nat /\ events' \in Seq(Events) /\ told' \subseteq Commits
      /\ \/ UNCHANGED events
         \/ GrowsBy(<<slot>>) /\ mark[slot] = FeedHead + 1
      BY <1>1, <1>2, <1>3, FinishedFeed, Zenon
<1>5. ASSUME NEW t \in Threads
      PROVE  /\ \/ pc'[t] = pc[t] /\ job'[t] = job[t]
                \/ pc[t] = "waiting" /\ pc'[t] = "idle"
             /\ pc[t] # "reconciled"
      BY Zenon, <1>1, <1>2, <1>3, ThreadsAreApart DEF PlacesInv
<1>6. TypeOK'
      BY Zenon, <1>1, <1>2, <1>4 DEF TypeOK
<1>7. PlacesInv'
      BY Zenon, <1>1, <1>2, <1>3, <1>5, ThreadsAreApart DEF PlacesInv
<1>8. JobsInv'
      BY Zenon, <1>1, <1>2, <1>5 DEF JobsInv
<1>9. FlightInv'
  <2>1. CASE orphaned
        BY <2>1, <1>2, Zenon DEF FlightInv
  <2>2. CASE ~orphaned /\ slot \in InFlight
    <3>1. /\ mark[slot] = FeedHead + 1 /\ order = FeedHead /\ slot \notin Range(events)
          /\ \A c \in InFlight : c = slot
          BY <2>2, <1>1, <1>3, Zenon DEF FlightInv, InFlight
    <3>2. events' = Append(events, slot) /\ order' = FeedHead + 1
          BY <3>1, <1>2, Zenon DEF Finish, Appendable, AppendKnown
    <3>3. /\ <<slot>> \in Seq(Events) /\ Len(<<slot>>) = 1 /\ <<slot>>[1] = slot
          /\ events' = events \o <<slot>>
      <4>1. events \in Seq(Events) /\ slot \in Events
            BY <1>1, <1>3, Zenon DEF TypeOK, Events
      <4>2. QED
            BY ZenonT(60), <4>1, <3>2, AppendIsJoin, Zenon
    <3>4. GrowsBy(<<slot>>)
          BY <3>3, <1>1, <1>2, FeedGrows, Zenon
    <3>5. order' = FeedHead'
          BY Zenon, <3>2, <3>3, <3>4 DEF GrowsBy
    <3>6. slot \in Range(<<slot>>)
          BY OneInRange, Zenon
    <3>7. InFlight' = {}
          BY <3>1, <3>4, <3>6, <1>2, Zenon DEF InFlight, GrowsBy
    <3>8. QED
          BY <3>5, <3>7, FlightIsOver, Zenon
  <2>3. CASE ~orphaned /\ slot \notin InFlight
    <3>1. order = FeedHead
          BY <2>3, <1>1, <1>3, Zenon DEF FlightInv
    <3>2. UNCHANGED <<order, events>>
          BY <2>3, <3>1, <1>1, <1>2, <1>3, FinishAgain, Zenon
    <3>3. InFlight' = InFlight /\ FeedHead' = FeedHead
          BY <3>2, <1>2, FlightSame, Zenon
    <3>4. \A t \in Threads : pc[t] = "token" => pc'[t] = "token" /\ job'[t] = job[t]
          BY Zenon, <1>5
    <3>5. \A t \in Threads : pc'[t] = "finalize" => pc[t] = "finalize" /\ job'[t] = job[t]
          BY Zenon, <1>5
    <3>6. QED
          BY <2>3, <3>1, <3>2, <3>3, <3>4, <3>5, <1>1, <1>2, Zenon DEF FlightInv
  <2>4. QED
        BY <2>1, <2>2, <2>3, Zenon
<1>10. QED
      BY <1>4, <1>6, <1>7, <1>8, <1>9, Zenon DEF OrderInv

\* A commit that had settled before is published, if it was not.
LEMMA FinalizeKeeps ==
    ASSUME OrderInv, NEW t \in Threads, Finalize(t)
    PROVE  OrderInv'
<1>1. TypeOK /\ PlacesInv /\ JobsInv /\ FeedInv /\ FlightInv
      BY Zenon DEF OrderInv
<1>2. /\ pc[t] = "finalize" /\ gate = NoOne /\ Finish(job[t]) /\ Moves(t, "idle", None) /\ Return(t)
      /\ UNCHANGED <<up, gate, lock, slot, wpc, phase, mark, evacked, acked, unseen, seen, delivered,
                     orphaned, crashes>>
      BY <1>1, ReturnMoves, Zenon DEF Finalize
<1>3. job[t] \in Commits /\ phase[job[t]] = "committed" /\ up
      BY <1>1, <1>2, Zenon DEF JobsInv, PlacesInv
<1>4. FeedInv' /\ order' \in Nat /\ events' \in Seq(Events) /\ told' \subseteq Commits
      BY <1>1, <1>2, <1>3, FinishedFeed, Zenon
<1>5. \A s \in Threads : pc[s] # "reconciled"
      BY <1>1, <1>2, ThreadsAreApart, Zenon DEF PlacesInv
<1>6. TypeOK'
      BY Zenon, <1>1, <1>2, <1>4 DEF TypeOK, Return
<1>7. PlacesInv'
      BY Zenon, <1>1, <1>2, <1>5, ThreadsAreApart DEF PlacesInv, Moves
<1>8. JobsInv'
      BY Zenon, <1>1, <1>2 DEF JobsInv, Moves
<1>9. FlightInv'
  <2>1. CASE orphaned
        BY <2>1, <1>2, Zenon DEF FlightInv
  <2>2. CASE ~orphaned
    <3>1. order = FeedHead /\ job[t] \notin InFlight
          BY <2>2, <1>1, <1>2, <1>3, Zenon DEF FlightInv
    <3>2. UNCHANGED <<order, events>>
          BY <3>1, <1>1, <1>2, <1>3, FinishAgain, Zenon
    <3>3. InFlight' = InFlight /\ FeedHead' = FeedHead
          BY <3>2, <1>2, FlightSame, Zenon
    <3>4. WorkGoesOn
          BY Zenon, <1>2 DEF WorkGoesOn, Moves
    <3>5. QED
          BY <3>2, <3>3, <3>4, <1>1, <1>2, FlightGoesOn, Zenon
  <2>3. QED
        BY <2>1, <2>2, Zenon
<1>10. QED
      BY <1>4, <1>6, <1>7, <1>8, <1>9, Zenon DEF OrderInv

\* An observation becomes an event.
LEMMA AppendExternalKeeps ==
    ASSUME OrderInv, NEW t \in Threads, AppendExternal(t)
    PROVE  OrderInv'
<1> DEFINE o == job[t]
<1>1. TypeOK /\ PlacesInv /\ JobsInv /\ FeedInv /\ FlightInv
      BY Zenon DEF OrderInv
<1>2. /\ pc[t] = "reconciled" /\ o \in Observations /\ events' = Append(events, o)
      /\ order' = order + 1 /\ gate' = NoOne /\ Moves(t, "idle", None) /\ Return(t)
      /\ UNCHANGED <<up, lock, slot, wpc, phase, mark, evacked, acked, unseen, seen, history, crashes>>
      BY <1>1, ReturnMoves, Zenon DEF AppendExternal
<1> HIDE DEF o
<1>3. gate = t /\ lock = NoOne /\ order = FeedHead
      BY <1>1, <1>2, Zenon DEF PlacesInv
<1>4. /\ <<o>> \in Seq(Events) /\ Len(<<o>>) = 1 /\ <<o>>[1] = o /\ events' = events \o <<o>>
  <2>1. events \in Seq(Events) /\ o \in Events
        BY <1>1, <1>2, Zenon DEF TypeOK, Events
  <2>2. QED
        BY ZenonT(60), <2>1, <1>2, AppendIsJoin, Zenon
<1>5. GrowsBy(<<o>>)
      BY <1>1, <1>2, <1>4, FeedGrows, Zenon
<1>6. Fits(<<o>>)
  <2>1. \A i \in 1..Len(<<o>>) : <<o>>[i] = o
        BY <1>4
  <2>2. QED
        BY <2>1, <1>2, EventsAreApart, Zenon DEF Fits
<1>7. FeedInv'
      BY <1>1, <1>2, <1>4, <1>5, <1>6, GrownFeed, Zenon DEF history
<1>8. order' = FeedHead' /\ events' \in Seq(Events)
      BY Zenon, <1>2, <1>3, <1>4, <1>5 DEF GrowsBy
<1>9. TypeOK'
      BY <1>1, <1>2, <1>8 DEF TypeOK, Return, history
<1>10. PlacesInv'
  <2>1. \A s \in Threads : pc'[s] # "reconciled"
        BY <1>1, <1>2, <1>3, Zenon DEF PlacesInv, Moves
  <2>2. QED
        BY Zenon, <2>1, <1>1, <1>2, <1>3, ThreadsAreApart DEF PlacesInv, Moves
<1>11. JobsInv'
      BY Zenon, <1>1, <1>2 DEF JobsInv, Moves
<1>12. FlightInv'
  <2>1. CASE orphaned
        BY <2>1, <1>2, Zenon DEF FlightInv, history
  <2>2. CASE ~orphaned
    <3>1. InFlight = {}
          BY <2>2, <1>1, <1>3, NothingInFlight, Zenon
    <3>2. InFlight' = {}
          BY <3>1, <1>2, <1>5, Zenon DEF InFlight, GrowsBy
    <3>3. QED
          BY <3>2, <1>8, FlightIsOver, Zenon
  <2>3. QED
        BY <2>1, <2>2, Zenon
<1>13. QED
      BY <1>7, <1>9, <1>10, <1>11, <1>12, Zenon DEF OrderInv

\* The host reads to the end of the feed.
LEMMA ReadKeeps ==
    ASSUME OrderInv, Read
    PROVE  OrderInv'
<1>1. TypeOK /\ PlacesInv /\ JobsInv /\ FeedInv /\ FlightInv
      BY Zenon DEF OrderInv
<1>2. /\ gate = NoOne /\ seen' = FeedHead /\ delivered' = delivered \cup Range(events)
      /\ UNCHANGED <<up, gate, lock, slot, wpc, threadVars, order, durable, unseen, told, orphaned, crashes>>
      BY Zenon DEF Read
<1>3. UNCHANGED <<pc, job, phase, mark, evacked, acked, events>>
      BY Zenon, <1>2 DEF threadVars, durable
<1>4. InFlight' = InFlight /\ FeedHead' = FeedHead
      BY <1>3, FlightSame, Zenon
<1>5. /\ acked \in Nat /\ events \in Seq(Events) /\ Len(events) \in Nat
      /\ DOMAIN events = 1..Len(events) /\ FeedHead = acked + Len(events)
      BY Zenon, <1>1, SeqIsNumbered DEF TypeOK, FeedHead
<1>6. Range(events) \subseteq Events
      BY SMTT(60), <1>5, SeqIsNumbered DEF Range
<1>7. TypeOK'
      BY SMTT(60), <1>1, <1>2, <1>3, <1>5, <1>6 DEF TypeOK
<1>8. PlacesInv'
      BY <1>1, <1>2, <1>3, <1>4, Zenon DEF PlacesInv
<1>9. JobsInv'
  <2>1. \A t \in Threads : pc[t] # "acking"
        BY <1>1, <1>2, ThreadsAreApart, Zenon DEF PlacesInv
  <2>2. QED
        BY <2>1, <1>1, <1>2, <1>3, Zenon DEF JobsInv
<1>10. FeedInv'
  <2>1. \A i \in 1..(seen' - acked') : events'[i] \in delivered'
    <3> SUFFICES ASSUME NEW i \in 1..Len(events) PROVE events[i] \in Range(events)
        BY <1>2, <1>3, <1>5
    <3>1. QED
        BY Zenon, <1>5 DEF Range
  <2>2. acked' <= seen' /\ seen' <= FeedHead'
        BY <1>2, <1>3, <1>4, <1>5
  <2>3. told' \subseteq Range(events') \cup delivered'
        BY <1>1, <1>2, <1>3, Zenon DEF FeedInv
  <2>4. QED
        BY <2>1, <2>2, <2>3, <1>1, <1>3, <1>4, Zenon DEF FeedInv
<1>11. WorkGoesOn
      BY Zenon, <1>2, <1>3 DEF WorkGoesOn
<1>12. FlightInv'
      BY <1>1, <1>2, <1>3, <1>4, <1>11, FlightGoesOn, Zenon
<1>13. QED
      BY <1>7, <1>8, <1>9, <1>10, <1>12, Zenon DEF OrderInv

\* An acknowledged journal is marked: its event is in the feed.
LEMMA AckJournalKeeps ==
    ASSUME OrderInv, NEW t \in Threads, AckJournal(t)
    PROVE  OrderInv'
<1>1. TypeOK /\ PlacesInv /\ JobsInv /\ FeedInv /\ FlightInv
      BY Zenon DEF OrderInv
<1>2. /\ pc[t] = "acking"
      /\ UNCHANGED <<up, gate, lock, slot, wpc, threadVars, order, phase, mark, acked, events, unseen,
                     seen, history, crashes>>
      BY Zenon DEF AckJournal
<1>3. PICK c \in Commits : /\ \E i \in 1..(job[t] - acked) : events[i] = c
                           /\ evacked' = evacked \cup {c}
      BY Zenon DEF AckJournal, ToMark
<1>4. FeedHead' = FeedHead
      BY Zenon, <1>2 DEF FeedHead
<1>5. /\ acked \in Nat /\ events \in Seq(Events) /\ Len(events) \in Nat /\ seen \in Nat
      /\ DOMAIN events = 1..Len(events) /\ FeedHead = acked + Len(events)
      BY Zenon, <1>1, SeqIsNumbered DEF TypeOK, FeedHead
<1>6. PICK i \in 1..(job[t] - acked) : events[i] = c
      BY Zenon, <1>3
<1>7. i \in 1..Len(events)
  <2>1. job[t] \in (acked + 1)..seen /\ seen <= FeedHead
        BY <1>1, <1>2, Zenon DEF JobsInv, FeedInv
  <2>2. QED
        BY SMTT(60), <2>1, <1>5
<1>8. phase[c] = "committed" /\ mark[c] = acked + i /\ c \in Range(events)
      BY Zenon, <1>1, <1>5, <1>6, <1>7 DEF FeedInv, Range
<1>9. mark[c] <= FeedHead
      BY <1>5, <1>7, <1>8
<1>10. TypeOK'
      BY ZenonT(60), <1>1, <1>2, <1>3 DEF TypeOK, threadVars, history
<1>11. PlacesInv'
      BY Zenon, <1>1, <1>2, <1>4 DEF PlacesInv, threadVars
<1>12. JobsInv'
      BY Zenon, <1>1, <1>2 DEF JobsInv, threadVars
<1>13. FeedInv'
  <2>1. \A d \in evacked' : phase'[d] = "committed" /\ mark'[d] <= FeedHead'
        BY <1>1, <1>2, <1>3, <1>4, <1>8, <1>9, Zenon DEF FeedInv
  <2>2. QED
        BY <2>1, <1>1, <1>2, <1>4, Zenon DEF FeedInv, history
<1>14. FlightInv'
  <2>1. InFlight' \subseteq InFlight
        BY <1>2, <1>3, Zenon DEF InFlight
  <2>2. WorkGoesOn
        BY Zenon, <1>2 DEF WorkGoesOn, threadVars
  <2>3. QED
        BY <2>1, <2>2, <1>1, <1>2, <1>4, FlightGoesOn, Zenon DEF history
<1>15. QED
      BY <1>10, <1>11, <1>12, <1>13, <1>14, Zenon DEF OrderInv

\* The feed forgets acknowledged events, whose journals are all marked.
LEMMA AckFeedKeeps ==
    ASSUME OrderInv, NEW t \in Threads, AckFeed(t)
    PROVE  OrderInv'
<1> DEFINE n == job[t] - acked
<1>1. TypeOK /\ PlacesInv /\ JobsInv /\ FeedInv /\ FlightInv
      BY Zenon DEF OrderInv
<1>2. /\ pc[t] = "acking" /\ ToMark(t) = {} /\ acked' = job[t]
      /\ events' = SubSeq(events, n + 1, Len(events))
      /\ gate' = NoOne /\ Moves(t, "idle", None) /\ Return(t)
      /\ UNCHANGED <<up, lock, slot, wpc, order, phase, mark, evacked, unseen, seen, history, crashes>>
      BY <1>1, ReturnMoves, Zenon DEF AckFeed
<1>3. /\ acked \in Nat /\ events \in Seq(Events) /\ Len(events) \in Nat /\ seen \in Nat
      /\ DOMAIN events = 1..Len(events) /\ FeedHead = acked + Len(events)
      BY Zenon, <1>1, SeqIsNumbered DEF TypeOK, FeedHead
<1>4. job[t] \in (acked + 1)..seen /\ acked <= seen /\ seen <= FeedHead /\ gate = t
      BY <1>1, <1>2, Zenon DEF JobsInv, FeedInv, PlacesInv
<1>5. n \in 0..Len(events) /\ acked' = acked + n /\ acked' \in Nat /\ n <= seen - acked
  <2>1. acked' = job[t]
        BY <1>2, Zenon
  <2>2. QED
        BY SMTT(60), <2>1, <1>3, <1>4
<1>6. \A c \in Commits \ evacked : \A i \in 1..n : events[i] # c
  <2> SUFFICES ASSUME NEW c \in Commits \ evacked, NEW i \in 1..n, events[i] = c PROVE FALSE
      BY Zenon
  <2>1. c \in ToMark(t)
        BY Zenon DEF ToMark
  <2>2. QED
        BY <2>1, <1>2, Zenon
<1> HIDE DEF n
<1>7. /\ events' \in Seq(Events) /\ Len(events') = Len(events) - n
      /\ \A i \in 1..(Len(events) - n) : events'[i] = events[n + i]
      BY ZenonT(60), <1>2, <1>3, <1>5, Shortened, Zenon
<1>8. DOMAIN events' = 1..(Len(events) - n)
      BY Zenon, <1>7, SeqIsNumbered
<1>9. FeedHead' = FeedHead
      BY <1>3, <1>5, <1>7 DEF FeedHead
<1>10. TypeOK'
      BY Zenon, <1>1, <1>2, <1>5, <1>7 DEF TypeOK, Return, history
<1>11. PlacesInv'
      BY ZenonT(60), <1>1, <1>2, <1>4, <1>9, ThreadsAreApart DEF PlacesInv, Moves
<1>12. JobsInv'
  <2>1. \A s \in Threads : pc'[s] # "acking"
        BY <1>1, <1>2, <1>4, Zenon DEF PlacesInv, Moves
  <2>2. QED
        BY <2>1, <1>1, <1>2 DEF JobsInv, Moves
<1>13. \A i \in 1..n : events[i] \in delivered
      BY SMTT(60), <1>1, <1>3, <1>4, <1>5 DEF FeedInv
<1>14. \A i \in 1..Len(events) : i \in 1..n \/ events[i] \in Range(events')
  <2> SUFFICES ASSUME NEW i \in 1..Len(events), i \notin 1..n PROVE events[i] \in Range(events')
      BY Zenon
  <2>1. i - n \in 1..(Len(events) - n) /\ n + (i - n) = i
        BY <1>3, <1>5
  <2>2. events'[i - n] = events[i]
        BY Zenon, <2>1, <1>7
  <2>3. QED
        BY Zenon, <2>1, <2>2, <1>8 DEF Range
<1>15. FeedInv'
  <2>1. ASSUME NEW i \in DOMAIN events', events'[i] \in Commits
        PROVE  phase'[events'[i]] = "committed" /\ mark'[events'[i]] = acked' + i
    <3>1. n + i \in 1..Len(events) /\ events'[i] = events[n + i]
          BY SMTT(60), <2>1, <1>3, <1>5, <1>7, <1>8
    <3>2. phase[events[n + i]] = "committed" /\ mark[events[n + i]] = acked + (n + i)
          BY <3>1, <2>1, <1>1, <1>3, Zenon DEF FeedInv
    <3>3. acked + (n + i) = acked' + i
          BY <1>3, <1>5, <1>8
    <3>4. QED
          BY <3>1, <3>2, <3>3, <1>2, Zenon
  <2>2. \A c \in evacked' : phase'[c] = "committed" /\ mark'[c] <= FeedHead'
        BY <1>1, <1>2, <1>9, Zenon DEF FeedInv
  <2>3. acked' <= seen' /\ seen' <= FeedHead'
        BY <1>2, <1>4, <1>9
  <2>4. ASSUME NEW i \in 1..(seen' - acked') PROVE events'[i] \in delivered'
    <3>1. n + i \in 1..(seen - acked) /\ i \in 1..(Len(events) - n)
          BY <1>2, <1>3, <1>4, <1>5
    <3>2. events[n + i] \in delivered /\ events'[i] = events[n + i]
          BY <3>1, <1>1, <1>7, Zenon DEF FeedInv
    <3>3. QED
          BY Zenon, <3>2, <1>2 DEF history
  <2>5. told' \subseteq Range(events') \cup delivered'
    <3>1. Range(events) \subseteq Range(events') \cup delivered
          BY <1>3, <1>13, <1>14, Zenon DEF Range
    <3>2. QED
          BY <3>1, <1>1, <1>2, Zenon DEF FeedInv, history
  <2>6. QED
        BY <2>1, <2>2, <2>3, <2>4, <2>5, Zenon DEF FeedInv
<1>16. FlightInv'
  <2>1. ASSUME NEW c \in InFlight' PROVE c \in InFlight
    <3>1. c \in Commits \ evacked /\ phase[c] \in {"committing", "committed"} /\ c \notin Range(events')
          BY <1>2, Zenon DEF InFlight
    <3>2. c \notin Range(events)
          BY <3>1, <1>3, <1>6, <1>14, Zenon DEF Range
    <3>3. QED
          BY <3>1, <3>2, Zenon DEF InFlight
  <2>2. WorkGoesOn
        BY Zenon, <1>2 DEF WorkGoesOn, Moves
  <2>3. QED
        BY <2>1, <2>2, <1>1, <1>2, <1>9, FlightGoesOn, Zenon DEF history
<1>17. QED
      BY <1>10, <1>11, <1>12, <1>15, <1>16, Zenon DEF OrderInv

-----------------------------------------------------------------------------
(* The process stops, and is opened again.                                 *)

\* The process stops: what is in flight stays in its journal.
LEMMA CrashKeeps ==
    ASSUME OrderInv, Crash
    PROVE  OrderInv'
<1>1. TypeOK /\ PlacesInv /\ JobsInv /\ FeedInv /\ FlightInv
      BY Zenon DEF OrderInv
<1>2. /\ up' = FALSE /\ gate' = NoOne /\ lock' = NoOne /\ slot' = None /\ wpc' = "none"
      /\ pc' = [t \in Threads |-> "idle"] /\ job' = [t \in Threads |-> None]
      /\ UNCHANGED <<order, durable, unseen, seen, history>>
      BY Zenon DEF Crash
<1>3. FeedInv' /\ InFlight' = InFlight /\ FeedHead' = FeedHead
      BY <1>1, <1>2, FeedKeptInv, Zenon DEF FeedKept, history
<1>4. \A t \in Threads : pc'[t] = "idle"
      BY Zenon, <1>2
<1>5. crashes' \in 0..MaxCrashes
      BY <1>1, BoundsAreGiven DEF TypeOK, Crash
<1>6. TypeOK'
      BY Zenon, <1>1, <1>2, <1>5 DEF TypeOK, durable, history
<1>7. PlacesInv'
      BY Zenon, <1>2, <1>4, ThreadsAreApart DEF PlacesInv
<1>8. JobsInv'
      BY Zenon, <1>2, <1>4 DEF JobsInv
<1>9. mark' = mark /\ orphaned' = orphaned
      BY Zenon, <1>2 DEF durable, history
<1>10. FlightInv'
      BY Zenon, <1>1, <1>2, <1>3, <1>4, <1>9 DEF FlightInv
<1>11. QED
      BY <1>3, <1>6, <1>7, <1>8, <1>10, Zenon DEF OrderInv

\* A journal past its commit point is settled, or left to a human.
LEMMA RecoverKeeps ==
    ASSUME OrderInv, Recover
    PROVE  OrderInv'
<1>1. TypeOK /\ PlacesInv /\ JobsInv /\ FeedInv /\ FlightInv
      BY Zenon DEF OrderInv
<1>2. PICK c \in Commits, g \in {"committed", "manual"} :
      /\ ~up
      /\ phase[c] = "committing" /\ phase' = [phase EXCEPT ![c] = g]
      /\ UNCHANGED <<up, gate, lock, slot, wpc, threadVars, order, mark, evacked, acked, events, unseen,
                     seen, history, crashes>>
      BY Zenon DEF Recover
<1>3. phase'[c] = g /\ \A d \in Commits \ {c} : phase'[d] = phase[d]
      BY Zenon, <1>1, <1>2 DEF TypeOK
<1>4. FeedHead' = FeedHead
      BY Zenon, <1>2 DEF FeedHead
<1>5. wpc = "none" /\ \A t \in Threads : pc[t] = "idle"
      BY <1>1, <1>2, Zenon DEF PlacesInv
<1>6. TypeOK'
      BY ZenonT(60), <1>1, <1>2 DEF TypeOK, threadVars, history
<1>7. PlacesInv'
      BY Zenon, <1>1, <1>2, <1>4 DEF PlacesInv, threadVars
<1>8. JobsInv'
      BY Zenon, <1>2, <1>5 DEF JobsInv, threadVars
<1>9. FeedInv'
  <2>1. \A d \in Commits : phase[d] = "committed" => phase'[d] = "committed" /\ mark'[d] = mark[d]
        BY Zenon, <1>2, <1>3
  <2>2. QED
        BY <2>1, <1>1, <1>2, KeptFeed, Zenon DEF history
<1>10. FlightInv'
  <2>1. InFlight' \subseteq InFlight
        BY Zenon, <1>2, <1>3 DEF InFlight
  <2>2. WorkGoesOn
        BY Zenon, <1>2, <1>5 DEF WorkGoesOn, threadVars
  <2>3. QED
        BY <2>1, <2>2, <1>1, <1>2, <1>4, FlightGoesOn, Zenon DEF history
<1>11. QED
      BY <1>6, <1>7, <1>8, <1>9, <1>10, Zenon DEF OrderInv

\* The runtime is opened, with a reconciled feed: nothing is in flight.
LEMMA ReopenKeeps ==
    ASSUME OrderInv, Reopen
    PROVE  OrderInv'
<1>1. TypeOK /\ PlacesInv /\ JobsInv /\ FeedInv /\ FlightInv
      BY Zenon DEF OrderInv
<1>2. /\ ~up /\ up' = TRUE /\ (\A c \in Commits : phase[c] \notin {"committing", "manual"}) /\ CanReconcile
      /\ events' = Reconciled /\ order' = acked + Len(Reconciled)
      /\ UNCHANGED <<gate, lock, slot, wpc, threadVars, phase, mark, evacked, acked, unseen, seen, history,
                     crashes>>
      BY Zenon DEF Reopen
<1>3. PICK s \in Seq(Events) : GrowsBy(s) /\ Fits(s) /\ Missing \subseteq Range(s)
      BY <1>1, <1>2, ReconciledFits, Zenon
<1>4. FeedInv'
      BY <1>1, <1>2, <1>3, GrownFeed, Zenon DEF history
<1>5. order' = FeedHead' /\ events' \in Seq(Events) /\ FeedHead' \in Nat
  <2>1. order' = FeedHead' /\ events' \in Seq(Events)
        BY <1>2, <1>3, Zenon DEF GrowsBy, FeedHead
  <2>2. QED
        BY <2>1, <1>1, <1>2, SeqIsNumbered DEF FeedHead, TypeOK
<1>6. wpc = "none" /\ \A t \in Threads : pc[t] = "idle"
      BY <1>1, <1>2, Zenon DEF PlacesInv
<1>7. TypeOK'
      BY Zenon, <1>1, <1>2, <1>5 DEF TypeOK, threadVars, history
<1>8. PlacesInv'
      BY Zenon, <1>1, <1>2, <1>6 DEF PlacesInv, threadVars
<1>9. JobsInv'
      BY Zenon, <1>2, <1>6 DEF JobsInv, threadVars
<1>10. InFlight' = {}
      BY <1>2, <1>3, Zenon DEF InFlight, Missing, GrowsBy
<1>11. FlightInv'
      BY <1>5, <1>10, FlightIsOver, Zenon
<1>12. QED
      BY <1>4, <1>7, <1>8, <1>9, <1>11, Zenon DEF OrderInv

-----------------------------------------------------------------------------
(* Theorems.                                                               *)

\* A runtime begins with an empty feed and nothing in flight.
LEMMA OrderInit == Init => OrderInv
<1> SUFFICES ASSUME Init PROVE OrderInv
    BY Zenon
<1>1. /\ events = << >> /\ Len(events) = 0 /\ DOMAIN events = {} /\ Range(events) = {} /\ acked = 0
      /\ \A t \in Threads : pc[t] = "idle"
  <2>1. events = << >> /\ acked = 0 /\ \A t \in Threads : pc[t] = "idle"
        BY Zenon DEF Init
  <2>2. Len(<< >>) = 0 /\ DOMAIN << >> = {}
        OBVIOUS
  <2>3. Range(<< >>) = {}
        BY <2>2, Zenon DEF Range
  <2>4. QED
        BY <2>1, <2>2, <2>3, Zenon
<1>2. FeedHead = 0
      BY <1>1 DEF FeedHead
<1>3. TypeOK
  <2>1. << >> \in Seq(Events) /\ 0 \in Nat /\ 0 \in 0..MaxCrashes
        BY BoundsAreGiven
  <2>2. QED
        BY <2>1, Zenon DEF Init, TypeOK
<1>4. PlacesInv
      BY Zenon, <1>1, ThreadsAreApart DEF Init, PlacesInv
<1>5. JobsInv
      BY Zenon, <1>1 DEF Init, JobsInv
<1>6. FeedInv
      BY <1>1, <1>2 DEF Init, FeedInv
<1>7. InFlight = {}
      BY Zenon DEF Init, InFlight
<1>8. FlightInv
      BY Zenon, <1>2, <1>7 DEF Init, FlightInv
<1>9. QED
      BY <1>3, <1>4, <1>5, <1>6, <1>8, Zenon DEF OrderInv

\* Every step keeps the invariant.
LEMMA OrderStep == OrderInv /\ [Next]_vars => OrderInv'
<1> SUFFICES ASSUME OrderInv, [Next]_vars PROVE OrderInv'
    BY Zenon
<1>1. ASSUME NEW t \in Threads, Begin(t) PROVE OrderInv'
  <2>1. CASE \E c \in Commits : BeginCommit(t, c)
        BY <2>1, BeginCommitKeeps, Zenon
  <2>2. CASE \E o \in Observations : BeginIngest(t, o)
        BY <2>2, BeginIngestKeeps, Zenon
  <2>3. CASE \E through \in 1..FeedHead : BeginAck(t, through)
    <3>1. PICK through \in 1..FeedHead : BeginAck(t, through)
          BY Zenon, <2>3
    <3>2. through \in Nat
          OBVIOUS
    <3>3. QED
          BY <3>1, <3>2, BeginAckKeeps, Zenon
  <2>4. QED
        BY <1>1, <2>1, <2>2, <2>3, Zenon DEF Begin
<1>2. ASSUME NEW t \in Threads, Step(t) PROVE OrderInv'
  <2>1. CASE WaitForSettlement(t) \/ EnterGate(t) \/ Reconcile(t) \/ GiveUp(t)
        BY <2>1, WaitForSettlementKeeps, EnterGateKeeps, ReconcileKeeps, GiveUpKeeps, Zenon
  <2>2. CASE CommitPoint(t) \/ Rejected(t) \/ CommitAgain(t) \/ StartSettlement(t)
        BY <2>2, CommitPointKeeps, RejectedKeeps, CommitAgainKeeps, StartSettlementKeeps, Zenon
  <2>3. CASE Finalize(t) \/ AppendExternal(t) \/ AckJournal(t) \/ AckFeed(t)
        BY <2>3, FinalizeKeeps, AppendExternalKeeps, AckJournalKeeps, AckFeedKeeps, Zenon
  <2>4. QED
        BY <1>2, <2>1, <2>2, <2>3, Zenon DEF Step
<1>3. CASE WorkerStep
      BY Zenon, <1>3, WorkerGateKeeps, WorkerSettleKeeps, WorkerFailsKeeps, WorkerFinishKeeps,
         WorkerGivesUpKeeps, WorkerDoneKeeps DEF WorkerStep
<1>4. CASE Read \/ Crash \/ Recover \/ Reopen
      BY <1>4, ReadKeeps, CrashKeeps, RecoverKeeps, ReopenKeeps, Zenon
<1>5. CASE UNCHANGED vars
  <2>1. UNCHANGED <<up, gate, lock, slot, wpc, pc, job, order, phase, mark, evacked, acked, events, unseen,
                    seen, delivered, told, orphaned, crashes>>
        BY Zenon, <1>5 DEF vars, threadVars, durable, history
  <2>2. FeedKept /\ WorkGoesOn
        BY Zenon, <2>1 DEF FeedKept, WorkGoesOn, durable
  <2>3. TypeOK' /\ PlacesInv' /\ JobsInv'
        BY ZenonT(60), <2>1 DEF OrderInv, TypeOK, PlacesInv, JobsInv, FeedHead
  <2>4. QED
        BY <2>1, <2>2, <2>3, QuietStep, Zenon
<1>6. QED
      BY <1>1, <1>2, <1>3, <1>4, <1>5, Zenon DEF Next

\* The invariant holds in every state of every behaviour.
THEOREM OrderInvariance == Spec => []OrderInv
<1>1. QED
      BY OrderInit, OrderStep, PTL DEF Spec

\* The feed and the journals agree on every watermark, for any number of threads,
\* commits, observations and crashes, also when commits lose their workers.
THEOREM FeedAndJournalsAgree == Spec => []FeedAgrees
<1>1. OrderInv => FeedAgrees
      BY Zenon DEF OrderInv, FeedInv, FeedAgrees
<1>2. QED
      BY <1>1, OrderInvariance, PTL

\* What was reported as committed is in the feed until the host has read it.
THEOREM ReportsAreDurable == Spec => []ReportedIsDurable
<1>1. OrderInv => ReportedIsDurable
      BY Zenon DEF OrderInv, FeedInv, ReportedIsDurable
<1>2. QED
      BY <1>1, OrderInvariance, PTL

\* Reconcile never refuses, unless a commit past its commit point lost its worker:
\* at most one settled journal is missing from the feed, and its number is the next.
THEOREM ReconcileNeverRefuses == Spec => []FeedStaysUsable
<1>1. OrderInv => FeedStaysUsable
  <2> SUFFICES ASSUME OrderInv, ~orphaned PROVE CanReconcile
      BY Zenon DEF FeedStaysUsable
  <2>1. /\ \A c, d \in InFlight : c = d
        /\ \A c \in InFlight : mark[c] = FeedHead + 1
        BY Zenon DEF OrderInv, FlightInv
  <2>2. Missing \subseteq InFlight
        BY Zenon DEF Missing, InFlight
  <2>3. CASE Missing = {}
    <3>1. << >> \in Bijection(1..0, {}) /\ 0 \in 0..Cardinality(Commits)
          BY CommitsAreCounted DEF Bijection, Injection, Surjection, IsInjective
    <3>2. << >> \in Arrangements({})
          BY <3>1, Zenon DEF Arrangements
    <3>3. AreNext(<< >>)
          BY DEF AreNext
    <3>4. QED
          BY <2>3, <3>2, <3>3, Zenon DEF CanReconcile
  <2>4. ASSUME NEW c \in Missing PROVE CanReconcile
    <3>1. Missing = {c} /\ mark[c] = FeedHead + 1
          BY <2>1, <2>2, <2>4, Zenon
    <3>2. <<c>> \in Bijection(1..1, {c}) /\ 1 \in 0..Cardinality(Commits)
          BY CommitsAreCounted DEF Bijection, Injection, Surjection, IsInjective
    <3>3. <<c>> \in Arrangements({c})
          BY <3>2, Zenon DEF Arrangements
    <3>4. AreNext(<<c>>)
          BY <3>1 DEF AreNext
    <3>5. QED
          BY <3>1, <3>3, <3>4, Zenon DEF CanReconcile
  <2>5. QED
        BY <2>3, <2>4, Zenon
<1>2. QED
      BY <1>1, OrderInvariance, PTL

=============================================================================
