------------------------ MODULE ReconciliationProofs ------------------------
(***************************************************************************)
(* What is proved of the watcher and its callers, for any paths, contents, *)
(* writes, faults and bounds: rescans are answered from contents that were *)
(* there after they were asked for, and an acknowledgement is accepted     *)
(* only of an observation that nothing reported since has overtaken.       *)
(***************************************************************************)
EXTENDS Reconciliation, TLAPS

-----------------------------------------------------------------------------
(* The queue.                                                              *)

LEMMA Appended ==
    ASSUME NEW S, NEW q \in Seq(S), NEW x \in S, NEW t, t = Append(q, x)
    PROVE  /\ t \in Seq(S)
           /\ \A i \in DOMAIN t : t[i] = x \/ \E j \in DOMAIN q : t[i] = q[j]
  <1>1. t \in Seq(S)
    BY SMTT(60)
  <1>2. ASSUME NEW i \in DOMAIN t
        PROVE  t[i] = x \/ \E j \in DOMAIN q : t[i] = q[j]
    <2>1. CASE i = Len(q) + 1
      BY SMTT(60), <2>1
    <2>2. CASE i # Len(q) + 1
      <3>1. i \in DOMAIN q /\ t[i] = q[i]
        BY SMTT(60), <1>2, <2>2
      <3> QED BY Zenon, <3>1
    <2> QED BY Zenon, <2>1, <2>2
  <1> QED BY Zenon, <1>1, <1>2

LEMMA Taken ==
    ASSUME NEW S, NEW q \in Seq(S), q # << >>, NEW t, t = Tail(q)
    PROVE  /\ t \in Seq(S) /\ Head(q) \in S
           /\ \E j \in DOMAIN q : Head(q) = q[j]
           /\ \A i \in DOMAIN t : \E j \in DOMAIN q : t[i] = q[j]
  <1>1. t \in Seq(S) /\ Head(q) \in S /\ Head(q) = q[1] /\ 1 \in DOMAIN q
    BY SMTT(60)
  <1>2. ASSUME NEW i \in DOMAIN t
        PROVE  \E j \in DOMAIN q : t[i] = q[j]
    <2>1. i + 1 \in DOMAIN q /\ t[i] = q[i + 1]
      BY SMTT(60), <1>2
    <2> QED BY Zenon, <2>1
  <1> QED BY Zenon, <1>1, <1>2

LEMMA InQueue ==
    /\ \A kind, x : x \in Queued(kind) <=> x.kind = kind /\ \E i \in DOMAIN queue : x = queue[i]
    /\ \A kind, x : x \in Queued(kind)' <=> x.kind = kind /\ \E i \in DOMAIN queue' : x = queue'[i]
  BY Zenon DEF Queued

\* An input joins the queue.
LEMMA InputJoins ==
    ASSUME queue \in Seq(Inputs), NEW x \in Inputs, queue' = Append(queue, x)
    PROVE  /\ queue' \in Seq(Inputs)
           /\ \A kind : \A q \in Queued(kind)' : q \in Queued(kind) \/ (q = x /\ x.kind = kind)
  <1>1. /\ queue' \in Seq(Inputs)
        /\ \A i \in DOMAIN queue' : queue'[i] = x \/ \E j \in DOMAIN queue : queue'[i] = queue[j]
    BY SMTT(60), Appended
  <1>2. ASSUME NEW kind, NEW q \in Queued(kind)'
        PROVE  q \in Queued(kind) \/ (q = x /\ x.kind = kind)
    <2>1. PICK i \in DOMAIN queue' : q = queue'[i] /\ q.kind = kind
      BY SMTT(60), <1>2, InQueue
    <2>2. queue'[i] = x \/ \E j \in DOMAIN queue : queue'[i] = queue[j]
      BY Zenon, <1>1
    <2> QED BY Zenon, <2>1, <2>2, InQueue
  <1> QED BY Zenon, <1>1, <1>2

\* The worker takes an input.
LEMMA InputTaken ==
    ASSUME queue \in Seq(Inputs), queue # << >>, queue' = Tail(queue)
    PROVE  /\ queue' \in Seq(Inputs)
           /\ \A kind : Queued(kind)' \subseteq Queued(kind)
           /\ Head(queue) \in Inputs /\ Head(queue) \in Queued(Head(queue).kind)
  <1>1. /\ queue' \in Seq(Inputs) /\ Head(queue) \in Inputs
        /\ \E j \in DOMAIN queue : Head(queue) = queue[j]
        /\ \A i \in DOMAIN queue' : \E j \in DOMAIN queue : queue'[i] = queue[j]
    BY SMTT(60), Taken
  <1>2. ASSUME NEW kind, NEW q \in Queued(kind)' PROVE q \in Queued(kind)
    <2>1. PICK i \in DOMAIN queue' : q = queue'[i] /\ q.kind = kind
      BY SMTT(60), <1>2, InQueue
    <2>2. \E j \in DOMAIN queue : queue'[i] = queue[j]
      BY Zenon, <1>1
    <2> QED BY Zenon, <2>1, <2>2, InQueue
  <1>3. Head(queue) \in Queued(Head(queue).kind)
    BY Zenon, <1>1, InQueue
  <1> QED BY Zenon, <1>1, <1>2, <1>3

\* The kinds of inputs.
LEMMA InputKinds ==
    /\ Poisoned \in Inputs /\ Poisoned.kind = "exhausted"
    /\ \A x \in Events : x \in Inputs /\ x.kind = "event"
    /\ \A id \in Nat, scope \in {All} \cup SUBSET Paths :
          Rescan(id, scope) \in Inputs /\ Rescan(id, scope).kind = "rescan"
    /\ \A id \in Nat : CancelRescan(id) \in Inputs /\ CancelRescan(id).kind = "cancel"
    /\ \A id \in Nat, o \in Outcomes :
          Acknowledge(id, o) \in Inputs /\ Acknowledge(id, o).kind = "acknowledge"
    /\ \A x \in Inputs : x.kind = "rescan" => x.id \in Nat /\ x.scope \in {All} \cup SUBSET Paths
    /\ \A x \in Inputs : x.kind = "cancel" => x.id \in Nat
    /\ \A x \in Inputs : x.kind = "event" => x \in Events
    /\ \A x \in Inputs : x.kind = "acknowledge" => x.id \in Nat /\ x.outcome \in Outcomes
  <1>1. Poisoned \in Inputs /\ Poisoned.kind = "exhausted"
    BY Zenon DEF Inputs, Poisoned
  <1>2. \A x \in Events : x \in Inputs /\ x.kind = "event"
    BY Zenon DEF Inputs, Events
  <1>3. /\ \A id \in Nat, scope \in {All} \cup SUBSET Paths :
              Rescan(id, scope) \in Inputs /\ Rescan(id, scope).kind = "rescan"
        /\ \A id \in Nat : CancelRescan(id) \in Inputs /\ CancelRescan(id).kind = "cancel"
        /\ \A id \in Nat, o \in Outcomes :
              Acknowledge(id, o) \in Inputs /\ Acknowledge(id, o).kind = "acknowledge"
    BY Zenon DEF Inputs, Rescan, CancelRescan, Acknowledge
  <1>4. \A x \in Inputs : x.kind = "rescan" => x.id \in Nat /\ x.scope \in {All} \cup SUBSET Paths
    BY SMTT(60) DEF Inputs, Poisoned, Events
  <1>5. \A x \in Inputs : x.kind = "cancel" => x.id \in Nat
    BY SMTT(60) DEF Inputs, Poisoned, Events
  <1>6. \A x \in Inputs : x.kind = "event" => x \in Events
    BY SMTT(60) DEF Inputs, Poisoned, Events
  <1>7. \A x \in Inputs : x.kind = "acknowledge" => x.id \in Nat /\ x.outcome \in Outcomes
    BY SMTT(60) DEF Inputs, Poisoned, Events
  <1> QED BY Zenon, <1>1, <1>2, <1>3, <1>4, <1>5, <1>6, <1>7

\* What is in the queue is an input, and commands have identifiers.
LEMMA QueuedInputs ==
    ASSUME queue \in Seq(Inputs), NEW kind, NEW q \in Queued(kind)
    PROVE  /\ q \in Inputs /\ q.kind = kind
           /\ kind \in {"rescan", "cancel", "acknowledge"} => q.id \in Nat
  <1>1. q.kind = kind /\ \E i \in DOMAIN queue : q = queue[i]
    BY SMTT(60), InQueue
  <1>2. \A i \in DOMAIN queue : queue[i] \in Inputs
    BY SMTT(60)
  <1>3. q \in Inputs
    BY Zenon, <1>1, <1>2
  <1>4. CASE kind = "rescan"
    BY Zenon, <1>1, <1>3, <1>4, InputKinds
  <1>5. CASE kind = "cancel"
    BY Zenon, <1>1, <1>3, <1>5, InputKinds
  <1>6. CASE kind = "acknowledge"
    BY Zenon, <1>1, <1>3, <1>6, InputKinds
  <1> QED BY Zenon, <1>1, <1>3, <1>4, <1>5, <1>6

-----------------------------------------------------------------------------
(* What the steps have in common.                                          *)

\* No command joins the queue.
Quietly ==
    /\ queue' \in Seq(Inputs)
    /\ \A kind \in {"rescan", "cancel", "acknowledge"} : Queued(kind)' \subseteq Queued(kind)

\* Time goes on: what is not reported under a new revision is still owed.
Later ==
    /\ revision' \in Nat /\ exhausted' \in BOOLEAN
    /\ revision <= revision' /\ (exhausted => exhausted')
    /\ revision' = revision /\ ~exhausted' =>
          /\ owed \subseteq owed'
          /\ Settings \in owed' \/ wide' = wide
          /\ \A p \in Paths : p \in owed' \/ Settings \in owed'
                \/ Seen(wide', disk', p) = Seen(wide, disk, p)

\* Nothing is reported and nothing written.
Still == UNCHANGED <<disk, wide, revision, exhausted>> /\ owed \subseteq owed'

LEMMA StillLater ==
    ASSUME TypeOK, Still
    PROVE  Later
  <1>1. revision' \in Nat /\ revision <= revision'
    BY SMTT(60) DEF TypeOK, Still
  <1>2. \A p : Seen(wide', disk', p) = Seen(wide, disk, p)
    BY Zenon DEF Still
  <1> QED BY Zenon, <1>1, <1>2 DEF TypeOK, Still, Later

\* The queue stays.
LEMMA SameQueue ==
    ASSUME TypeOK, queue' = queue
    PROVE  Quietly
  <1>1. \A kind : Queued(kind)' = Queued(kind)
    BY Zenon DEF Queued
  <1> QED BY Zenon, <1>1 DEF TypeOK, Quietly

\* An event, or the news that the watcher is exhausted, joins the queue.
LEMMA EventJoins ==
    ASSUME TypeOK, NEW x \in Inputs, x.kind \in {"event", "exhausted"}, queue' = Append(queue, x)
    PROVE  Quietly
  <1>1. /\ queue' \in Seq(Inputs)
        /\ \A kind : \A q \in Queued(kind)' : q \in Queued(kind) \/ (q = x /\ x.kind = kind)
    BY Zenon, InputJoins DEF TypeOK
  <1> QED BY Zenon, <1>1 DEF Quietly

LEMMA Poisons ==
    ASSUME TypeOK, poison_watcher, revision' = revision
    PROVE  Quietly /\ Later /\ exhausted'
  <1>1. Quietly
    BY Zenon, InputKinds, SameQueue, EventJoins DEF poison_watcher
  <1>2. revision' \in Nat /\ revision <= revision'
    BY SMTT(60) DEF TypeOK
  <1> QED BY Zenon, <1>1, <1>2 DEF Later, poison_watcher

\* A new revision, or the end of them.
LEMMA Increments ==
    ASSUME TypeOK, increment_revision
    PROVE  Quietly /\ Later
  <1>1. CASE exhausted
    <2>1. revision' = revision /\ exhausted' = exhausted /\ queue' = queue
      BY Zenon, <1>1 DEF increment_revision
    <2>2. revision' \in Nat /\ revision <= revision'
      BY SMTT(60), <2>1 DEF TypeOK
    <2> QED BY Zenon, <1>1, <2>1, <2>2, SameQueue DEF Later, TypeOK
  <1>2. CASE ~exhausted /\ revision < MaxRevision
    <2>1. revision' = revision + 1 /\ exhausted' = exhausted /\ queue' = queue
      BY Zenon, <1>2 DEF increment_revision
    <2>2. revision' \in Nat /\ revision <= revision' /\ revision' # revision
      BY SMTT(60), <2>1 DEF TypeOK
    <2> QED BY Zenon, <2>1, <2>2, SameQueue DEF Later, TypeOK
  <1>3. CASE ~exhausted /\ ~(revision < MaxRevision)
    BY Zenon, <1>3, Poisons DEF increment_revision
  <1> QED BY Zenon, <1>1, <1>2, <1>3

\* What a file shows is a content.
LEMMA SeenType ==
    ASSUME NEW w, NEW d \in [Paths -> Contents], NEW p \in Paths
    PROVE  Seen(w, d, p) \in Contents
  BY Zenon DEF Seen, Contents

-----------------------------------------------------------------------------
(* The invariant after a step, of what is at hand before it.               *)

HoldsAfter(o) ==
    /\ o.revision <= revision'
    /\ o.revision = revision' /\ ~exhausted' =>
          \A p \in Paths : p \in owed' \/ Settings \in owed'
              \/ (p \in o.invalid <=> Seen(wide', disk', p) = Bad)

AskedAfter(call, scope) ==
    /\ call.pc = "send" =>
          /\ call.id \notin waiting'
          /\ \A a \in answers' : a.id # call.id
          /\ \A q \in Queued("rescan")' : q.id # call.id
    /\ call.pc \in {"send", "wait"} =>
          /\ \A a \in answers' : a.id = call.id => a.kind # "acknowledged"
          /\ \A q \in Queued("acknowledge")' : q.id # call.id
    /\ call.pc = "wait" => \A q \in Queued("rescan")' : q.id = call.id => q.scope = scope

ServedAfter(c, id, p) ==
    LET good(s) == Classified(s, p) \in since'[c][p]
        answered == \E a \in answers' : a.id = id /\ a.kind = "observed"
    IN  /\ id \in waiting' =>
              /\ pending'.full \/ p \in pending'.paths \/ good(snapshot')
              /\ worker'.pc = "complete" => good(snapshot')
        /\ answered => good(snapshot')
        /\ (id \in waiting' \/ answered) /\ worker'.pc = "load"
              => p \in worker'.todo \/ good(worker'.next)

ServedInvAfter(c, call, scope) ==
    /\ call.pc \in {"send", "wait"} => \A p \in Paths : Seen(wide', disk', p) \in since'[c][p]
    /\ call.pc = "wait" => \A p \in scope : Plain(p) => ServedAfter(c, call.id, p)

\* What caller c may be answered from only grows, and has what is there now.
Remembers(c) ==
    \A p \in Paths : since[c][p] \subseteq since'[c][p] /\ Seen(wide', disk', p) \in since'[c][p]

SinceType == since \in [{Sync, Commit} -> [Paths -> SUBSET Contents]]

LEMMA AfterIsNext ==
    ASSUME AskedAfter(sync', All), AskedAfter(commit', {commit'.path}),
           ServedInvAfter(Sync, sync', Paths), ServedInvAfter(Commit, commit', {commit'.path})
    PROVE  /\ AskedInv(sync, All)' /\ AskedInv(commit, {commit.path})'
           /\ ServedInv(Sync, sync, Paths)' /\ ServedInv(Commit, commit, {commit.path})'
  <1>1. AskedInv(sync, All)' /\ AskedInv(commit, {commit.path})'
    BY Zenon DEF AskedAfter, AskedInv
  <1>2. ServedInv(Sync, sync, Paths)'
    BY Zenon DEF ServedInvAfter, ServedInv, ServedAfter, Served
  <1>3. ServedInv(Commit, commit, {commit.path})'
    BY Zenon DEF ServedInvAfter, ServedInv, ServedAfter, Served
  <1> QED BY Zenon, <1>1, <1>2, <1>3

LEMMA HoldsOn ==
    ASSUME TypeOK, Later, NEW o, o.revision \in Nat, Holds(o)
    PROVE  HoldsAfter(o)
  <1>1. o.revision <= revision' /\ (o.revision = revision' => revision' = revision)
    BY SMTT(60) DEF TypeOK, Later, Holds
  <1>2. ASSUME o.revision = revision', ~exhausted', NEW p \in Paths
        PROVE  p \in owed' \/ Settings \in owed' \/ (p \in o.invalid <=> Seen(wide', disk', p) = Bad)
    <2>1. revision' = revision /\ o.revision = revision /\ ~exhausted
      BY Zenon, <1>1, <1>2 DEF Later
    <2>2. \/ p \in owed \/ Settings \in owed
          \/ (p \in o.invalid <=> Seen(wide, disk, p) = Bad)
      BY Zenon, <2>1 DEF Holds
    <2>3. /\ owed \subseteq owed'
          /\ p \in owed' \/ Settings \in owed' \/ Seen(wide', disk', p) = Seen(wide, disk, p)
      BY Zenon, <1>2, <2>1 DEF Later
    <2> QED BY Zenon, <2>2, <2>3
  <1> QED BY Zenon, <1>1, <1>2 DEF HoldsAfter

LEMMA Rests ==
    /\ \A label : /\ Resting(label).pc = label
                  /\ [Resting(label) EXCEPT !.pc = "refresh"] = Resting("refresh")
    /\ Receiving = Resting("receive") /\ [Receiving EXCEPT !.pc = "complete"] = Resting("complete")
  <1>1. \A label : Resting(label).pc = label
    BY Zenon DEF Resting
  <1>2. ASSUME NEW label PROVE [Resting(label) EXCEPT !.pc = "refresh"] = Resting("refresh")
    BY SMTT(60) DEF Resting
  <1>3. Receiving = Resting("receive") /\ [Receiving EXCEPT !.pc = "complete"] = Resting("complete")
    BY SMTT(60) DEF Resting, Receiving
  <1> QED BY Zenon, <1>1, <1>2, <1>3

LEMMA WorkerCases ==
    ASSUME TypeOK
    PROVE  /\ worker.pc = "load" => worker \in Loads
           /\ worker.pc # "load" => worker = Resting(worker.pc)
           /\ worker.pc \in {"load", "receive", "refresh", "complete"}
  <1>1. CASE worker \in Loads
    BY Zenon, <1>1 DEF Loads
  <1>2. CASE worker \in {Resting(label) : label \in {"receive", "refresh", "complete"}}
    <2>1. PICK label \in {"receive", "refresh", "complete"} : worker = Resting(label)
      BY Zenon, <1>2
    <2>2. worker.pc = label
      BY Zenon, <2>1, Rests
    <2> QED BY Zenon, <2>1, <2>2
  <1> QED BY Zenon, <1>1, <1>2 DEF TypeOK

LEMMA LoadOn ==
    ASSUME TypeOK, Later, LoadInv, worker' = worker, pending' = pending
    PROVE  LoadInv'
  <1> SUFFICES ASSUME worker.pc = "load" PROVE LoadInv'
    BY Zenon DEF LoadInv
  <1>1. worker.start \in Nat
    BY Zenon, WorkerCases DEF Loads
  <1>2. worker.start <= revision' /\ (worker.start = revision' => revision' = revision)
    BY SMTT(60), <1>1 DEF TypeOK, Later, LoadInv
  <1>3. ASSUME worker.start = revision', ~exhausted', pending.full, Settings \notin owed'
        PROVE  /\ worker.next.wide = wide'
               /\ \A p \in Paths : p \in owed' \/ p \in worker.todo
                     \/ (p \in worker.next.invalid <=> Seen(wide', disk', p) = Bad)
    <2>1. revision' = revision /\ worker.start = revision /\ ~exhausted
      BY Zenon, <1>2, <1>3 DEF Later
    <2>2. /\ owed \subseteq owed' /\ wide' = wide
          /\ \A p \in Paths : p \in owed' \/ Seen(wide', disk', p) = Seen(wide, disk, p)
      BY Zenon, <1>3, <2>1 DEF Later
    <2>3. /\ worker.next.wide = wide
          /\ \A p \in Paths : p \in owed \/ p \in worker.todo
                \/ (p \in worker.next.invalid <=> Seen(wide, disk, p) = Bad)
      BY Zenon, <1>3, <2>1, <2>2 DEF LoadInv
    <2> QED BY Zenon, <2>2, <2>3
  <1> QED BY Zenon, <1>2, <1>3 DEF LoadInv

LEMMA SettingsOn ==
    ASSUME SettingsInv, worker' = worker, pending' = pending, held' = held,
           "settings" \notin Disturbances => wide' = wide
    PROVE  SettingsInv'
  BY Zenon DEF SettingsInv

\* A file is written, and callers that wait note it.
LEMMA NoteRemembers ==
    ASSUME TypeOK, disk' \in [Paths -> Contents], since' = Note(since)
    PROVE  /\ SinceType'
           /\ \A c \in {Sync, Commit} :
                 (\A p \in Paths : Seen(wide, disk, p) \in since[c][p]) => Remembers(c)
  <1>1. ASSUME NEW c \in {Sync, Commit}
        PROVE  since'[c] = [p \in Paths |-> IF since[c] = Nothing THEN {}
                                            ELSE since[c][p] \cup {Seen(wide', disk', p)}]
    BY Zenon, <1>1 DEF Note
  <1>2. \A p \in Paths : Seen(wide', disk', p) \in Contents
    BY Zenon, SeenType
  <1>3. ASSUME NEW c \in {Sync, Commit} PROVE since'[c] \in [Paths -> SUBSET Contents]
    <2>1. CASE since[c] = Nothing
      <3>1. since'[c] = [p \in Paths |-> {}]
        BY Zenon, <1>1, <2>1
      <3> QED BY Zenon, <3>1
    <2>2. CASE since[c] # Nothing
      <3>1. since'[c] = [p \in Paths |-> since[c][p] \cup {Seen(wide', disk', p)}]
        BY Zenon, <1>1, <2>2
      <3>2. \A p \in Paths : since[c][p] \cup {Seen(wide', disk', p)} \in SUBSET Contents
        BY Zenon, <1>2 DEF TypeOK
      <3> QED BY Zenon, <3>1, <3>2
    <2> QED BY Zenon, <2>1, <2>2
  <1>4. SinceType'
    BY Zenon, <1>3 DEF SinceType, Note
  <1>5. ASSUME NEW c \in {Sync, Commit}, \A p \in Paths : Seen(wide, disk, p) \in since[c][p],
               NEW p \in Paths
        PROVE  since[c][p] \subseteq since'[c][p] /\ Seen(wide', disk', p) \in since'[c][p]
    <2>1. since[c] # Nothing
      BY Zenon, <1>5 DEF Nothing
    <2>2. since'[c] = [q \in Paths |-> since[c][q] \cup {Seen(wide', disk', q)}]
      BY Zenon, <1>1, <1>5, <2>1
    <2>3. since'[c][p] = since[c][p] \cup {Seen(wide', disk', p)}
      BY Zenon, <1>5, <2>2
    <2> QED BY Zenon, <2>3
  <1> QED BY Zenon, <1>4, <1>5 DEF Remembers

\* Nothing is written, and nothing noted for c.
LEMMA SameRemembers ==
    ASSUME NEW c, since'[c] = since[c], UNCHANGED <<disk, wide>>,
           \A p \in Paths : Seen(wide, disk, p) \in since[c][p]
    PROVE  Remembers(c)
  BY Zenon DEF Remembers

-----------------------------------------------------------------------------
(* What is left alone stays as it is.                                      *)

LEMMA AskedOn ==
    ASSUME NEW old, NEW new, NEW scope, AskedInv(old, scope),
           waiting' \subseteq waiting, answers' \subseteq answers,
           Queued("rescan")' \subseteq Queued("rescan"),
           Queued("acknowledge")' \subseteq Queued("acknowledge"),
           new.pc \in {"send", "wait"} => new.pc = old.pc /\ new.id = old.id
    PROVE  AskedAfter(new, scope)
  BY Zenon DEF AskedInv, AskedAfter

LEMMA ServedOn ==
    ASSUME NEW c, NEW old, NEW new, NEW scope, NEW asked,
           AskedInv(old, asked), ServedInv(c, old, scope), scope \subseteq Paths,
           UNCHANGED <<waiting, pending, snapshot, worker>>, answers' \subseteq answers,
           new.pc \in {"send", "wait"} => Remembers(c),
           new.pc = "wait" => old.pc \in {"send", "wait"} /\ new.id = old.id
    PROVE  ServedInvAfter(c, new, scope)
  <1>1. new.pc \in {"send", "wait"} => \A p \in Paths : Seen(wide', disk', p) \in since'[c][p]
    BY Zenon DEF Remembers
  <1>2. ASSUME new.pc = "wait", NEW p \in scope, Plain(p)
        PROVE  ServedAfter(c, new.id, p)
    <2>1. p \in Paths /\ since[c][p] \subseteq since'[c][p]
      BY Zenon, <1>2 DEF Remembers
    <2>2. CASE old.pc = "send"
      <3>1. new.id \notin waiting' /\ \A a \in answers' : a.id # new.id
        BY Zenon, <1>2, <2>2 DEF AskedInv
      <3> QED BY Zenon, <3>1 DEF ServedAfter
    <2>3. CASE old.pc = "wait"
      <3>1. Served(c, new.id, p)
        BY Zenon, <1>2, <2>3 DEF ServedInv
      <3> QED BY Zenon, <2>1, <3>1 DEF Served, ServedAfter
    <2> QED BY Zenon, <1>2, <2>2, <2>3
  <1> QED BY Zenon, <1>1, <1>2 DEF ServedInvAfter

LEMMA ObservedOn ==
    ASSUME TypeOK, ObservedInv, AskedInv(sync, All), Later,
           UNCHANGED <<waiting, pending, snapshot, snapshotRevision, maintained, worker>>,
           answers' \subseteq answers,
           sync'.pc = "wait" => sync.pc \in {"send", "wait"} /\ sync'.id = sync.id,
           sync'.pc \in {"maintain", "acknowledge"} => HoldsAfter(sync'.outcome),
           \A q \in Queued("acknowledge")' : HoldsAfter(q.outcome)
    PROVE  ObservedInv'
  <1>1. snapshotRevision' <= revision'
    BY SMTT(60) DEF TypeOK, ObservedInv, Later
  <1>2. ASSUME sync'.pc = "wait", sync.pc = "wait"
        PROVE  /\ sync'.id \in waiting' =>
                     /\ worker'.pc = "complete" => HoldsAfter(Outcome)
                     /\ worker'.pc # "complete" => pending'.full
               /\ \A a \in answers' : a.id = sync'.id /\ a.kind = "observed" => HoldsAfter(a.outcome)
    <2>1. Outcome.revision = snapshotRevision
      BY Zenon DEF Outcome
    <2>2. Outcome.revision \in Nat /\ \A a \in answers : a.outcome.revision \in Nat
      BY Zenon, <2>1 DEF TypeOK, Answers, Outcomes
    <2> QED BY Zenon, <1>2, <2>2, HoldsOn DEF ObservedInv
  <1>3. ASSUME sync'.pc = "wait", sync.pc = "send"
        PROVE  sync'.id \notin waiting' /\ \A a \in answers' : a.id # sync'.id
    BY Zenon, <1>3 DEF AskedInv
  <1>4. Outcome' = Outcome
    BY Zenon DEF Outcome
  <1>5. sync'.pc = "wait" /\ sync'.id \in waiting' =>
           /\ worker'.pc = "complete" => Holds(Outcome)'
           /\ worker'.pc # "complete" => pending'.full
    BY Zenon, <1>2, <1>3, <1>4 DEF Holds, HoldsAfter
  <1>6. sync'.pc = "wait" =>
           \A a \in answers' : a.id = sync'.id /\ a.kind = "observed" => HoldsAfter(a.outcome)
    BY Zenon, <1>2, <1>3
  <1> QED BY Zenon, <1>1, <1>5, <1>6 DEF ObservedInv, Holds, HoldsAfter

LEMMA CallsOn ==
    ASSUME TypeOK, CallsInv, Quietly, nextId' \in Nat, nextId <= nextId',
           waiting' \subseteq waiting, answers' \subseteq answers,
           sync'.id < nextId', commit'.id < nextId',
           sync'.pc \in {"send", "wait", "acknowledging"} => lock' = Sync,
           commit'.pc \in {"send", "wait"} => lock' = Commit,
           commit'.pc # "none" => commit'.path \in Paths
    PROVE  CallsInv'
  <1>1. ASSUME NEW i \in Nat, i < nextId PROVE i < nextId'
    BY SMTT(60), <1>1 DEF TypeOK
  <1>2. /\ \A i \in waiting : i < nextId'
        /\ \A a \in answers : a.id < nextId'
    BY Zenon, <1>1 DEF TypeOK, CallsInv, Answers
  <1>3. ASSUME NEW kind \in {"rescan", "cancel", "acknowledge"}, NEW q \in Queued(kind)'
        PROVE  q.id < nextId'
    <2>1. q \in Queued(kind) /\ q.id < nextId
      BY Zenon, <1>3 DEF Quietly, CallsInv
    <2>2. q.id \in Nat
      BY Zenon, <1>3, <2>1, QueuedInputs DEF TypeOK
    <2> QED BY Zenon, <1>1, <2>1, <2>2
  <1> QED BY Zenon, <1>2, <1>3 DEF CallsInv

\* Observations that are to be acknowledged hold on.
LEMMA AcksHold ==
    ASSUME TypeOK, ObservedInv, Later, NEW q \in Queued("acknowledge")
    PROVE  HoldsAfter(q.outcome)
  <1>1. q \in Inputs /\ q.kind = "acknowledge"
    BY Zenon, QueuedInputs DEF TypeOK
  <1>2. q.outcome.revision \in Nat
    BY Zenon, <1>1, InputKinds DEF Outcomes
  <1> QED BY Zenon, <1>2, HoldsOn DEF ObservedInv

-----------------------------------------------------------------------------
(* Files are written, and notifications arrive.                            *)

\* Files and settings are written, or not, and callers that wait note it.
Noted ==
    /\ disk' \in [Paths -> Contents] /\ wide' \in BOOLEAN /\ SinceType'
    /\ "settings" \notin Disturbances => wide' = wide
    /\ \A c \in {Sync, Commit} :
          (\A p \in Paths : Seen(wide, disk, p) \in since[c][p]) => Remembers(c)

LEMMA NothingNoted ==
    ASSUME TypeOK, UNCHANGED <<disk, wide, since>>
    PROVE  Noted
  <1>1. \A c \in {Sync, Commit} :
           (\A p \in Paths : Seen(wide, disk, p) \in since[c][p]) => Remembers(c)
    BY Zenon, SameRemembers
  <1>2. disk' \in [Paths -> Contents] /\ wide' \in BOOLEAN /\ SinceType'
    BY Zenon DEF TypeOK, SinceType
  <1> QED BY Zenon, <1>1, <1>2 DEF Noted

\* A file is written, by another program or by a commit.
LEMMA FileWritten ==
    ASSUME TypeOK, NEW p \in Paths, NEW content \in Contents,
           disk' = [disk EXCEPT ![p] = content], wide' = wide, owed' = owed \cup {p},
           UNCHANGED <<revision, exhausted>>, since' = Note(since)
    PROVE  Later /\ Noted
  <1>1. disk' \in [Paths -> Contents] /\ \A q \in Paths : q # p => disk'[q] = disk[q]
    BY Zenon DEF TypeOK
  <1>2. \A q \in Paths : q \in owed' \/ Seen(wide', disk', q) = Seen(wide, disk, q)
    BY Zenon, <1>1 DEF Seen
  <1>3. revision' \in Nat /\ revision <= revision'
    BY SMTT(60) DEF TypeOK
  <1>4. Later
    BY Zenon, <1>2, <1>3 DEF Later, TypeOK
  <1>5. Noted
    BY Zenon, <1>1, NoteRemembers DEF Noted, TypeOK
  <1> QED BY Zenon, <1>4, <1>5

\* The backend reports something.
LEMMA Reports ==
    ASSUME TypeOK, NEW paths \in {All} \cup SUBSET Paths,
           callback' = [kind |-> "event", paths |-> paths], increment_revision,
           UNCHANGED <<disk, wide, since>>
    PROVE  Quietly /\ Later /\ Noted /\ callback' \in Events \cup {None}
  <1>1. callback' \in Events
    BY Zenon DEF Events
  <1> QED BY Zenon, <1>1, Increments, NothingNoted

LEMMA WorldSteps ==
    ASSUME TypeOK, Write \/ Notify \/ Deliver
    PROVE  Quietly /\ Later /\ Noted /\ callback' \in Events \cup {None}
  <1>0. callback \in Events \cup {None}
    BY Zenon DEF TypeOK
  <1>1. CASE Write
    <2>1. /\ UNCHANGED <<callback, revision, exhausted, queue>> /\ since' = Note(since)
          /\ EditSettings \/ \E p \in Paths, c \in Contents : Edit(p, c)
      BY Zenon, <1>1 DEF Write
    <2>2. Quietly /\ callback' \in Events \cup {None}
      BY Zenon, <1>0, <2>1, SameQueue
    <2>3. ASSUME NEW p \in Paths, NEW c \in Contents, Edit(p, c) PROVE Later /\ Noted
      BY Zenon, <2>1, <2>3, FileWritten DEF Edit
    <2>4. CASE EditSettings
      <3>1. /\ "settings" \in Disturbances /\ wide' = ~wide /\ disk' = disk
            /\ owed' = owed \cup {Settings}
        BY Zenon, <2>4 DEF EditSettings, Disturbs
      <3>2. disk' \in [Paths -> Contents] /\ wide' \in BOOLEAN
        BY Zenon, <3>1 DEF TypeOK
      <3>3. Noted
        BY Zenon, <2>1, <3>1, <3>2, NoteRemembers DEF Noted
      <3>4. revision' \in Nat /\ revision <= revision'
        BY SMTT(60), <2>1 DEF TypeOK
      <3>5. Later
        BY Zenon, <2>1, <3>1, <3>4 DEF Later, TypeOK
      <3> QED BY Zenon, <2>2, <3>3, <3>5
    <2> QED BY Zenon, <2>1, <2>2, <2>3, <2>4
  <1>2. CASE Notify
    <2>1. UNCHANGED since
      BY Zenon, <1>2 DEF Notify
    <2>2. ASSUME NEW hints, Report(hints)
          PROVE  Quietly /\ Later /\ Noted /\ callback' \in Events \cup {None}
      <3> DEFINE paths == IF \E p \in Paths : hints = {p} THEN hints ELSE All
      <3>1. paths \in {All} \cup SUBSET Paths
        BY Zenon
      <3>2. callback' = [kind |-> "event", paths |-> paths]
        BY Zenon, <2>2 DEF Report
      <3> HIDE DEF paths
      <3> QED BY Zenon, <2>1, <2>2, <3>1, <3>2, Reports DEF Report
    <2>3. ASSUME ReportNoise(TRUE)
          PROVE  Quietly /\ Later /\ Noted /\ callback' \in Events \cup {None}
      <3>1. {} \in {All} \cup SUBSET Paths
        BY Zenon
      <3> QED BY Zenon, <2>1, <2>3, <3>1, Reports DEF ReportNoise
    <2>4. ASSUME ReportNoise(FALSE)
          PROVE  Quietly /\ Later /\ Noted /\ callback' \in Events \cup {None}
      <3>1. callback' \in Events
        BY Zenon, <2>4 DEF ReportNoise, Events
      <3>2. UNCHANGED <<disk, wide, owed, revision, exhausted, queue>>
        BY Zenon, <2>4 DEF ReportNoise
      <3> QED BY Zenon, <2>1, <3>1, <3>2, StillLater, SameQueue, NothingNoted DEF Still
    <2> QED BY Zenon, <1>2, <2>2, <2>3, <2>4 DEF Notify
  <1>3. CASE Deliver
    <2>1. /\ callback \in Events /\ queue' = Append(queue, callback) /\ callback' = None
          /\ UNCHANGED <<disk, wide, owed, revision, exhausted, since>>
      BY Zenon, <1>0, <1>3 DEF Deliver, SendEvent, envVars
    <2>2. Quietly
      BY Zenon, <2>1, InputKinds, EventJoins
    <2> QED BY Zenon, <2>1, <2>2, StillLater, NothingNoted DEF Still
  <1> QED BY Zenon, <1>1, <1>2, <1>3

LEMMA WorldKeeps ==
    ASSUME ReconciliationInv, Write \/ Notify \/ Deliver, held' = held
    PROVE  ReconciliationInv'
  <1>1. /\ TypeOK /\ CallsInv /\ SettingsInv /\ LoadInv /\ ObservedInv
        /\ AskedInv(sync, All) /\ AskedInv(commit, {commit.path})
        /\ ServedInv(Sync, sync, Paths) /\ ServedInv(Commit, commit, {commit.path})
    BY Zenon DEF ReconciliationInv
  <1>2. Quietly /\ Later /\ Noted /\ callback' \in Events \cup {None}
    BY Zenon, <1>1, WorldSteps
  <1>3. Outside
    BY Zenon DEF Write, Notify, Deliver
  <1>4. UNCHANGED <<nextId, cancelled, answers, worker, snapshot, snapshotRevision, maintained,
                    pending, waiting, news, lock, sync, commit, stubs>>
    BY Zenon, <1>3 DEF Outside, workerVars, callers
  <1>5. TypeOK'
    BY Zenon, <1>1, <1>2, <1>4 DEF TypeOK, Quietly, Later, Noted, SinceType
  <1>6. CallsInv'
    <2>1. nextId' \in Nat /\ nextId <= nextId'
      BY SMTT(60), <1>1, <1>4 DEF TypeOK
    <2> QED BY Zenon, <1>1, <1>2, <1>4, <2>1, CallsOn DEF CallsInv
  <1>7. SettingsInv' /\ LoadInv'
    BY Zenon, <1>1, <1>2, <1>4, SettingsOn, LoadOn DEF Noted
  <1>8. ObservedInv'
    <2>1. sync.outcome.revision \in Nat
      BY Zenon, <1>1 DEF TypeOK, Syncs, Outcomes
    <2>2. sync'.pc \in {"maintain", "acknowledge"} => HoldsAfter(sync'.outcome)
      BY Zenon, <1>1, <1>2, <1>4, <2>1, HoldsOn DEF ObservedInv
    <2>3. \A q \in Queued("acknowledge")' : HoldsAfter(q.outcome)
      BY Zenon, <1>1, <1>2, AcksHold DEF Quietly
    <2> QED BY Zenon, <1>1, <1>2, <1>4, <2>2, <2>3, ObservedOn
  <1>9. AskedAfter(sync', All) /\ AskedAfter(commit', {commit'.path})
    BY Zenon, <1>1, <1>2, <1>4, AskedOn DEF Quietly
  <1>10. ServedInvAfter(Sync, sync', Paths)
    BY Zenon, <1>1, <1>2, <1>4, ServedOn DEF Noted, ServedInv
  <1>11. ServedInvAfter(Commit, commit', {commit'.path})
    <2>1. CASE commit.pc \in {"send", "wait"}
      <3>1. {commit.path} \subseteq Paths
        BY Zenon, <1>1, <2>1 DEF CallsInv
      <3> QED BY Zenon, <1>1, <1>2, <1>4, <3>1, ServedOn DEF Noted, ServedInv
    <2>2. CASE commit.pc \notin {"send", "wait"}
      BY Zenon, <1>4, <2>2 DEF ServedInvAfter
    <2> QED BY Zenon, <2>1, <2>2
  <1>12. CachedInv'
    BY Zenon, <1>4 DEF ReconciliationInv, CachedInv
  <1> QED BY Zenon, <1>5, <1>6, <1>7, <1>8, <1>9, <1>10, <1>11, <1>12, AfterIsNext DEF ReconciliationInv

-----------------------------------------------------------------------------
(* The worker.                                                             *)

\* More to do does not make less of what there is to do.
LEMMA AddedKeeps ==
    ASSUME TypeOK, NEW scope \in {All} \cup SUBSET Paths, NEW when \in {"now", "later"}
    PROVE  LET q == Added(scope, when)
           IN  /\ q \in Pendings
               /\ pending.full \/ scope = All => q.full
               /\ scope # All => \A p \in pending.paths \cup scope : q.full \/ p \in q.paths
  <1> DEFINE due == schedule_relevant_refresh(when)
             b == [pending EXCEPT !.deadline = due]
             all == [b EXCEPT !.paths = {}, !.full = TRUE]
             union == b.paths \cup scope
             more == [b EXCEPT !.paths = union]
             q == Added(scope, when)
  <1>1. due \in {"none", "now", "later"}
    BY Zenon DEF schedule_relevant_refresh, TypeOK, Pendings
  <1> HIDE DEF due
  <1>2. b \in Pendings /\ b.full = pending.full /\ b.paths = pending.paths
    BY Zenon, <1>1 DEF TypeOK, Pendings
  <1>3. q = IF scope = All THEN all
            ELSE CASE b.full -> b
                   [] ~b.full /\ Cardinality(union) > MaxPendingPaths -> all
                   [] OTHER -> more
    BY Zenon DEF Added, merge_pending_paths, due
  <1> HIDE DEF b, q
  <1>4. all \in Pendings /\ all.full = TRUE
    BY Zenon, <1>2 DEF Pendings
  <1>5. scope # All => more \in Pendings /\ more.full = b.full /\ more.paths = pending.paths \cup scope
    BY Zenon, <1>2 DEF Pendings
  <1> HIDE DEF all, more, union
  <1>6. CASE scope = All
    <2>1. q = all
      BY Zenon, <1>3, <1>6
    <2> QED BY Zenon, <1>4, <1>6, <2>1 DEF q
  <1>7. CASE scope # All
    <2>1. \/ q = b /\ b.full
          \/ q = all
          \/ q = more /\ ~b.full
      BY Zenon, <1>3, <1>7
    <2>2. q \in Pendings /\ (pending.full => q.full)
          /\ \A p \in pending.paths \cup scope : q.full \/ p \in q.paths
      BY Zenon, <1>2, <1>4, <1>5, <1>7, <2>1
    <2> QED BY Zenon, <1>7, <2>2 DEF q
  <1> QED BY Zenon, <1>6, <1>7

\* A record read again.
LEMMA Rereads ==
    ASSUME disk \in [Paths -> Contents], NEW s \in Snapshots, NEW w, NEW p \in Paths
    PROVE  LET t == Reread(s, w, p)
           IN  /\ t \in Snapshots /\ t.wide = s.wide
               /\ Classified(t, p) = Seen(w, disk, p)
               /\ p \in t.invalid <=> Seen(w, disk, p) = Bad
               /\ \A q \in Paths : q # p => /\ Classified(t, q) = Classified(s, q)
                                            /\ q \in t.invalid <=> q \in s.invalid
  <1> DEFINE c == Seen(w, disk, p)
             rec == IF c = Bad THEN s.records[p] ELSE c
             inv == IF c = Bad THEN s.invalid \cup {p} ELSE s.invalid \ {p}
             t == Reread(s, w, p)
  <1>1. c \in Contents
    BY Zenon, SeenType
  <1>2. t = [s EXCEPT !.records[p] = IF c = Bad THEN @ ELSE c,
                      !.invalid = IF c = Bad THEN @ \cup {p} ELSE @ \ {p}]
    BY Zenon DEF Reread
  <1> HIDE DEF c
  <1>3. rec \in Contents /\ inv \in SUBSET Paths
    BY Zenon, <1>1 DEF Snapshots
  <1> DEFINE recs == [s.records EXCEPT ![p] = rec]
  <1>4. /\ t.records = recs /\ t.invalid = inv /\ t.wide = s.wide
        /\ t \in Snapshots
    <2>1. recs \in [Paths -> Contents]
      BY Zenon, <1>3 DEF Snapshots
    <2>2. t = [s EXCEPT !.records = recs, !.invalid = inv]
      BY Zenon, <1>2
    <2> HIDE DEF recs, inv, t
    <2> QED BY Zenon, <1>3, <2>1, <2>2 DEF Snapshots
  <1>5. t.records[p] = rec /\ \A q \in Paths : q # p => t.records[q] = s.records[q]
    BY Zenon, <1>4 DEF Snapshots
  <1> HIDE DEF t
  <1>6. p \in t.invalid <=> c = Bad
    BY Zenon, <1>4
  <1>7. \A q \in Paths : q # p => (q \in t.invalid <=> q \in s.invalid)
    BY Zenon, <1>4
  <1> HIDE DEF inv
  <1>8. Classified(t, p) = c
    <2>1. CASE c = Bad
      BY Zenon, <1>6, <2>1 DEF Classified
    <2>2. CASE c # Bad
      <3>1. rec = c
        BY Zenon, <2>2
      <3>2. p \notin t.invalid
        BY Zenon, <1>6, <2>2
      <3> QED BY Zenon, <1>5, <3>1, <3>2 DEF Classified
    <2> QED BY Zenon, <2>1, <2>2
  <1>9. ASSUME NEW q \in Paths, q # p PROVE Classified(t, q) = Classified(s, q)
    <2>1. t.records[q] = s.records[q] /\ (q \in t.invalid <=> q \in s.invalid)
      BY Zenon, <1>5, <1>7, <1>9
    <2>2. CASE q \in s.invalid
      BY Zenon, <2>1, <2>2 DEF Classified
    <2>3. CASE q \notin s.invalid
      BY Zenon, <2>1, <2>3 DEF Classified
    <2> QED BY Zenon, <2>2, <2>3
  <1> QED BY Zenon, <1>4, <1>6, <1>7, <1>8, <1>9 DEF t, c

\* The end of an iteration, with work q left and ids waiting for it.
Turned(q, ids, sent) ==
    /\ worker' \in {Resting("receive"), Resting("refresh")}
    /\ pending' \in Pendings /\ cancelled' \in SUBSET Nat
    /\ waiting' \subseteq ids
    /\ waiting' # {} => pending' = q
    /\ \A a \in answers' :
          \/ a \in answers
          \/ a \in Answers /\ a.kind = "exhausted" /\ a.id \in ids
          \/ a \in Answers /\ a.kind # "observed" /\ a \in sent

LEMMA QuietPending == \A failing \in BOOLEAN : Quiet(failing) \in Pendings
  BY Zenon DEF Quiet, Pendings

LEMMA SentAnswers ==
    ASSUME NEW ids \in SUBSET Nat, NEW o \in Outcomes,
           NEW kind \in {"observed", "exhausted", "acknowledged", "refused"}
    PROVE  \A a \in Sent(ids, kind, o) :
              a \in Answers /\ a.kind = kind /\ a.id \in ids /\ a.outcome = o
  <1> SUFFICES ASSUME NEW a \in Sent(ids, kind, o)
               PROVE  a \in Answers /\ a.kind = kind /\ a.id \in ids /\ a.outcome = o
    BY Zenon
  <1>1. PICK i \in ids : a = Answer(i, kind, o)
    BY Zenon DEF Sent
  <1>2. a.kind = kind /\ a.id = i /\ a.outcome = o /\ i \in Nat
    BY Zenon, <1>1 DEF Answer
  <1>3. a \in Answers
    BY SMTT(60), <1>1, <1>2 DEF Answer, Answers
  <1> QED BY Zenon, <1>2, <1>3

LEMMA SentObserved ==
    ASSUME NEW ids \in SUBSET Nat, NEW o \in Outcomes
    PROVE  \A a \in Sent(ids, "observed", o) :
              a \in Answers /\ a.id \in ids /\ a.outcome = o /\ a.kind = "observed"
  <1> SUFFICES ASSUME NEW a \in Sent(ids, "observed", o)
               PROVE  a \in Answers /\ a.id \in ids /\ a.outcome = o /\ a.kind = "observed"
    BY Zenon
  <1>1. PICK i \in ids : a = Answer(i, "observed", o)
    BY Zenon DEF Sent
  <1>2. a.id = i /\ a.outcome = o /\ i \in Nat /\ a.kind = "observed"
    BY Zenon, <1>1 DEF Answer
  <1>3. a \in Answers
    BY SMTT(60), <1>1, <1>2 DEF Answer, Answers
  <1> QED BY Zenon, <1>2, <1>3

LEMMA NoOutcomeType == NoOutcome \in Outcomes
  <1>1. 0 \in Nat
    BY SMTT(60)
  <1>2. NoOutcome.invalid \cap NoOutcome.removed = {}
    BY Zenon DEF NoOutcome
  <1>3. NoOutcome \in [invalid : SUBSET Paths, removed : SUBSET Paths, revision : Nat]
    BY Zenon, <1>1 DEF NoOutcome
  <1> QED BY Zenon, <1>2, <1>3 DEF Outcomes

Verdicts == {"acknowledged", "exhausted", "refused"}

LEMMA SentExhausted ==
    ASSUME NEW ids \in SUBSET Nat
    PROVE  \A a \in Sent(ids, "exhausted", NoOutcome) :
              a \in Answers /\ a.kind = "exhausted" /\ a.id \in ids
  <1> SUFFICES ASSUME NEW a \in Sent(ids, "exhausted", NoOutcome)
               PROVE  a \in Answers /\ a.kind = "exhausted" /\ a.id \in ids
    BY Zenon
  <1>1. PICK i \in ids : a = Answer(i, "exhausted", NoOutcome)
    BY Zenon DEF Sent
  <1>2. a.id = i /\ i \in Nat /\ a.kind = "exhausted"
    BY Zenon, <1>1 DEF Answer
  <1>3. a \in Answers
    BY SMTT(60), <1>1, <1>2, NoOutcomeType DEF Answer, Answers
  <1> QED BY Zenon, <1>2, <1>3

LEMMA SentToOne ==
    ASSUME NEW i \in Nat, NEW kind \in Verdicts
    PROVE  \A a \in Sent({i}, kind, NoOutcome) : a \in Answers /\ a.kind = kind /\ a.id = i
  <1> SUFFICES ASSUME NEW a \in Sent({i}, kind, NoOutcome)
               PROVE  a \in Answers /\ a.kind = kind /\ a.id = i
    BY Zenon
  <1>1. a = Answer(i, kind, NoOutcome)
    BY Zenon DEF Sent
  <1>2. a.kind = kind /\ a.id = i
    BY Zenon, <1>1 DEF Answer
  <1>3. a \in Answers
    <2>1. kind \in {"observed", "exhausted", "acknowledged", "refused"}
      BY Zenon DEF Verdicts
    <2> QED BY SMTT(60), <1>1, <2>1, NoOutcomeType DEF Answer, Answers
  <1> QED BY Zenon, <1>2, <1>3

LEMMA FailTurns ==
    ASSUME TypeOK, NEW q, NEW ids \in SUBSET Nat, NEW released, NEW sent,
           \A a \in sent : a \in Answers /\ a.kind # "observed",
           fail_pending_rescans(ids, released, sent)
    PROVE  Turned(q, ids, sent)
  <1>1. pending' \in Pendings
    BY Zenon, QuietPending DEF fail_pending_rescans, TypeOK, Pendings
  <1>2. cancelled' \in SUBSET Nat /\ waiting' = {} /\ worker' = Resting("receive")
    BY Zenon, Rests DEF fail_pending_rescans, TypeOK
  <1>3. ASSUME NEW a \in answers'
        PROVE  \/ a \in answers
               \/ a \in Answers /\ a.kind = "exhausted" /\ a.id \in ids
               \/ a \in Answers /\ a.kind # "observed" /\ a \in sent
    <2>1. a \in answers \/ a \in sent \/ a \in Sent(ids, "exhausted", NoOutcome)
      BY Zenon, <1>3 DEF fail_pending_rescans
    <2>2. \A b \in Sent(ids, "exhausted", NoOutcome) :
             b \in Answers /\ b.kind = "exhausted" /\ b.id \in ids
      BY Zenon, SentExhausted
    <2> QED BY Zenon, <2>1, <2>2
  <1> QED BY Zenon, <1>1, <1>2, <1>3 DEF Turned

LEMMA ContinueTurns ==
    ASSUME TypeOK, worker.pc = "receive", NEW q \in Pendings, NEW ids \in SUBSET Nat,
           NEW released, NEW sent, \A a \in sent : a \in Answers /\ a.kind # "observed",
           Continue(q, ids, released, sent)
    PROVE  Turned(q, ids, sent)
  <1>1. CASE exhausted
    BY Zenon, <1>1, FailTurns DEF Continue
  <1>2. CASE ~exhausted
    <2>1. /\ pending' = q /\ waiting' = ids /\ cancelled' = cancelled \ released
          /\ answers' = answers \cup sent
          /\ worker' = Receiving \/ worker' = [worker EXCEPT !.pc = "refresh"]
      BY Zenon, <1>2 DEF Continue
    <2>2. worker = Resting("receive")
      BY Zenon, WorkerCases
    <2>3. worker' \in {Resting("receive"), Resting("refresh")}
      BY Zenon, <2>1, <2>2, Rests
    <2>4. cancelled' \in SUBSET Nat
      BY Zenon, <2>1 DEF TypeOK
    <2> QED BY Zenon, <2>1, <2>3, <2>4 DEF Turned
  <1> QED BY Zenon, <1>1, <1>2

\* What the worker leaves to others.
WorkFrame ==
    /\ UNCHANGED <<disk, wide, owed, callback, nextId, lock, sync, commit, stubs, since, held>>
    /\ UNCHANGED <<revision, exhausted>> /\ Quietly
    /\ news' \in SUBSET (Paths \cup {Settings})

\* A request of a caller is among ids, and what it asked for is in the work q.
InWork(q, ids) ==
    /\ sync.pc = "send" => sync.id \notin ids
    /\ commit.pc = "send" => commit.id \notin ids
    /\ sync.pc = "wait" /\ sync.id \in ids => q.full
    /\ commit.pc = "wait" /\ commit.id \in ids =>
          \/ q.full \/ commit.path \in q.paths
          \/ Plain(commit.path) => Classified(snapshot, commit.path) \in since[Commit][commit.path]

\* Nobody who asks for a rescan has an answer to something else.
NotYet(sent) ==
    \A a \in sent : /\ a.id < nextId
                    /\ sync.pc \in {"send", "wait"} => a.id # sync.id
                    /\ commit.pc \in {"send", "wait"} => a.id # commit.id

LEMMA InvParts ==
    ASSUME ReconciliationInv
    PROVE  /\ TypeOK /\ CallsInv /\ SettingsInv /\ LoadInv /\ ObservedInv /\ CachedInv
           /\ AskedInv(sync, All) /\ AskedInv(commit, {commit.path})
           /\ ServedInv(Sync, sync, Paths) /\ ServedInv(Commit, commit, {commit.path})
  BY Zenon DEF ReconciliationInv

\* Commands keep their numbers when the queue is left alone.
LEMMA CommandIds ==
    ASSUME CallsInv, Quietly, nextId' = nextId
    PROVE  \A kind \in {"rescan", "cancel", "acknowledge"} : \A q \in Queued(kind)' : q.id < nextId'
  BY Zenon DEF CallsInv, Quietly

LEMMA TurnKeeps ==
    ASSUME ReconciliationInv, WorkFrame, UNCHANGED <<snapshot, snapshotRevision>>,
           maintained' \in SUBSET Paths, NEW q, NEW ids, NEW sent, Turned(q, ids, sent),
           \A i \in ids : i \in Nat /\ i < nextId, InWork(q, ids), NotYet(sent)
    PROVE  ReconciliationInv'
  <1>1. /\ TypeOK /\ CallsInv /\ SettingsInv /\ LoadInv /\ ObservedInv
        /\ AskedInv(sync, All) /\ AskedInv(commit, {commit.path})
        /\ ServedInv(Sync, sync, Paths) /\ ServedInv(Commit, commit, {commit.path})
    BY Zenon, InvParts
  <1>2. worker'.pc \in {"receive", "refresh"}
    BY Zenon, Rests DEF Turned
  <1>3. TypeOK'
    <2>1. worker' \in Loads \cup {Resting(label) : label \in {"receive", "refresh", "complete"}}
      BY Zenon DEF Turned
    <2>2. answers' \in SUBSET Answers /\ waiting' \in SUBSET Nat
      BY Zenon, <1>1 DEF Turned, TypeOK
    <2> QED BY Zenon, <1>1, <2>1, <2>2 DEF TypeOK, WorkFrame, Quietly, Turned
  <1>4. CallsInv'
    <2>1. \A a \in answers' : a.id < nextId'
      BY Zenon, <1>1 DEF Turned, WorkFrame, CallsInv, NotYet
    <2>2. \A i \in waiting' : i < nextId'
      BY Zenon DEF Turned, WorkFrame
    <2> QED BY Zenon, <1>1, <2>1, <2>2, CommandIds DEF CallsInv, WorkFrame
  <1>5. SettingsInv' /\ LoadInv'
    BY Zenon, <1>1, <1>2 DEF SettingsInv, LoadInv, WorkFrame
  <1>6. Later
    BY Zenon, <1>1, StillLater DEF Still, WorkFrame
  <1>7. ObservedInv'
    <2>1. snapshotRevision' <= revision'
      BY Zenon, <1>1 DEF ObservedInv, WorkFrame
    <2>2. sync'.pc = "wait" /\ sync'.id \in waiting' => pending'.full
      BY Zenon DEF WorkFrame, Turned, InWork
    <2>3. sync.outcome.revision \in Nat /\ \A a \in answers : a.outcome.revision \in Nat
      BY Zenon, <1>1 DEF TypeOK, Syncs, Outcomes, Answers
    <2>4. sync.pc = "wait" =>
             \A a \in answers' : a.id = sync.id /\ a.kind = "observed" => HoldsAfter(a.outcome)
      BY Zenon, <1>1, <1>6, <2>3, HoldsOn DEF ObservedInv, Turned
    <2>5. sync.pc \in {"maintain", "acknowledge"} => HoldsAfter(sync.outcome)
      BY Zenon, <1>1, <1>6, <2>3, HoldsOn DEF ObservedInv
    <2>6. \A a \in Queued("acknowledge")' : HoldsAfter(a.outcome)
      BY Zenon, <1>1, <1>6, AcksHold DEF WorkFrame, Quietly
    <2> QED BY Zenon, <1>2, <2>1, <2>2, <2>4, <2>5, <2>6 DEF ObservedInv, Holds, HoldsAfter, WorkFrame
  <1>8. AskedAfter(sync', All) /\ AskedAfter(commit', {commit'.path})
    BY Zenon, <1>1 DEF AskedInv, AskedAfter, Turned, WorkFrame, Quietly, InWork, NotYet
  <1>9. ASSUME NEW c, NEW id, NEW p, Served(c, id, p),
               id \in ids => q.full \/ p \in q.paths \/ Classified(snapshot, p) \in since[c][p]
        PROVE  ServedAfter(c, id, p)
    <2>1. id \in waiting' => pending'.full \/ p \in pending'.paths
                                \/ Classified(snapshot', p) \in since'[c][p]
      BY Zenon, <1>9 DEF Turned, WorkFrame
    <2>2. (\E a \in answers' : a.id = id /\ a.kind = "observed")
             => Classified(snapshot', p) \in since'[c][p]
      BY Zenon, <1>9 DEF Turned, WorkFrame, Served
    <2> QED BY Zenon, <1>2, <2>1, <2>2 DEF ServedAfter
  <1>10. ServedInvAfter(Sync, sync', Paths)
    BY Zenon, <1>1, <1>9 DEF ServedInv, ServedInvAfter, WorkFrame, InWork
  <1>11. ServedInvAfter(Commit, commit', {commit'.path})
    <2>1. commit.pc = "wait" /\ Plain(commit.path) => ServedAfter(Commit, commit.id, commit.path)
      BY Zenon, <1>1, <1>9 DEF ServedInv, InWork
    <2> QED BY Zenon, <1>1, <2>1 DEF ServedInv, ServedInvAfter, WorkFrame
  <1>12. CachedInv'
    BY Zenon, InvParts DEF CachedInv, WorkFrame
  <1> QED BY Zenon, <1>3, <1>4, <1>5, <1>7, <1>8, <1>10, <1>11, <1>12, AfterIsNext DEF ReconciliationInv

\* What callers wait for stays in the work when the work does not shrink.
LEMMA StaysInWork ==
    ASSUME ReconciliationInv, worker.pc # "complete", NEW ids, ids \subseteq waiting, NEW q,
           pending.full => q.full, q.full \/ pending.paths \subseteq q.paths
    PROVE  InWork(q, ids)
  <1>1. AskedInv(sync, All) /\ AskedInv(commit, {commit.path})
    BY Zenon, InvParts
  <1>2. sync.pc = "send" => sync.id \notin ids
    BY Zenon, <1>1 DEF AskedInv
  <1>3. commit.pc = "send" => commit.id \notin ids
    BY Zenon, <1>1 DEF AskedInv
  <1>4. sync.pc = "wait" /\ sync.id \in ids => q.full
    BY Zenon, InvParts DEF ObservedInv
  <1>5. ASSUME commit.pc = "wait", commit.id \in ids, Plain(commit.path)
        PROVE  \/ q.full \/ commit.path \in q.paths
               \/ Classified(snapshot, commit.path) \in since[Commit][commit.path]
    <2>1. Served(Commit, commit.id, commit.path)
      BY Zenon, <1>5, InvParts DEF ServedInv
    <2> QED BY Zenon, <1>5, <2>1 DEF Served
  <1> QED BY Zenon, <1>2, <1>3, <1>4, <1>5 DEF InWork

LEMMA Receives ==
    ASSUME TypeOK, NEW kind, Receive(kind)
    PROVE  /\ Quietly /\ UNCHANGED <<revision, exhausted, snapshot, snapshotRevision, news>>
           /\ worker.pc = "receive"
           /\ Head(queue) \in Inputs /\ Head(queue).kind = kind /\ Head(queue) \in Queued(kind)
  <1>1. /\ queue # << >> /\ queue' = Tail(queue) /\ Head(queue).kind = kind
        /\ worker.pc = "receive" /\ UNCHANGED <<revision, exhausted, snapshot, snapshotRevision, news>>
    BY Zenon DEF Receive
  <1>2. /\ queue' \in Seq(Inputs) /\ \A k : Queued(k)' \subseteq Queued(k)
        /\ Head(queue) \in Inputs /\ Head(queue) \in Queued(Head(queue).kind)
    BY Zenon, <1>1, InputTaken DEF TypeOK
  <1> QED BY Zenon, <1>1, <1>2 DEF Quietly

LEMMA WorkIsFramed ==
    ASSUME TypeOK, Work, held' = held
    PROVE  WorkFrame
  <1>1. UNCHANGED <<disk, wide, owed, callback, nextId, lock, sync, commit, stubs, since>>
        /\ (WorkerStep \/ LoadFails)
    BY Zenon DEF Work, callers
  <1>2. ASSUME NEW kind, Receive(kind) PROVE UNCHANGED <<revision, exhausted, news>> /\ Quietly
    BY Zenon, <1>2, Receives
  <1>3. news' \in SUBSET (Paths \cup {Settings})
    <2>1. Changed(snapshot, worker.next) \subseteq Paths \cup {Settings}
      BY Zenon DEF Changed
    <2>2. news' = news \/ news' = news \cup Changed(snapshot, worker.next)
      BY Zenon, <1>1, <1>2 DEF WorkerStep, BeginRefresh, LoadRecord, EndRefresh, LoadFails,
                               complete_pending_rescans, OnRescan, OnCancel, OnEvent, OnPoisoned,
                               OnAcknowledge
    <2> QED BY Zenon, <2>1, <2>2 DEF TypeOK
  <1>4. CASE OnRescan \/ OnCancel \/ OnEvent \/ OnPoisoned \/ OnAcknowledge
    <2>1. UNCHANGED <<revision, exhausted>> /\ Quietly
      BY Zenon, <1>2, <1>4 DEF OnRescan, OnCancel, OnEvent, OnPoisoned, OnAcknowledge
    <2> QED BY Zenon, <1>1, <1>3, <2>1 DEF WorkFrame
  <1>5. CASE ~(OnRescan \/ OnCancel \/ OnEvent \/ OnPoisoned \/ OnAcknowledge)
    <2>1. UNCHANGED <<revision, exhausted, queue>>
      BY Zenon, <1>1, <1>5 DEF WorkerStep, BeginRefresh, LoadRecord, EndRefresh, LoadFails,
                               complete_pending_rescans, refreshUnchanged
    <2> QED BY Zenon, <1>1, <1>3, <2>1, SameQueue DEF WorkFrame
  <1> QED BY Zenon, <1>4, <1>5

LEMMA WaitingIds ==
    ASSUME ReconciliationInv
    PROVE  waiting \in SUBSET Nat /\ \A i \in waiting : i \in Nat /\ i < nextId
  BY Zenon, InvParts DEF TypeOK, CallsInv

\* An event, a cancellation or an acknowledgement: the work does not shrink.
LEMMA TakesKeep ==
    ASSUME ReconciliationInv, WorkFrame, NEW kind, Receive(kind), NEW q \in Pendings,
           pending.full => q.full, q.full \/ pending.paths \subseteq q.paths,
           NEW ids, ids \subseteq waiting, NEW released, NEW sent,
           \A a \in sent : a \in Answers /\ a.kind # "observed", NotYet(sent),
           Continue(q, ids, released, sent), maintained' \in SUBSET Paths
    PROVE  ReconciliationInv'
  <1>1. worker.pc = "receive" /\ UNCHANGED <<snapshot, snapshotRevision>> /\ TypeOK
    BY Zenon, InvParts, Receives
  <1>2. ids \in SUBSET Nat /\ \A i \in ids : i \in Nat /\ i < nextId
    BY Zenon, WaitingIds
  <1>3. Turned(q, ids, sent)
    BY Zenon, <1>1, <1>2, ContinueTurns
  <1>4. InWork(q, ids)
    BY Zenon, <1>1, StaysInWork
  <1> QED BY Zenon, <1>1, <1>2, <1>3, <1>4, TurnKeeps

LEMMA NobodyYet == NotYet({})
  BY Zenon DEF NotYet

LEMMA RescanKeeps ==
    ASSUME ReconciliationInv, WorkFrame, OnRescan
    PROVE  ReconciliationInv'
  <1> DEFINE r == Head(queue)
             q == Added(r.scope, "now")
  <1>0. TypeOK /\ AskedInv(sync, All) /\ AskedInv(commit, {commit.path}) /\ CallsInv
    BY Zenon, InvParts
  <1>1. Receive("rescan") /\ maintained' = maintained
    BY Zenon DEF OnRescan
  <1>2. r \in Inputs /\ r.kind = "rescan" /\ r \in Queued("rescan") /\ worker.pc = "receive"
        /\ UNCHANGED <<snapshot, snapshotRevision>>
    BY Zenon, <1>0, <1>1, Receives
  <1>3. maintained' \in SUBSET Paths
    BY Zenon, <1>0, <1>1 DEF TypeOK
  <1>4. CASE r.id \in cancelled
    <2>1. Continue(pending, waiting, {r.id}, {})
      BY Zenon, <1>4 DEF OnRescan
    <2>2. pending \in Pendings
      BY Zenon, <1>0 DEF TypeOK
    <2> QED BY Zenon, <1>1, <1>3, <2>1, <2>2, TakesKeep, NobodyYet
  <1>5. CASE r.id \notin cancelled
    <2>1. Continue(q, waiting \cup {r.id}, {}, {})
      BY Zenon, <1>5 DEF OnRescan
    <2>2. r.id \in Nat /\ r.scope \in {All} \cup SUBSET Paths /\ r.id < nextId
      BY Zenon, <1>0, <1>2, InputKinds DEF CallsInv
    <2>3. /\ q \in Pendings /\ (pending.full \/ r.scope = All => q.full)
          /\ r.scope # All => \A p \in pending.paths \cup r.scope : q.full \/ p \in q.paths
      BY Zenon, <1>0, <2>2, AddedKeeps
    <2> HIDE DEF q
    <2> DEFINE ids == waiting \cup {r.id}
    <2>4. ids \in SUBSET Nat /\ \A i \in ids : i \in Nat /\ i < nextId
      BY Zenon, <2>2, WaitingIds
    <2>5. InWork(q, waiting)
      <3>1. q.full \/ pending.paths \subseteq q.paths
        BY Zenon, <2>3
      <3> QED BY Zenon, <1>2, <2>3, <3>1, StaysInWork
    <2>6. InWork(q, ids)
      <3>1. sync.pc = "send" => r.id # sync.id
        BY Zenon, <1>0, <1>2 DEF AskedInv
      <3>2. commit.pc = "send" => r.id # commit.id
        BY Zenon, <1>0, <1>2 DEF AskedInv
      <3>3. sync.pc = "wait" /\ r.id = sync.id => q.full
        BY Zenon, <1>0, <1>2, <2>3 DEF AskedInv
      <3>4. commit.pc = "wait" /\ r.id = commit.id => q.full \/ commit.path \in q.paths
        <4>1. commit.pc = "wait" /\ r.id = commit.id => r.scope = {commit.path}
          BY Zenon, <1>0, <1>2 DEF AskedInv
        <4> QED BY Zenon, <2>3, <4>1
      <3> QED BY Zenon, <2>5, <3>1, <3>2, <3>3, <3>4 DEF InWork
    <2>7. Turned(q, ids, {})
      BY Zenon, <1>0, <1>2, <2>1, <2>3, <2>4, ContinueTurns
    <2> QED BY Zenon, <1>2, <1>3, <2>4, <2>6, <2>7, TurnKeeps, NobodyYet
  <1> QED BY Zenon, <1>4, <1>5

LEMMA TakenKeep ==
    ASSUME ReconciliationInv, WorkFrame, OnCancel \/ OnEvent \/ OnPoisoned \/ OnAcknowledge
    PROVE  ReconciliationInv'
  <1>0. TypeOK /\ AskedInv(sync, All) /\ AskedInv(commit, {commit.path}) /\ CallsInv
    BY Zenon, InvParts
  <1>1. pending \in Pendings /\ maintained \in SUBSET Paths /\ waiting \in SUBSET Nat
    BY Zenon, <1>0 DEF TypeOK
  <1>2. CASE OnCancel
    <2>1. /\ Receive("cancel") /\ maintained' \in SUBSET Paths
          /\ Continue(pending, waiting \ {Head(queue).id}, {Head(queue).id}, {})
      BY Zenon, <1>1, <1>2 DEF OnCancel
    <2>2. waiting \ {Head(queue).id} \subseteq waiting
      BY Zenon
    <2> QED BY Zenon, <1>1, <2>1, <2>2, TakesKeep, NobodyYet
  <1>3. CASE OnEvent
    <2> DEFINE scope == invalidation_paths(Head(queue).paths)
               when == IF waiting = {} THEN "later" ELSE "now"
               q == IF scope = {} THEN pending ELSE Added(scope, when)
    <2>1. Receive("event") /\ maintained' \in SUBSET Paths /\ Continue(q, waiting, {}, {})
      BY Zenon, <1>1, <1>3 DEF OnEvent
    <2>2. Head(queue).paths \in {All} \cup SUBSET Paths
      BY Zenon, <1>0, <2>1, Receives, InputKinds DEF Events
    <2>3. scope \in {All} \cup SUBSET Paths
      <3>1. CASE Head(queue).paths = All
        BY Zenon, <3>1 DEF invalidation_paths
      <3>2. CASE Head(queue).paths # All
        BY Zenon, <2>2, <3>2 DEF invalidation_paths
      <3> QED BY Zenon, <3>1, <3>2
    <2>4. when \in {"now", "later"}
      BY Zenon
    <2> HIDE DEF scope, when
    <2>5. LET add == Added(scope, when)
          IN  /\ add \in Pendings /\ (pending.full \/ scope = All => add.full)
              /\ scope # All => \A p \in pending.paths \cup scope : add.full \/ p \in add.paths
      BY Zenon, <1>0, <2>3, <2>4, AddedKeeps
    <2>6. CASE scope = {}
      <3>1. q = pending
        BY Zenon, <2>6
      <3> QED BY Zenon, <1>1, <2>1, <3>1, TakesKeep, NobodyYet
    <2>7. CASE scope # {}
      <3>1. q = Added(scope, when)
        BY Zenon, <2>7
      <3> HIDE DEF q
      <3>2. q \in Pendings /\ (pending.full => q.full)
        BY Zenon, <2>5, <3>1
      <3>3. q.full \/ pending.paths \subseteq q.paths
        BY Zenon, <2>5, <3>1
      <3> QED BY Zenon, <2>1, <3>2, <3>3, TakesKeep, NobodyYet
    <2> QED BY Zenon, <2>6, <2>7
  <1>4. CASE OnPoisoned
    <2>1. Receive("exhausted") /\ maintained' \in SUBSET Paths /\ fail_pending_rescans(waiting, {}, {})
      BY Zenon, <1>1, <1>4 DEF OnPoisoned
    <2>2. worker.pc = "receive" /\ UNCHANGED <<snapshot, snapshotRevision>>
      BY Zenon, <1>0, <2>1, Receives
    <2>3. Turned(pending, waiting, {}) /\ InWork(pending, waiting)
      BY Zenon, <1>0, <1>1, <2>1, <2>2, FailTurns, StaysInWork
    <2> QED BY Zenon, <2>1, <2>2, <2>3, WaitingIds, TurnKeeps, NobodyYet
  <1>5. CASE OnAcknowledge
    <2> DEFINE a == Head(queue)
               current == a.id \notin cancelled /\ Current(a.outcome)
               verdict == CASE current -> "acknowledged"
                         [] ~current /\ exhausted -> "exhausted"
                         [] OTHER -> "refused"
               sent == Sent({a.id}, verdict, NoOutcome)
    <2>1. /\ Receive("acknowledge") /\ maintained' = (IF current THEN a.outcome.invalid ELSE maintained)
          /\ Continue(pending, waiting, {a.id}, sent)
      BY Zenon, <1>5 DEF OnAcknowledge
    <2>2. a \in Inputs /\ a.kind = "acknowledge" /\ a \in Queued("acknowledge")
      BY Zenon, <1>0, <2>1, Receives
    <2>3. a.id \in Nat /\ a.outcome \in Outcomes /\ a.id < nextId
      BY Zenon, <1>0, <2>2, InputKinds DEF CallsInv
    <2>4. maintained' \in SUBSET Paths
      <3>1. a.outcome.invalid \in SUBSET Paths
        BY Zenon, <2>3 DEF Outcomes
      <3> QED BY Zenon, <1>1, <2>1, <3>1
    <2>5. verdict \in Verdicts
      BY Zenon DEF Verdicts
    <2> HIDE DEF verdict
    <2>6. \A b \in sent : b \in Answers /\ b.kind = verdict /\ b.id = a.id
      BY Zenon, <2>3, <2>5, SentToOne
    <2> HIDE DEF sent
    <2>7. \A b \in sent : b \in Answers /\ b.kind # "observed"
      BY Zenon, <2>5, <2>6 DEF Verdicts
    <2>8. NotYet(sent)
      BY Zenon, <1>0, <2>2, <2>3, <2>6 DEF NotYet, AskedInv
    <2> QED BY Zenon, <1>1, <2>1, <2>4, <2>7, <2>8, TakesKeep
  <1> QED BY Zenon, <1>2, <1>3, <1>4, <1>5

\* A step of the worker that takes no input.
LEMMA RefreshKeeps ==
    ASSUME ReconciliationInv, WorkFrame,
           cancelled' \in SUBSET Nat, answers' \in SUBSET Answers,
           worker' \in Loads \cup {Resting(label) : label \in {"receive", "refresh", "complete"}},
           snapshot' \in Snapshots, snapshotRevision' \in Nat, maintained' \in SUBSET Paths,
           pending' \in Pendings, waiting' \subseteq waiting,
           \A a \in answers' : a \in answers \/ (a.id \in waiting /\ a.kind # "acknowledged"),
           SettingsInv', LoadInv', ObservedInv',
           sync.pc = "wait" => \A p \in Paths : Plain(p) => ServedAfter(Sync, sync.id, p),
           commit.pc = "wait" => (Plain(commit.path) => ServedAfter(Commit, commit.id, commit.path))
    PROVE  ReconciliationInv'
  <1>1. /\ TypeOK /\ CallsInv /\ AskedInv(sync, All) /\ AskedInv(commit, {commit.path})
        /\ ServedInv(Sync, sync, Paths) /\ ServedInv(Commit, commit, {commit.path})
    BY Zenon, InvParts
  <1>2. /\ UNCHANGED <<disk, wide, owed, callback, nextId, lock, sync, commit, stubs, since, held>>
        /\ UNCHANGED <<revision, exhausted>> /\ Quietly /\ news' \in SUBSET (Paths \cup {Settings})
    BY Zenon DEF WorkFrame
  <1>3. TypeOK'
    BY Zenon, <1>1, <1>2 DEF TypeOK, Quietly
  <1>4. CallsInv'
    <2>1. \A kind \in {"rescan", "cancel", "acknowledge"} : \A q \in Queued(kind)' : q.id < nextId'
      BY Zenon, <1>1, <1>2, CommandIds
    <2>2. \A a \in answers' : a.id < nextId'
      BY Zenon, <1>1, <1>2 DEF CallsInv
    <2> QED BY Zenon, <1>1, <1>2, <2>1, <2>2 DEF CallsInv
  <1>5. AskedAfter(sync', All)
    BY Zenon, <1>1, <1>2 DEF AskedInv, AskedAfter, Quietly
  <1>6. AskedAfter(commit', {commit'.path})
    BY Zenon, <1>1, <1>2 DEF AskedInv, AskedAfter, Quietly
  <1>7. ServedInvAfter(Sync, sync', Paths)
    <2>1. sync.pc \in {"send", "wait"} => \A p \in Paths : Seen(wide', disk', p) \in since'[Sync][p]
      BY Zenon, <1>1, <1>2 DEF ServedInv
    <2> QED BY Zenon, <1>2, <2>1 DEF ServedInvAfter
  <1>8. ServedInvAfter(Commit, commit', {commit'.path})
    <2>1. commit.pc \in {"send", "wait"} => \A p \in Paths : Seen(wide', disk', p) \in since'[Commit][p]
      BY Zenon, <1>1, <1>2 DEF ServedInv
    <2>2. commit.pc = "wait" =>
             \A p \in {commit.path} : Plain(p) => ServedAfter(Commit, commit.id, p)
      BY Zenon
    <2> QED BY Zenon, <1>2, <2>1, <2>2 DEF ServedInvAfter
  <1>9. CachedInv'
    BY Zenon, <1>2, InvParts DEF CachedInv
  <1> QED BY Zenon, <1>3, <1>4, <1>5, <1>6, <1>7, <1>8, <1>9, AfterIsNext DEF ReconciliationInv

\* What callers that wait are promised.
LEMMA Promised ==
    ASSUME ReconciliationInv
    PROVE  /\ sync.pc = "wait" => \A p \in Paths : Plain(p) => Served(Sync, sync.id, p)
           /\ commit.pc = "wait" =>
                 commit.path \in Paths /\ (Plain(commit.path) => Served(Commit, commit.id, commit.path))
  <1>1. commit.pc = "wait" => commit.path \in Paths
    BY Zenon, InvParts DEF CallsInv
  <1>2. commit.pc = "wait" => (Plain(commit.path) => Served(Commit, commit.id, commit.path))
    BY Zenon, InvParts DEF ServedInv
  <1> QED BY Zenon, <1>1, <1>2, InvParts DEF ServedInv

\* A load begins.
LEMMA BeginKeeps ==
    ASSUME ReconciliationInv, WorkFrame, BeginRefresh
    PROVE  ReconciliationInv'
  <1> DEFINE todo == IF pending.full THEN Paths ELSE pending.paths
             fresh == [snapshot EXCEPT !.wide = wide]
             next == IF pending.full THEN fresh ELSE snapshot
  <1>1. /\ TypeOK /\ CallsInv /\ SettingsInv /\ ObservedInv
    BY Zenon, InvParts
  <1>2. /\ pending' = [pending EXCEPT !.deadline = "none"]
        /\ worker' = [pc |-> "load", start |-> revision, todo |-> todo, next |-> next]
        /\ UNCHANGED <<cancelled, answers, snapshot, snapshotRevision, maintained, waiting>>
        /\ worker.pc # "complete"
    BY Zenon DEF BeginRefresh
  <1>3. /\ UNCHANGED <<disk, wide, owed, sync, commit, since, held, revision, exhausted>> /\ Quietly
    BY Zenon DEF WorkFrame
  <1>4. pending' \in Pendings /\ pending'.full = pending.full /\ pending'.paths = pending.paths
    BY Zenon, <1>1, <1>2 DEF TypeOK, Pendings
  <1>5. /\ fresh \in Snapshots /\ fresh.wide = wide /\ fresh.invalid = snapshot.invalid
        /\ fresh.records = snapshot.records
    BY Zenon, <1>1 DEF TypeOK, Snapshots
  <1> HIDE DEF fresh
  <1>6. /\ next \in Snapshots /\ todo \in SUBSET Paths
        /\ next.invalid = snapshot.invalid /\ next.records = snapshot.records
        /\ pending.full => next.wide = wide /\ todo = Paths
        /\ ~pending.full => todo = pending.paths
    BY Zenon, <1>1, <1>5 DEF TypeOK, Pendings
  <1> HIDE DEF next, todo
  <1>7. /\ worker'.pc = "load" /\ worker'.start = revision /\ worker'.todo = todo
        /\ worker'.next = next /\ worker' \in Loads
    <2>1. revision \in Nat
      BY Zenon, <1>1 DEF TypeOK
    <2> QED BY Zenon, <1>2, <1>6, <2>1 DEF Loads
  <1>8. \A p : Classified(next, p) = Classified(snapshot, p)
    BY Zenon, <1>6 DEF Classified
  <1>9. SettingsInv'
    BY Zenon, <1>1, <1>3, <1>4, <1>6, <1>7 DEF SettingsInv
  <1>10. LoadInv'
    <2>1. worker'.start <= revision'
      BY SMTT(60), <1>1, <1>3, <1>7 DEF TypeOK
    <2> QED BY Zenon, <1>3, <1>4, <1>6, <1>7, <2>1 DEF LoadInv
  <1>11. ObservedInv'
    <2>1. Later
      BY Zenon, <1>1, <1>3, StillLater DEF Still
    <2>2. \A q \in Queued("acknowledge")' : HoldsAfter(q.outcome)
      BY Zenon, <1>1, <1>3, <2>1, AcksHold DEF Quietly
    <2>3. \A o : Holds(o) => HoldsAfter(o)
      BY Zenon, <1>3 DEF Holds, HoldsAfter
    <2>4. sync'.pc = "wait" /\ sync'.id \in waiting' => worker'.pc # "complete" /\ pending'.full
      BY Zenon, <1>1, <1>2, <1>3, <1>4, <1>7 DEF ObservedInv
    <2>5. snapshotRevision' <= revision'
      BY Zenon, <1>1, <1>2, <1>3 DEF ObservedInv
    <2>6. /\ sync'.pc = "wait" => \A a \in answers' : a.id = sync'.id /\ a.kind = "observed"
                                      => HoldsAfter(a.outcome)
          /\ sync'.pc \in {"maintain", "acknowledge"} => HoldsAfter(sync'.outcome)
      BY Zenon, <1>1, <1>2, <1>3, <2>3 DEF ObservedInv
    <2> QED BY Zenon, <2>2, <2>4, <2>5, <2>6 DEF ObservedInv, Holds, HoldsAfter
  <1>12. ASSUME NEW c, NEW id, NEW p \in Paths, Served(c, id, p)
         PROVE  ServedAfter(c, id, p)
    <2>1. /\ id \in waiting => pending.full \/ p \in pending.paths \/ Classified(snapshot, p) \in since[c][p]
          /\ (\E a \in answers : a.id = id /\ a.kind = "observed") => Classified(snapshot, p) \in since[c][p]
      BY Zenon, <1>12 DEF Served
    <2>2. worker'.pc = "load" /\ worker'.pc # "complete"
      BY Zenon, <1>7
    <2>3. id \in waiting \/ (\E a \in answers : a.id = id /\ a.kind = "observed")
             => p \in todo \/ Classified(next, p) \in since[c][p]
      BY Zenon, <1>6, <1>8, <1>12, <2>1
    <2> QED BY Zenon, <1>2, <1>3, <1>4, <1>7, <2>1, <2>2, <2>3 DEF ServedAfter
  <1>13. /\ cancelled' \in SUBSET Nat /\ answers' \in SUBSET Answers /\ snapshot' \in Snapshots
         /\ snapshotRevision' \in Nat /\ maintained' \in SUBSET Paths
    BY Zenon, <1>1, <1>2 DEF TypeOK
  <1>14. /\ sync.pc = "wait" => \A p \in Paths : Plain(p) => ServedAfter(Sync, sync.id, p)
         /\ commit.pc = "wait" => (Plain(commit.path) => ServedAfter(Commit, commit.id, commit.path))
    BY Zenon, <1>12, Promised
  <1> QED BY Zenon, <1>2, <1>4, <1>7, <1>9, <1>10, <1>11, <1>13, <1>14, RefreshKeeps

LEMMA ObservedKept ==
    ASSUME ReconciliationInv, WorkFrame, snapshotRevision' <= revision,
           sync.pc = "wait" /\ sync.id \in waiting' =>
              /\ worker'.pc = "complete" => Holds(Outcome)'
              /\ worker'.pc # "complete" => pending'.full,
           sync.pc = "wait" =>
              \A a \in answers' : a.id = sync.id /\ a.kind = "observed" => Holds(a.outcome)
    PROVE  ObservedInv'
  <1>1. TypeOK /\ ObservedInv
    BY Zenon, InvParts
  <1>2. UNCHANGED <<disk, wide, owed, sync, revision, exhausted>> /\ Quietly
    BY Zenon DEF WorkFrame
  <1>3. \A o : Holds(o) => HoldsAfter(o)
    BY Zenon, <1>2 DEF Holds, HoldsAfter
  <1>4. /\ \A q \in Queued("acknowledge")' : HoldsAfter(q.outcome)
        /\ sync'.pc = "wait" => \A a \in answers' : a.id = sync'.id /\ a.kind = "observed"
                                    => HoldsAfter(a.outcome)
        /\ sync'.pc \in {"maintain", "acknowledge"} => HoldsAfter(sync'.outcome)
    BY Zenon, <1>1, <1>2, <1>3 DEF ObservedInv, Quietly
  <1>5. /\ \A q \in Queued("acknowledge")' : Holds(q.outcome)'
        /\ sync'.pc = "wait" => \A a \in answers' : a.id = sync'.id /\ a.kind = "observed"
                                    => Holds(a.outcome)'
        /\ sync'.pc \in {"maintain", "acknowledge"} => Holds(sync.outcome)'
    BY Zenon, <1>4 DEF Holds, HoldsAfter
  <1>6. sync'.pc = "wait" /\ sync'.id \in waiting' =>
              /\ worker'.pc = "complete" => Holds(Outcome)'
              /\ worker'.pc # "complete" => pending'.full
    BY Zenon, <1>2
  <1> HIDE DEF Outcome
  <1> QED BY Zenon, <1>2, <1>5, <1>6 DEF ObservedInv

\* A load reads a plain path as it is there.
LEMMA ReadsPlainly ==
    ASSUME SettingsInv, worker.pc = "load", NEW p, Plain(p)
    PROVE  Seen(LoadSettings, disk, p) = Seen(wide, disk, p)
  <1>1. CASE p \notin Extra
    BY Zenon, <1>1 DEF Seen, Tracked
  <1>2. CASE "settings" \notin Disturbances
    <2>1. LoadSettings = wide
      BY Zenon, <1>2 DEF SettingsInv, LoadSettings
    <2> QED BY Zenon, <2>1
  <1> QED BY Zenon, <1>1, <1>2 DEF Plain

\* A record is read.
LEMMA LoadKeeps ==
    ASSUME ReconciliationInv, WorkFrame, NEW r \in Paths, LoadRecord(r)
    PROVE  ReconciliationInv'
  <1> DEFINE next == Reread(worker.next, LoadSettings, r)
             todo == worker.todo \ {r}
  <1>1. /\ TypeOK /\ CallsInv /\ SettingsInv /\ ObservedInv /\ LoadInv
    BY Zenon, InvParts
  <1>2. /\ worker.pc = "load" /\ r \in worker.todo
        /\ worker' = [worker EXCEPT !.todo = todo, !.next = next]
        /\ UNCHANGED <<cancelled, answers, snapshot, snapshotRevision, maintained, pending, waiting>>
    BY Zenon DEF LoadRecord
  <1>3. /\ UNCHANGED <<disk, wide, owed, sync, commit, since, held, revision, exhausted>> /\ Quietly
    BY Zenon DEF WorkFrame
  <1>4. worker \in Loads /\ worker.next \in Snapshots /\ disk \in [Paths -> Contents]
    BY Zenon, <1>1, <1>2, WorkerCases DEF Loads, TypeOK
  <1>5. /\ next \in Snapshots /\ next.wide = worker.next.wide
        /\ Classified(next, r) = Seen(LoadSettings, disk, r)
        /\ r \in next.invalid <=> Seen(LoadSettings, disk, r) = Bad
        /\ \A q \in Paths : q # r => /\ Classified(next, q) = Classified(worker.next, q)
                                     /\ q \in next.invalid <=> q \in worker.next.invalid
    BY Zenon, <1>4, Rereads
  <1> HIDE DEF next
  <1>6. /\ worker' \in Loads /\ worker'.pc = "load" /\ worker'.start = worker.start
        /\ worker'.todo = todo /\ worker'.next = next
    <2>1. todo \in SUBSET Paths
      BY Zenon, <1>4 DEF Loads
    <2> HIDE DEF todo
    <2> QED BY Zenon, <1>2, <1>4, <1>5, <2>1 DEF Loads
  <1>7. SettingsInv'
    BY Zenon, <1>1, <1>2, <1>3, <1>5, <1>6 DEF SettingsInv
  <1>8. LoadInv'
    <2>1. ASSUME worker.start = revision, ~exhausted, pending.full, Settings \notin owed
          PROVE  /\ next.wide = wide
                 /\ \A p \in Paths : p \in owed \/ p \in todo
                       \/ (p \in next.invalid <=> Seen(wide, disk, p) = Bad)
      <3>1. /\ worker.next.wide = wide
            /\ \A p \in Paths : p \in owed \/ p \in worker.todo
                  \/ (p \in worker.next.invalid <=> Seen(wide, disk, p) = Bad)
        BY Zenon, <1>1, <1>2, <2>1 DEF LoadInv
      <3>2. LoadSettings = wide
        BY Zenon, <2>1, <3>1 DEF LoadSettings
      <3> QED BY Zenon, <1>5, <3>1, <3>2
    <2>2. worker.start <= revision
      BY Zenon, <1>1, <1>2 DEF LoadInv
    <2> HIDE DEF todo
    <2> QED BY Zenon, <1>2, <1>3, <1>6, <2>1, <2>2 DEF LoadInv
  <1>9. ObservedInv'
    <2>1. snapshotRevision' <= revision
      BY Zenon, <1>1, <1>2 DEF ObservedInv
    <2>2. sync.pc = "wait" /\ sync.id \in waiting' =>
              /\ worker'.pc = "complete" => Holds(Outcome)'
              /\ worker'.pc # "complete" => pending'.full
      BY Zenon, <1>1, <1>2, <1>6 DEF ObservedInv
    <2>3. sync.pc = "wait" =>
              \A a \in answers' : a.id = sync.id /\ a.kind = "observed" => Holds(a.outcome)
      BY Zenon, <1>1, <1>2 DEF ObservedInv
    <2> QED BY Zenon, <2>1, <2>2, <2>3, ObservedKept
  <1>10. ASSUME NEW c, NEW id, NEW p \in Paths, Plain(p), Served(c, id, p),
                Seen(wide, disk, p) \in since[c][p]
         PROVE  ServedAfter(c, id, p)
    <2> DEFINE asked == id \in waiting \/ \E a \in answers : a.id = id /\ a.kind = "observed"
    <2>1. asked => p \in worker.todo \/ Classified(worker.next, p) \in since[c][p]
      BY Zenon, <1>2, <1>10 DEF Served
    <2>2. p = r => Classified(next, p) \in since[c][p]
      BY Zenon, <1>1, <1>2, <1>5, <1>10, ReadsPlainly
    <2>3. asked => p \in todo \/ Classified(next, p) \in since[c][p]
      BY Zenon, <1>5, <2>1, <2>2
    <2>4. worker'.pc # "complete"
      BY Zenon, <1>6
    <2> HIDE DEF todo
    <2> QED BY Zenon, <1>2, <1>3, <1>6, <1>10, <2>3, <2>4 DEF Served, ServedAfter
  <1>11. /\ cancelled' \in SUBSET Nat /\ answers' \in SUBSET Answers /\ snapshot' \in Snapshots
         /\ snapshotRevision' \in Nat /\ maintained' \in SUBSET Paths /\ pending' \in Pendings
    BY Zenon, <1>1, <1>2 DEF TypeOK
  <1>12. /\ sync.pc = "wait" => \A p \in Paths : Seen(wide, disk, p) \in since[Sync][p]
         /\ commit.pc = "wait" => \A p \in Paths : Seen(wide, disk, p) \in since[Commit][p]
    BY Zenon, InvParts DEF ServedInv
  <1>13. /\ sync.pc = "wait" => \A p \in Paths : Plain(p) => ServedAfter(Sync, sync.id, p)
         /\ commit.pc = "wait" => (Plain(commit.path) => ServedAfter(Commit, commit.id, commit.path))
    BY Zenon, <1>10, <1>12, Promised
  <1> QED BY ZenonT(60), <1>2, <1>6, <1>7, <1>8, <1>9, <1>11, <1>13, RefreshKeeps

\* A load fails, or what was read is discarded: the work is as large as before.
LEMMA UndoneKeeps ==
    ASSUME ReconciliationInv, WorkFrame, worker.pc = "load", NEW q \in Pendings,
           pending.full => q.full, q.full \/ pending.paths \subseteq q.paths,
           pending' = q, worker' = Receiving,
           UNCHANGED <<answers, cancelled, waiting, maintained, snapshot, snapshotRevision>>
    PROVE  ReconciliationInv'
  <1>1. TypeOK
    BY Zenon, InvParts
  <1>2. Turned(q, waiting, {})
    BY Zenon, <1>1, Rests DEF Turned, TypeOK
  <1>3. InWork(q, waiting)
    BY Zenon, StaysInWork
  <1>4. maintained' \in SUBSET Paths
    BY Zenon, <1>1 DEF TypeOK
  <1> QED BY Zenon, <1>2, <1>3, <1>4, WaitingIds, TurnKeeps, NobodyYet

\* The watcher is exhausted: everyone who waits is told.
LEMMA FailKeeps ==
    ASSUME ReconciliationInv, WorkFrame, worker.pc = "load", fail_pending_rescans(waiting, {}, {}),
           UNCHANGED <<maintained, snapshot, snapshotRevision>>
    PROVE  ReconciliationInv'
  <1>1. TypeOK
    BY Zenon, InvParts
  <1>2. waiting \in SUBSET Nat /\ maintained' \in SUBSET Paths
    BY Zenon, <1>1 DEF TypeOK
  <1>3. Turned(pending, waiting, {}) /\ InWork(pending, waiting)
    BY Zenon, <1>1, <1>2, FailTurns, StaysInWork
  <1> QED BY Zenon, <1>2, <1>3, WaitingIds, TurnKeeps, NobodyYet

LEMMA LoadFailsKeeps ==
    ASSUME ReconciliationInv, WorkFrame, LoadFails
    PROVE  ReconciliationInv'
  <1>1. worker.pc = "load" /\ UNCHANGED <<maintained, snapshot, snapshotRevision>>
    BY Zenon DEF LoadFails, refreshUnchanged
  <1>2. CASE exhausted
    BY Zenon, <1>1, <1>2, FailKeeps DEF LoadFails
  <1>3. CASE ~exhausted
    <2>1. pending' = Failed /\ worker' = Receiving /\ UNCHANGED <<answers, cancelled, waiting>>
      BY Zenon, <1>3 DEF LoadFails
    <2>2. Failed \in Pendings /\ Failed.full = pending.full /\ Failed.paths = pending.paths
      BY Zenon, InvParts DEF TypeOK, Failed, Pendings
    <2> QED BY Zenon, <1>1, <2>1, <2>2, UndoneKeeps
  <1> QED BY Zenon, <1>2, <1>3

\* What was read is accepted.
LEMMA AcceptKeeps ==
    ASSUME ReconciliationInv, WorkFrame, worker.pc = "load", worker.todo = {}, ~exhausted,
           revision = worker.start, snapshot' = worker.next, snapshotRevision' = worker.start,
           pending' = Quiet(FALSE), worker' = [Receiving EXCEPT !.pc = "complete"],
           UNCHANGED <<answers, cancelled, waiting, maintained>>
    PROVE  ReconciliationInv'
  <1>1. /\ TypeOK /\ CallsInv /\ SettingsInv /\ ObservedInv /\ LoadInv
    BY Zenon, InvParts
  <1>2. /\ UNCHANGED <<disk, wide, owed, sync, commit, since, held, revision, exhausted>> /\ Quietly
    BY Zenon DEF WorkFrame
  <1>3. worker'.pc = "complete" /\ worker' = Resting("complete")
    BY Zenon, Rests
  <1>4. worker \in Loads /\ worker.next \in Snapshots /\ worker.start \in Nat
    BY Zenon, <1>1, WorkerCases DEF Loads
  <1>5. SettingsInv' /\ LoadInv'
    BY Zenon, <1>1, <1>2, <1>3 DEF SettingsInv, LoadInv
  <1>6. ObservedInv'
    <2>1. snapshotRevision' <= revision
      BY SMTT(60), <1>1, <1>4 DEF TypeOK
    <2>2. ASSUME sync.pc = "wait", sync.id \in waiting
          PROVE  Holds(Outcome)'
      <3>1. pending.full
        BY Zenon, <1>1, <2>2 DEF ObservedInv
      <3>2. \/ Settings \in owed
            \/ \A p \in Paths : p \in owed \/ (p \in worker.next.invalid <=> Seen(wide, disk, p) = Bad)
        BY Zenon, <1>1, <3>1 DEF LoadInv
      <3>3. Outcome'.revision = snapshotRevision' /\ Outcome'.invalid = worker.next.invalid
        BY Zenon DEF Outcome
      <3> DEFINE o == Outcome'
      <3>4. o.revision <= revision'
        BY Zenon, <1>2, <2>1, <3>3
      <3>5. \A p \in Paths : p \in owed' \/ Settings \in owed'
               \/ (p \in o.invalid <=> Seen(wide', disk', p) = Bad)
        BY Zenon, <1>2, <3>2, <3>3
      <3> QED BY Zenon, <3>4, <3>5 DEF Holds
    <2>3. sync.pc = "wait" =>
              \A a \in answers' : a.id = sync.id /\ a.kind = "observed" => Holds(a.outcome)
      BY Zenon, <1>1 DEF ObservedInv
    <2> QED BY Zenon, <1>3, <2>1, <2>2, <2>3, ObservedKept
  <1>7. ASSUME NEW c, NEW id, NEW p, Served(c, id, p)
        PROVE  ServedAfter(c, id, p)
    <2>1. id \in waiting \/ (\E a \in answers : a.id = id /\ a.kind = "observed")
             => Classified(worker.next, p) \in since[c][p]
      BY Zenon, <1>7 DEF Served
    <2>2. worker'.pc # "load"
      BY Zenon, <1>3
    <2> QED BY Zenon, <1>2, <2>1, <2>2 DEF ServedAfter
  <1>8. /\ cancelled' \in SUBSET Nat /\ answers' \in SUBSET Answers /\ snapshot' \in Snapshots
        /\ snapshotRevision' \in Nat /\ maintained' \in SUBSET Paths /\ pending' \in Pendings
    BY Zenon, <1>1, <1>4, QuietPending DEF TypeOK
  <1>9. /\ sync.pc = "wait" => \A p \in Paths : Plain(p) => ServedAfter(Sync, sync.id, p)
        /\ commit.pc = "wait" => (Plain(commit.path) => ServedAfter(Commit, commit.id, commit.path))
    BY Zenon, <1>7, Promised
  <1>10. worker' \in Loads \cup {Resting(label) : label \in {"receive", "refresh", "complete"}}
    BY Zenon, <1>3
  <1> QED BY Zenon, <1>5, <1>6, <1>8, <1>9, <1>10, RefreshKeeps

LEMMA EndKeeps ==
    ASSUME ReconciliationInv, WorkFrame, EndRefresh
    PROVE  ReconciliationInv'
  <1>1. worker.pc = "load" /\ worker.todo = {} /\ UNCHANGED maintained
    BY Zenon DEF EndRefresh, refreshUnchanged
  <1>2. CASE exhausted
    BY Zenon, <1>1, <1>2, FailKeeps DEF EndRefresh
  <1>3. CASE ~exhausted /\ revision = worker.start
    BY Zenon, <1>1, <1>3, AcceptKeeps DEF EndRefresh
  <1>4. CASE ~exhausted /\ revision # worker.start
    <2>1. /\ pending' = Discarded /\ worker' = Receiving
          /\ UNCHANGED <<answers, cancelled, waiting, snapshot, snapshotRevision>>
      BY Zenon, <1>4 DEF EndRefresh
    <2>2. Discarded \in Pendings /\ Discarded.full = TRUE
      BY Zenon, InvParts DEF TypeOK, Discarded, Pendings
    <2> QED BY Zenon, <1>1, <2>1, <2>2, UndoneKeeps
  <1> QED BY Zenon, <1>2, <1>3, <1>4

\* Those who wait are answered.
LEMMA CompleteKeeps ==
    ASSUME ReconciliationInv, WorkFrame, complete_pending_rescans
    PROVE  ReconciliationInv'
  <1> DEFINE sent == IF exhausted THEN Sent(waiting, "exhausted", NoOutcome)
                                  ELSE Sent(waiting, "observed", Outcome)
  <1>1. /\ TypeOK /\ CallsInv /\ SettingsInv /\ ObservedInv /\ LoadInv
    BY Zenon, InvParts
  <1>2. /\ UNCHANGED <<disk, wide, owed, sync, commit, since, held, revision, exhausted>> /\ Quietly
    BY Zenon DEF WorkFrame
  <1>3. /\ worker.pc = "complete" /\ answers' = answers \cup sent
        /\ waiting' = {} /\ cancelled' = cancelled \ waiting /\ worker' = Receiving
        /\ UNCHANGED <<maintained, snapshot, snapshotRevision, pending>>
    BY Zenon DEF complete_pending_rescans, refreshUnchanged
  <1>4. worker'.pc = "receive" /\ worker' = Resting("receive")
    BY Zenon, <1>3, Rests
  <1>5. Outcome \in Outcomes
    <2>1. Outcome \in [invalid : SUBSET Paths, removed : SUBSET Paths, revision : Nat]
      BY Zenon, <1>1 DEF Outcome, TypeOK, Snapshots
    <2>2. Outcome.invalid \cap Outcome.removed = {}
      BY Zenon DEF Outcome
    <2> QED BY Zenon, <2>1, <2>2 DEF Outcomes
  <1>6. \A a \in sent : /\ a \in Answers /\ a.id \in waiting /\ a.kind # "acknowledged"
                        /\ a.kind = "observed" => a.outcome = Outcome
    <2>0. waiting \in SUBSET Nat
      BY Zenon, <1>1 DEF TypeOK
    <2>1. CASE exhausted
      BY Zenon, <2>0, <2>1, SentAnswers, NoOutcomeType
    <2>2. CASE ~exhausted
      <3>1. \A a \in Sent(waiting, "observed", Outcome) :
               a \in Answers /\ a.id \in waiting /\ a.outcome = Outcome /\ a.kind = "observed"
        BY Zenon, <1>5, <2>0, SentObserved
      <3> QED BY Zenon, <2>2, <3>1
    <2> QED BY Zenon, <2>1, <2>2
  <1> HIDE DEF sent
  <1>7. SettingsInv' /\ LoadInv'
    BY Zenon, <1>1, <1>2, <1>4 DEF SettingsInv, LoadInv
  <1>8. ObservedInv'
    <2>1. snapshotRevision' <= revision
      BY Zenon, <1>1, <1>3 DEF ObservedInv
    <2>2. ASSUME sync.pc = "wait", NEW a \in answers', a.id = sync.id, a.kind = "observed"
          PROVE  Holds(a.outcome)
      <3>1. CASE a \in answers
        BY Zenon, <1>1, <2>2, <3>1 DEF ObservedInv
      <3>2. CASE a \in sent
        <4>1. sync.id \in waiting /\ a.outcome = Outcome
          BY Zenon, <1>6, <2>2, <3>2
        <4> QED BY Zenon, <1>1, <1>3, <2>2, <4>1 DEF ObservedInv
      <3> QED BY Zenon, <1>3, <2>2, <3>1, <3>2
    <2> QED BY Zenon, <1>3, <2>1, <2>2, ObservedKept
  <1>9. ASSUME NEW c, NEW id, NEW p, Served(c, id, p)
        PROVE  ServedAfter(c, id, p)
    <2>1. (\E a \in answers' : a.id = id /\ a.kind = "observed")
             => Classified(snapshot, p) \in since[c][p]
      BY Zenon, <1>3, <1>6, <1>9 DEF Served
    <2>2. worker'.pc # "load"
      BY Zenon, <1>4
    <2> QED BY Zenon, <1>2, <1>3, <2>1, <2>2 DEF ServedAfter
  <1>10. /\ cancelled' \in SUBSET Nat /\ answers' \in SUBSET Answers /\ snapshot' \in Snapshots
         /\ snapshotRevision' \in Nat /\ maintained' \in SUBSET Paths /\ pending' \in Pendings
    BY Zenon, <1>1, <1>3, <1>6 DEF TypeOK
  <1>11. /\ sync.pc = "wait" => \A p \in Paths : Plain(p) => ServedAfter(Sync, sync.id, p)
         /\ commit.pc = "wait" => (Plain(commit.path) => ServedAfter(Commit, commit.id, commit.path))
    BY Zenon, <1>9, Promised
  <1>12. worker' \in Loads \cup {Resting(label) : label \in {"receive", "refresh", "complete"}}
    BY Zenon, <1>4
  <1>13. /\ waiting' \subseteq waiting
         /\ \A a \in answers' : a \in answers \/ (a.id \in waiting /\ a.kind # "acknowledged")
    BY Zenon, <1>3, <1>6
  <1> QED BY Zenon, <1>7, <1>8, <1>10, <1>11, <1>12, <1>13, RefreshKeeps

LEMMA WorkKeeps ==
    ASSUME ReconciliationInv, Work, held' = held
    PROVE  ReconciliationInv'
  <1>1. WorkFrame
    BY Zenon, InvParts, WorkIsFramed
  <1>2. WorkerStep \/ LoadFails
    BY Zenon DEF Work
  <1>3. CASE WorkerStep
    BY ZenonT(60), <1>1, <1>3, RescanKeeps, TakenKeep, BeginKeeps, LoadKeeps, EndKeeps, CompleteKeeps
       DEF WorkerStep
  <1>4. CASE LoadFails
    BY Zenon, <1>1, <1>4, LoadFailsKeeps
  <1> QED BY Zenon, <1>2, <1>3, <1>4

-----------------------------------------------------------------------------
(* The callers.                                                            *)

LEMMA NoSealType == NoSeal \in Seals
  <1>1. NoSeal.rows \in [{} -> {Bad, Absent}]
    BY SMTT(60) DEF NoSeal
  <1>2. NoSeal.rows \in UNION {[d -> {Bad, Absent}] : d \in SUBSET Paths}
    BY Zenon, <1>1
  <1>3. NoSeal.revision \in Nat /\ NoSeal.exists \in BOOLEAN
    BY SMTT(60) DEF NoSeal
  <1> QED BY Zenon, <1>2, <1>3 DEF NoSeal, Seals

LEMMA IdleType == Idle \in Syncs /\ Idle.pc = "idle" /\ Idle.id = 0
  <1>1. 0 \in Nat
    BY SMTT(60)
  <1> QED BY Zenon, <1>1, NoSealType, NoOutcomeType DEF Idle, Syncs

LEMMA NoCommitType == NoCommit \in CommitCalls /\ NoCommit.pc = "none" /\ NoCommit.id = 0
  <1>1. 0 \in Nat
    BY SMTT(60)
  <1> QED BY Zenon, <1>1 DEF NoCommit, CommitCalls

\* A call that takes part in a later one.
LEMMA RetryType ==
    ASSUME TypeOK
    PROVE  /\ Retry \in Syncs /\ Retry.pc \in {"observe", "idle"} /\ Retry.id = 0
           /\ [Retry EXCEPT !.seal = NoSeal] \in Syncs
           /\ [Retry EXCEPT !.seal = NoSeal].pc = Retry.pc
           /\ [Retry EXCEPT !.seal = NoSeal].id = 0
  <1>1. /\ Retry \in Syncs /\ Retry.pc \in {"observe", "idle"} /\ Retry.id = 0
    <2> DEFINE next == [sync EXCEPT !.pc = "observe", !.attempts = @ + 1, !.fresh = TRUE,
                                    !.outcome = NoOutcome, !.id = 0, !.validated = FALSE]
    <2>1. sync.attempts + 1 \in Nat /\ 0 \in Nat /\ sync \in Syncs
      BY SMTT(60) DEF TypeOK, Syncs
    <2>2. next \in Syncs /\ next.pc = "observe" /\ next.id = 0
      BY Zenon, <2>1, NoOutcomeType DEF Syncs
    <2>3. Retry = next \/ Retry = Idle
      BY Zenon DEF Retry
    <2> HIDE DEF next
    <2> QED BY Zenon, <2>2, <2>3, IdleType
  <1>2. ASSUME NEW s \in Syncs
        PROVE  /\ [s EXCEPT !.seal = NoSeal] \in Syncs
               /\ [s EXCEPT !.seal = NoSeal].pc = s.pc
               /\ [s EXCEPT !.seal = NoSeal].id = s.id
    BY Zenon, NoSealType DEF Syncs
  <1> QED BY Zenon, <1>1, <1>2

\* The rows of the cache change, and with them its generation.
LEMMA GenerationType ==
    ASSUME TypeOK
    PROVE  /\ NewGeneration \in Syncs /\ NewGeneration.pc = sync.pc
           /\ NewGeneration.id = sync.id /\ NewGeneration.outcome = sync.outcome
           /\ NewGeneration.fresh = FALSE
  BY Zenon, NoSealType DEF TypeOK, Syncs, NewGeneration

\* What a caller leaves to others, and the types of what it does not.
CallFrame ==
    /\ UNCHANGED <<callback, waiting, pending, snapshot, snapshotRevision, maintained, worker>>
    /\ UNCHANGED <<wide, held>>
    /\ disk' \in [Paths -> Contents] /\ SinceType'
    /\ answers' \subseteq answers /\ cancelled' \in SUBSET Nat /\ stubs' \in SUBSET Paths
    /\ lock' \in {None, Sync, Commit} /\ sync' \in Syncs /\ commit' \in CommitCalls
    /\ queue' \in Seq(Inputs) /\ nextId' \in Nat /\ nextId <= nextId'
    /\ news' \in SUBSET (Paths \cup {Settings})

\* The numbers and the observations of the commands in the queue.
CommandsHold ==
    /\ \A q \in Queued("rescan")' \cup Queued("cancel")' : q.id < nextId'
    /\ \A q \in Queued("acknowledge")' : q.id < nextId' /\ HoldsAfter(q.outcome)

\* Calls hold the mutex.
CallsHold ==
    /\ sync'.id < nextId' /\ commit'.id < nextId'
    /\ sync'.pc \in {"send", "wait", "acknowledging"} => lock' = Sync
    /\ commit'.pc \in {"send", "wait"} => lock' = Commit
    /\ commit'.pc # "none" => commit'.path \in Paths
    /\ sync'.pc \in {"maintain", "acknowledge"} => HoldsAfter(sync'.outcome)
    /\ sync'.pc \in {"acknowledge", "acknowledging"} /\ sync'.fresh => Cached(sync'.outcome, stubs')

LEMMA CallKeeps ==
    ASSUME ReconciliationInv, Later, CallFrame, CommandsHold, CallsHold,
           AskedAfter(sync', All), AskedAfter(commit', {commit'.path}),
           ServedInvAfter(Sync, sync', Paths), ServedInvAfter(Commit, commit', {commit'.path}),
           sync'.pc = "wait" => sync.pc \in {"send", "wait"} /\ sync'.id = sync.id
    PROVE  ReconciliationInv'
  <1>1. /\ TypeOK /\ CallsInv /\ SettingsInv /\ ObservedInv /\ LoadInv /\ AskedInv(sync, All)
    BY Zenon, InvParts
  <1>2. TypeOK'
    BY Zenon, <1>1 DEF TypeOK, CallFrame, Later, SinceType
  <1>3. CallsInv'
    <2>1. ASSUME NEW i \in Nat, i < nextId PROVE i < nextId'
      BY SMTT(60), <1>1, <2>1 DEF TypeOK, CallFrame
    <2>2. /\ \A i \in waiting' : i < nextId'
          /\ \A a \in answers' : a.id < nextId'
      BY Zenon, <1>1, <2>1 DEF TypeOK, CallsInv, Answers, CallFrame
    <2>3. ASSUME NEW kind \in {"rescan", "cancel", "acknowledge"}, NEW q \in Queued(kind)'
          PROVE  q.id < nextId'
      BY Zenon, <2>3 DEF CommandsHold
    <2> QED BY Zenon, <2>2, <2>3 DEF CallsInv, CallsHold
  <1>4. SettingsInv' /\ LoadInv'
    BY Zenon, <1>1, SettingsOn, LoadOn DEF CallFrame
  <1>5. ObservedInv'
    BY Zenon, <1>1, ObservedOn DEF CallFrame, CommandsHold, CallsHold
  <1>6. CachedInv'
    BY Zenon DEF CachedInv, CallsHold
  <1> QED BY ZenonT(60), <1>2, <1>3, <1>4, <1>5, <1>6, AfterIsNext DEF ReconciliationInv

\* A call is as it was, and has not missed what was there meanwhile.
Waits(c, old, new) ==
    new.pc \in {"send", "wait"} => new.pc = old.pc /\ new.id = old.id /\ Remembers(c)

LEMMA CalmKeeps ==
    ASSUME ReconciliationInv, Later, CallFrame, CommandsHold, CallsHold,
           Waits(Sync, sync, sync'), Waits(Commit, commit, commit'),
           commit'.pc \in {"send", "wait"} => commit'.path = commit.path,
           Queued("rescan")' \subseteq Queued("rescan"),
           \/ Queued("acknowledge")' \subseteq Queued("acknowledge")
           \/ sync'.pc \notin {"send", "wait"} /\ commit'.pc \notin {"send", "wait"}
    PROVE  ReconciliationInv'
  <1>1. /\ TypeOK /\ CallsInv /\ AskedInv(sync, All) /\ AskedInv(commit, {commit.path})
        /\ ServedInv(Sync, sync, Paths) /\ ServedInv(Commit, commit, {commit.path})
    BY Zenon, InvParts
  <1>2. waiting' \subseteq waiting /\ answers' \subseteq answers
    BY Zenon DEF CallFrame
  <1>3. AskedAfter(sync', All)
    BY Zenon, <1>1, <1>2 DEF AskedInv, AskedAfter, Waits
  <1>4. AskedAfter(commit', {commit'.path})
    BY Zenon, <1>1, <1>2 DEF AskedInv, AskedAfter, Waits
  <1>5. ServedInvAfter(Sync, sync', Paths)
    BY Zenon, <1>1, <1>2, ServedOn DEF CallFrame, Waits
  <1>6. ServedInvAfter(Commit, commit', {commit'.path})
    <2>1. CASE commit'.pc \in {"send", "wait"}
      <3>1. {commit.path} \subseteq Paths /\ commit'.path = commit.path
        BY Zenon, <1>1, <2>1 DEF CallsInv, Waits
      <3>2. ServedInvAfter(Commit, commit', {commit.path})
        BY Zenon, <1>1, <1>2, <3>1, ServedOn DEF CallFrame, Waits
      <3> QED BY Zenon, <3>1, <3>2
    <2>2. CASE commit'.pc \notin {"send", "wait"}
      BY Zenon, <2>2 DEF ServedInvAfter
    <2> QED BY Zenon, <2>1, <2>2
  <1> QED BY Zenon, <1>3, <1>4, <1>5, <1>6, CallKeeps DEF Waits

LEMMA QuietCommands ==
    ASSUME ReconciliationInv, Later, Quietly, nextId' \in Nat, nextId <= nextId'
    PROVE  /\ CommandsHold /\ queue' \in Seq(Inputs)
           /\ Queued("rescan")' \subseteq Queued("rescan")
           /\ Queued("acknowledge")' \subseteq Queued("acknowledge")
  <1>1. TypeOK /\ CallsInv /\ ObservedInv
    BY Zenon, InvParts
  <1>2. ASSUME NEW kind \in {"rescan", "cancel", "acknowledge"}, NEW q \in Queued(kind)'
        PROVE  q \in Queued(kind) /\ q.id < nextId'
    <2>1. q \in Queued(kind) /\ q.id < nextId
      BY Zenon, <1>1, <1>2 DEF Quietly, CallsInv
    <2>2. q.id \in Nat
      BY ZenonT(60), <1>1, <1>2, <2>1, QueuedInputs DEF TypeOK
    <2>3. q.id < nextId'
      BY SMTT(60), <1>1, <2>1, <2>2 DEF TypeOK
    <2> QED BY Zenon, <2>1, <2>3
  <1>3. \A q \in Queued("acknowledge")' : HoldsAfter(q.outcome)
    BY Zenon, <1>1, <1>2, AcksHold
  <1>4. \A q \in Queued("rescan")' \cup Queued("cancel")' : q.id < nextId'
    BY Zenon, <1>2
  <1>5. \A q \in Queued("acknowledge")' : q.id < nextId'
    BY Zenon, <1>2
  <1> QED BY Zenon, <1>3, <1>4, <1>5 DEF CommandsHold, Quietly

LEMMA ForgetRemembers ==
    ASSUME TypeOK, NEW c \in {Sync, Commit}, since' = Forget(c), UNCHANGED <<disk, wide>>
    PROVE  /\ SinceType'
           /\ \A d \in {Sync, Commit} : d # c /\ (\A p \in Paths : Seen(wide, disk, p) \in since[d][p])
                 => Remembers(d)
  <1>1. since \in [{Sync, Commit} -> [Paths -> SUBSET Contents]] /\ since' = [since EXCEPT ![c] = Nothing]
    BY Zenon DEF TypeOK, Forget
  <1>2. Nothing \in [Paths -> SUBSET Contents]
    BY Zenon DEF Nothing
  <1>3. SinceType'
    BY Zenon, <1>1, <1>2 DEF SinceType
  <1>4. \A d \in {Sync, Commit} : d # c => since'[d] = since[d]
    BY Zenon, <1>1
  <1> QED BY Zenon, <1>3, <1>4, SameRemembers

\* Who does not hold the mutex does not wait for the worker.
LEMMA LockedOut ==
    ASSUME ReconciliationInv
    PROVE  /\ lock # Sync => sync.pc \notin {"send", "wait", "acknowledging"}
           /\ lock # Commit => commit.pc \notin {"send", "wait"}
           /\ lock = None => lock # Sync /\ lock # Commit
           /\ Sync # Commit
           /\ sync.pc \in {"send", "wait", "acknowledging"} => lock = Sync /\ lock # Commit
           /\ commit.pc \in {"send", "wait"} => lock = Commit /\ lock # Sync
  <1>1. CallsInv
    BY Zenon, InvParts
  <1> QED BY Zenon, <1>1, CallersDiffer DEF CallsInv

\* A caller does one thing, and the world stands still.
LEMMA SameNext ==
    ASSUME ReconciliationInv, nextId' = nextId
    PROVE  nextId' \in Nat /\ nextId <= nextId' /\ sync.id < nextId' /\ commit.id < nextId' /\ 0 < nextId'
  <1>1. TypeOK /\ CallsInv
    BY Zenon, InvParts
  <1>2. sync.id \in Nat
    BY Zenon, <1>1 DEF TypeOK, Syncs
  <1> QED BY SMTT(60), <1>1, <1>2 DEF TypeOK, CallsInv

\* What the callers, but for the one that acts, keep.
LEMMA Seens ==
    ASSUME ReconciliationInv
    PROVE  /\ sync.pc \in {"send", "wait"} => \A p \in Paths : Seen(wide, disk, p) \in since[Sync][p]
           /\ commit.pc \in {"send", "wait"} => \A p \in Paths : Seen(wide, disk, p) \in since[Commit][p]
  BY Zenon, InvParts DEF ServedInv

\* The types of what no step of this kind changes.
LEMMA SameTypes ==
    ASSUME TypeOK
    PROVE  /\ disk \in [Paths -> Contents] /\ SinceType /\ cancelled \in SUBSET Nat
           /\ stubs \in SUBSET Paths /\ lock \in {None, Sync, Commit} /\ sync \in Syncs
           /\ commit \in CommitCalls /\ queue \in Seq(Inputs) /\ nextId \in Nat
           /\ sync.id \in Nat /\ sync.outcome \in Outcomes /\ sync.outcome.revision \in Nat
           /\ news \in SUBSET (Paths \cup {Settings})
  BY Zenon DEF TypeOK, SinceType, Syncs, Outcomes

\* A step of synchronize that adds nothing to the queue, while the files
\* stand still.
LEMMA SyncKeeps ==
    ASSUME ReconciliationInv, Still, UNCHANGED <<callback, queue, nextId, held, news>>,
           UNCHANGED <<waiting, pending, snapshot, snapshotRevision, maintained, worker>>,
           commit' = commit, since' = since \/ since' = Forget(Sync),
           answers' \subseteq answers, cancelled' \in SUBSET Nat, stubs' \in SUBSET Paths,
           \/ lock' = lock
           \/ lock' = None /\ lock = Sync,
           sync' \in Syncs, sync'.id < nextId, sync'.pc \notin {"send", "wait", "acknowledging"},
           sync'.pc \in {"maintain", "acknowledge"} => HoldsAfter(sync'.outcome),
           sync'.pc = "acknowledge" /\ sync'.fresh => Cached(sync'.outcome, stubs')
    PROVE  ReconciliationInv'
  <1>1. TypeOK /\ CallsInv
    BY Zenon, InvParts
  <1>2. Later
    BY Zenon, <1>1, StillLater
  <1>3. Quietly
    BY Zenon, <1>1, SameQueue
  <1>4. nextId' \in Nat /\ nextId <= nextId' /\ commit.id < nextId'
    BY Zenon, SameNext
  <1>5. CommandsHold /\ queue' \in Seq(Inputs) /\ Queued("rescan")' \subseteq Queued("rescan")
        /\ Queued("acknowledge")' \subseteq Queued("acknowledge")
    BY ZenonT(60), <1>2, <1>3, <1>4, QuietCommands
  <1>6. UNCHANGED <<disk, wide>>
    BY Zenon DEF Still
  <1>7. /\ SinceType'
        /\ commit.pc \in {"send", "wait"} => Remembers(Commit)
    <2>1. CASE since' = since
      <3>1. Noted
        BY ZenonT(60), <1>1, <1>6, <2>1, NothingNoted
      <3> QED BY Zenon, <3>1, Seens DEF Noted
    <2>2. CASE since' = Forget(Sync)
      BY ZenonT(60), <1>1, <1>6, <2>2, ForgetRemembers, Seens, LockedOut
    <2> QED BY Zenon, <2>1, <2>2
  <1>8. CallFrame
    BY ZenonT(60), <1>1, <1>4, <1>5, <1>6, <1>7, SameTypes DEF CallFrame
  <1>9. CallsHold
    <2>1. commit'.pc \in {"send", "wait"} => lock' = Commit
      BY Zenon, LockedOut
    <2> QED BY Zenon, <1>1, <1>4, <2>1 DEF CallsHold, CallsInv
  <1>10. Waits(Sync, sync, sync') /\ Waits(Commit, commit, commit')
    BY Zenon, <1>7 DEF Waits
  <1> QED BY ZenonT(60), <1>2, <1>5, <1>8, <1>9, <1>10, CalmKeeps

LEMMA StartKeeps ==
    ASSUME ReconciliationInv, StartSync, held' = held
    PROVE  ReconciliationInv'
  <1>1. TypeOK
    BY Zenon, InvParts
  <1>2. /\ UNCHANGED <<disk, wide, owed, callback, revision, nextId, exhausted, queue, cancelled,
                       answers, lock, commit, stubs, since>>
        /\ UNCHANGED <<waiting, pending, snapshot, snapshotRevision, maintained, worker, news>>
        /\ sync' = [Idle EXCEPT !.pc = "observe", !.attempts = 1]
    BY Zenon DEF StartSync, envVars, workerVars
  <1>3. sync' \in Syncs /\ sync'.pc = "observe" /\ sync'.id = 0
    <2>1. 1 \in Nat
      BY SMTT(60)
    <2> QED BY Zenon, <1>2, <2>1, IdleType DEF Syncs
  <1>4. sync'.id < nextId
    BY Zenon, <1>2, <1>3, SameNext
  <1>5. Still
    BY Zenon, <1>2 DEF Still
  <1> QED BY ZenonT(60), <1>1, <1>2, <1>3, <1>4, <1>5, SameTypes, SyncKeeps

\* What a caller takes is an answer, and its mutex is free.
LEMMA Takes ==
    ASSUME TypeOK, NEW id, NEW a, Take(id, a)
    PROVE  /\ a \in answers /\ a.id = id /\ a \in Answers /\ a.outcome \in Outcomes
           /\ answers' \subseteq answers /\ lock' = None
           /\ UNCHANGED <<disk, wide, callback, revision, nextId, exhausted, queue, cancelled, stubs>>
           /\ UNCHANGED <<waiting, pending, snapshot, snapshotRevision, maintained, worker>>
  <1>1. a \in answers /\ a.id = id /\ answers' \subseteq answers /\ lock' = None
    BY Zenon DEF Take
  <1>2. a \in Answers /\ a.outcome \in Outcomes
    BY Zenon, <1>1 DEF TypeOK, Answers
  <1> QED BY Zenon, <1>1, <1>2 DEF Take

LEMMA ObservedKeeps ==
    ASSUME ReconciliationInv, NEW a, Observed(a), held' = held
    PROVE  ReconciliationInv'
  <1>1. TypeOK /\ ObservedInv
    BY Zenon, InvParts
  <1>2. /\ sync.pc = "wait" /\ Take(sync.id, a) /\ UNCHANGED <<owed, commit, news>> /\ since' = Forget(Sync)
    BY Zenon DEF Observed
  <1>3. /\ a \in answers /\ a.id = sync.id /\ a.outcome \in Outcomes
        /\ answers' \subseteq answers /\ lock' = None
        /\ UNCHANGED <<disk, wide, callback, revision, nextId, exhausted, queue, cancelled, stubs>>
        /\ UNCHANGED <<waiting, pending, snapshot, snapshotRevision, maintained, worker>>
    BY Zenon, <1>1, <1>2, Takes
  <1>4. lock = Sync
    BY Zenon, <1>2, LockedOut
  <1>5. Still
    BY Zenon, <1>2, <1>3 DEF Still
  <1>6. CASE a.kind = "observed"
    <2>1. sync' = [sync EXCEPT !.pc = "maintain", !.outcome = a.outcome]
      BY Zenon, <1>6 DEF Observed
    <2>2. sync' \in Syncs /\ sync'.pc = "maintain" /\ sync'.outcome = a.outcome /\ sync'.id = sync.id
      BY Zenon, <1>3, <2>1, <1>1, SameTypes DEF Syncs
    <2>3. Holds(a.outcome)
      BY Zenon, <1>1, <1>2, <1>3, <1>6 DEF ObservedInv
    <2>4. HoldsAfter(sync'.outcome)
      BY Zenon, <1>2, <1>3, <2>2, <2>3 DEF Holds, HoldsAfter
    <2>5. sync'.id < nextId
      BY Zenon, <1>3, <2>2, SameNext
    <2> QED BY ZenonT(60), <1>1, <1>2, <1>3, <1>4, <1>5, <2>2, <2>4, <2>5, SameTypes, SyncKeeps
  <1>7. CASE a.kind # "observed"
    <2>1. sync' = Idle
      BY Zenon, <1>7 DEF Observed
    <2>2. sync' \in Syncs /\ sync'.pc = "idle" /\ sync'.id < nextId
      BY Zenon, <1>3, <2>1, IdleType, SameNext
    <2> QED BY ZenonT(60), <1>1, <1>2, <1>3, <1>4, <1>5, <2>2, SameTypes, SyncKeeps
  <1> QED BY Zenon, <1>6, <1>7

LEMMA Echoes ==
    ASSUME Echo \/ UNCHANGED <<owed, budget>>
    PROVE  owed \subseteq owed'
  BY Zenon DEF Echo

LEMMA SealType ==
    ASSUME NEW o \in Outcomes
    PROVE  [rows |-> Rows(o), revision |-> o.revision, exists |-> TRUE] \in Seals
  <1> DEFINE d == o.invalid \cup o.removed
  <1>1. d \in SUBSET Paths /\ o.revision \in Nat
    BY Zenon DEF Outcomes
  <1>2. Rows(o) \in [d -> {Bad, Absent}]
    BY Zenon DEF Rows
  <1> HIDE DEF d
  <1>3. Rows(o) \in UNION {[e -> {Bad, Absent}] : e \in SUBSET Paths}
    BY Zenon, <1>1, <1>2
  <1> QED BY Zenon, <1>1, <1>3 DEF Seals

\* Rows that agree with the cache, or none, leave nothing to do.
LEMMA AgreesCached ==
    ASSUME NEW o \in Outcomes, CacheAgrees(Rows(o)), stubs' = stubs
    PROVE  Cached(o, stubs')
  <1>1. DOMAIN Rows(o) = o.invalid \cup o.removed
    BY Zenon DEF Rows
  <1>2. ASSUME NEW p \in o.invalid PROVE p \in stubs
    <2>1. Rows(o)[p] = Bad
      BY Zenon, <1>2 DEF Rows
    <2> QED BY Zenon, <1>1, <1>2, <2>1 DEF CacheAgrees
  <1>3. ASSUME NEW p \in o.removed PROVE p \notin stubs
    <2>1. p \notin o.invalid
      BY Zenon, <1>3 DEF Outcomes
    <2>2. Rows(o)[p] = Absent
      BY Zenon, <1>3, <2>1 DEF Rows
    <2> QED BY Zenon, <1>1, <1>3, <2>2, WatcherAssumption DEF CacheAgrees
  <1> QED BY Zenon, <1>2, <1>3 DEF Cached

LEMMA NoRowsCached ==
    ASSUME NEW o, Rows(o) = << >>, NEW rows
    PROVE  Cached(o, rows)
  <1>1. DOMAIN Rows(o) = {}
    BY SMTT(60)
  <1>2. DOMAIN Rows(o) = o.invalid \cup o.removed
    BY Zenon DEF Rows
  <1> QED BY Zenon, <1>1, <1>2 DEF Cached

\* The maintenance of the cache ends in an acknowledgement of the same
\* observation, or in a new attempt.
LEMMA Maintains ==
    ASSUME TypeOK, Maintain
    PROVE  /\ sync' \in Syncs /\ stubs' \in SUBSET Paths /\ owed \subseteq owed'
           /\ \/ /\ sync'.pc = "acknowledge" /\ sync'.id = sync.id /\ sync'.outcome = sync.outcome
                 /\ Cached(sync.outcome, stubs')
              \/ sync'.pc \in {"observe", "idle"} /\ sync'.id = 0
  <1> DEFINE rows == Rows(sync.outcome)
             seal == [rows |-> rows, revision |-> sync.outcome.revision, exists |-> TRUE]
             renewed == [sync EXCEPT !.seal = seal]
             clear == [sync EXCEPT !.seal = NoSeal]
             validated == [sync EXCEPT !.seal = NoSeal, !.validated = TRUE]
  <1>1. sync \in Syncs /\ sync.outcome \in Outcomes /\ stubs \in SUBSET Paths
    BY Zenon, SameTypes
  <1>2. seal \in Seals
    BY Zenon, <1>1, SealType
  <1> HIDE DEF seal
  <1>3. ASSUME NEW s \in {renewed, clear, validated}
        PROVE  s \in Syncs /\ s.id = sync.id /\ s.outcome = sync.outcome
    BY ZenonT(60), <1>1, <1>2, NoSealType DEF Syncs
  <1>4. ASSUME NEW s \in Syncs
        PROVE  LET t == [s EXCEPT !.pc = "acknowledge"]
               IN  t \in Syncs /\ t.pc = "acknowledge" /\ t.id = s.id /\ t.outcome = s.outcome
    BY Zenon DEF Syncs
  <1>5. /\ \/ /\ \E s \in {renewed, clear, validated} : sync' = [s EXCEPT !.pc = "acknowledge"]
              /\ Cached(sync.outcome, stubs')
           \/ sync' = [Retry EXCEPT !.seal = NoSeal]
        /\ stubs' = stubs \/ stubs' = apply_invalid_maintenance(sync.outcome)
        /\ Echo \/ UNCHANGED <<owed, budget>>
    <2>1. CASE sync.fresh /\ SealIsValid
      <3>1. sync' = [validated EXCEPT !.pc = "acknowledge"] /\ UNCHANGED <<stubs, owed, budget>>
        BY Zenon, <2>1 DEF Maintain
      <3>2. Cached(sync.outcome, stubs')
        BY Zenon, <1>1, <2>1, <3>1, AgreesCached DEF SealIsValid
      <3> HIDE DEF validated
      <3> QED BY Zenon, <3>1, <3>2
    <2>2. CASE ~(sync.fresh /\ SealIsValid) /\ (exhausted \/ ~sync.fresh \/ ~DiskAgrees(rows))
      <3>1. sync' = [Retry EXCEPT !.seal = NoSeal] /\ UNCHANGED <<stubs, owed, budget>>
        BY Zenon, <2>2 DEF Maintain
      <3> QED BY Zenon, <3>1
    <2>3. CASE /\ ~(sync.fresh /\ SealIsValid) /\ ~(exhausted \/ ~sync.fresh \/ ~DiskAgrees(rows))
               /\ rows = << >>
      <3>1. sync' = [clear EXCEPT !.pc = "acknowledge"] /\ UNCHANGED <<stubs, owed, budget>>
        BY Zenon, <2>3 DEF Maintain
      <3>2. Cached(sync.outcome, stubs')
        BY Zenon, <2>3, NoRowsCached
      <3> HIDE DEF clear
      <3> QED BY Zenon, <3>1, <3>2
    <2>4. CASE /\ ~(sync.fresh /\ SealIsValid) /\ ~(exhausted \/ ~sync.fresh \/ ~DiskAgrees(rows))
               /\ rows # << >>
      <3>1. /\ sync' = [renewed EXCEPT !.pc = "acknowledge"] /\ Echo
            /\ stubs' = apply_invalid_maintenance(sync.outcome)
        BY Zenon, <2>4 DEF Maintain, seal
      <3>2. Cached(sync.outcome, stubs')
        BY Zenon, <1>1, <3>1 DEF Cached, apply_invalid_maintenance, Outcomes
      <3> HIDE DEF renewed
      <3> QED BY Zenon, <3>1, <3>2
    <2> QED BY Zenon, <2>1, <2>2, <2>3, <2>4
  <1>6. stubs' \in SUBSET Paths
    BY Zenon, <1>1, <1>5 DEF apply_invalid_maintenance, Outcomes
  <1> HIDE DEF renewed, clear, validated
  <1>7. CASE /\ \E s \in {renewed, clear, validated} : sync' = [s EXCEPT !.pc = "acknowledge"]
             /\ Cached(sync.outcome, stubs')
    <2>1. PICK s \in {renewed, clear, validated} : sync' = [s EXCEPT !.pc = "acknowledge"]
      BY Zenon, <1>7
    <2>2. s \in Syncs /\ s.id = sync.id /\ s.outcome = sync.outcome
      BY Zenon, <1>3, <2>1
    <2> QED BY ZenonT(60), <1>4, <1>5, <1>6, <1>7, <2>1, <2>2, Echoes
  <1>8. CASE sync' = [Retry EXCEPT !.seal = NoSeal]
    BY Zenon, <1>5, <1>6, <1>8, RetryType, Echoes
  <1> QED BY Zenon, <1>5, <1>7, <1>8

LEMMA MaintainKeeps ==
    ASSUME ReconciliationInv, Maintain, held' = held
    PROVE  ReconciliationInv'
  <1>1. TypeOK /\ ObservedInv
    BY Zenon, InvParts
  <1>2. /\ sync.pc = "maintain"
        /\ UNCHANGED <<disk, wide, callback, revision, nextId, exhausted, queue, cancelled, answers,
                       lock, commit, since>>
        /\ UNCHANGED <<waiting, pending, snapshot, snapshotRevision, maintained, worker, news>>
    BY Zenon DEF Maintain, workerVars
  <1>3. /\ sync' \in Syncs /\ stubs' \in SUBSET Paths /\ owed \subseteq owed'
        /\ \/ /\ sync'.pc = "acknowledge" /\ sync'.id = sync.id /\ sync'.outcome = sync.outcome
              /\ Cached(sync.outcome, stubs')
           \/ sync'.pc \in {"observe", "idle"} /\ sync'.id = 0
    BY Zenon, <1>1, Maintains
  <1>4. Still /\ Later
    BY Zenon, <1>1, <1>2, <1>3, StillLater DEF Still
  <1>5. HoldsAfter(sync.outcome)
    BY Zenon, <1>1, <1>2, <1>4, SameTypes, HoldsOn DEF ObservedInv
  <1>6. sync'.id < nextId /\ (sync'.pc \in {"maintain", "acknowledge"} => HoldsAfter(sync'.outcome))
    BY Zenon, <1>2, <1>3, <1>5, SameNext
  <1>7. /\ sync'.pc \notin {"send", "wait", "acknowledging"}
        /\ sync'.pc = "acknowledge" => Cached(sync'.outcome, stubs')
    BY Zenon, <1>3
  <1> QED BY ZenonT(60), <1>1, <1>2, <1>3, <1>4, <1>6, <1>7, SameTypes, SyncKeeps

LEMMA AcknowledgedKeeps ==
    ASSUME ReconciliationInv, NEW a, Acknowledged(a), held' = held
    PROVE  ReconciliationInv'
  <1>1. TypeOK
    BY Zenon, InvParts
  <1>2. /\ sync.pc = "acknowledging" /\ Take(sync.id, a) /\ UNCHANGED <<commit, since, news>>
        /\ Echo \/ UNCHANGED <<owed, budget>>
    BY Zenon DEF Acknowledged
  <1>3. /\ answers' \subseteq answers /\ lock' = None
        /\ UNCHANGED <<disk, wide, callback, revision, nextId, exhausted, queue, cancelled, stubs>>
        /\ UNCHANGED <<waiting, pending, snapshot, snapshotRevision, maintained, worker>>
    BY Zenon, <1>1, <1>2, Takes
  <1>4. lock = Sync
    BY Zenon, <1>2, LockedOut
  <1>5. Still
    BY Zenon, <1>2, <1>3, Echoes DEF Still
  <1>6. sync' = Idle \/ sync' = Retry
    <2>1. CASE a.kind = "acknowledged"
      BY Zenon, <2>1 DEF Acknowledged
    <2>2. CASE a.kind = "refused"
      BY Zenon, <2>2 DEF Acknowledged
    <2>3. CASE a.kind \notin {"acknowledged", "refused"}
      BY Zenon, <2>3 DEF Acknowledged
    <2> QED BY Zenon, <2>1, <2>2, <2>3
  <1>7. sync' \in Syncs /\ sync'.pc \in {"observe", "idle"} /\ sync'.id < nextId
    BY ZenonT(60), <1>1, <1>3, <1>6, IdleType, RetryType, SameNext
  <1>8. sync'.pc \notin {"send", "wait", "acknowledging", "maintain", "acknowledge"}
    BY Zenon, <1>7
  <1> QED BY ZenonT(60), <1>1, <1>2, <1>3, <1>4, <1>5, <1>7, <1>8, SameTypes, SyncKeeps

\* A command joins the queue.
LEMMA CommandJoins ==
    ASSUME ReconciliationInv, Later, nextId' = nextId, NEW x \in Inputs, queue' = Append(queue, x),
           x.kind \in {"rescan", "cancel", "acknowledge"}, x.id < nextId,
           x.kind = "acknowledge" => HoldsAfter(x.outcome)
    PROVE  /\ CommandsHold /\ queue' \in Seq(Inputs)
           /\ \A kind : \A q \in Queued(kind)' : q \in Queued(kind) \/ (q = x /\ x.kind = kind)
  <1>1. TypeOK /\ CallsInv /\ ObservedInv
    BY Zenon, InvParts
  <1>2. /\ queue' \in Seq(Inputs)
        /\ \A kind : \A q \in Queued(kind)' : q \in Queued(kind) \/ (q = x /\ x.kind = kind)
    BY Zenon, <1>1, InputJoins DEF TypeOK
  <1>3. ASSUME NEW kind \in {"rescan", "cancel", "acknowledge"}, NEW q \in Queued(kind)'
        PROVE  q.id < nextId'
    <2>1. q \in Queued(kind) => q.id < nextId
      BY Zenon, <1>1, <1>3 DEF CallsInv
    <2>2. q \in Queued(kind) \/ q = x
      BY Zenon, <1>2, <1>3
    <2> QED BY SMTT(60), <2>1, <2>2
  <1>4. ASSUME NEW q \in Queued("acknowledge")' PROVE HoldsAfter(q.outcome)
    <2>1. q \in Queued("acknowledge") \/ (q = x /\ x.kind = "acknowledge")
      BY Zenon, <1>2, <1>4
    <2>2. CASE q \in Queued("acknowledge")
      BY Zenon, <1>1, <2>2, AcksHold
    <2>3. CASE q = x /\ x.kind = "acknowledge"
      BY Zenon, <2>3
    <2> QED BY Zenon, <2>1, <2>2, <2>3
  <1>5. /\ \A q \in Queued("rescan")' \cup Queued("cancel")' : q.id < nextId'
        /\ \A q \in Queued("acknowledge")' : q.id < nextId'
    BY Zenon, <1>3
  <1> QED BY Zenon, <1>2, <1>4, <1>5 DEF CommandsHold

LEMMA CommandFields ==
    /\ \A id, scope : Rescan(id, scope).id = id /\ Rescan(id, scope).scope = scope
    /\ \A id : CancelRescan(id).id = id
    /\ \A id, o : Acknowledge(id, o).id = id /\ Acknowledge(id, o).outcome = o
  BY Zenon DEF Rescan, CancelRescan, Acknowledge

LEMMA EnqueueFrame ==
    ASSUME NEW x, Enqueue(x)
    PROVE  /\ queue' = Append(queue, x)
           /\ UNCHANGED <<disk, wide, owed, callback, revision, nextId, exhausted, stubs>>
           /\ UNCHANGED <<waiting, pending, snapshot, snapshotRevision, maintained, worker, news>>
  BY Zenon DEF Enqueue, envVars, workerVars

LEMMA SendAcknowledgeKeeps ==
    ASSUME ReconciliationInv, SendAcknowledge, held' = held
    PROVE  ReconciliationInv'
  <1>1. TypeOK /\ ObservedInv /\ CallsInv
    BY Zenon, InvParts
  <1>2. sync.pc = "acknowledge" /\ lock = None /\ UNCHANGED <<cancelled, answers, commit, since>>
    BY Zenon DEF SendAcknowledge
  <1>3. CASE exhausted
    <2>1. /\ sync' = Idle
          /\ UNCHANGED <<disk, wide, owed, callback, revision, nextId, exhausted, queue, stubs, lock>>
          /\ UNCHANGED <<waiting, pending, snapshot, snapshotRevision, maintained, worker, news>>
      BY Zenon, <1>3 DEF SendAcknowledge, envVars, workerVars
    <2>2. Still
      BY Zenon, <2>1 DEF Still
    <2>3. sync' \in Syncs /\ sync'.pc = "idle" /\ sync'.id < nextId
      BY Zenon, <2>1, IdleType, SameNext
    <2> QED BY ZenonT(60), <1>1, <1>2, <2>1, <2>2, <2>3, SameTypes, SyncKeeps
  <1>4. CASE ~exhausted
    <2> DEFINE x == Acknowledge(sync.id, sync.outcome)
    <2>0. sync' = [sync EXCEPT !.pc = "acknowledging"] /\ lock' = Sync /\ Enqueue(x)
      BY Zenon, <1>4 DEF SendAcknowledge
    <2>1. /\ sync' = [sync EXCEPT !.pc = "acknowledging"] /\ lock' = Sync
          /\ queue' = Append(queue, x)
          /\ UNCHANGED <<disk, wide, owed, callback, revision, nextId, exhausted, stubs>>
          /\ UNCHANGED <<waiting, pending, snapshot, snapshotRevision, maintained, worker, news>>
      BY Zenon, <2>0, EnqueueFrame
    <2>2. Still /\ Later
      BY Zenon, <1>1, <2>1, StillLater DEF Still
    <2>3. sync' \in Syncs /\ sync'.pc = "acknowledging" /\ sync'.id = sync.id
      BY Zenon, <1>1, <2>1, SameTypes DEF Syncs
    <2>4. HoldsAfter(sync.outcome)
      BY Zenon, <1>1, <1>2, <2>2, SameTypes, HoldsOn DEF ObservedInv
    <2>5. /\ x \in Inputs /\ x.kind = "acknowledge" /\ x.id = sync.id /\ x.outcome = sync.outcome
      <3>1. sync.id \in Nat /\ sync.outcome \in Outcomes
        BY Zenon, <1>1, SameTypes
      <3>2. x \in Inputs /\ x.kind = "acknowledge"
        BY Zenon, <3>1, InputKinds
      <3>3. x.id = sync.id /\ x.outcome = sync.outcome
        BY ZenonT(60), CommandFields
      <3> QED BY Zenon, <3>2, <3>3
    <2> HIDE DEF x
    <2>6. x.id < nextId /\ nextId' \in Nat /\ nextId <= nextId' /\ sync.id < nextId' /\ commit.id < nextId'
      BY Zenon, <2>1, <2>5, SameNext
    <2>7. /\ CommandsHold /\ queue' \in Seq(Inputs)
          /\ \A kind : \A q \in Queued(kind)' : q \in Queued(kind) \/ (q = x /\ x.kind = kind)
      BY Zenon, <2>1, <2>2, <2>4, <2>5, <2>6, CommandJoins
    <2>8. Queued("rescan")' \subseteq Queued("rescan")
      BY Zenon, <2>5, <2>7
    <2>9. CallFrame
      <3>1. SinceType' /\ disk' \in [Paths -> Contents] /\ cancelled' \in SUBSET Nat /\ stubs' \in SUBSET Paths
            /\ commit' \in CommitCalls /\ news' \in SUBSET (Paths \cup {Settings})
        BY Zenon, <1>1, <1>2, <2>1, SameTypes DEF SinceType
      <3> QED BY ZenonT(60), <1>2, <2>1, <2>3, <2>6, <2>7, <3>1 DEF CallFrame
    <2>10. commit'.pc \notin {"send", "wait"} /\ sync'.pc \notin {"send", "wait", "maintain"}
           /\ sync'.pc # "acknowledge"
      BY Zenon, <1>2, <2>3, LockedOut
    <2>11. CallsHold
      <3>1. sync'.fresh = sync.fresh /\ sync'.outcome = sync.outcome
        BY Zenon, <1>1, <2>1, SameTypes DEF Syncs
      <3>2. sync'.fresh => Cached(sync'.outcome, stubs')
        BY ZenonT(60), <1>2, <2>1, <3>1, InvParts DEF CachedInv
      <3> QED BY ZenonT(60), <1>1, <1>2, <2>1, <2>3, <2>6, <2>10, <3>2 DEF CallsHold, CallsInv
    <2>12. Waits(Sync, sync, sync') /\ Waits(Commit, commit, commit')
      BY Zenon, <2>10 DEF Waits
    <2>13. sync'.pc \notin {"send", "wait"} /\ commit'.pc \notin {"send", "wait"}
      BY Zenon, <2>10
    <2> QED BY ZenonT(60), <2>2, <2>7, <2>8, <2>9, <2>10, <2>11, <2>12, <2>13, CalmKeeps
  <1> QED BY Zenon, <1>3, <1>4

LEMMA TimeoutKeeps ==
    ASSUME ReconciliationInv, Timeout, held' = held
    PROVE  ReconciliationInv'
  <1> DEFINE asked == sync.pc \in {"wait", "acknowledging"}
  <1>1. TypeOK /\ CallsInv
    BY Zenon, InvParts
  <1>2. /\ sync' = Idle /\ since' = Forget(Sync)
        /\ UNCHANGED <<disk, wide, owed, callback, revision, nextId, exhausted, commit, stubs>>
        /\ UNCHANGED <<waiting, pending, snapshot, snapshotRevision, maintained, worker, news>>
        /\ cancelled' = (IF asked THEN cancelled \cup {sync.id} ELSE cancelled)
        /\ answers' \subseteq answers
        /\ lock' = (IF asked THEN None ELSE lock)
    BY Zenon DEF Timeout, workerVars
  <1>3. Still /\ Later
    BY Zenon, <1>1, <1>2, StillLater DEF Still
  <1>4. sync' \in Syncs /\ sync'.pc = "idle" /\ sync'.id = 0
    BY Zenon, <1>2, IdleType
  <1>5. /\ cancelled' \in SUBSET Nat
        /\ lock' = lock \/ (lock' = None /\ lock = Sync)
    <2>1. CASE asked
      <3>1. lock = Sync
        BY Zenon, <2>1, LockedOut
      <3> QED BY ZenonT(60), <1>1, <1>2, <2>1, <3>1, SameTypes
    <2>2. CASE ~asked
      BY ZenonT(60), <1>1, <1>2, <2>2, SameTypes
    <2> QED BY Zenon, <2>1, <2>2
  <1> HIDE DEF asked
  <1>6. nextId' \in Nat /\ nextId <= nextId' /\ sync'.id < nextId' /\ commit.id < nextId' /\ sync.id < nextId
        /\ sync'.id < nextId
    BY Zenon, <1>2, <1>4, SameNext
  <1>7. CASE sync.pc # "wait"
    <2>1. queue' = queue
      BY Zenon, <1>7 DEF Timeout
    <2>2. sync'.pc \notin {"send", "wait", "acknowledging", "maintain", "acknowledge"}
      BY Zenon, <1>4
    <2> QED BY ZenonT(60), <1>1, <1>2, <1>3, <1>4, <1>5, <1>6, <2>1, <2>2, SameTypes, SyncKeeps
  <1>8. CASE sync.pc = "wait"
    <2> DEFINE x == CancelRescan(sync.id)
    <2>1. queue' = Append(queue, x)
      BY Zenon, <1>8 DEF Timeout
    <2>2. x \in Inputs /\ x.kind = "cancel" /\ x.id = sync.id
      BY ZenonT(60), <1>1, InputKinds, CommandFields, SameTypes
    <2> HIDE DEF x
    <2>3. x.id < nextId /\ x.kind # "acknowledge" /\ x.kind # "rescan"
      BY Zenon, <1>6, <2>2
    <2>4. /\ CommandsHold /\ queue' \in Seq(Inputs)
          /\ \A kind : \A q \in Queued(kind)' : q \in Queued(kind) \/ (q = x /\ x.kind = kind)
      BY ZenonT(60), <1>2, <1>3, <2>1, <2>2, <2>3, CommandJoins
    <2>5. Queued("rescan")' \subseteq Queued("rescan") /\ Queued("acknowledge")' \subseteq Queued("acknowledge")
      BY Zenon, <2>3, <2>4
    <2>6. commit.pc \notin {"send", "wait"}
      BY Zenon, <1>8, LockedOut
    <2>7. SinceType'
      BY Zenon, <1>1, <1>2, ForgetRemembers
    <2>8. CallFrame
      <3>1. disk' \in [Paths -> Contents] /\ stubs' \in SUBSET Paths /\ commit' \in CommitCalls
            /\ lock' \in {None, Sync, Commit} /\ news' \in SUBSET (Paths \cup {Settings})
        BY ZenonT(60), <1>1, <1>2, <1>5, SameTypes
      <3> QED BY ZenonT(60), <1>2, <1>4, <1>5, <1>6, <2>4, <2>7, <3>1 DEF CallFrame
    <2>9. sync'.pc \notin {"send", "wait", "acknowledging", "maintain", "acknowledge"}
      BY Zenon, <1>4
    <2>10. CallsHold
      BY ZenonT(60), <1>1, <1>2, <1>6, <2>6, <2>9 DEF CallsHold, CallsInv
    <2>11. Waits(Sync, sync, sync') /\ Waits(Commit, commit, commit')
      BY Zenon, <1>2, <2>6, <2>9 DEF Waits
    <2> QED BY ZenonT(60), <1>2, <1>3, <2>4, <2>5, <2>6, <2>8, <2>10, <2>11, CalmKeeps
  <1> QED BY Zenon, <1>7, <1>8

\* A new generation of the cache, by a commit or by an event: the call of
\* synchronize waits on, and finds out later.
LEMMA GenerationKeeps ==
    ASSUME ReconciliationInv, Later, Noted, UNCHANGED <<callback, queue, nextId, held, wide>>,
           UNCHANGED <<waiting, pending, snapshot, snapshotRevision, maintained, worker>>,
           UNCHANGED <<cancelled, answers, lock>>, news' \in SUBSET (Paths \cup {Settings}),
           stubs' \in SUBSET Paths, sync' = NewGeneration, commit.pc = "none",
           commit' \in CommitCalls, commit'.pc \in {"none", "lock"}, commit'.id < nextId,
           commit'.pc # "none" => commit'.path \in Paths
    PROVE  ReconciliationInv'
  <1>1. TypeOK /\ CallsInv /\ ObservedInv
    BY Zenon, InvParts
  <1>2. /\ sync' \in Syncs /\ sync'.pc = sync.pc /\ sync'.id = sync.id
        /\ sync'.outcome = sync.outcome /\ ~sync'.fresh
    BY Zenon, <1>1, GenerationType
  <1>3. nextId' \in Nat /\ nextId <= nextId' /\ sync'.id < nextId' /\ commit'.id < nextId'
    BY Zenon, <1>2, SameNext
  <1>4. Quietly
    BY Zenon, <1>1, SameQueue
  <1>5. CommandsHold /\ queue' \in Seq(Inputs) /\ Queued("rescan")' \subseteq Queued("rescan")
        /\ Queued("acknowledge")' \subseteq Queued("acknowledge")
    BY Zenon, <1>3, <1>4, QuietCommands
  <1>6. CallFrame
    BY ZenonT(60), <1>1, <1>2, <1>3, <1>5, SameTypes DEF CallFrame, Noted
  <1>7. sync'.pc \in {"maintain", "acknowledge"} => HoldsAfter(sync'.outcome)
    BY ZenonT(60), <1>1, <1>2, SameTypes, HoldsOn DEF ObservedInv
  <1>8. commit'.pc \notin {"send", "wait"}
    BY Zenon
  <1>9. CallsHold
    BY ZenonT(60), <1>1, <1>2, <1>3, <1>7, <1>8 DEF CallsHold, CallsInv
  <1>10. Waits(Sync, sync, sync') /\ Waits(Commit, commit, commit')
    BY Zenon, <1>2, <1>8, Seens DEF Waits, Noted
  <1> QED BY ZenonT(60), <1>5, <1>6, <1>8, <1>9, <1>10, CalmKeeps

LEMMA IngestKeeps ==
    ASSUME ReconciliationInv, NEW h \in news, Ingest(h), held' = held
    PROVE  ReconciliationInv'
  <1>1. TypeOK /\ CallsInv
    BY Zenon, InvParts
  <1>2. /\ sync' = NewGeneration /\ commit.pc = "none" /\ news' = news \ {h}
        /\ UNCHANGED <<disk, wide, owed, callback, revision, nextId, exhausted, queue, cancelled,
                       answers, lock, commit, since>>
        /\ UNCHANGED <<waiting, pending, snapshot, snapshotRevision, maintained, worker>>
    BY Zenon DEF Ingest, envVars
  <1>3. stubs' \in SUBSET Paths
    <2> DEFINE renewed == IF h = Settings THEN Paths ELSE {h}
    <2>1. stubs' = (stubs \ renewed) \cup {p \in renewed : Seen(wide, disk, p) = Bad}
      BY Zenon DEF Ingest
    <2>2. renewed \subseteq Paths
      BY Zenon, <1>1 DEF TypeOK
    <2> HIDE DEF renewed
    <2> QED BY Zenon, <1>1, <2>1, <2>2, SameTypes
  <1>4. news' \in SUBSET (Paths \cup {Settings})
    BY Zenon, <1>1, <1>2, SameTypes
  <1>5. Later /\ Noted
    BY Zenon, <1>1, <1>2, StillLater, NothingNoted DEF Still
  <1>6. commit' \in CommitCalls /\ commit'.pc = "none" /\ commit'.id < nextId
    BY Zenon, <1>1, <1>2, SameTypes DEF CallsInv
  <1> QED BY ZenonT(60), <1>2, <1>3, <1>4, <1>5, <1>6, GenerationKeeps

LEMMA BeginCommitKeeps ==
    ASSUME ReconciliationInv, NEW p \in Paths, NEW c \in Versions \cup {Absent}, BeginCommit(p, c),
           held' = held
    PROVE  ReconciliationInv'
  <1>1. TypeOK
    BY Zenon, InvParts
  <1>2. /\ sync' = NewGeneration /\ commit.pc = "none" /\ stubs' = stubs \ {p}
        /\ disk' = [disk EXCEPT ![p] = c] /\ wide' = wide /\ owed' = owed \cup {p}
        /\ since' = Note(since)
        /\ UNCHANGED <<callback, revision, nextId, exhausted, queue, cancelled, answers, lock>>
        /\ UNCHANGED <<waiting, pending, snapshot, snapshotRevision, maintained, worker, news>>
    BY Zenon DEF BeginCommit, workerVars
  <1>3. c \in Contents
    BY Zenon DEF Contents
  <1>4. Later /\ Noted
    BY Zenon, <1>1, <1>2, <1>3, FileWritten
  <1>5. /\ commit' \in CommitCalls /\ commit'.pc = "lock" /\ commit'.id = 0 /\ commit'.path = p
    <2>1. commit' = [NoCommit EXCEPT !.pc = "lock", !.path = p, !.content = c, !.known = p \notin news]
      BY Zenon DEF BeginCommit
    <2> QED BY Zenon, <1>3, <2>1, NoCommitType DEF CommitCalls
  <1>6. commit'.id < nextId /\ stubs' \in SUBSET Paths /\ news' \in SUBSET (Paths \cup {Settings})
    BY ZenonT(60), <1>1, <1>2, <1>5, SameNext, SameTypes
  <1> QED BY Zenon, <1>2, <1>4, <1>5, <1>6, GenerationKeeps

\* The commit has its answer.
LEMMA EndCommitKeeps ==
    ASSUME ReconciliationInv, NEW a, EndCommit(a), held' = held
    PROVE  ReconciliationInv'
  <1>1. TypeOK /\ CallsInv /\ ObservedInv
    BY Zenon, InvParts
  <1>2. /\ commit.pc = "wait" /\ Take(commit.id, a) /\ UNCHANGED <<owed, sync>>
        /\ commit' = NoCommit /\ since' = Forget(Commit) /\ news' \subseteq news
    BY Zenon DEF EndCommit
  <1>3. /\ answers' \subseteq answers /\ lock' = None
        /\ UNCHANGED <<disk, wide, callback, revision, nextId, exhausted, queue, cancelled, stubs>>
        /\ UNCHANGED <<waiting, pending, snapshot, snapshotRevision, maintained, worker>>
    BY Zenon, <1>1, <1>2, Takes
  <1>4. sync.pc \notin {"send", "wait", "acknowledging"}
    BY Zenon, <1>2, LockedOut
  <1>5. Still /\ Later
    BY Zenon, <1>1, <1>2, <1>3, StillLater DEF Still
  <1>6. commit' \in CommitCalls /\ commit'.pc = "none" /\ commit'.id = 0
    BY Zenon, <1>2, NoCommitType
  <1>7. nextId' \in Nat /\ nextId <= nextId' /\ sync'.id < nextId' /\ commit'.id < nextId'
    BY ZenonT(60), <1>2, <1>3, <1>6, SameNext
  <1>8. CommandsHold /\ queue' \in Seq(Inputs) /\ Queued("rescan")' \subseteq Queued("rescan")
        /\ Queued("acknowledge")' \subseteq Queued("acknowledge")
    BY ZenonT(60), <1>1, <1>3, <1>5, <1>7, SameQueue, QuietCommands
  <1>9. SinceType'
    BY Zenon, <1>1, <1>2, <1>3, ForgetRemembers
  <1>10. CallFrame
    <2>1. /\ disk' \in [Paths -> Contents] /\ cancelled' \in SUBSET Nat /\ stubs' \in SUBSET Paths
          /\ sync' \in Syncs /\ news' \in SUBSET (Paths \cup {Settings})
      BY Zenon, <1>1, <1>2, <1>3, SameTypes
    <2> QED BY ZenonT(60), <1>2, <1>3, <1>6, <1>7, <1>8, <1>9, <2>1 DEF CallFrame
  <1>11. sync'.pc \in {"maintain", "acknowledge"} => HoldsAfter(sync'.outcome)
    BY ZenonT(60), <1>1, <1>2, <1>5, SameTypes, HoldsOn DEF ObservedInv
  <1>12. commit'.pc \notin {"send", "wait"} /\ sync'.pc \notin {"send", "wait", "acknowledging"}
    BY ZenonT(60), <1>2, <1>4, <1>6
  <1>13. CallsHold
    <2>1. sync'.pc \in {"acknowledge", "acknowledging"} /\ sync'.fresh => Cached(sync'.outcome, stubs')
      BY ZenonT(60), <1>2, <1>3, InvParts DEF CachedInv
    <2> QED BY ZenonT(60), <1>6, <1>7, <1>11, <1>12, <2>1 DEF CallsHold
  <1>14. Waits(Sync, sync, sync') /\ Waits(Commit, commit, commit')
    BY Zenon, <1>12 DEF Waits
  <1> QED BY ZenonT(60), <1>5, <1>8, <1>10, <1>12, <1>13, <1>14, CalmKeeps

\* A slot, an identifier and a revision, or a refusal.
LEMMA Requests ==
    ASSUME ReconciliationInv, NEW c, Request(c)
    PROVE  /\ Quietly /\ Later /\ nextId' \in Nat /\ nextId <= nextId' /\ lock = None
           /\ sync.id < nextId' /\ commit.id < nextId' /\ 0 < nextId'
           /\ Enqueues => lock' = c /\ nextId < nextId'
           /\ ~Enqueues => lock' = None
           /\ UNCHANGED <<disk, wide, owed, callback, cancelled, answers, stubs>>
           /\ UNCHANGED <<waiting, pending, snapshot, snapshotRevision, maintained, worker, news>>
  <1>1. TypeOK /\ CallsInv
    BY Zenon, InvParts
  <1>2. /\ lock = None /\ enqueue_reserved /\ lock' = (IF Enqueues THEN c ELSE lock)
        /\ UNCHANGED <<disk, wide, owed, callback, cancelled, answers, stubs>>
        /\ UNCHANGED <<waiting, pending, snapshot, snapshotRevision, maintained, worker, news>>
    BY Zenon DEF Request, envVars, workerVars
  <1>3. Quietly /\ Later /\ (nextId' = nextId \/ nextId' = nextId + 1)
        /\ (Enqueues => nextId' = nextId + 1)
    <2>1. CASE ~reserve_rescan_slot \/ exhausted
      <3>1. UNCHANGED <<nextId, revision, exhausted, queue>>
        BY Zenon, <2>1 DEF enqueue_reserved, Request
      <3>2. ~Enqueues
        BY Zenon, <2>1 DEF Enqueues, claim_rescan_id
      <3> QED BY ZenonT(60), <1>1, <1>2, <3>1, <3>2, SameQueue, StillLater DEF Still
    <2>2. CASE ~(~reserve_rescan_slot \/ exhausted) /\ ~claim_rescan_id
      <3>1. poison_watcher /\ UNCHANGED <<nextId, revision>>
        BY Zenon, <2>2 DEF enqueue_reserved, Request
      <3>2. ~Enqueues
        BY Zenon, <2>2 DEF Enqueues
      <3> QED BY ZenonT(60), <1>1, <3>1, <3>2, Poisons
    <2>3. CASE ~(~reserve_rescan_slot \/ exhausted) /\ claim_rescan_id
      <3>1. nextId' = nextId + 1 /\ increment_revision
        BY Zenon, <2>3 DEF enqueue_reserved, Request
      <3> QED BY Zenon, <1>1, <3>1, Increments
    <2> QED BY Zenon, <2>1, <2>2, <2>3
  <1>4. /\ nextId' \in Nat /\ nextId <= nextId' /\ (Enqueues => nextId < nextId')
        /\ sync.id < nextId' /\ commit.id < nextId' /\ 0 < nextId'
    <2>1. sync.id \in Nat /\ commit.id \in Nat /\ nextId \in Nat /\ sync.id < nextId /\ commit.id < nextId
      BY Zenon, <1>1 DEF TypeOK, Syncs, CommitCalls, CallsInv
    <2> QED BY SMTT(60), <1>3, <2>1
  <1> QED BY ZenonT(60), <1>2, <1>3, <1>4

\* A number that is new names nothing yet.
LEMMA AskedAnew ==
    ASSUME ReconciliationInv, Quietly, UNCHANGED <<waiting, answers>>,
           NEW call, call.pc = "send", call.id = nextId, NEW scope
    PROVE  AskedAfter(call, scope)
  <1>1. TypeOK /\ CallsInv
    BY Zenon, InvParts
  <1>2. ~(nextId < nextId)
    BY SMTT(60), <1>1 DEF TypeOK
  <1>3. /\ nextId \notin waiting
        /\ \A a \in answers : a.id # nextId
        /\ \A q \in Queued("rescan") \cup Queued("acknowledge") : q.id # nextId
    BY Zenon, <1>1, <1>2 DEF CallsInv
  <1> QED BY Zenon, <1>3 DEF AskedAfter, Quietly

LEMMA WatchRemembers ==
    ASSUME TypeOK, NEW c \in {Sync, Commit}, since' = Watch(c), UNCHANGED <<disk, wide>>
    PROVE  SinceType' /\ \A p \in Paths : Seen(wide', disk', p) \in since'[c][p]
  <1> DEFINE now == [p \in Paths |-> {Seen(wide, disk, p)}]
  <1>1. since \in [{Sync, Commit} -> [Paths -> SUBSET Contents]] /\ since' = [since EXCEPT ![c] = now]
    BY Zenon DEF TypeOK, Watch
  <1>2. now \in [Paths -> SUBSET Contents]
    <2>1. \A p \in Paths : Seen(wide, disk, p) \in Contents
      BY Zenon, SeenType DEF TypeOK
    <2>2. \A p \in Paths : {Seen(wide, disk, p)} \in SUBSET Contents
      BY Zenon, <2>1
    <2> QED BY Zenon, <2>2
  <1>3. since'[c] = now
    BY Zenon, <1>1
  <1>4. \A p \in Paths : Seen(wide', disk', p) \in since'[c][p]
    BY Zenon, <1>3
  <1> HIDE DEF now
  <1> QED BY ZenonT(60), <1>1, <1>2, <1>4 DEF SinceType

\* A request that gets no further.
LEMMA RefusedKeeps ==
    ASSUME ReconciliationInv, NEW c \in {Sync, Commit}, Request(c), ~Enqueues, since' = since,
           held' = held, \/ sync' = Idle /\ commit' = commit
                         \/ sync' = sync /\ commit' = NoCommit
    PROVE  ReconciliationInv'
  <1>1. TypeOK /\ CallsInv /\ ObservedInv
    BY Zenon, InvParts
  <1>2. /\ Quietly /\ Later /\ nextId' \in Nat /\ nextId <= nextId' /\ lock = None /\ lock' = None
        /\ sync.id < nextId' /\ commit.id < nextId' /\ 0 < nextId'
        /\ UNCHANGED <<disk, wide, owed, callback, cancelled, answers, stubs>>
        /\ UNCHANGED <<waiting, pending, snapshot, snapshotRevision, maintained, worker, news>>
    BY Zenon, Requests
  <1>3. sync.pc \notin {"send", "wait", "acknowledging"} /\ commit.pc \notin {"send", "wait"}
    BY Zenon, <1>2, LockedOut
  <1>4. /\ sync' \in Syncs /\ commit' \in CommitCalls /\ sync'.id < nextId' /\ commit'.id < nextId'
        /\ (sync'.pc = sync.pc /\ sync'.outcome = sync.outcome) \/ sync'.pc = "idle"
        /\ commit'.pc # "none" => commit' = commit
    BY ZenonT(60), <1>1, <1>2, IdleType, NoCommitType, SameTypes
  <1>5. sync'.pc \notin {"send", "wait", "acknowledging"} /\ commit'.pc \notin {"send", "wait"}
    BY Zenon, <1>3, <1>4
  <1>6. CommandsHold /\ queue' \in Seq(Inputs) /\ Queued("rescan")' \subseteq Queued("rescan")
        /\ Queued("acknowledge")' \subseteq Queued("acknowledge")
    BY Zenon, <1>2, QuietCommands
  <1>7. CallFrame
    <2>1. /\ disk' \in [Paths -> Contents] /\ cancelled' \in SUBSET Nat /\ stubs' \in SUBSET Paths
          /\ news' \in SUBSET (Paths \cup {Settings}) /\ SinceType'
      BY ZenonT(60), <1>1, <1>2, SameTypes DEF SinceType
    <2> QED BY ZenonT(60), <1>2, <1>4, <1>6, <2>1 DEF CallFrame
  <1>8. CallsHold
    <2>1. sync'.pc \in {"maintain", "acknowledge"} => HoldsAfter(sync'.outcome)
      BY ZenonT(60), <1>1, <1>2, <1>4, SameTypes, HoldsOn DEF ObservedInv
    <2>2. sync'.pc \in {"acknowledge", "acknowledging"} /\ sync'.fresh => Cached(sync'.outcome, stubs')
      <3>1. CASE sync' = Idle
        BY Zenon, <3>1, IdleType
      <3>2. CASE sync' = sync
        BY ZenonT(60), <1>2, <3>2, InvParts DEF CachedInv
      <3> QED BY Zenon, <3>1, <3>2
    <2> QED BY ZenonT(60), <1>1, <1>4, <1>5, <2>1, <2>2 DEF CallsHold, CallsInv
  <1>9. Waits(Sync, sync, sync') /\ Waits(Commit, commit, commit')
    BY Zenon, <1>5 DEF Waits
  <1> QED BY ZenonT(60), <1>2, <1>5, <1>6, <1>7, <1>8, <1>9, CalmKeeps

LEMMA ObserveKeeps ==
    ASSUME ReconciliationInv, Observe, held' = held
    PROVE  ReconciliationInv'
  <1>1. TypeOK /\ CallsInv
    BY Zenon, InvParts
  <1>2. Request(Sync) /\ commit' = commit
    BY Zenon DEF Observe
  <1>3. CASE ~Enqueues
    BY ZenonT(60), <1>2, <1>3, RefusedKeeps DEF Observe
  <1>4. CASE Enqueues
    <2>1. sync' = [sync EXCEPT !.pc = "send", !.id = nextId] /\ since' = Watch(Sync)
      BY Zenon, <1>4 DEF Observe
    <2>2. /\ Quietly /\ Later /\ nextId' \in Nat /\ nextId <= nextId' /\ lock = None /\ lock' = Sync
          /\ nextId < nextId' /\ commit.id < nextId'
          /\ UNCHANGED <<disk, wide, owed, callback, cancelled, answers, stubs>>
          /\ UNCHANGED <<waiting, pending, snapshot, snapshotRevision, maintained, worker, news>>
      BY ZenonT(60), <1>2, <1>4, Requests
    <2>3. commit.pc \notin {"send", "wait"}
      BY Zenon, <2>2, LockedOut
    <2>4. sync' \in Syncs /\ sync'.pc = "send" /\ sync'.id = nextId
      BY ZenonT(60), <1>1, <2>1, SameTypes DEF Syncs
    <2>5. SinceType' /\ \A p \in Paths : Seen(wide', disk', p) \in since'[Sync][p]
      BY ZenonT(60), <1>1, <2>1, <2>2, WatchRemembers
    <2>6. CommandsHold /\ queue' \in Seq(Inputs)
      BY Zenon, <2>2, QuietCommands
    <2>7. CallFrame
      <3>1. /\ disk' \in [Paths -> Contents] /\ cancelled' \in SUBSET Nat /\ stubs' \in SUBSET Paths
            /\ news' \in SUBSET (Paths \cup {Settings}) /\ commit' \in CommitCalls
        BY Zenon, <1>1, <1>2, <2>2, SameTypes
      <3> QED BY ZenonT(60), <2>2, <2>4, <2>5, <2>6, <3>1 DEF CallFrame
    <2>8. sync'.pc # "wait" /\ sync'.pc \notin {"maintain", "acknowledge"}
      BY Zenon, <2>4
    <2>9. CallsHold
      BY ZenonT(60), <1>1, <1>2, <2>2, <2>3, <2>4, <2>8 DEF CallsHold, CallsInv
    <2>10. AskedAfter(sync', All)
      BY Zenon, <2>2, <2>4, AskedAnew
    <2>11. AskedAfter(commit', {commit'.path}) /\ ServedInvAfter(Commit, commit', {commit'.path})
      BY Zenon, <1>2, <2>3 DEF AskedAfter, ServedInvAfter
    <2>12. ServedInvAfter(Sync, sync', Paths)
      BY ZenonT(60), <2>5, <2>8 DEF ServedInvAfter
    <2> QED BY ZenonT(60), <2>2, <2>6, <2>7, <2>8, <2>9, <2>10, <2>11, <2>12, CallKeeps
  <1> QED BY ZenonT(60), <1>3, <1>4

LEMMA ReportCommitKeeps ==
    ASSUME ReconciliationInv, ReportCommit, held' = held
    PROVE  ReconciliationInv'
  <1>1. TypeOK /\ CallsInv /\ ObservedInv
    BY Zenon, InvParts
  <1>2. Request(Commit) /\ sync' = sync /\ commit.pc = "lock"
    BY Zenon DEF ReportCommit
  <1>3. CASE ~Enqueues
    BY Zenon, <1>2, <1>3, RefusedKeeps DEF ReportCommit
  <1>4. CASE Enqueues
    <2>1. commit' = [commit EXCEPT !.pc = "send", !.id = nextId] /\ since' = Watch(Commit)
      BY Zenon, <1>4 DEF ReportCommit
    <2>2. /\ Quietly /\ Later /\ nextId' \in Nat /\ nextId <= nextId' /\ lock = None /\ lock' = Commit
          /\ nextId < nextId' /\ sync.id < nextId'
          /\ UNCHANGED <<disk, wide, owed, callback, cancelled, answers, stubs>>
          /\ UNCHANGED <<waiting, pending, snapshot, snapshotRevision, maintained, worker, news>>
      BY ZenonT(60), <1>2, <1>4, Requests
    <2>3. sync.pc \notin {"send", "wait", "acknowledging"}
      BY Zenon, <2>2, LockedOut
    <2>4. commit' \in CommitCalls /\ commit'.pc = "send" /\ commit'.id = nextId
          /\ commit'.path = commit.path /\ commit.path \in Paths
      <3>1. nextId \in Nat /\ commit \in CommitCalls
        BY Zenon, <1>1, SameTypes
      <3>2. commit.path \in Paths
        BY Zenon, <1>1, <1>2 DEF CallsInv
      <3> QED BY ZenonT(60), <2>1, <3>1, <3>2 DEF CommitCalls
    <2>5. SinceType' /\ \A p \in Paths : Seen(wide', disk', p) \in since'[Commit][p]
      BY ZenonT(60), <1>1, <2>1, <2>2, WatchRemembers
    <2>6. CommandsHold /\ queue' \in Seq(Inputs)
      BY Zenon, <2>2, QuietCommands
    <2>7. CallFrame
      <3>1. /\ disk' \in [Paths -> Contents] /\ cancelled' \in SUBSET Nat /\ stubs' \in SUBSET Paths
            /\ news' \in SUBSET (Paths \cup {Settings}) /\ sync' \in Syncs
        BY ZenonT(60), <1>1, <1>2, <2>2, SameTypes
      <3> QED BY ZenonT(60), <2>2, <2>4, <2>5, <2>6, <3>1 DEF CallFrame
    <2>8. commit'.pc # "wait" /\ commit'.pc = "send"
      BY Zenon, <2>4
    <2>9. CallsHold
      <3>1. sync'.pc \in {"maintain", "acknowledge"} => HoldsAfter(sync'.outcome)
        BY ZenonT(60), <1>1, <1>2, <2>2, SameTypes, HoldsOn DEF ObservedInv
      <3>2. sync'.pc \in {"acknowledge", "acknowledging"} /\ sync'.fresh => Cached(sync'.outcome, stubs')
        BY ZenonT(60), <1>2, <2>2, InvParts DEF CachedInv
      <3> QED BY ZenonT(60), <1>2, <2>2, <2>3, <2>4, <3>1, <3>2 DEF CallsHold
    <2>10. AskedAfter(commit', {commit'.path})
      BY ZenonT(60), <2>2, <2>4, AskedAnew
    <2>11. AskedAfter(sync', All) /\ ServedInvAfter(Sync, sync', Paths)
      BY Zenon, <1>2, <2>3 DEF AskedAfter, ServedInvAfter
    <2>12. ServedInvAfter(Commit, commit', {commit'.path})
      BY Zenon, <2>5, <2>8 DEF ServedInvAfter
    <2>13. sync'.pc = "wait" => sync.pc \in {"send", "wait"} /\ sync'.id = sync.id
      BY Zenon, <1>2
    <2> QED BY ZenonT(60), <2>2, <2>6, <2>7, <2>9, <2>10, <2>11, <2>12, <2>13, CallKeeps
  <1> QED BY Zenon, <1>3, <1>4

LEMMA SendRescanKeeps ==
    ASSUME ReconciliationInv, SendRescan, held' = held
    PROVE  ReconciliationInv'
  <1> DEFINE x == Rescan(sync.id, All)
  <1>1. /\ TypeOK /\ CallsInv /\ AskedInv(sync, All) /\ ServedInv(Sync, sync, Paths)
    BY Zenon, InvParts
  <1>2. /\ sync.pc = "send" /\ Enqueue(x) /\ sync' = [sync EXCEPT !.pc = "wait"]
        /\ UNCHANGED <<cancelled, answers, lock, commit, since>>
    BY Zenon DEF SendRescan
  <1>3. /\ queue' = Append(queue, x)
        /\ UNCHANGED <<disk, wide, owed, callback, revision, nextId, exhausted, stubs>>
        /\ UNCHANGED <<waiting, pending, snapshot, snapshotRevision, maintained, worker, news>>
    BY Zenon, <1>2, EnqueueFrame
  <1>4. sync' \in Syncs /\ sync'.pc = "wait" /\ sync'.id = sync.id
    BY Zenon, <1>1, <1>2, SameTypes DEF Syncs
  <1>5. lock = Sync /\ commit.pc \notin {"send", "wait"}
    BY Zenon, <1>2, LockedOut
  <1>6. x \in Inputs /\ x.kind = "rescan" /\ x.id = sync.id /\ x.scope = All
    <2>1. sync.id \in Nat /\ All \in {All} \cup SUBSET Paths
      BY Zenon, <1>1, SameTypes
    <2>2. x \in Inputs /\ x.kind = "rescan"
      BY Zenon, <2>1, InputKinds
    <2> QED BY Zenon, <2>2, CommandFields
  <1> HIDE DEF x
  <1>7. Still /\ Later
    BY Zenon, <1>1, <1>3, StillLater DEF Still
  <1>8. x.id < nextId /\ nextId' \in Nat /\ nextId <= nextId' /\ sync'.id < nextId' /\ commit.id < nextId'
    BY Zenon, <1>3, <1>4, <1>6, SameNext
  <1>9. x.kind # "acknowledge"
    BY Zenon, <1>6
  <1>10. /\ CommandsHold /\ queue' \in Seq(Inputs)
         /\ \A kind : \A q \in Queued(kind)' : q \in Queued(kind) \/ (q = x /\ x.kind = kind)
    BY ZenonT(60), <1>3, <1>6, <1>7, <1>8, <1>9, CommandJoins
  <1>11. CallFrame
    <2>1. /\ disk' \in [Paths -> Contents] /\ cancelled' \in SUBSET Nat /\ stubs' \in SUBSET Paths
          /\ news' \in SUBSET (Paths \cup {Settings}) /\ commit' \in CommitCalls /\ SinceType'
          /\ lock' \in {None, Sync, Commit}
      BY ZenonT(60), <1>1, <1>2, <1>3, SameTypes DEF SinceType
    <2> QED BY ZenonT(60), <1>2, <1>3, <1>4, <1>8, <1>10, <2>1 DEF CallFrame
  <1>12. sync'.pc # "send" /\ sync'.pc \notin {"maintain", "acknowledge", "acknowledging"}
    BY Zenon, <1>4
  <1>13. CallsHold
    BY ZenonT(60), <1>1, <1>2, <1>5, <1>8, <1>12 DEF CallsHold, CallsInv
  <1>14. AskedAfter(sync', All)
    <2>1. \A q \in Queued("rescan")' : q.id = sync.id => q.scope = All
      BY ZenonT(60), <1>1, <1>2, <1>6, <1>10 DEF AskedInv
    <2>2. /\ \A a \in answers' : a.id = sync.id => a.kind # "acknowledged"
          /\ \A q \in Queued("acknowledge")' : q.id # sync.id
      BY ZenonT(60), <1>1, <1>2, <1>9, <1>10 DEF AskedInv
    <2> QED BY ZenonT(60), <1>4, <1>12, <2>1, <2>2 DEF AskedAfter
  <1>15. AskedAfter(commit', {commit'.path}) /\ ServedInvAfter(Commit, commit', {commit'.path})
    BY Zenon, <1>2, <1>5 DEF AskedAfter, ServedInvAfter
  <1>16. ServedInvAfter(Sync, sync', Paths)
    <2>1. Remembers(Sync)
      BY ZenonT(60), <1>2, <1>3, Seens, SameRemembers
    <2> QED BY ZenonT(60), <1>1, <1>2, <1>3, <1>4, <2>1, ServedOn
  <1> QED BY ZenonT(60), <1>2, <1>4, <1>7, <1>10, <1>11, <1>13, <1>14, <1>15, <1>16, CallKeeps

LEMMA SendRescanPathsKeeps ==
    ASSUME ReconciliationInv, SendRescanPaths, held' = held
    PROVE  ReconciliationInv'
  <1> DEFINE x == Rescan(commit.id, {commit.path})
  <1>1. /\ TypeOK /\ CallsInv /\ ObservedInv
        /\ AskedInv(commit, {commit.path}) /\ ServedInv(Commit, commit, {commit.path})
    BY Zenon, InvParts
  <1>2. /\ commit.pc = "send" /\ Enqueue(x) /\ commit' = [commit EXCEPT !.pc = "wait"]
        /\ UNCHANGED <<cancelled, answers, lock, sync, since>>
    BY Zenon DEF SendRescanPaths
  <1>3. /\ queue' = Append(queue, x)
        /\ UNCHANGED <<disk, wide, owed, callback, revision, nextId, exhausted, stubs>>
        /\ UNCHANGED <<waiting, pending, snapshot, snapshotRevision, maintained, worker, news>>
    BY Zenon, <1>2, EnqueueFrame
  <1>4. /\ commit' \in CommitCalls /\ commit'.pc = "wait" /\ commit'.id = commit.id
        /\ commit'.path = commit.path /\ commit.id \in Nat
    BY Zenon, <1>1, <1>2, SameTypes DEF CommitCalls
  <1>5. lock = Commit /\ sync.pc \notin {"send", "wait", "acknowledging"}
    BY Zenon, <1>2, LockedOut
  <1>6. commit.path \in Paths /\ {commit.path} \subseteq Paths
    BY Zenon, <1>1, <1>2 DEF CallsInv
  <1>7. x \in Inputs /\ x.kind = "rescan" /\ x.id = commit.id /\ x.scope = {commit.path}
    <2>1. {commit.path} \in {All} \cup SUBSET Paths
      BY Zenon, <1>6
    <2>2. x \in Inputs /\ x.kind = "rescan"
      BY Zenon, <1>4, <2>1, InputKinds
    <2> QED BY Zenon, <2>2, CommandFields
  <1> HIDE DEF x
  <1>8. Still /\ Later
    BY Zenon, <1>1, <1>3, StillLater DEF Still
  <1>9. x.id < nextId /\ nextId' \in Nat /\ nextId <= nextId' /\ sync'.id < nextId' /\ commit'.id < nextId'
    <2>1. commit.id < nextId
      BY Zenon, <1>1 DEF CallsInv
    <2> QED BY ZenonT(60), <1>2, <1>3, <1>4, <1>7, <2>1, SameNext
  <1>10. x.kind # "acknowledge"
    BY Zenon, <1>7
  <1>11. /\ CommandsHold /\ queue' \in Seq(Inputs)
         /\ \A kind : \A q \in Queued(kind)' : q \in Queued(kind) \/ (q = x /\ x.kind = kind)
    BY ZenonT(60), <1>3, <1>7, <1>8, <1>9, <1>10, CommandJoins
  <1>12. CallFrame
    <2>1. /\ disk' \in [Paths -> Contents] /\ cancelled' \in SUBSET Nat /\ stubs' \in SUBSET Paths
          /\ news' \in SUBSET (Paths \cup {Settings}) /\ sync' \in Syncs /\ SinceType'
          /\ lock' \in {None, Sync, Commit}
      BY ZenonT(60), <1>1, <1>2, <1>3, SameTypes DEF SinceType
    <2> QED BY ZenonT(60), <1>2, <1>3, <1>4, <1>9, <1>11, <2>1 DEF CallFrame
  <1>13. CallsHold
    <2>1. sync'.pc \in {"maintain", "acknowledge"} => HoldsAfter(sync'.outcome)
      BY ZenonT(60), <1>1, <1>2, <1>8, SameTypes, HoldsOn DEF ObservedInv
    <2>2. sync'.pc \in {"acknowledge", "acknowledging"} /\ sync'.fresh => Cached(sync'.outcome, stubs')
      BY Zenon, <1>2, <1>3, InvParts DEF CachedInv
    <2> QED BY ZenonT(60), <1>2, <1>4, <1>5, <1>6, <1>9, <2>1, <2>2 DEF CallsHold
  <1>14. AskedAfter(commit', {commit'.path})
    <2>1. \A q \in Queued("rescan")' : q.id = commit.id => q.scope = {commit.path}
      BY ZenonT(60), <1>1, <1>2, <1>7, <1>11 DEF AskedInv
    <2>2. commit'.pc # "send"
      BY Zenon, <1>4
    <2>3. /\ \A a \in answers' : a.id = commit.id => a.kind # "acknowledged"
          /\ \A q \in Queued("acknowledge")' : q.id # commit.id
      BY ZenonT(60), <1>1, <1>2, <1>10, <1>11 DEF AskedInv
    <2> QED BY ZenonT(60), <1>4, <2>1, <2>2, <2>3 DEF AskedAfter
  <1>15. AskedAfter(sync', All) /\ ServedInvAfter(Sync, sync', Paths)
    BY Zenon, <1>2, <1>5 DEF AskedAfter, ServedInvAfter
  <1>16. ServedInvAfter(Commit, commit', {commit'.path})
    <2>1. Remembers(Commit)
      BY ZenonT(60), <1>2, <1>3, Seens, SameRemembers
    <2>2. ServedInvAfter(Commit, commit', {commit.path})
      BY ZenonT(60), <1>1, <1>2, <1>3, <1>4, <1>6, <2>1, ServedOn
    <2> QED BY Zenon, <1>4, <2>2
  <1>17. sync'.pc = "wait" => sync.pc \in {"send", "wait"} /\ sync'.id = sync.id
    BY Zenon, <1>2
  <1> QED BY ZenonT(60), <1>8, <1>11, <1>12, <1>13, <1>14, <1>15, <1>16, <1>17, CallKeeps

-----------------------------------------------------------------------------
(* The invariant holds.                                                    *)

LEMMA InitInv == Init => ReconciliationInv
  <1> SUFFICES ASSUME Init PROVE ReconciliationInv
    BY Zenon
  <1>1. /\ disk \in [Paths -> Initially] /\ wide = FALSE /\ held = FALSE /\ callback = None
        /\ revision = 0 /\ nextId = 1 /\ exhausted = FALSE
        /\ queue = << >> /\ cancelled = {} /\ answers = {}
        /\ snapshotRevision = 0 /\ maintained = snapshot.invalid
        /\ pending = [Quiet(FALSE) EXCEPT !.deadline = "later", !.full = TRUE]
        /\ worker = Receiving /\ waiting = {} /\ news = {}
    BY Zenon DEF Init, WatcherInit
  <1>2. lock = None /\ sync = Idle /\ commit = NoCommit /\ stubs = snapshot.invalid
        /\ since = [c \in {Sync, Commit} |-> Nothing]
    BY Zenon DEF Init
  <1>3. snapshot = [records |-> [p \in Paths |-> IF disk[p] = Bad THEN Absent ELSE Seen(wide, disk, p)],
                    invalid |-> {p \in Paths : Seen(wide, disk, p) = Bad},
                    wide |-> wide]
    BY Zenon DEF Init, WatcherInit
  <1>4. disk \in [Paths -> Contents]
    BY Zenon, <1>1, WatcherAssumption DEF Contents
  <1>5. snapshot \in Snapshots /\ snapshot.invalid \in SUBSET Paths
    <2>1. [p \in Paths |-> IF disk[p] = Bad THEN Absent ELSE Seen(wide, disk, p)] \in [Paths -> Contents]
      <3>1. ASSUME NEW p \in Paths
            PROVE  (IF disk[p] = Bad THEN Absent ELSE Seen(wide, disk, p)) \in Contents
        <4>1. disk[p] \in Contents /\ Absent \in Contents
          BY Zenon, <1>4 DEF Contents
        <4> QED BY Zenon, <4>1 DEF Seen
      <3> QED BY Zenon, <3>1
    <2>2. {p \in Paths : Seen(wide, disk, p) = Bad} \in SUBSET Paths /\ wide \in BOOLEAN
      BY Zenon, <1>1
    <2> QED BY Zenon, <1>3, <2>1, <2>2 DEF Snapshots
  <1>6. pending \in Pendings
    <2>1. pending = [deadline |-> "later", full |-> TRUE, paths |-> {}, failing |-> FALSE]
      BY Zenon, <1>1 DEF Quiet
    <2> QED BY Zenon, <2>1 DEF Pendings
  <1>7. worker = Resting("receive") /\ worker.pc = "receive"
    BY Zenon, <1>1 DEF Receiving, Resting
  <1>8. since \in [{Sync, Commit} -> [Paths -> SUBSET Contents]]
    BY Zenon, <1>2 DEF Nothing
  <1>9. queue \in Seq(Inputs) /\ 0 \in Nat /\ 1 \in Nat /\ 0 < 1 /\ 0 <= 0
    BY SMTT(60), <1>1
  <1>10. \A kind : Queued(kind) = {}
    <2>1. DOMAIN queue = {}
      BY SMTT(60), <1>1
    <2> QED BY Zenon, <2>1 DEF Queued
  <1>11. TypeOK
    <2>1. sync \in Syncs /\ commit \in CommitCalls
      BY Zenon, <1>2, IdleType, NoCommitType
    <2> QED BY ZenonT(60), <1>1, <1>2, <1>4, <1>5, <1>6, <1>7, <1>8, <1>9, <2>1 DEF TypeOK
  <1>12. sync.pc = "idle" /\ sync.id = 0 /\ commit.pc = "none" /\ commit.id = 0
    BY Zenon, <1>2, IdleType, NoCommitType
  <1>13. CallsInv
    BY Zenon, <1>1, <1>9, <1>10, <1>12 DEF CallsInv
  <1>14. SettingsInv /\ LoadInv /\ CachedInv
    BY Zenon, <1>1, <1>7, <1>12 DEF SettingsInv, LoadInv, CachedInv
  <1>15. ObservedInv
    BY ZenonT(60), <1>1, <1>9, <1>10, <1>12 DEF ObservedInv
  <1>16. /\ AskedInv(sync, All) /\ AskedInv(commit, {commit.path})
         /\ ServedInv(Sync, sync, Paths) /\ ServedInv(Commit, commit, {commit.path})
    BY Zenon, <1>12 DEF AskedInv, ServedInv
  <1> QED BY ZenonT(60), <1>11, <1>13, <1>14, <1>15, <1>16 DEF ReconciliationInv

LEMMA StutterInv ==
    ASSUME ReconciliationInv, UNCHANGED vars
    PROVE  ReconciliationInv'
  <1>1. /\ UNCHANGED <<disk, wide, owed, callback, revision, nextId, exhausted, queue, cancelled,
                       answers, worker, snapshot, snapshotRevision, maintained>>
        /\ UNCHANGED <<pending, waiting, held, news, lock, sync, commit, stubs, since>>
    BY Zenon DEF vars
  <1>2. TypeOK' /\ CallsInv' /\ SettingsInv' /\ LoadInv' /\ ObservedInv' /\ CachedInv'
    <2>1. TypeOK'
      BY ZenonT(60), <1>1, InvParts DEF TypeOK
    <2>2. \A kind : Queued(kind)' = Queued(kind)
      BY Zenon, <1>1 DEF Queued
    <2>3. CallsInv'
      BY ZenonT(60), <1>1, <2>2, InvParts DEF CallsInv
    <2>4. SettingsInv' /\ CachedInv'
      BY Zenon, <1>1, InvParts DEF SettingsInv, CachedInv
    <2>5. LoadInv'
      BY Zenon, <1>1, InvParts DEF LoadInv
    <2>6. Outcome' = Outcome
      BY Zenon, <1>1 DEF Outcome
    <2>7. \A o : Holds(o)' <=> Holds(o)
      BY Zenon, <1>1 DEF Holds
    <2>8. ObservedInv'
      BY ZenonT(60), <1>1, <2>2, <2>6, <2>7, InvParts DEF ObservedInv
    <2> QED BY ZenonT(60), <2>1, <2>3, <2>4, <2>5, <2>8
  <1>3. AskedInv(sync, All)' /\ AskedInv(commit, {commit.path})'
    <2>1. \A kind : Queued(kind)' = Queued(kind)
      BY Zenon, <1>1 DEF Queued
    <2>2. AskedInv(sync, All)'
      BY Zenon, <1>1, <2>1, InvParts DEF AskedInv
    <2>3. AskedInv(commit, {commit.path})'
      BY Zenon, <1>1, <2>1, InvParts DEF AskedInv
    <2> QED BY ZenonT(60), <2>2, <2>3
  <1>4. ServedInv(Sync, sync, Paths)' /\ ServedInv(Commit, commit, {commit.path})'
    BY Zenon, <1>1, InvParts DEF ServedInv, Served
  <1> QED BY ZenonT(60), <1>2, <1>3, <1>4 DEF ReconciliationInv

LEMMA NextInv == ReconciliationInv /\ [Next]_vars => ReconciliationInv'
  <1> SUFFICES ASSUME ReconciliationInv, [Next]_vars PROVE ReconciliationInv'
    BY Zenon
  <1>1. CASE UNCHANGED vars
    BY Zenon, <1>1, StutterInv
  <1>2. CASE Next
    <2>1. held' = held
      BY Zenon, <1>2 DEF Next
    <2>2. CASE Write \/ Notify \/ Deliver
      BY ZenonT(60), <2>1, <2>2, WorldKeeps
    <2>3. CASE Work
      BY ZenonT(60), <2>1, <2>3, WorkKeeps
    <2>4. CASE Synchronizes
      BY ZenonT(60), <2>1, <2>4, ObserveKeeps, SendRescanKeeps, MaintainKeeps, SendAcknowledgeKeeps,
         ObservedKeeps, AcknowledgedKeeps DEF Synchronizes
    <2>5. CASE Commits
      BY ZenonT(60), <2>1, <2>5, ReportCommitKeeps, SendRescanPathsKeeps, EndCommitKeeps DEF Commits
    <2>6. CASE StartSync \/ Timeout
      BY ZenonT(60), <2>1, <2>6, StartKeeps, TimeoutKeeps
    <2>7. CASE \E p \in Paths, c \in Versions \cup {Absent} : BeginCommit(p, c)
      BY ZenonT(60), <2>1, <2>7, BeginCommitKeeps
    <2>8. CASE \E h \in news : Ingest(h)
      BY ZenonT(60), <2>1, <2>8, IngestKeeps
    <2> QED BY ZenonT(60), <1>2, <2>2, <2>3, <2>4, <2>5, <2>6, <2>7, <2>8 DEF Next
  <1> QED BY Zenon, <1>1, <1>2

\* Every reachable state satisfies the invariant.
THEOREM ReconciliationInvariance == Spec => []ReconciliationInv
  BY InitInv, NextInv, PTL DEF Spec

-----------------------------------------------------------------------------
(* What follows.                                                           *)

LEMMA ServedFresh ==
    ASSUME NEW c, NEW call, NEW scope, call.pc = "wait", ServedInv(c, call, scope)
    PROVE  Fresh(c, call.id, {p \in scope : Plain(p)})
  <1> SUFFICES ASSUME NEW a \in answers, a.id = call.id /\ a.kind = "observed",
                      NEW p \in scope, Plain(p)
               PROVE  Classified(snapshot, p) \in since[c][p]
    BY Zenon DEF Fresh
  <1>1. Served(c, call.id, p)
    BY Zenon DEF ServedInv
  <1> QED BY Zenon, <1>1 DEF Served

LEMMA InvFresh == ReconciliationInv => AnswersAreFresh
  BY Zenon, InvParts, ServedFresh DEF AnswersAreFresh

\* A rescan of complete_pending_rescans is answered from contents its files
\* had after the request took its identifier, whatever was written, reported
\* or cancelled meanwhile; files whose extension mdbase.yaml may drop while
\* the watcher is open are left out.
THEOREM AnswersStayFresh == Spec => []AnswersAreFresh
  BY ReconciliationInvariance, InvFresh, PTL

\* Only the worker answers, and it says "acknowledged" only on an
\* acknowledgement.
LEMMA SentSays ==
    ASSUME NEW ids, NEW kind, NEW o, NEW b \in Sent(ids, kind, o)
    PROVE  b.kind = kind
  <1>1. PICK i \in ids : b = Answer(i, kind, o)
    BY Zenon DEF Sent
  <1> QED BY Zenon, <1>1 DEF Answer

LEMMA FailSays ==
    ASSUME NEW ids, NEW released, NEW sent, fail_pending_rescans(ids, released, sent),
           NEW a \in answers' \ answers
    PROVE  a \in sent \/ a.kind = "exhausted"
  <1>1. a \in sent \/ a \in Sent(ids, "exhausted", NoOutcome)
    BY Zenon DEF fail_pending_rescans
  <1> QED BY Zenon, <1>1, SentSays

LEMMA ContinueSays ==
    ASSUME NEW q, NEW ids, NEW released, NEW sent,
           Continue(q, ids, released, sent), NEW a \in answers' \ answers
    PROVE  a \in sent \/ a.kind = "exhausted"
  <1>1. CASE exhausted
    BY ZenonT(60), <1>1, FailSays DEF Continue
  <1>2. CASE ~exhausted
    BY Zenon, <1>2 DEF Continue
  <1> QED BY Zenon, <1>1, <1>2

LEMMA OthersSay ==
    ASSUME Work, ~OnAcknowledge, NEW a \in answers' \ answers
    PROVE  a.kind # "acknowledged"
  <1>1. CASE OnRescan
    <2>1. PICK q, ids, released, sent : Continue(q, ids, released, sent) /\ sent = {}
      BY Zenon, <1>1 DEF OnRescan
    <2>2. a \in sent \/ a.kind = "exhausted"
      BY ZenonT(60), <2>1, ContinueSays
    <2> QED BY Zenon, <2>1, <2>2
  <1>2. CASE OnCancel
    <2>1. PICK q, ids, released, sent : Continue(q, ids, released, sent) /\ sent = {}
      BY ZenonT(60), <1>2 DEF OnCancel
    <2>2. a \in sent \/ a.kind = "exhausted"
      BY Zenon, <2>1, ContinueSays
    <2> QED BY Zenon, <2>1, <2>2
  <1>3. CASE OnEvent
    <2>1. PICK q, ids, released, sent : Continue(q, ids, released, sent) /\ sent = {}
      BY ZenonT(60), <1>3 DEF OnEvent
    <2>2. a \in sent \/ a.kind = "exhausted"
      BY Zenon, <2>1, ContinueSays
    <2> QED BY Zenon, <2>1, <2>2
  <1>4. CASE OnPoisoned
    <2>1. PICK sent : fail_pending_rescans(waiting, {}, sent) /\ sent = {}
      BY Zenon, <1>4 DEF OnPoisoned
    <2>2. a \in sent \/ a.kind = "exhausted"
      BY Zenon, <2>1, FailSays
    <2> QED BY Zenon, <2>1, <2>2
  <1>5. CASE BeginRefresh \/ \E p \in Paths : LoadRecord(p)
    BY ZenonT(60), <1>5 DEF BeginRefresh, LoadRecord
  <1>6. CASE EndRefresh
    <2>1. PICK sent : fail_pending_rescans(waiting, {}, sent) /\ sent = {}
      BY ZenonT(60), <1>6 DEF EndRefresh
    <2>2. a \in sent \/ a.kind = "exhausted"
      BY Zenon, <2>1, FailSays
    <2> QED BY Zenon, <2>1, <2>2
  <1>7. CASE LoadFails
    <2>1. PICK sent : fail_pending_rescans(waiting, {}, sent) /\ sent = {}
      BY ZenonT(60), <1>7 DEF LoadFails
    <2>2. a \in sent \/ a.kind = "exhausted"
      BY Zenon, <2>1, FailSays
    <2> QED BY Zenon, <2>1, <2>2
  <1>8. CASE complete_pending_rescans
    <2>1. \A b \in Sent(waiting, "exhausted", NoOutcome) : b.kind = "exhausted"
      BY Zenon, SentSays
    <2>2. \A b \in Sent(waiting, "observed", Outcome) : b.kind = "observed"
      BY Zenon, SentSays
    <2>3. \/ a \in Sent(waiting, "exhausted", NoOutcome)
          \/ a \in Sent(waiting, "observed", Outcome)
      BY Zenon, <1>8 DEF complete_pending_rescans
    <2> QED BY ZenonT(60), <2>1, <2>2, <2>3
  <1> QED BY ZenonT(60), <1>1, <1>2, <1>3, <1>4, <1>5, <1>6, <1>7, <1>8 DEF Work, WorkerStep

LEMMA AcknowledgeSays ==
    ASSUME OnAcknowledge, NEW a \in answers' \ answers, a.kind = "acknowledged"
    PROVE  Receive("acknowledge") /\ Current(Head(queue).outcome)
  <1> DEFINE r == Head(queue)
             current == r.id \notin cancelled /\ Current(r.outcome)
             verdict == CASE current -> "acknowledged"
                       [] ~current /\ exhausted -> "exhausted"
                       [] OTHER -> "refused"
  <1>1. /\ Receive("acknowledge")
        /\ Continue(pending, waiting, {r.id}, Sent({r.id}, verdict, NoOutcome))
    BY Zenon DEF OnAcknowledge
  <1>2. ~current => verdict = "exhausted" \/ verdict = "refused"
    <2>1. CASE ~current /\ exhausted
      BY Zenon, <2>1
    <2>2. CASE ~current /\ ~exhausted
      BY Zenon, <2>2
    <2> QED BY Zenon, <2>1, <2>2
  <1> HIDE DEF verdict
  <1>3. a \in Sent({r.id}, verdict, NoOutcome)
    BY Zenon, <1>1, ContinueSays
  <1>4. a.kind = verdict
    BY Zenon, <1>3, SentSays
  <1> QED BY ZenonT(60), <1>1, <1>2, <1>4

\* The other steps add no answer.
LEMMA CallersSayNothing ==
    ASSUME Next, ~Work
    PROVE  answers' \subseteq answers
  <1>1. CASE Write \/ Notify \/ Deliver
    BY Zenon, <1>1 DEF Write, Notify, Deliver, Outside
  <1>2. CASE Synchronizes
    <2>1. CASE Observe
      BY Zenon, <2>1 DEF Observe, Request
    <2>2. CASE SendRescan \/ Maintain \/ SendAcknowledge
      BY Zenon, <2>2 DEF SendRescan, Maintain, SendAcknowledge
    <2>3. CASE \E a \in answers : Observed(a) \/ Acknowledged(a)
      BY Zenon, <2>3 DEF Observed, Acknowledged, Take
    <2> QED BY ZenonT(60), <1>2, <2>1, <2>2, <2>3 DEF Synchronizes
  <1>3. CASE Commits
    <2>1. CASE ReportCommit \/ SendRescanPaths
      BY Zenon, <2>1 DEF ReportCommit, Request, SendRescanPaths
    <2>2. CASE \E a \in answers : EndCommit(a)
      BY Zenon, <2>2 DEF EndCommit, Take
    <2> QED BY ZenonT(60), <1>3, <2>1, <2>2 DEF Commits
  <1>4. CASE StartSync \/ Timeout
    BY Zenon, <1>4 DEF StartSync, Timeout
  <1>5. CASE \E p \in Paths, c \in Versions \cup {Absent} : BeginCommit(p, c)
    BY Zenon, <1>5 DEF BeginCommit
  <1>6. CASE \E h \in news : Ingest(h)
    BY Zenon, <1>6 DEF Ingest
  <1> QED BY ZenonT(60), <1>1, <1>2, <1>3, <1>4, <1>5, <1>6 DEF Next

LEMMA CurrentStep ==
    ASSUME ReconciliationInv, Next, NEW a \in answers' \ answers, a.kind = "acknowledged"
    PROVE  ~exhausted /\ \A p \in Paths : p \in owed \/ Settings \in owed
               \/ (p \in Head(queue).outcome.invalid <=> Seen(wide, disk, p) = Bad)
  <1>1. OnAcknowledge
    BY Zenon, CallersSayNothing, OthersSay
  <1>2. Receive("acknowledge") /\ Current(Head(queue).outcome)
    BY Zenon, <1>1, AcknowledgeSays
  <1>3. Head(queue) \in Queued("acknowledge")
    BY Zenon, <1>2, InvParts, Receives
  <1>4. Holds(Head(queue).outcome)
    BY Zenon, <1>3, InvParts DEF ObservedInv
  <1> QED BY Zenon, <1>2, <1>4 DEF Holds, Current

\* OnAcknowledge accepts an acknowledgement only when every change that was
\* reported before it is in the observation: a file that differs from what
\* was observed is one the backend has still to report.
THEOREM AcknowledgedStaysCurrent == Spec => AcknowledgedIsCurrent
  <1>1. ReconciliationInv /\ [Next]_vars =>
          [(\E a \in answers' \ answers : a.kind = "acknowledged") =>
              ~exhausted /\ \A p \in Paths : p \in owed \/ Settings \in owed
                  \/ (p \in Head(queue).outcome.invalid <=> Seen(wide, disk, p) = Bad)]_vars
    BY Zenon, CurrentStep
  <1> QED BY <1>1, ReconciliationInvariance, PTL DEF Spec, AcknowledgedIsCurrent

LEMMA WorkForgetsNothing ==
    ASSUME Work
    PROVE  answers \subseteq answers'
  <1>1. ASSUME NEW ids, NEW released, NEW sent, fail_pending_rescans(ids, released, sent)
        PROVE  answers \subseteq answers'
    BY Zenon, <1>1 DEF fail_pending_rescans
  <1>2. ASSUME NEW q, NEW ids, NEW released, NEW sent, Continue(q, ids, released, sent)
        PROVE  answers \subseteq answers'
    BY Zenon, <1>1, <1>2 DEF Continue
  <1>3. CASE OnRescan
    BY Zenon, <1>2, <1>3 DEF OnRescan
  <1>4. CASE OnCancel \/ OnEvent \/ OnPoisoned
    BY ZenonT(60), <1>1, <1>2, <1>4 DEF OnCancel, OnEvent, OnPoisoned
  <1>5. CASE OnAcknowledge
    BY Zenon, <1>2, <1>5 DEF OnAcknowledge
  <1>6. CASE BeginRefresh \/ \E p \in Paths : LoadRecord(p)
    BY Zenon, <1>6 DEF BeginRefresh, LoadRecord
  <1>7. CASE EndRefresh \/ LoadFails
    BY Zenon, <1>1, <1>7 DEF EndRefresh, LoadFails
  <1>8. CASE complete_pending_rescans
    BY Zenon, <1>8 DEF complete_pending_rescans
  <1> QED BY ZenonT(60), <1>3, <1>4, <1>5, <1>6, <1>7, <1>8 DEF Work, WorkerStep

\* An acknowledgement is taken by the call that asked for it.
LEMMA CachedStep ==
    ASSUME ReconciliationInv, Next, NEW a \in answers \ answers', a.kind = "acknowledged"
    PROVE  sync.pc = "acknowledging"
  <1>0. AskedInv(sync, All) /\ AskedInv(commit, {commit.path})
    BY Zenon, InvParts
  <1>1. CASE Write \/ Notify \/ Deliver
    BY Zenon, <1>1 DEF Write, Notify, Deliver, Outside
  <1>2. CASE Work
    BY Zenon, <1>2, WorkForgetsNothing
  <1>3. CASE Synchronizes
    <2>1. CASE Observe
      BY Zenon, <2>1 DEF Observe, Request
    <2>2. CASE SendRescan \/ Maintain \/ SendAcknowledge
      BY Zenon, <2>2 DEF SendRescan, Maintain, SendAcknowledge
    <2>3. ASSUME NEW b \in answers, Observed(b) PROVE FALSE
      <3>1. sync.pc = "wait" /\ b.id = sync.id /\ answers' = answers \ {b}
        BY Zenon, <2>3 DEF Observed, Take
      <3>2. a = b
        BY Zenon, <3>1
      <3> QED BY ZenonT(60), <1>0, <3>1, <3>2 DEF AskedInv
    <2>4. ASSUME NEW b \in answers, Acknowledged(b) PROVE sync.pc = "acknowledging"
      BY Zenon, <2>4 DEF Acknowledged
    <2> QED BY ZenonT(60), <1>3, <2>1, <2>2, <2>3, <2>4 DEF Synchronizes
  <1>4. CASE Commits
    <2>1. CASE ReportCommit \/ SendRescanPaths
      BY Zenon, <2>1 DEF ReportCommit, Request, SendRescanPaths
    <2>2. ASSUME NEW b \in answers, EndCommit(b) PROVE FALSE
      <3>1. commit.pc = "wait" /\ b.id = commit.id /\ answers' = answers \ {b}
        BY Zenon, <2>2 DEF EndCommit, Take
      <3>2. a = b
        BY Zenon, <3>1
      <3> QED BY ZenonT(60), <1>0, <3>1, <3>2 DEF AskedInv
    <2> QED BY ZenonT(60), <1>4, <2>1, <2>2 DEF Commits
  <1>5. CASE StartSync
    BY Zenon, <1>5 DEF StartSync
  <1>6. CASE Timeout
    <2>1. sync.pc \in {"wait", "acknowledging"} /\ a.id = sync.id
      BY Zenon, <1>6 DEF Timeout
    <2> QED BY Zenon, <1>0, <2>1 DEF AskedInv
  <1>7. CASE \E p \in Paths, c \in Versions \cup {Absent} : BeginCommit(p, c)
    BY Zenon, <1>7 DEF BeginCommit
  <1>8. CASE \E h \in news : Ingest(h)
    BY Zenon, <1>8 DEF Ingest
  <1> QED BY ZenonT(60), <1>1, <1>2, <1>3, <1>4, <1>5, <1>6, <1>7, <1>8 DEF Next

\* When synchronize takes its acknowledgement the cache has a row for each
\* invalid file it observed and none for a removed one, unless a commit or an
\* ingested event has renewed the rows since the maintenance.
THEOREM AcknowledgedStaysCached == Spec => AcknowledgedIsCached
  <1>1. ReconciliationInv /\ [Next]_vars =>
          [(\E a \in answers \ answers' : a.kind = "acknowledged") /\ sync.fresh =>
              /\ sync.outcome.invalid \subseteq stubs
              /\ sync.outcome.removed \cap stubs = {}]_vars
    <2> SUFFICES ASSUME ReconciliationInv, Next, NEW a \in answers \ answers',
                        a.kind = "acknowledged", sync.fresh
                 PROVE  /\ sync.outcome.invalid \subseteq stubs
                        /\ sync.outcome.removed \cap stubs = {}
      BY Zenon
    <2>1. sync.pc = "acknowledging"
      BY Zenon, CachedStep
    <2> QED BY Zenon, <2>1, InvParts DEF CachedInv, Cached
  <1> QED BY <1>1, ReconciliationInvariance, PTL DEF Spec, AcknowledgedIsCached
=============================================================================
