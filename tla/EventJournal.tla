---------------------------- MODULE EventJournal ----------------------------
(***************************************************************************)
(* The event journal of a runtime store: events are admitted once and get  *)
(* the next cursor, readers page through them, and a host prunes them.     *)
(* What is known of an event for ever is its identity and cursor (the      *)
(* dedup table): `log`.  Its envelope is there while it is kept.  A read   *)
(* takes the retention mark first and the rows after it, in two            *)
(* statements, as PostgreSQL's does; memory.rs and sqlite.rs do both at    *)
(* once.                                                                   *)
(***************************************************************************)
EXTENDS Naturals, Sequences

CONSTANTS
    HostEvents,     \* events that hosts deliver
    Readers

VARIABLES
    log,            \* log[c]: the event with cursor c
    kept,           \* cursors whose envelope is in the journal
    retained,       \* retained_after
    reading,        \* readers between the two statements of events_after
    mark,           \* mark[r]: the retention mark r has read
    position,       \* position[r]: the cursor r reads after
    raced,          \* history: readers a prune has overtaken between the two
    misled          \* history: readers that passed over events, not overtaken

readVars == <<reading, mark, position, raced, misled>>
journalVars == <<log, kept, retained, readVars>>

Cursors == 1..Len(log)

JournalInit ==
    /\ log = << >> /\ kept = {} /\ retained = 0
    /\ reading = {} /\ raced = {} /\ misled = {}
    /\ mark = [r \in Readers |-> 0]
    /\ position = [r \in Readers |-> 0]

Known(key) == \E c \in Cursors : log[c].key = key

\* The part of admit, and of admit_tx, that is about the journal.
Admit(event) ==
    /\ IF Known(event.key)
          THEN UNCHANGED <<log, kept>>
          ELSE /\ log' = Append(log, event)
               /\ kept' = kept \cup {Len(log) + 1}
    /\ UNCHANGED <<retained, readVars>>

\* An event delivered again, pruned or not, changes nothing.
DeliverEvent(h) == Admit([key |-> h, data |-> h])

\* Seeded fault: the envelopes go, the mark stays.
PruneUnmarked(cursor) ==
    /\ cursor > retained
    /\ kept' = {c \in kept : c > cursor}
    /\ raced' = reading
    /\ UNCHANGED <<log, retained, reading, mark, position, misled>>

\* prune_events_through; a cursor that is not beyond the mark changes nothing,
\* one beyond the head is the head.
PruneEventsThrough(cursor) ==
    /\ cursor > retained
    /\ kept' = {c \in kept : c > cursor}
    /\ retained' = cursor
    /\ raced' = reading
    /\ UNCHANGED <<log, reading, mark, position, misled>>

\* events_after: the mark.
ReadMark(r) ==
    /\ r \notin reading
    /\ reading' = reading \cup {r}
    /\ mark' = [mark EXCEPT ![r] = retained]
    /\ UNCHANGED <<log, kept, retained, position, raced, misled>>

After(r) == {c \in kept : c > position[r]}

PassedOver(r, last) == {c \in Cursors : position[r] < c /\ c <= last} \ kept

\* The rows.  A reader that is behind the mark is told to reset and starts
\* again from it; the others get the first rows, as many as their limit allows.
ReadRows(r) ==
    /\ r \in reading
    /\ reading' = reading \ {r}
    /\ raced' = raced \ {r}
    /\ mark' = [mark EXCEPT ![r] = 0]
    /\ \/ /\ position[r] < mark[r]
          /\ position' = [position EXCEPT ![r] = mark[r]]
          /\ UNCHANGED misled
       \/ /\ position[r] >= mark[r] /\ After(r) = {}
          /\ UNCHANGED <<position, misled>>
       \/ /\ position[r] >= mark[r]
          /\ \E last \in After(r) :
                /\ position' = [position EXCEPT ![r] = last]
                /\ misled' = IF r \in raced \/ PassedOver(r, last) = {} THEN misled
                             ELSE misled \cup {r}
    /\ UNCHANGED <<log, kept, retained>>

JournalNext ==
    \/ \E h \in HostEvents : DeliverEvent(h)
    \/ \E c \in Cursors : PruneEventsThrough(c)
    \/ \E r \in Readers : ReadMark(r) \/ ReadRows(r)

\* An event has one cursor, however often it is delivered and also after its
\* envelope is pruned; and a reader that is not told to reset has been given every
\* event up to its position, however reads, admissions and prunes interleave,
\* unless a prune comes between the two statements of PostgreSQL's events_after.
EveryEventOnce ==
    /\ \A c, d \in Cursors : log[c].key = log[d].key => c = d
    /\ misled = {}

=============================================================================
