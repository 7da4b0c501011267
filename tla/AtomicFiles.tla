----------------------------- MODULE AtomicFiles -----------------------------
(***************************************************************************)
(* What callers of a shadow commit rely on: a transaction takes effect in  *)
(* one step or not at all, and its answer agrees with what happened.       *)
(* FileTransactions implements this as long as no other commit is made     *)
(* between an interruption and the recovery of it.                         *)
(***************************************************************************)
EXTENDS Naturals

CONSTANTS Files, FileStates, Keep, Changes, Txs

VARIABLES
    files,      \* the files as readers that recover first find them
    applied,    \* transactions that took effect
    told        \* what their callers were told

\* A file that already was as the caller wants it when the change was planned
\* is not part of the transaction.
Changed(c, S) == [f \in Files |-> IF f \in S THEN c[f] ELSE files[f]]

Commit(t) ==
    /\ t \notin applied /\ told[t] = "nothing"
    /\ \E c \in Changes : \E S \in SUBSET {f \in Files : c[f] \notin {Keep, files[f]}} :
          S # {} /\ files' = Changed(c, S)
    /\ applied' = applied \cup {t}
    /\ UNCHANGED told

NothingToDo(t) ==
    /\ t \notin applied /\ told[t] = "nothing"
    /\ told' = [told EXCEPT ![t] = "ok"]
    /\ UNCHANGED <<files, applied>>

Succeed(t) ==
    /\ t \in applied /\ told[t] = "nothing"
    /\ told' = [told EXCEPT ![t] = "ok"]
    /\ UNCHANGED <<files, applied>>

Reject(t) ==
    /\ t \notin applied /\ told[t] = "nothing"
    /\ told' = [told EXCEPT ![t] = "conflict"]
    /\ UNCHANGED <<files, applied>>

\* A file could not be read: the call fails and the transaction has no effect.
Fail(t) ==
    /\ t \notin applied /\ told[t] = "nothing"
    /\ told' = [told EXCEPT ![t] = "failed"]
    /\ UNCHANGED <<files, applied>>

AtomicInit ==
    /\ files \in [Files -> FileStates]
    /\ applied = {}
    /\ told = [t \in Txs |-> "nothing"]

AtomicNext == \E t \in Txs : Commit(t) \/ NothingToDo(t) \/ Succeed(t) \/ Reject(t) \/ Fail(t)

AtomicVars == <<files, applied, told>>

AtomicSpec == AtomicInit /\ [][AtomicNext]_AtomicVars

=============================================================================
