--------------------------- MODULE ClaimedMutations ---------------------------
(***************************************************************************)
(* What a host relies on when it prepares mutations under claims: a claim  *)
(* resolves to one state, a commit takes effect in one step or is          *)
(* rejected, only manual recovery shows files of which some were changed   *)
(* and some were not, and a claim is forgotten only once it is final.      *)
(***************************************************************************)
EXTENDS Naturals

CONSTANTS Files, FileStates, Keep, Claims

VARIABLES
    files,      \* files as those who open the collection first find them
    state,      \* state[c]: what claim c resolves to
    change      \* change[c]: what c was prepared to change

ClaimVars == <<files, state, change>>

None == [f \in Files |-> Keep]

Prepare(c) ==
    /\ state[c] = "absent"
    /\ state' = [state EXCEPT ![c] = "prepared"]
    /\ \E m \in [Files -> FileStates \cup {Keep}] : m # None /\ change' = [change EXCEPT ![c] = m]
    /\ UNCHANGED files

Commit(c) ==
    /\ state[c] = "prepared"
    /\ state' = [state EXCEPT ![c] = "committing"]
    /\ UNCHANGED change
    /\ files' = [f \in Files |-> IF change[c][f] = Keep THEN files[f] ELSE change[c][f]]
    /\ files' # files

Settle(c) ==
    /\ state[c] = "committing"
    /\ state' = [state EXCEPT ![c] = "committed"]
    /\ UNCHANGED <<files, change>>

\* The settlement met something foreign, or an error: its files are as they are.
Abandon(c) ==
    /\ state[c] = "committing"
    /\ state' = [state EXCEPT ![c] = "manual"]
    /\ files' \in [Files -> FileStates]
    /\ \A f \in Files : change[c][f] = Keep => files'[f] = files[f]
    /\ UNCHANGED change

Refuse(c) ==
    /\ state[c] = "prepared"
    /\ \E s \in {"rejected", "cancelled"} : state' = [state EXCEPT ![c] = s]
    /\ UNCHANGED <<files, change>>

Forget(c) ==
    /\ state[c] \in {"committed", "rejected", "cancelled"}
    /\ state' = [state EXCEPT ![c] = "absent"]
    /\ change' = [change EXCEPT ![c] = None]
    /\ UNCHANGED files

ClaimInit ==
    /\ files \in [Files -> FileStates]
    /\ state = [c \in Claims |-> "absent"]
    /\ change = [c \in Claims |-> None]

\* Another program edits a file.
EditFile(f) ==
    /\ UNCHANGED <<change, state>>
    /\ files'[f] \in FileStates
    /\ files' = [files EXCEPT ![f] = files'[f]]

ClaimNext ==
    \/ \E f \in Files : EditFile(f)
    \/ \E c \in Claims : \/ Prepare(c) \/ Commit(c) \/ Settle(c) \/ Abandon(c)
                         \/ Refuse(c) \/ Forget(c)

ClaimSpec == ClaimInit /\ [][ClaimNext]_ClaimVars

=============================================================================
