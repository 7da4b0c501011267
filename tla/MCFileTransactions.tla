-------------------------- MODULE MCFileTransactions --------------------------
(* Instances of FileTransactions for TLC. *)
EXTENDS FileTransactions, TLC

CONSTANTS x, y, p1, p2, t1, t2

TwoFiles == {1, 2}
TwoContents == {x, y}

\* Create or replace both, move the first to the second, replace the second.
PairChanges ==
    { (1 :> x) @@ (2 :> x), (1 :> Absent) @@ (2 :> y), (1 :> Keep) @@ (2 :> y) }

\* Move the first to the second, replace the second.
MoveChanges == { (1 :> Absent) @@ (2 :> y), (1 :> Keep) @@ (2 :> x) }

Symmetry == Permutations({p1, p2}) \cup Permutations({t1, t2})

=============================================================================
