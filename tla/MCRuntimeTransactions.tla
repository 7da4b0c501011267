------------------------ MODULE MCRuntimeTransactions ------------------------
(* Instances of RuntimeTransactions for TLC. *)
EXTENDS RuntimeTransactions, TLC

CONSTANTS x, y, p1, p2, t1, t2, t3, c1, c2

TwoFiles == {1, 2}
TwoContents == {x, y}

\* Move the first to the second, replace the second.
MoveMutations == { (1 :> Absent) @@ (2 :> y), (1 :> Keep) @@ (2 :> x) }

OneFile == { (1 :> x) @@ (2 :> Absent) }

\* Where a crash leaves every journal readable.
SafePoints == {"open", "token", "settling", "checked", "scanning"}

Symmetry == Permutations({p1, p2}) \cup Permutations({t1, t2, t3}) \cup Permutations({c1, c2})

=============================================================================
