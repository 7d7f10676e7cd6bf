------------------------------ MODULE MCAtChannel ------------------------------
(* Model values for AtChannel. *)
EXTENDS AtChannel, TLC

CONSTANTS r1, r2

TwoReaders == {r1, r2}
Symmetry == Permutations(TwoReaders)

=============================================================================
