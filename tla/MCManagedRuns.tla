--------------------------- MODULE MCManagedRuns ---------------------------
(* Instances of ManagedRuns for model checking.                            *)
EXTENDS ManagedRuns, TLC

CONSTANTS r1, r2

OneRun == {r1}
TwoRuns == {r1, r2}
AllKinds == {"legacy", "fencing", "isolated"}

RunSymmetry == Permutations({r1, r2})

=============================================================================
