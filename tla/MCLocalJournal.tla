-------------------------- MODULE MCLocalJournal --------------------------
(* Instances of LocalJournal for TLC: chunks are interchangeable. *)
EXTENDS LocalJournal, TLC

CONSTANTS b1, b2

OneBlock == {b1}

TwoBlocks == {b1, b2}

BlockSymmetry == Permutations(TwoBlocks)
=============================================================================
