------------------------------ MODULE MCIngest ------------------------------
(* Instances of IncrementalIngest for TLC: two keys, a clock of a few ticks. *)
EXTENDS IncrementalIngest, TLC

CONSTANTS k1, k2

KeySymmetry == Permutations(Keys)

=============================================================================
