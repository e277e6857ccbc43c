----------------------------- MODULE MCCutover -----------------------------
(* Cutover on small instances. *)
EXTENDS CutoverInvariant, TLC

ReshardSymmetry == Permutations(Reshards)

=============================================================================
