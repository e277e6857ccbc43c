----------------------------- MODULE MCSeeding ------------------------------
(* Two workflows that seed one target, of a table with one key in the       *)
(* target's range and one outside it.                                       *)
EXTENDS Seeding, TLC

CONSTANTS a, b

Sym == Permutations(Workflows)

MCBase == {<<1, 1>>}
=============================================================================
