---------------------------- MODULE MCTypeFilter ----------------------------
(* TypeFilter for TLC: the types at the edges of a 32-bit word.            *)
EXTENDS TypeFilter, TLC

CONSTANTS c1, c2

MCSymmetry == Permutations(Caller)

=============================================================================
