--------------------------- MODULE MCTrustNetwork ---------------------------
(* TrustNetwork with three anchors of whom two sign, and a log server that *)
(* may crash and take other entries than before.                           *)

EXTENDS TrustNetwork

CONSTANTS a1, a2, a3, binding, revocation

Symmetry == Permutations(Members) \cup Permutations(Entries)

=============================================================================
