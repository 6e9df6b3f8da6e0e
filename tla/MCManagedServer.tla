-------------------------- MODULE MCManagedServer --------------------------
(* ManagedServer for TLC: requests and shutdowns are model values.  Those  *)
(* of one kind are interchangeable, which the runs that check only safety  *)
(* use.                                                                    *)

EXTENDS ManagedServer, TLC

Symmetry ==
  Permutations(Lookups) \cup Permutations(Scrapes) \cup Permutations(Shutdowns)

=============================================================================
