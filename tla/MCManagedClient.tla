-------------------------- MODULE MCManagedClient --------------------------
(* ManagedClient for TLC: sends and closers are model values.  They are    *)
(* interchangeable, which the runs that check only safety use.             *)

EXTENDS ManagedClient, TLC

Symmetry == Permutations(Sends) \cup Permutations(Closers)

=============================================================================
