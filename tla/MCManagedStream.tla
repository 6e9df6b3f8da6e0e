-------------------------- MODULE MCManagedStream --------------------------
(* ManagedStream for TLC.  The recv calls come in order, so they are       *)
(* numbers; the closers are model values and interchangeable, which the    *)
(* runs that check only safety use.                                        *)

EXTENDS ManagedStream, TLC

Symmetry == Permutations(Closers)

=============================================================================
