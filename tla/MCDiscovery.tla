----------------------------- MODULE MCDiscovery -----------------------------
(* Discovery with a node that is started twice, lookups that keep its owner *)
(* thread from its timer, and a clock that is set either way.              *)

EXTENDS Discovery

=============================================================================
