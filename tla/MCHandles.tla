----------------------------- MODULE MCHandles -----------------------------
(* Handles with a lender and its borrower, a client made either way, its   *)
(* stream and a cache.  Callbacks of the lender and of the client may      *)
(* close a cycle.                                                          *)

EXTENDS Handles

CONSTANTS server, dht, connecting, client, stream, cache

MCHooks ==
  { << server, dht >>, << client, client >>, << client, cache >> }

=============================================================================
