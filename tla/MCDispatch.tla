----------------------------- MODULE MCDispatch -----------------------------
(* Dispatch with two requests, one of which can be parked at a time, so    *)
(* that a Reply of one can be returned for the other and a deferred answer *)
(* can be shed.                                                            *)

EXTENDS Dispatch

CONSTANTS first, second, page, fallback

=============================================================================
