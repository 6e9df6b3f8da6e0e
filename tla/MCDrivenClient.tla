--------------------------- MODULE MCDrivenClient ---------------------------
(* DrivenClient with two requests, so that one completes inside the send   *)
(* or the hook of the other, a push, and two hooks that replace each other. *)

EXTENDS DrivenClient

CONSTANTS page, feed, push, first, second

=============================================================================
