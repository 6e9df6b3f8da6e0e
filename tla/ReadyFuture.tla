---------------------------- MODULE ReadyFuture ----------------------------
(***************************************************************************)
(* The handshake every managed terminal of nwep/runtime.py begins with.    *)
(* A coroutine starts an owner thread and awaits                           *)
(* asyncio.wrap_future(ready); the owner thread settles the concurrent     *)
(* future `ready` once the native handle is up, or failed to come up.      *)
(* Cancelling the coroutine cancels the wrapper at once, but `ready` only  *)
(* in a later turn of the loop: in between the owner can still publish.    *)
(***************************************************************************)

VARIABLES
  awaiter,   \* the coroutine
  ready      \* the concurrent future

Init ==
  /\ awaiter = "waiting"
  /\ ready = "pending"

TypeOK ==
  /\ awaiter \in { "waiting", "cancelling", "cancelled", "returned", "raised" }
  /\ ready \in { "pending", "cancelled", "result", "exception" }

\* the coroutine resumes with what the owner published
Resume ==
  /\ awaiter = "waiting"
  /\ \/ ready = "result" /\ awaiter' = "returned"
     \/ ready = "exception" /\ awaiter' = "raised"
  /\ UNCHANGED ready

\* task.cancel() while the coroutine awaits, before or after the owner
\* published: a result it has not resumed with is lost
Cancel ==
  /\ awaiter = "waiting"
  /\ awaiter' = "cancelling"
  /\ UNCHANGED ready

\* the wrapper's done-callback: ready.cancel(), which a settled future ignores
Propagate ==
  /\ awaiter = "cancelling"
  /\ awaiter' = "cancelled"
  /\ ready' = IF ready = "pending" THEN "cancelled" ELSE ready

\* `ready` after set_exception, which raises on a cancelled future
Failed == IF ready = "pending" THEN "exception" ELSE ready

=============================================================================
