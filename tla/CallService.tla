---------------------------- MODULE CallService ----------------------------
(***************************************************************************)
(* What an asynchronous client promises its callers, with no owner thread, *)
(* no queue and no event loop in sight: a call made while the service is   *)
(* open is settled once, a call made after close() began is refused, and   *)
(* close() finishes only when no call is left pending, unless the          *)
(* connection died by itself while it was idle.                            *)
(*                                                                         *)
(* ManagedClient implements this specification (see Service there).        *)
(***************************************************************************)

CONSTANT Calls

VARIABLES
  phase,   \* "opening", "open", "closing" or "closed"
  call,    \* what the caller of each call has been told
  dead     \* the connection failed while no request was on it

vars == << phase, call, dead >>

Outcomes == { "response", "error", "cancelled" }

Init ==
  /\ phase = "opening"
  /\ call = [ c \in Calls |-> "unsent" ]
  /\ dead = FALSE

Open ==
  /\ phase = "opening"
  /\ phase' = "open"
  /\ UNCHANGED << call, dead >>

Submit(c) ==
  /\ phase = "open"
  /\ call[c] = "unsent"
  /\ call' = [ call EXCEPT ![c] = "pending" ]
  /\ UNCHANGED << phase, dead >>

Refuse(c) ==
  /\ phase \in { "closing", "closed" }
  /\ call[c] = "unsent"
  /\ call' = [ call EXCEPT ![c] = "refused" ]
  /\ UNCHANGED << phase, dead >>

Settle(c) ==
  /\ call[c] = "pending"
  /\ \E outcome \in Outcomes : call' = [ call EXCEPT ![c] = outcome ]
  /\ UNCHANGED << phase, dead >>

Die ==
  /\ dead' = TRUE
  /\ UNCHANGED << phase, call >>

StartClose ==
  /\ phase = "open"
  /\ phase' = "closing"
  /\ UNCHANGED << call, dead >>

FinishClose ==
  /\ phase = "closing"
  /\ dead \/ \A c \in Calls : call[c] # "pending"
  /\ phase' = "closed"
  /\ UNCHANGED << call, dead >>

Next ==
  \/ Open \/ Die \/ StartClose \/ FinishClose
  \/ \E c \in Calls : Submit(c) \/ Refuse(c) \/ Settle(c)

Spec == Init /\ [][Next]_vars

=============================================================================
