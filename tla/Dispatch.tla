------------------------------ MODULE Dispatch ------------------------------
(***************************************************************************)
(* A server's requests and their handlers.  The native server calls the    *)
(* handler inside tick(), through a trampoline; the handler uses the       *)
(* request's Responder and returns a Reply, and the trampoline's code tells *)
(* the native server what to do.  Deferred and streamed responses are      *)
(* finished from the program's loop.                                       *)
(*                                                                         *)
(* The handler is any program: it may use its responder again, keep it for *)
(* later, catch what a call raises, call header() or a sub-router at any   *)
(* time, return a Reply it got for another request, return something else, *)
(* or raise.                                                               *)
(***************************************************************************)

EXTENDS Integers, FiniteSets

CONSTANTS
  Requests,   \* (conn_id, stream_id) pairs
  Bodies,     \* what a handler may answer with
  MaxParked   \* ServerBuilder.max_parked

None == "none"

ASSUME RequestsAreNamed == None \notin Requests

ASSUME BodiesAreBodies ==
  Bodies \cap { None, "broken", "route", "stream", "defer", "late", "error",
                "unavailable", "unknown" } = {}

VARIABLES
  handling,  \* the request whose handler runs, or None
  used,      \* per request: Responder._used
  buf,       \* per request: who wrote the response buffer last
  replies,   \* the Replies made, each [of, gave]: for which request, by what
  native,    \* per request: what the native server knows of it
  sent,      \* per request: what the peer got for it
  ended,     \* history: with whose Reply, if any, the handler returned
  over,      \* history: in its handler, header() or a sub-router wrote on a
             \* responder already used
  stale      \* history: a terminal wrote a buffer after its handler's end

vars == << handling, used, buf, replies, native, sent, ended, over, stale >>

Init ==
  /\ handling = None
  /\ used = [ r \in Requests |-> FALSE ]
  /\ buf = [ r \in Requests |-> None ]
  /\ replies = {}
  /\ native = [ r \in Requests |-> "unseen" ]
  /\ sent = [ r \in Requests |-> None ]
  /\ ended = [ r \in Requests |-> "not" ]
  /\ over = [ r \in Requests |-> FALSE ]
  /\ stale = [ r \in Requests |-> FALSE ]

-----------------------------------------------------------------------------
(* Parts of the actions.  A "Mutant" is a plausible slip in the operator   *)
(* after it and is used by no action.                                      *)

Reply(r, g) == [ of |-> r, gave |-> g ]

\* if self._used: raise
MayClaim(r) == ~used[r]

\* Mutant: _claim does not note.
ClaimForgotten(r) == used

Claimed(r) == [ used EXCEPT ![r] = TRUE ]

\* Mutant: every Reply is an answer.
AnswerCode(p) == 0

\* _DEFER if reply.deferred else 0
Code(p) == IF p.gave = "defer" THEN 1 ELSE 0

\* Mutant: an exception yields the code of a deferred answer.
FailureDefers == 1

\* what the trampoline returns for an exception, or for what is no Reply
Failure == -801

\* what a cffi callback without error= returns for what is no Exception
Uncaught == 0

Started(r) == native[r] # "unseen"

\* The buffer is the handler's until it returns.
Write(r, what) ==
  /\ buf' = [ buf EXCEPT ![r] = what ]
  /\ over' = [ over EXCEPT ![r] = @ \/ (used[r] /\ handling = r) ]

Parked == { r \in Requests : native[r] = "parked" }

-----------------------------------------------------------------------------
(* The native server, inside tick().                                       *)

\* a complete request: the trampoline makes its Responder and calls the handler
Begin(r) ==
  /\ handling = None
  /\ native[r] = "unseen"
  /\ handling' = r
  /\ native' = [ native EXCEPT ![r] = "handling" ]
  /\ UNCHANGED << used, buf, replies, sent, ended, over, stale >>

\* the connection of a request that waits is gone
Gone(r) ==
  /\ handling = None
  /\ native[r] \in { "parked", "streaming" }
  /\ native' = [ native EXCEPT ![r] = "gone" ]
  /\ UNCHANGED << handling, used, buf, replies, sent, ended, over, stale >>

\* what is made of the trampoline's code; nothing is known of the response to a
\* success without a whole frame in the buffer
Settle(r, code) ==
  LET become(state, what) == /\ native' = [ native EXCEPT ![r] = state ]
                             /\ sent' = [ sent EXCEPT ![r] = what ]
      headSent == native[r] \in { "streaming", "ended" }
  IN \/ headSent /\ code = 0 /\ UNCHANGED << native, sent >>
     \/ headSent /\ code # 0 /\ become("cut", sent[r])
     \/ /\ ~headSent /\ code = 0
        /\ become("answered", IF buf[r] \in Bodies \cup { "route" } THEN buf[r]
                                                                   ELSE "unknown")
     \/ /\ ~headSent /\ code = 1
        /\ IF Cardinality(Parked) < MaxParked THEN become("parked", None)
                                              ELSE become("answered", "unavailable")
     \/ ~headSent /\ code = -801 /\ become("answered", "error")

-----------------------------------------------------------------------------
(* The responder, from the handler or, if the program kept it, later.      *)

\* ok, status and its shorthands, not_modified, partial, range_not_satisfiable,
\* relay, blit: they claim, encode, and return a Reply or raise
Answer(r, b) ==
  /\ Started(r) /\ MayClaim(r)
  /\ used' = Claimed(r)
  /\ \/ Write(r, b) /\ replies' = replies \cup { Reply(r, b) }
     \/ Write(r, "broken") /\ UNCHANGED replies
  /\ stale' = [ stale EXCEPT ![r] = @ \/ handling # r ]
  /\ UNCHANGED << handling, native, sent, ended >>

\* header, and the first half of moved and rate_limited: no look at _used; what it
\* writes is no response until a terminal follows
Header(r) ==
  /\ Started(r)
  /\ Write(r, "broken")
  /\ UNCHANGED << handling, used, replies, native, sent, ended, stale >>

\* relay, blit: an origin that was closed raises after the claim as well
CopyRaises(r) ==
  /\ Started(r) /\ MayClaim(r)
  /\ used' = Claimed(r)
  /\ UNCHANGED << handling, buf, replies, native, sent, ended, over, stale >>

Defer(r) ==
  /\ Started(r) /\ MayClaim(r)
  /\ used' = Claimed(r)
  /\ replies' = replies \cup { Reply(r, "defer") }
  /\ UNCHANGED << handling, buf, native, sent, ended, over, stale >>

\* Responder.stream: the head is sent at once, or a bad header or status raises
BeginStream(r) ==
  /\ Started(r) /\ MayClaim(r)
  /\ used' = Claimed(r)
  /\ \/ /\ native[r] = "handling"
        /\ native' = [ native EXCEPT ![r] = "streaming" ]
        /\ sent' = [ sent EXCEPT ![r] = "stream" ]
        /\ replies' = replies \cup { Reply(r, "stream") }
     \/ UNCHANGED << native, sent, replies >>
  /\ UNCHANGED << handling, buf, ended, over, stale >>

\* A sub-router that handles the request writes the buffer, then claims: on a
\* used responder that raises, and the buffer is written all the same.
Routed(r) ==
  /\ Started(r)
  /\ Write(r, "route")
  /\ \/ /\ MayClaim(r)
        /\ used' = Claimed(r)
        /\ replies' = replies \cup { Reply(r, "route") }
     \/ ~MayClaim(r) /\ UNCHANGED << used, replies >>
  /\ UNCHANGED << handling, native, sent, ended, stale >>

\* One that fails, as an anchor's does for an unknown peer, raises before the
\* claim, whatever it left in the buffer.
RouteRaises(r) ==
  /\ Started(r)
  /\ Write(r, "broken")
  /\ UNCHANGED << handling, used, replies, native, sent, ended, stale >>

-----------------------------------------------------------------------------
(* The trampoline.                                                         *)

Finish(r, code, how) ==
  /\ handling = r
  /\ Settle(r, code)
  /\ ended' = [ ended EXCEPT ![r] = how ]
  /\ handling' = None
  /\ UNCHANGED << used, buf, replies, over, stale >>

Return(r, p) ==
  p \in replies /\ Finish(r, Code(p), IF p.of = r THEN "own" ELSE "other")

\* the handler raised, or returned what is no Reply
Fail(r) == Finish(r, Failure, "failed")

\* KeyboardInterrupt, SystemExit or CancelledError left the handler; except
\* Exception does not catch it, and cffi reports it and returns for it
Interrupted(r) == Finish(r, Uncaught, "interrupted")

-----------------------------------------------------------------------------
(* The program's loop.                                                     *)

\* Server.respond, relay, respond_blit; app-not-found when r is not parked, as
\* when its handler has yet to return
Respond(r) ==
  /\ native[r] = "parked"
  /\ native' = [ native EXCEPT ![r] = "answered" ]
  /\ sent' = [ sent EXCEPT ![r] = "late" ]
  /\ UNCHANGED << handling, used, buf, replies, ended, over, stale >>

\* after the last stream_send; a short body may be ended inside the handler
StreamEnd(r) ==
  /\ native[r] = "streaming"
  /\ native' = [ native EXCEPT ![r] = "ended" ]
  /\ UNCHANGED << handling, used, buf, replies, sent, ended, over, stale >>

-----------------------------------------------------------------------------

Respondering(r) ==
  \/ \E b \in Bodies : Answer(r, b)
  \/ Header(r) \/ CopyRaises(r) \/ Defer(r) \/ BeginStream(r)
  \/ Routed(r) \/ RouteRaises(r)

HandlerEnds(r) == Fail(r) \/ Interrupted(r) \/ \E p \in replies : Return(r, p)

Next ==
  \E r \in Requests :
    Begin(r) \/ Gone(r) \/ Respondering(r) \/ HandlerEnds(r) \/ Respond(r)
      \/ StreamEnd(r)

Spec == Init /\ [][Next]_vars

\* Handlers return, and the program answers what it deferred and ends the streams
\* it began.
FairSpec ==
  /\ Spec
  /\ \A r \in Requests :
       /\ WF_vars(HandlerEnds(r))
       /\ WF_vars(Reply(r, "defer") \in replies /\ Respond(r))
       /\ WF_vars(Reply(r, "stream") \in replies /\ StreamEnd(r))

-----------------------------------------------------------------------------
(* Properties.                                                             *)

Contents == Bodies \cup { "broken", "route" }

TypeOK ==
  /\ handling \in Requests \cup { None }
  /\ used \in [ Requests -> BOOLEAN ]
  /\ buf \in [ Requests -> Contents \cup { None } ]
  /\ replies \subseteq [ of : Requests,
                         gave : Bodies \cup { "defer", "stream", "route" } ]
  /\ native \in [ Requests -> { "unseen", "handling", "answered", "parked",
                                "streaming", "ended", "cut", "gone" } ]
  /\ sent \in [ Requests -> Bodies \cup { None, "route", "stream", "late", "error",
                                          "unavailable", "unknown" } ]
  /\ ended \in [ Requests -> { "not", "own", "other", "failed", "interrupted" } ]
  /\ over \in [ Requests -> BOOLEAN ]
  /\ stale \in [ Requests -> BOOLEAN ]

\* "used exactly once" (server.py:253): whatever a handler tries, raises and
\* catches, it has at most one Reply for its request.
OneReply == \A p, q \in replies : p.of = q.of => p = q

\* What a Reply of one's own is worth (server.py:241-243): the peer gets what the
\* Reply was made for, a deferred request waits for the loop or was shed, and a
\* stream's head stands.  A response in the buffer is excepted when header(),
\* moved(), rate_limited() or a sub-router wrote over it before the handler
\* returned: none of them looks at _used first (server.py:269-280, log.py:423-431).
ReplyDecides ==
  \A p \in replies :
    LET r == p.of
    IN ended[r] = "own" =>
         IF p.gave = "defer"
         THEN \/ native[r] \in { "parked", "gone" } /\ sent[r] = None
              \/ native[r] = "answered" /\ sent[r] \in { "late", "unavailable" }
         ELSE sent[r] = p.gave \/ (over[r] /\ p.gave # "stream")

\* A handler that fails halfway never has its half-built response sent, and is
\* never left waiting: the peer gets an error, or the stream is cut.
FailureIsSeen ==
  \A r \in Requests :
    ended[r] = "failed" =>
      \/ native[r] = "answered" /\ sent[r] = "error"
      \/ native[r] = "cut" /\ sent[r] = "stream"

\* "a second terminal call is a bug and raises" (server.py:256-257) beyond the
\* handler's end too: after it returned its Reply, deferred or not, no terminal of
\* a responder the program kept puts a response into the buffer, which is the
\* native server's again.  It says nothing of header(), and so of the first half
\* of moved() and rate_limited(), nor of sub-routers: those do write.
KeptTerminalRaises ==
  \A r \in Requests : ended[r] = "own" => ~stale[r]

\* In a program that answers what it deferred, every request comes to an end,
\* whatever its handler did, unless it returned another request's Reply.
EveryoneAnswered ==
  \A r \in Requests :
    handling = r ~> \/ native[r] \in { "answered", "ended", "cut", "gone" }
                    \/ ended[r] = "other"

=============================================================================
