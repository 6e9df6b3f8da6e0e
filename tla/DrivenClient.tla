---------------------------- MODULE DrivenClient ----------------------------
(***************************************************************************)
(* A Client that its program drives from one thread: requests in flight,   *)
(* their completion by poll or by the hook, and the messages they yield,   *)
(* each owned by one Response.  Native calls that pump the connection call *)
(* the hook from inside; the hook may use the client again, but not pump.  *)
(*                                                                         *)
(* What raises and changes nothing is no action: a poll of what is in      *)
(* flight or retired, a call on a closed Response, a submit at the limit.  *)
(***************************************************************************)

EXTENDS Naturals

CONSTANTS
  Requests,   \* what the program asks for; the answer goes by the same name
  Others,     \* messages that are not answers: pushes, heads of streams, hits
  Hooks,
  None

\* a push, the head of a stream or a cached response answers no request
ASSUME OthersAnswerNone == Requests \cap Others = {}

VARIABLES
  handle,      \* open or closed
  req,         \* unsent, flying, arrived or failed (held), heard, cancelled, lost
  awaiting,    \* the request send() blocks for, or None
  registered,  \* the callback the native client has, or None
  kept,        \* Client._done_cb
  inHook,      \* the request whose hook runs, or None
  msg,         \* per message: none, native, owned (by a Response) or freed
  closed,      \* per message: Response._closed
  refs,        \* the messages whose Response the program refers to
  cached,      \* a shared cache holds a copy of some response
  iters,       \* the messages that a headers() iterator reads
  frees,       \* history: how often each message was freed
  stray,       \* history: a callback was called after its closure was dropped
  dangling     \* history: an iterator read a message that was freed

calls == << req, awaiting >>
hooks == << registered, kept, inHook, stray >>
messages == << msg, closed, refs, frees >>
readers == << cached, iters, dangling >>

vars == << handle, calls, hooks, messages, readers >>

Messages == Requests \cup Others

Init ==
  /\ handle = "open"
  /\ req = [ q \in Requests |-> "unsent" ] /\ awaiting = None
  /\ registered = None /\ kept = None /\ inHook = None
  /\ msg = [ m \in Messages |-> "none" ]
  /\ closed = [ m \in Messages |-> FALSE ]
  /\ refs = {} /\ cached = FALSE /\ iters = {}
  /\ frees = [ m \in Messages |-> 0 ]
  /\ stray = FALSE /\ dangling = FALSE

-----------------------------------------------------------------------------
(* Parts of the actions.  A "Mutant" is a plausible slip in the operator   *)
(* after it and is used by no action.                                      *)

\* The program's own code runs, in a hook or not; it may pump if not.
Running == awaiting = None \/ inHook # None

MayPump == awaiting = None /\ inHook = None /\ handle = "open"

Becomes(q, state) == [ req EXCEPT ![q] = state ]

\* Mutant: close does not note.
CloseForgotten(ms) == closed

Closed(ms) == [ m \in Messages |-> closed[m] \/ m \in ms ]

\* Mutant: a poll that failed looks like one that is not done.
PollsNone(q) == Becomes(q, "lost")

Raises(q) == Becomes(q, "heard")

\* Mutant: clearing the hook drops the closure only.
DropsClosure(h) == kept' = h /\ registered' = IF h = None THEN registered ELSE h

Registers(h) == kept' = h /\ registered' = h

Freed(ms) ==
  /\ msg' = [ m \in Messages |-> IF m \in ms THEN "freed" ELSE msg[m] ]
  /\ frees' = [ m \in Messages |-> IF m \in ms THEN frees[m] + 1 ELSE frees[m] ]

\* Response.close of each of ms, their finalizers too
Closes(ms) ==
  /\ Freed({ m \in ms : ~closed[m] })
  /\ closed' = Closed(ms)

\* header, headers, body and _raw_message of a response that is closed raise
Open(m) == m \in refs /\ ~closed[m]

\* a new Response owns message m
Owned(m) ==
  /\ msg' = [ msg EXCEPT ![m] = "owned" ]
  /\ refs' = refs \cup { m }
  /\ UNCHANGED << closed, frees >>

Handed(m) == msg[m] = "none" /\ Owned(m)

-----------------------------------------------------------------------------
(* Requests.                                                               *)

Submit(q) ==
  /\ Running /\ handle = "open" /\ req[q] = "unsent"
  /\ req' = Becomes(q, "flying")
  /\ UNCHANGED << handle, awaiting, hooks, messages, readers >>

\* send submits and drives the exchange until this answer arrives
Send(q) ==
  /\ MayPump /\ req[q] = "unsent"
  /\ req' = Becomes(q, "flying") /\ awaiting' = q
  /\ UNCHANGED << handle, hooks, messages, readers >>

\* A call that pumps finds request q complete, with a message if it went well: send
\* returns or raises, the hook is called, or the client holds it for a poll.
Arrives(q, well) ==
  /\ handle = "open" /\ inHook = None /\ req[q] = "flying"
  /\ \/ /\ q = awaiting
        /\ awaiting' = None
        /\ req' = Becomes(q, "heard")
        /\ IF well THEN Owned(q) ELSE UNCHANGED messages
        /\ UNCHANGED hooks
     \/ /\ q # awaiting /\ registered # None
        /\ inHook' = q /\ stray' = (stray \/ registered # kept)
        /\ req' = Becomes(q, "heard")
        /\ IF well THEN Owned(q) ELSE UNCHANGED messages
        /\ UNCHANGED << awaiting, registered, kept >>
     \/ /\ q # awaiting /\ registered = None
        /\ req' = Becomes(q, IF well THEN "arrived" ELSE "failed")
        /\ msg' = IF well THEN [ msg EXCEPT ![q] = "native" ] ELSE msg
        /\ UNCHANGED << awaiting, hooks, closed, refs, frees >>
  /\ UNCHANGED << handle, readers >>

\* the hook returns, or raises and is reported; its Response is dropped with its
\* frame unless the program has it elsewhere
HookEnds ==
  /\ inHook # None
  /\ inHook' = None
  /\ \/ UNCHANGED messages
     \/ inHook \in refs /\ refs' = refs \ { inHook } /\ Closes({ inHook })
  /\ UNCHANGED << handle, calls, registered, kept, stray, readers >>

PollRequest(q) ==
  /\ Running /\ handle = "open"
  /\ \/ req[q] = "arrived" /\ req' = Becomes(q, "heard") /\ Owned(q)
     \/ req[q] = "failed" /\ req' = Raises(q) /\ UNCHANGED messages
  /\ UNCHANGED << handle, awaiting, hooks, readers >>

\* cancel_request of an id; send gives none away
CancelRequest(q) ==
  /\ Running /\ handle = "open" /\ q # awaiting
  /\ req[q] \in { "flying", "arrived", "failed" }
  /\ req' = Becomes(q, "cancelled")
  /\ Freed({ q } \cap { m \in Messages : msg[m] = "native" })
  /\ UNCHANGED << handle, awaiting, hooks, closed, refs, readers >>

\* on_request_done(hook), or None
OnRequestDone(h) ==
  /\ Running /\ handle = "open"
  /\ Registers(h)
  /\ UNCHANGED << handle, calls, inHook, stray, messages, readers >>

\* Client.close, or its finalizer
Close ==
  /\ MayPump
  /\ handle' = "closed" /\ registered' = None /\ kept' = None
  /\ req' = [ q \in Requests |-> IF req[q] \in { "flying", "arrived", "failed" }
                                 THEN "lost" ELSE req[q] ]
  /\ Freed({ m \in Messages : msg[m] = "native" })
  /\ UNCHANGED << awaiting, inHook, stray, closed, refs, readers >>

-----------------------------------------------------------------------------
(* Messages.                                                               *)

\* the next push, if any
PollNotify(m) ==
  /\ MayPump /\ Handed(m)
  /\ UNCHANGED << handle, calls, hooks, readers >>

\* Stream.response: the head of a streamed answer
StreamResponse(m) ==
  /\ MayPump /\ Handed(m)
  /\ UNCHANGED << handle, calls, hooks, readers >>

\* Cache.put_signed
PutSigned(m) ==
  /\ Running /\ Open(m)
  /\ cached' = TRUE
  /\ UNCHANGED << handle, calls, hooks, messages, iters, dangling >>

\* Cache.get_signed: a message of its own on a hit, None for the codes of a miss
GetSigned(m) ==
  /\ Running /\ cached /\ Handed(m)
  /\ UNCHANGED << handle, calls, hooks, readers >>

CloseResponse(m) ==
  /\ Running /\ m \in refs
  /\ Closes({ m })
  /\ UNCHANGED << handle, calls, hooks, refs, readers >>

\* the last reference goes, and the finalizer closes
DropResponse(m) ==
  /\ Running /\ m \in refs \ { inHook }
  /\ refs' = refs \ { m } /\ Closes({ m })
  /\ UNCHANGED << handle, calls, hooks, readers >>

\* Response.headers checks, and returns a generator over the message
Headers(m) ==
  /\ Running /\ Open(m)
  /\ iters' = iters \cup { m }
  /\ UNCHANGED << handle, calls, hooks, messages, cached, dangling >>

\* the generator reads the next header, or finds that there is none
NextHeader(m) ==
  /\ Running /\ m \in iters
  /\ iters' \in { iters, iters \ { m } }
  /\ dangling' = (dangling \/ msg[m] = "freed")
  /\ UNCHANGED << handle, calls, hooks, messages, cached >>

-----------------------------------------------------------------------------

Exchange(q) ==
  \/ Submit(q) \/ Send(q) \/ PollRequest(q) \/ CancelRequest(q)
  \/ \E well \in BOOLEAN : Arrives(q, well)

Message(m) ==
  \/ CloseResponse(m) \/ DropResponse(m) \/ Headers(m) \/ NextHeader(m)
  \/ PutSigned(m)

Next ==
  \/ \E q \in Requests : Exchange(q)
  \/ \E m \in Messages : Message(m)
  \/ \E m \in Others : PollNotify(m) \/ StreamResponse(m) \/ GetSigned(m)
  \/ \E h \in Hooks \cup { None } : OnRequestDone(h)
  \/ HookEnds \/ Close

Spec == Init /\ [][Next]_vars

\* The program drives the client and polls what it asked for; hooks return, and an
\* exchange is answered or fails.
FairSpec ==
  /\ Spec /\ WF_vars(HookEnds)
  /\ \A q \in Requests :
       /\ WF_vars(\E well \in BOOLEAN : Arrives(q, well))
       /\ WF_vars(PollRequest(q))

-----------------------------------------------------------------------------
(* Properties.                                                             *)

TypeOK ==
  /\ handle \in { "open", "closed" }
  /\ req \in [ Requests -> { "unsent", "flying", "arrived", "failed", "heard",
                             "cancelled", "lost" } ]
  /\ awaiting \in Requests \cup { None } /\ inHook \in Requests \cup { None }
  /\ registered \in Hooks \cup { None } /\ kept \in Hooks \cup { None }
  /\ msg \in [ Messages -> { "none", "native", "owned", "freed" } ]
  /\ closed \in [ Messages -> BOOLEAN ] /\ frees \in [ Messages -> Nat ]
  /\ refs \subseteq Messages /\ iters \subseteq Messages
  /\ cached \in BOOLEAN /\ stray \in BOOLEAN /\ dangling \in BOOLEAN

\* A message is freed once, by its Response or with its client, and one that was
\* handed out is never left without a Response that will free it: whether the
\* program polls, sends, drops or closes, and whatever its hooks do (client.py:65-67).
MessagesFreedOnce ==
  \A m \in Messages :
    /\ frees[m] <= 1 /\ (frees[m] = 1 <=> msg[m] = "freed")
    /\ msg[m] = "owned" => m \in refs /\ ~closed[m]

\* The native client never calls a closure that python has dropped, although hooks
\* are set, replaced and cleared between its calls and inside them
\* (client.py:161, 373-374).
HookCallsAreLive == ~stray

\* "every returned value is an owned python object, so it outlives the borrowed c
\* message" (message.py:5-6).  It does not hold of the iterator.
ValuesOutliveMessages == ~dangling

\* In a program that drives its client and polls, whoever asked hears of it: by
\* poll, by the hook, or from send, unless it cancels or closes first.
EveryRequestHeard ==
  \A q \in Requests :
    req[q] = "flying" ~> \/ req[q] \in { "heard", "cancelled" }
                         \/ handle = "closed"

=============================================================================
