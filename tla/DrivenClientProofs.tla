------------------------- MODULE DrivenClientProofs -------------------------
(***************************************************************************)
(* Proofs about DrivenClient, for any requests, messages and hooks: every  *)
(* message is freed once and has an owner until then, and the closure the  *)
(* native client calls is the one python keeps.  Whoever asked can be      *)
(* told, and a request is decided once.                                    *)
(***************************************************************************)

EXTENDS DrivenClient, TLAPS

-----------------------------------------------------------------------------
(* The inductive invariant, part by part.                                  *)

\* What C calls is what python keeps alive, between any two native calls.
Hooked == registered = kept /\ ~stray

\* A message that was handed out has a Response in reach until it is freed; only a
\* Response that is closed has freed its own, and no other does.
Owning(m) ==
  /\ msg[m] = "owned" => m \in refs
  /\ m \in refs => msg[m] \in { "owned", "freed" }
  /\ m \in refs /\ msg[m] = "freed" => closed[m]
  /\ closed[m] => msg[m] = "freed"
  /\ frees[m] = IF msg[m] = "freed" THEN 1 ELSE 0

\* An answer exists once its request has arrived, and is the native client's for
\* just as long as a poll would find it.
Answering(q) ==
  /\ req[q] \in { "unsent", "flying", "failed" } => msg[q] = "none"
  /\ req[q] = "arrived" <=> msg[q] = "native"

IInv ==
  /\ TypeOK /\ Hooked
  /\ \A m \in Messages : Owning(m)
  /\ \A q \in Requests : Answering(q)

-----------------------------------------------------------------------------
(* Lemmas.                                                                 *)

\* A request's message is none of the others.
LEMMA Kinds ==
  /\ \A q \in Requests : q \in Messages
  /\ \A m \in Others : m \in Messages /\ m \notin Requests
BY OthersAnswerNone DEF Messages

MessageTypes ==
  /\ msg \in [ Messages -> { "none", "native", "owned", "freed" } ]
  /\ closed \in [ Messages -> BOOLEAN ] /\ frees \in [ Messages -> Nat ]
  /\ refs \subseteq Messages

\* Responses that close, and the references that go with them.
LEMMA ClosingStep ==
  ASSUME IInv, NEW ms \in SUBSET refs, Closes(ms), UNCHANGED req,
         refs' = refs \/ refs' = refs \ ms
  PROVE  /\ MessageTypes'
         /\ \A m \in Messages : Owning(m)'
         /\ \A q \in Requests : Answering(q)'
<1>1. ms \subseteq Messages /\ refs' \subseteq Messages
  BY DEF IInv, TypeOK
<1>2. \A m \in Messages :
         /\ msg'[m] = IF m \in ms /\ ~closed[m] THEN "freed" ELSE msg[m]
         /\ frees'[m] = IF m \in ms /\ ~closed[m] THEN frees[m] + 1 ELSE frees[m]
         /\ closed'[m] <=> (closed[m] \/ m \in ms)
  BY DEF Closes, Freed, Closed
<1>3. MessageTypes'
  BY <1>1 DEF IInv, TypeOK, MessageTypes, Closes, Freed, Closed
<1>4. ASSUME NEW m \in Messages PROVE Owning(m)'
  <2>1. Owning(m) /\ frees[m] \in Nat
    BY DEF IInv, TypeOK
  <2>2. CASE m \in ms /\ ~closed[m]
    <3>1. m \in refs /\ msg[m] = "owned" /\ frees[m] = 0
      BY <2>1, <2>2 DEF Owning
    <3> QED
      BY <1>2, <2>2, <3>1 DEF Owning
  <2>3. CASE ~(m \in ms /\ ~closed[m])
    <3>1. msg'[m] = msg[m] /\ frees'[m] = frees[m]
      BY <1>2, <2>3
    <3>2. closed'[m] <=> closed[m]
      BY <1>2, <2>3
    <3>3. m \in refs' => m \in refs
      OBVIOUS
    <3>4. msg[m] = "owned" => m \in refs'
      BY <2>1, <2>3 DEF Owning
    <3> QED
      BY <2>1, <3>1, <3>2, <3>3, <3>4 DEF Owning
  <2> QED
    BY <2>2, <2>3
<1>5. ASSUME NEW q \in Requests PROVE Answering(q)'
  <2>1. q \in Messages /\ Owning(q) /\ Answering(q)
    BY Kinds DEF IInv
  <2> QED
    BY <1>2, <2>1 DEF Owning, Answering
<1> QED
  BY <1>3, <1>4, <1>5

\* A new Response gets a message that nobody has, or the native client.
LEMMA OwnedStep ==
  ASSUME IInv, NEW m \in Messages, msg[m] \in { "none", "native" }, Owned(m)
  PROVE  MessageTypes' /\ \A n \in Messages : Owning(n)'
<1>1. MessageTypes'
  BY DEF IInv, TypeOK, MessageTypes, Owned
<1>2. ASSUME NEW n \in Messages PROVE Owning(n)'
  <2>1. Owning(n)
    BY DEF IInv
  <2>2. closed' = closed /\ frees' = frees /\ refs' = refs \cup { m }
    BY DEF Owned
  <2>3. msg'[n] = IF n = m THEN "owned" ELSE msg[n]
    BY DEF Owned, IInv, TypeOK
  <2> QED
    BY <2>1, <2>2, <2>3 DEF Owning
<1> QED
  BY <1>1, <1>2

\* What the native client frees, python never had.
LEMMA NativeFreedStep ==
  ASSUME IInv, NEW ms, \A m \in ms : m \in Messages /\ msg[m] = "native",
         Freed(ms), UNCHANGED << closed, refs >>
  PROVE  MessageTypes' /\ \A m \in Messages : Owning(m)'
<1>1. MessageTypes'
  BY DEF IInv, TypeOK, MessageTypes, Freed
<1>2. ASSUME NEW m \in Messages PROVE Owning(m)'
  <2>1. Owning(m) /\ frees[m] \in Nat
    BY DEF IInv, TypeOK
  <2>2. /\ msg'[m] = IF m \in ms THEN "freed" ELSE msg[m]
        /\ frees'[m] = IF m \in ms THEN frees[m] + 1 ELSE frees[m]
    BY DEF Freed
  <2> QED
    BY <2>1, <2>2 DEF Owning
<1> QED
  BY <1>1, <1>2

-----------------------------------------------------------------------------
(* The steps.                                                              *)

LEMMA Initially == Init => IInv
<1> SUFFICES ASSUME Init PROVE IInv
  OBVIOUS
<1>1. TypeOK /\ Hooked
  BY DEF Init, TypeOK, Hooked
<1>2. ASSUME NEW m \in Messages PROVE Owning(m)
  BY DEF Init, Owning
<1>3. ASSUME NEW q \in Requests PROVE Answering(q)
  BY Kinds DEF Init, Answering
<1> QED
  BY <1>1, <1>2, <1>3 DEF IInv

\* submit, send: a request takes off and nothing else changes.
LEMMA AskingStep ==
  ASSUME IInv, NEW q \in Requests, Submit(q) \/ Send(q)
  PROVE  IInv'
<1>1. TypeOK' /\ Hooked'
  BY DEF IInv, TypeOK, Hooked, Submit, Send, Becomes, hooks, messages, readers
<1>2. \A m \in Messages : Owning(m)'
  BY DEF IInv, Owning, Submit, Send, messages
<1>3. ASSUME NEW p \in Requests PROVE Answering(p)'
  <2>1. Answering(p) /\ req[q] = "unsent"
    BY DEF IInv, Submit, Send
  <2>2. msg' = msg /\ req'[p] = IF p = q THEN "flying" ELSE req[p]
    BY DEF IInv, TypeOK, Submit, Send, Becomes, messages
  <2> QED
    BY <2>1, <2>2 DEF Answering
<1> QED
  BY <1>1, <1>2, <1>3 DEF IInv

\* A request completes: send or the hook has its answer at once, or the native
\* client keeps it.
LEMMA ArrivalStep ==
  ASSUME IInv, NEW q \in Requests, NEW well \in BOOLEAN, Arrives(q, well)
  PROVE  IInv'
<1>1. /\ q \in Messages /\ req[q] = "flying" /\ msg[q] = "none"
      /\ Owning(q)
  BY Kinds DEF IInv, Arrives, Answering
<1>2. CASE Owned(q) /\ req' = Becomes(q, "heard")
  <2>1. MessageTypes' /\ \A m \in Messages : Owning(m)'
    BY <1>1, <1>2, OwnedStep
  <2>2. TypeOK' /\ Hooked'
    BY <1>2, <2>1 DEF IInv, TypeOK, MessageTypes, Hooked, Arrives, Becomes, readers, hooks
  <2>3. ASSUME NEW p \in Requests PROVE Answering(p)'
    <3>1. Answering(p) /\ p \in Messages
      BY Kinds DEF IInv
    <3>2. /\ msg'[p] = IF p = q THEN "owned" ELSE msg[p]
          /\ req'[p] = IF p = q THEN "heard" ELSE req[p]
      BY <1>2, <3>1 DEF IInv, TypeOK, Owned, Becomes
    <3> QED
      BY <3>1, <3>2 DEF Answering
  <2> QED
    BY <2>1, <2>2, <2>3 DEF IInv
<1>3. CASE UNCHANGED messages /\ req' \in { Becomes(q, "heard"), Becomes(q, "failed") }
  <2>1. TypeOK' /\ Hooked'
    BY <1>3 DEF IInv, TypeOK, Hooked, Arrives, Becomes, readers, hooks, messages
  <2>2. \A m \in Messages : Owning(m)'
    BY <1>3 DEF IInv, Owning, messages
  <2>3. ASSUME NEW p \in Requests PROVE Answering(p)'
    <3>1. Answering(p)
      BY DEF IInv
    <3>2. msg' = msg /\ req'[p] \in { req[p], "heard", "failed" }
                     /\ (p # q => req'[p] = req[p])
                     /\ (p = q => req'[p] \in { "heard", "failed" })
      BY <1>3 DEF IInv, TypeOK, Becomes, messages
    <3> QED
      BY <1>1, <3>1, <3>2 DEF Answering
  <2> QED
    BY <2>1, <2>2, <2>3 DEF IInv
<1>4. CASE /\ req' = Becomes(q, "arrived") /\ msg' = [ msg EXCEPT ![q] = "native" ]
           /\ UNCHANGED << closed, refs, frees, hooks, awaiting >>
  <2>1. TypeOK' /\ Hooked'
    BY <1>4 DEF IInv, TypeOK, Hooked, Arrives, Becomes, readers, hooks
  <2>2. ASSUME NEW m \in Messages PROVE Owning(m)'
    <3>1. Owning(m)
      BY DEF IInv
    <3>2. msg'[m] = IF m = q THEN "native" ELSE msg[m]
      BY <1>4 DEF IInv, TypeOK
    <3> QED
      BY <1>1, <1>4, <3>1, <3>2 DEF Owning
  <2>3. ASSUME NEW p \in Requests PROVE Answering(p)'
    <3>1. Answering(p) /\ p \in Messages
      BY Kinds DEF IInv
    <3>2. /\ msg'[p] = IF p = q THEN "native" ELSE msg[p]
          /\ req'[p] = IF p = q THEN "arrived" ELSE req[p]
      BY <1>4, <3>1 DEF IInv, TypeOK, Becomes
    <3> QED
      BY <3>1, <3>2 DEF Answering
  <2> QED
    BY <2>1, <2>2, <2>3 DEF IInv
<1> QED
  BY <1>2, <1>3, <1>4 DEF Arrives, messages

LEMMA PollStep ==
  ASSUME IInv, NEW q \in Requests, PollRequest(q)
  PROVE  IInv'
<1>1. q \in Messages /\ Answering(q)
  BY Kinds DEF IInv
<1>2. CASE req[q] = "arrived" /\ req' = Becomes(q, "heard") /\ Owned(q)
  <2>1. MessageTypes' /\ \A m \in Messages : Owning(m)'
    BY <1>1, <1>2, OwnedStep DEF Answering
  <2>2. TypeOK' /\ Hooked'
    BY <1>2, <2>1 DEF IInv, TypeOK, MessageTypes, Hooked, PollRequest, Becomes, readers, hooks
  <2>3. ASSUME NEW p \in Requests PROVE Answering(p)'
    <3>1. Answering(p) /\ p \in Messages
      BY Kinds DEF IInv
    <3>2. /\ msg'[p] = IF p = q THEN "owned" ELSE msg[p]
          /\ req'[p] = IF p = q THEN "heard" ELSE req[p]
      BY <1>2, <3>1 DEF IInv, TypeOK, Owned, Becomes
    <3> QED
      BY <3>1, <3>2 DEF Answering
  <2> QED
    BY <2>1, <2>2, <2>3 DEF IInv
<1>3. CASE req[q] = "failed" /\ req' = Raises(q) /\ UNCHANGED messages
  <2>1. TypeOK' /\ Hooked'
    BY <1>3 DEF IInv, TypeOK, Hooked, PollRequest, Raises, Becomes, readers, hooks, messages
  <2>2. \A m \in Messages : Owning(m)'
    BY <1>3 DEF IInv, Owning, messages
  <2>3. ASSUME NEW p \in Requests PROVE Answering(p)'
    <3>1. Answering(p) /\ msg' = msg
      BY <1>3 DEF IInv, messages
    <3>2. req'[p] = IF p = q THEN "heard" ELSE req[p]
      BY <1>3 DEF IInv, TypeOK, Raises, Becomes
    <3> QED
      BY <1>1, <1>3, <3>1, <3>2 DEF Answering
  <2> QED
    BY <2>1, <2>2, <2>3 DEF IInv
<1> QED
  BY <1>2, <1>3 DEF PollRequest

LEMMA CancelStep ==
  ASSUME IInv, NEW q \in Requests, CancelRequest(q)
  PROVE  IInv'
<1> DEFINE ms == { q } \cap { m \in Messages : msg[m] = "native" }
<1>1. MessageTypes' /\ \A m \in Messages : Owning(m)'
  <2>1. Freed(ms) /\ UNCHANGED << closed, refs >> /\ \A m \in ms : m \in Messages /\ msg[m] = "native"
    BY DEF CancelRequest
  <2> HIDE DEF ms
  <2> QED
    BY <2>1, NativeFreedStep
<1>2. TypeOK' /\ Hooked'
  BY <1>1 DEF IInv, TypeOK, MessageTypes, Hooked, CancelRequest, Becomes, readers, hooks
<1>3. ASSUME NEW p \in Requests PROVE Answering(p)'
  <2>1. Answering(p) /\ p \in Messages
    BY Kinds DEF IInv
  <2>2. /\ msg'[p] = IF p = q /\ msg[p] = "native" THEN "freed" ELSE msg[p]
        /\ req'[p] = IF p = q THEN "cancelled" ELSE req[p]
    BY <2>1 DEF IInv, TypeOK, CancelRequest, Freed, Becomes
  <2> QED
    BY <2>1, <2>2 DEF Answering
<1> QED
  BY <1>1, <1>2, <1>3 DEF IInv

LEMMA CloseStep ==
  ASSUME IInv, Close
  PROVE  IInv'
<1> DEFINE ms == { m \in Messages : msg[m] = "native" }
<1>1. MessageTypes' /\ \A m \in Messages : Owning(m)'
  <2>1. Freed(ms) /\ UNCHANGED << closed, refs >> /\ \A m \in ms : m \in Messages /\ msg[m] = "native"
    BY DEF Close
  <2> HIDE DEF ms
  <2> QED
    BY <2>1, NativeFreedStep
<1>2. TypeOK' /\ Hooked'
  BY <1>1 DEF IInv, TypeOK, MessageTypes, Hooked, Close, readers
<1>3. ASSUME NEW p \in Requests PROVE Answering(p)'
  <2>1. Answering(p) /\ p \in Messages
    BY Kinds DEF IInv
  <2>2. /\ msg'[p] = IF msg[p] = "native" THEN "freed" ELSE msg[p]
        /\ req'[p] = IF req[p] \in { "flying", "arrived", "failed" } THEN "lost" ELSE req[p]
    BY <2>1 DEF Close, Freed
  <2> QED
    BY <2>1, <2>2 DEF Answering
<1> QED
  BY <1>1, <1>2, <1>3 DEF IInv

\* A message that answers no request is handed out.
LEMMA HandedStep ==
  ASSUME IInv, NEW m \in Others, Handed(m),
         UNCHANGED << handle, calls, hooks, readers >>
  PROVE  IInv'
<1>1. MessageTypes' /\ \A n \in Messages : Owning(n)'
  BY Kinds, OwnedStep DEF Handed
<1>2. TypeOK' /\ Hooked'
  BY <1>1 DEF IInv, TypeOK, MessageTypes, Hooked, calls, hooks, readers
<1>3. ASSUME NEW q \in Requests PROVE Answering(q)'
  <2>1. Answering(q) /\ q \in Messages /\ q # m
    BY Kinds DEF IInv
  <2>2. msg'[q] = msg[q] /\ req' = req
    BY <2>1 DEF Handed, Owned, IInv, TypeOK, calls
  <2> QED
    BY <2>1, <2>2 DEF Answering
<1> QED
  BY <1>1, <1>2, <1>3 DEF IInv

\* close, or a reference that goes
LEMMA ResponseStep ==
  ASSUME IInv, NEW m \in Messages, CloseResponse(m) \/ DropResponse(m)
  PROVE  IInv'
<1>1. /\ MessageTypes'
      /\ \A n \in Messages : Owning(n)'
      /\ \A q \in Requests : Answering(q)'
  <2>1. { m } \in SUBSET refs /\ Closes({ m }) /\ UNCHANGED req
    BY DEF CloseResponse, DropResponse, calls
  <2>2. refs' = refs \/ refs' = refs \ { m }
    BY DEF CloseResponse, DropResponse
  <2> QED
    BY <2>1, <2>2, ClosingStep
<1>2. TypeOK' /\ Hooked'
  BY <1>1 DEF IInv, TypeOK, MessageTypes, Hooked, CloseResponse, DropResponse, calls,
              hooks, readers
<1> QED
  BY <1>1, <1>2 DEF IInv

LEMMA HookEndsStep ==
  ASSUME IInv, HookEnds
  PROVE  IInv'
<1>1. CASE UNCHANGED messages
  <2>1. TypeOK' /\ Hooked'
    BY <1>1 DEF IInv, TypeOK, Hooked, HookEnds, calls, messages, readers
  <2> QED
    BY <1>1, <2>1 DEF IInv, Owning, Answering, HookEnds, calls, messages
<1>2. CASE inHook \in refs /\ refs' = refs \ { inHook } /\ Closes({ inHook })
  <2>1. /\ MessageTypes'
        /\ \A n \in Messages : Owning(n)'
        /\ \A q \in Requests : Answering(q)'
    <3>1. { inHook } \in SUBSET refs /\ UNCHANGED req
      BY <1>2 DEF HookEnds, calls
    <3> QED
      BY <1>2, <3>1, ClosingStep
  <2>2. TypeOK' /\ Hooked'
    BY <2>1 DEF IInv, TypeOK, MessageTypes, Hooked, HookEnds, calls, readers
  <2> QED
    BY <2>1, <2>2 DEF IInv
<1> QED
  BY <1>1, <1>2 DEF HookEnds

\* on_request_done tells C and python of the same closure.
LEMMA RegisterStep ==
  ASSUME IInv, NEW h \in Hooks \cup { None }, OnRequestDone(h)
  PROVE  IInv'
<1>1. TypeOK' /\ Hooked'
  BY DEF IInv, TypeOK, Hooked, OnRequestDone, Registers, calls, messages, readers
<1> QED
  BY <1>1 DEF IInv, Owning, Answering, OnRequestDone, calls, messages

\* Reading a message changes nothing of its owner.
LEMMA ReadingStep ==
  ASSUME IInv, NEW m \in Messages,
         Headers(m) \/ NextHeader(m) \/ PutSigned(m)
  PROVE  IInv'
<1>1. UNCHANGED << handle, calls, hooks, messages >>
  BY DEF Headers, NextHeader, PutSigned
<1>2. iters' \subseteq Messages /\ cached' \in BOOLEAN /\ dangling' \in BOOLEAN
  BY DEF IInv, TypeOK, Headers, NextHeader, PutSigned, readers
<1>3. TypeOK' /\ Hooked'
  BY <1>1, <1>2 DEF IInv, TypeOK, Hooked, calls, hooks, messages
<1> QED
  BY <1>1, <1>3 DEF IInv, Owning, Answering, calls, messages

LEMMA Stuttering == IInv /\ UNCHANGED vars => IInv'
BY DEF IInv, TypeOK, Hooked, Owning, Answering, vars, calls, hooks, messages, readers

LEMMA Step == IInv /\ [Next]_vars => IInv'
<1> SUFFICES ASSUME IInv, [Next]_vars PROVE IInv'
  OBVIOUS
<1>1. ASSUME NEW q \in Requests, Exchange(q) PROVE IInv'
  BY <1>1, AskingStep, PollStep, CancelStep, ArrivalStep DEF Exchange
<1>2. ASSUME NEW m \in Messages, Message(m) PROVE IInv'
  BY <1>2, ResponseStep, ReadingStep DEF Message
<1>3. ASSUME NEW m \in Others, PollNotify(m) \/ StreamResponse(m) \/ GetSigned(m)
      PROVE  IInv'
  BY <1>3, HandedStep DEF PollNotify, StreamResponse, GetSigned
<1>4. ASSUME NEW h \in Hooks \cup { None }, OnRequestDone(h) PROVE IInv'
  BY <1>4, RegisterStep
<1> QED
  BY <1>1, <1>2, <1>3, <1>4, HookEndsStep, CloseStep, Stuttering DEF Next

-----------------------------------------------------------------------------

\* The invariant above holds in every reachable state.
THEOREM Invariance == Spec => []IInv
BY Initially, Step, PTL DEF Spec

\* Every variable keeps its type, for any requests, messages and hooks.
THEOREM TypeCorrect == Spec => []TypeOK
<1>1. IInv => TypeOK
  BY DEF IInv
<1> QED
  BY <1>1, Invariance, PTL

\* Whatever the program and its hooks do, a message is freed once, by its Response or
\* with its client, and is never without one that will (client.py:65-67).
THEOREM MessagesAreFreedOnce == Spec => []MessagesFreedOnce
<1>1. IInv => MessagesFreedOnce
  BY DEF IInv, Owning, MessagesFreedOnce
<1> QED
  BY <1>1, Invariance, PTL

\* The native client never calls a closure that python dropped, however hooks replace
\* one another (client.py:161, 373-374).
THEOREM HooksStayAlive == Spec => []HookCallsAreLive
<1>1. IInv => HookCallsAreLive
  BY DEF IInv, Hooked, HookCallsAreLive
<1> QED
  BY <1>1, Invariance, PTL

-----------------------------------------------------------------------------
(* The safety side of EveryRequestHeard.                                   *)

\* What was decided of a request stays: nothing is heard, cancelled or lost twice.
Decided == { "heard", "cancelled", "lost" }

\* Whoever waits can still be told: send() blocks for a request that is in flight on
\* an open client, although the hooks that run meanwhile may cancel, poll and submit;
\* a hook runs for a request that was heard; and a closed client has no request that
\* anyone could wait for, and no hook (client.py:168-199, 326-374, 421-426).
NobodyUnheard ==
  /\ awaiting # None => handle = "open" /\ req[awaiting] = "flying"
  /\ inHook # None => handle = "open" /\ req[inHook] = "heard"
  /\ handle = "closed" =>
       /\ registered = None
       /\ \A q \in Requests : req[q] \in Decided \cup { "unsent" }

\* A step that moves one request, and neither send, nor the hooks, nor the handle.
LEMMA MovedStep ==
  ASSUME IInv, NobodyUnheard, NEW q \in Requests, NEW state,
         handle = "open", req[q] \notin Decided, req' = Becomes(q, state),
         q = awaiting /\ awaiting # None => state = "flying",
         UNCHANGED << handle, awaiting, hooks >>
  PROVE  NobodyUnheard'
BY DEF NobodyUnheard, Becomes, Decided, IInv, TypeOK, hooks

LEMMA UnheardStep == IInv /\ NobodyUnheard /\ [Next]_vars => NobodyUnheard'
<1> SUFFICES ASSUME IInv, NobodyUnheard, [Next]_vars PROVE NobodyUnheard'
  OBVIOUS
<1>1. ASSUME NEW q \in Requests, Submit(q) \/ PollRequest(q) \/ CancelRequest(q)
      PROVE  NobodyUnheard'
  <2>1. \E state :
          /\ req' = Becomes(q, state)
          /\ q = awaiting /\ awaiting # None => state = "flying"
    <3>1. CASE Submit(q)
      BY <3>1 DEF Submit
    <3>2. CASE PollRequest(q) \/ CancelRequest(q)
      <4>1. q = awaiting => awaiting = None
        BY <3>2 DEF PollRequest, CancelRequest, NobodyUnheard
      <4> QED
        BY <3>2, <4>1 DEF PollRequest, Raises, CancelRequest
    <3> QED
      BY <1>1, <3>1, <3>2
  <2>2. /\ handle = "open" /\ req[q] \notin Decided
        /\ UNCHANGED << handle, awaiting, hooks >>
    BY <1>1 DEF Submit, PollRequest, CancelRequest, Decided
  <2> QED
    BY <2>1, <2>2, MovedStep
<1>2. ASSUME NEW q \in Requests, Send(q) PROVE NobodyUnheard'
  BY <1>2 DEF Send, MayPump, NobodyUnheard, Becomes, IInv, TypeOK, hooks
<1>3. ASSUME NEW q \in Requests, NEW well \in BOOLEAN, Arrives(q, well)
      PROVE  NobodyUnheard'
  <2>1. handle = "open" /\ handle' = handle /\ req[q] = "flying" /\ inHook = None
    BY <1>3 DEF Arrives
  <2>2. CASE q = awaiting
    BY <1>3, <2>1, <2>2 DEF Arrives, NobodyUnheard, hooks
  <2>3. CASE q # awaiting
    <3>1. /\ awaiting' = awaiting /\ inHook' \in { None, q }
          /\ \A p \in Requests : p # q => req'[p] = req[p]
          /\ inHook' # None => req'[q] = "heard"
      BY <1>3, <2>1, <2>3 DEF Arrives, Becomes, hooks, IInv, TypeOK
    <3> QED
      BY <2>1, <2>3, <3>1 DEF NobodyUnheard, IInv, TypeOK
  <2> QED
    BY <2>2, <2>3
<1>4. CASE Close
  BY <1>4 DEF Close, MayPump, NobodyUnheard, Decided, IInv, TypeOK
<1>5. CASE HookEnds
  BY <1>5 DEF HookEnds, NobodyUnheard, calls
<1>6. ASSUME NEW h \in Hooks \cup { None }, OnRequestDone(h) PROVE NobodyUnheard'
  BY <1>6 DEF OnRequestDone, NobodyUnheard, calls
<1>7. CASE UNCHANGED << handle, calls, hooks >>
  BY <1>7 DEF NobodyUnheard, calls, hooks
<1>8. ASSUME NEW m \in Messages,
             \/ Message(m) \/ PollNotify(m) \/ StreamResponse(m) \/ GetSigned(m)
             \/ UNCHANGED vars
      PROVE  UNCHANGED << handle, calls, hooks >>
  BY <1>8
  DEF Message, CloseResponse, DropResponse, Headers, NextHeader, PutSigned, PollNotify,
      StreamResponse, GetSigned, vars
<1>9. CASE UNCHANGED vars
  BY <1>7, <1>9 DEF vars
<1> QED
  BY <1>1, <1>2, <1>3, <1>4, <1>5, <1>6, <1>7, <1>8, <1>9, Kinds DEF Next, Exchange

\* No caller is left waiting for what can no longer come.
THEOREM NobodyIsUnheard == Spec => []NobodyUnheard
<1>1. Init => NobodyUnheard
  BY DEF Init, NobodyUnheard
<1> QED
  BY <1>1, UnheardStep, Invariance, PTL DEF Spec

\* A request is decided once: after send returned, the hook was called or a poll
\* returned or raised, no later poll, hook, cancel or close says anything else of it.
DecidedOnce == [][ \A q \in Requests : req[q] \in Decided => req'[q] = req[q] ]_vars

THEOREM RequestsAreDecidedOnce == Spec => DecidedOnce
<1>1. IInv /\ [Next]_vars
      => [ \A q \in Requests : req[q] \in Decided => req'[q] = req[q] ]_vars
  <2> SUFFICES ASSUME IInv, [Next]_vars, NEW q \in Requests, req[q] \in Decided
               PROVE  req'[q] = req[q]
    OBVIOUS
  <2>1. ASSUME NEW p \in Requests, Exchange(p) PROVE req'[q] = req[q]
    <3>1. /\ req[p] \notin Decided
          /\ \E state : req' = Becomes(p, state)
      BY <2>1
      DEF Exchange, Submit, Send, PollRequest, Raises, CancelRequest, Arrives, Decided
    <3> QED
      BY <3>1 DEF Becomes, IInv, TypeOK
  <2>2. CASE Close
    BY <2>2 DEF Close, Decided
  <2>3. CASE HookEnds \/ \E h \in Hooks \cup { None } : OnRequestDone(h)
    BY <2>3 DEF HookEnds, OnRequestDone, calls
  <2>4. CASE \/ \E m \in Messages : Message(m)
             \/ \E m \in Others : PollNotify(m) \/ StreamResponse(m) \/ GetSigned(m)
             \/ UNCHANGED vars
    BY <2>4
    DEF Message, CloseResponse, DropResponse, Headers, NextHeader, PutSigned,
        PollNotify, StreamResponse, GetSigned, calls, vars
  <2> QED
    BY <2>1, <2>2, <2>3, <2>4 DEF Next
<1> QED
  BY <1>1, Invariance, PTL DEF Spec, DecidedOnce

=============================================================================
