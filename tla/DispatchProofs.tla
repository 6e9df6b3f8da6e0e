--------------------------- MODULE DispatchProofs ---------------------------
(***************************************************************************)
(* Proofs about Dispatch, for any number of requests, any handlers and any *)
(* cap on parked requests: a handler has one Reply, a Reply of one's own   *)
(* decides what the peer gets, a failure is seen, a terminal of a responder *)
(* that was kept raises, and nobody who waits is forgotten.                *)
(***************************************************************************)

EXTENDS Dispatch, TLAPS

-----------------------------------------------------------------------------
(* The inductive invariant, part by part.                                  *)

\* Where a request is: unseen, in its handler, or past it.
Places ==
  /\ \A r \in Requests :
       /\ native[r] = "unseen" => ~used[r] /\ sent[r] = None /\ ended[r] = "not"
       /\ native[r] = "handling" => handling = r
       /\ ended[r] = "not" => native[r] = "unseen" \/ handling = r
       /\ native[r] = "parked" => sent[r] = None
  /\ handling \in Requests =>
       /\ ended[handling] = "not"
       /\ native[handling] \in { "handling", "streaming", "ended" }

\* A Reply is made by the call that claims.
Claims ==
  /\ \A p \in replies : used[p.of]
  /\ \A r \in Requests : over[r] => used[r]

\* While the handler runs, the head of a stream was sent if and only if it has the
\* Reply of Responder.stream.
Heads ==
  handling \in Requests =>
    IF Reply(handling, "stream") \in replies
    THEN sent[handling] = "stream" /\ native[handling] # "handling"
    ELSE sent[handling] = None /\ native[handling] = "handling"

\* While the handler runs, the buffer holds what its Reply was made for.
Buffers ==
  \A p \in replies :
    p.of = handling /\ ~over[handling] /\ p.gave \in Bodies \cup { "route" } =>
      buf[handling] = p.gave

\* A handler that returned its Reply leaves no responder that can still claim.
Kept ==
  \A r \in Requests :
    /\ ended[r] = "own" => used[r]
    /\ ended[r] \in { "not", "own" } => ~stale[r]

IInv ==
  TypeOK /\ Places /\ Claims /\ Heads /\ Buffers /\ Kept /\ OneReply
    /\ ReplyDecides /\ FailureIsSeen

-----------------------------------------------------------------------------
(* The steps.                                                              *)

\* Claiming makes at most one Reply for a request that had none.
LEMMA ClaimStep ==
  ASSUME IInv, NEW r \in Requests, MayClaim(r), used' = Claimed(r), Started(r),
         NEW g \in Bodies \cup { "defer", "stream", "route" },
         replies' \in { replies, replies \cup { Reply(r, g) } },
         UNCHANGED over
  PROVE  /\ OneReply' /\ Claims' /\ ended[r] # "own"
         /\ used' \in [ Requests -> BOOLEAN ]
         /\ replies' \subseteq [ of : Requests,
                                 gave : Bodies \cup { "defer", "stream", "route" } ]
         /\ \A p \in replies : p.of # r
<1>1. \A p \in replies : p.of # r
  BY DEF IInv, Claims, MayClaim
<1>2. Reply(r, g).of = r /\ Reply(r, g) \in [ of : Requests,
                                 gave : Bodies \cup { "defer", "stream", "route" } ]
  BY DEF Reply
<1>3. used' \in [ Requests -> BOOLEAN ] /\ used'[r]
        /\ \A q \in Requests : used[q] => used'[q]
  BY DEF IInv, TypeOK, Claimed
<1>4. \A p \in replies' : p \in replies \/ p = Reply(r, g)
  OBVIOUS
<1>5. OneReply'
  BY <1>1, <1>2, <1>4 DEF IInv, OneReply
<1>6. Claims'
  BY <1>2, <1>3, <1>4 DEF IInv, Claims, TypeOK
<1> QED
  BY <1>1, <1>2, <1>3, <1>4, <1>5, <1>6 DEF IInv, Kept, MayClaim, TypeOK

\* Writing a buffer is over a response only in the handler, on a used responder.
LEMMA WriteEffect ==
  ASSUME TypeOK, NEW r \in Requests, NEW what \in Contents, Write(r, what)
  PROVE  /\ buf' \in [ Requests -> Contents \cup { None } ]
         /\ buf'[r] = what /\ \A q \in Requests : q # r => buf'[q] = buf[q]
         /\ over' \in [ Requests -> BOOLEAN ]
         /\ \A q \in Requests : over[q] => over'[q]
         /\ \A q \in Requests :
              over'[q] => over[q] \/ (q = r /\ used[r] /\ handling = r)
         /\ used[r] /\ handling = r => over'[r]
         /\ MayClaim(r) => over' = over
<1> DEFINE wrote == over[r] \/ (used[r] /\ handling = r)
<1>1. /\ buf' \in [ Requests -> Contents \cup { None } ]
      /\ buf'[r] = what /\ \A q \in Requests : q # r => buf'[q] = buf[q]
  BY DEF TypeOK, Write
<1>2. wrote \in BOOLEAN
  OBVIOUS
<1>3. over' = [ over EXCEPT ![r] = wrote ] /\ over \in [ Requests -> BOOLEAN ]
  BY DEF TypeOK, Write
<1>4. wrote <=> over[r] \/ (used[r] /\ handling = r)
  OBVIOUS
<1> HIDE DEF wrote
<1>5. over' \in [ Requests -> BOOLEAN ]
  BY <1>2, <1>3
<1>6. over'[r] = wrote /\ \A q \in Requests : q # r => over'[q] = over[q]
  BY <1>3
<1>7. MayClaim(r) => over' = over
  <2> SUFFICES ASSUME MayClaim(r) PROVE over' = over
    OBVIOUS
  <2>1. wrote = over[r]
    <3>1. over[r] \in BOOLEAN
      BY <1>3
    <3>2. wrote <=> over[r]
      BY <1>4 DEF MayClaim
    <3> QED
      BY <1>2, <3>1, <3>2
  <2> QED
    BY <1>3, <2>1
<1> QED
  BY <1>1, <1>4, <1>5, <1>6, <1>7

\* A terminal builds what its Reply stands for, or leaves none.
LEMMA AnswerStep ==
  ASSUME IInv, NEW r \in Requests, NEW b \in Bodies, Answer(r, b)
  PROVE  IInv'
<1> USE DEF IInv
<1>0. /\ buf' \in [ Requests -> Contents \cup { None } ] /\ over' = over
      /\ \A q \in Requests : q # r => buf'[q] = buf[q]
      /\ replies' # replies => buf'[r] = b
  BY WriteEffect DEF Answer, Contents
<1>1. \A p \in replies' : p \in replies \/ p = Reply(r, b)
  BY DEF Answer
<1>2. /\ OneReply' /\ Claims' /\ ended[r] # "own"
      /\ used' \in [ Requests -> BOOLEAN ]
      /\ replies' \subseteq [ of : Requests,
                              gave : Bodies \cup { "defer", "stream", "route" } ]
      /\ \A p \in replies : p.of # r
  BY <1>0, ClaimStep DEF Answer
<1>3. TypeOK'
  <2>1. stale' \in [ Requests -> BOOLEAN ]
    <3> DEFINE late == stale[r] \/ handling # r
    <3>1. late \in BOOLEAN
      OBVIOUS
    <3>2. stale' = [ stale EXCEPT ![r] = late ] /\ stale \in [ Requests -> BOOLEAN ]
      BY DEF TypeOK, Answer
    <3> HIDE DEF late
    <3> QED
      BY <3>1, <3>2
  <2> QED
    BY <1>0, <1>2, <2>1 DEF TypeOK, Answer
<1>4. Places'
  <2>1. \A q \in Requests : native[q] = "unseen" => used'[q] = used[q]
    BY DEF Answer, Claimed, Started, TypeOK
  <2> QED
    BY <2>1 DEF Places, Answer
<1>5. Heads'
  <2>1. Reply(r, b).gave # "stream"
    BY BodiesAreBodies DEF Reply
  <2>2. \A q : Reply(q, "stream") \in replies' <=> Reply(q, "stream") \in replies
    BY <2>1 DEF Reply, Answer
  <2> QED
    BY <2>2 DEF Heads, Answer
<1>6. Buffers'
  <2> SUFFICES ASSUME NEW p \in replies', p.of = handling, ~over[handling],
                      p.gave \in Bodies \cup { "route" }
               PROVE  buf'[handling] = p.gave
    BY <1>0 DEF Buffers, Answer
  <2>1. CASE p = Reply(r, b) /\ p \notin replies
    BY <1>0, <2>1 DEF Reply
  <2>2. CASE p \in replies
    BY <1>0, <1>2, <2>2 DEF Buffers, TypeOK
  <2> QED
    BY <1>1, <2>1, <2>2
<1>7. Kept'
  BY <1>2 DEF Kept, Answer, Claimed, TypeOK, Places, Started
<1>8. ReplyDecides' /\ FailureIsSeen'
  BY <1>0, <1>1, <1>2 DEF ReplyDecides, FailureIsSeen, Answer, Reply
<1> QED
  BY <1>2, <1>3, <1>4, <1>5, <1>6, <1>7, <1>8

\* A claim without a Reply.
LEMMA CopyRaisesStep ==
  ASSUME IInv, NEW r \in Requests, CopyRaises(r)
  PROVE  IInv'
<1> USE DEF IInv, CopyRaises
<1>1. used' \in [ Requests -> BOOLEAN ] /\ used'[r]
        /\ \A q \in Requests : (q # r => used'[q] = used[q]) /\ (used[q] => used'[q])
  BY DEF TypeOK, Claimed
<1>2. TypeOK' /\ Places' /\ Kept'
  BY <1>1 DEF TypeOK, Places, Kept, Started
<1>3. Claims'
  BY <1>1 DEF Claims, TypeOK
<1>4. Heads' /\ Buffers' /\ OneReply' /\ ReplyDecides' /\ FailureIsSeen'
  BY DEF Heads, Buffers, OneReply, ReplyDecides, FailureIsSeen
<1> QED
  BY <1>2, <1>3, <1>4

\* A request is deferred: nothing is sent yet.
LEMMA DeferStep ==
  ASSUME IInv, NEW r \in Requests, Defer(r)
  PROVE  IInv'
<1> USE DEF IInv
<1>1. \A p \in replies' : p \in replies \/ p = Reply(r, "defer")
  BY DEF Defer
<1>2. /\ OneReply' /\ Claims' /\ ended[r] # "own"
      /\ used' \in [ Requests -> BOOLEAN ]
      /\ replies' \subseteq [ of : Requests,
                              gave : Bodies \cup { "defer", "stream", "route" } ]
      /\ \A p \in replies : p.of # r
  BY ClaimStep DEF Defer
<1>3. TypeOK'
  BY <1>2 DEF TypeOK, Defer
<1>4. Places'
  <2>1. \A q \in Requests : native[q] = "unseen" => used'[q] = used[q]
    BY DEF Defer, Claimed, Started, TypeOK
  <2> QED
    BY <2>1 DEF Places, Defer
<1>5. Heads'
  <2>1. \A q : Reply(q, "stream") \in replies' <=> Reply(q, "stream") \in replies
    BY DEF Reply, Defer
  <2> QED
    BY <2>1 DEF Heads, Defer
<1>6. Buffers'
  <2>1. Reply(r, "defer").gave \notin Bodies \cup { "route" }
    BY BodiesAreBodies DEF Reply
  <2> QED
    BY <1>1, <2>1 DEF Buffers, Defer
<1>7. Kept'
  BY <1>2 DEF Kept, Defer, Claimed, TypeOK
<1>8. ReplyDecides' /\ FailureIsSeen'
  BY <1>1, <1>2 DEF ReplyDecides, FailureIsSeen, Defer, Reply
<1> QED
  BY <1>2, <1>3, <1>4, <1>5, <1>6, <1>7, <1>8

\* A stream begins only in the handler, whose request had sent nothing.
LEMMA BeginStreamStep ==
  ASSUME IInv, NEW r \in Requests, BeginStream(r)
  PROVE  IInv'
<1> USE DEF IInv
<1>1. CASE UNCHANGED << native, sent, replies >>
  <2>1. CopyRaises(r)
    BY <1>1 DEF BeginStream, CopyRaises
  <2> QED
    BY <2>1, CopyRaisesStep
<1>2. CASE /\ native[r] = "handling"
           /\ native' = [ native EXCEPT ![r] = "streaming" ]
           /\ sent' = [ sent EXCEPT ![r] = "stream" ]
           /\ replies' = replies \cup { Reply(r, "stream") }
  <2>0. handling = r /\ ended[r] = "not" /\ native[r] # "unseen"
    BY <1>2 DEF Places
  <2>1. \A p \in replies' : p \in replies \/ p = Reply(r, "stream")
    BY <1>2
  <2>2. /\ OneReply' /\ Claims' /\ ended[r] # "own"
        /\ used' \in [ Requests -> BOOLEAN ]
        /\ replies' \subseteq [ of : Requests,
                                gave : Bodies \cup { "defer", "stream", "route" } ]
        /\ \A p \in replies : p.of # r
    BY <1>2, ClaimStep DEF BeginStream
  <2>3. TypeOK'
    BY <1>2, <2>2 DEF TypeOK, BeginStream
  <2>4. Places'
    <3>1. \A q \in Requests : q # r => used'[q] = used[q] /\ native'[q] = native[q]
                                       /\ sent'[q] = sent[q]
      BY <1>2 DEF BeginStream, Claimed, TypeOK
    <3>2. native'[r] = "streaming"
      BY <1>2 DEF TypeOK
    <3> QED
      BY <2>0, <3>1, <3>2 DEF Places, BeginStream
  <2>5. Heads'
    BY <1>2, <2>0 DEF Heads, BeginStream, TypeOK
  <2>6. Buffers'
    <3>1. Reply(r, "stream").gave \notin Bodies \cup { "route" }
      BY BodiesAreBodies DEF Reply
    <3> QED
      BY <2>1, <3>1 DEF Buffers, BeginStream
  <2>7. Kept'
    BY <2>0, <2>2 DEF Kept, BeginStream, Claimed, TypeOK
  <2>8. ReplyDecides'
    <3>1. \A q \in Requests : q # r => native'[q] = native[q] /\ sent'[q] = sent[q]
      BY <1>2 DEF TypeOK
    <3>2. \A p \in replies' : p.of \in Requests
      BY <2>2
    <3> QED
      BY <2>0, <2>1, <2>2, <3>1, <3>2 DEF ReplyDecides, BeginStream, Reply
  <2>9. FailureIsSeen'
    BY <1>2, <2>0 DEF FailureIsSeen, BeginStream, TypeOK
  <2> QED
    BY <2>2, <2>3, <2>4, <2>5, <2>6, <2>7, <2>8, <2>9
<1> QED
  BY <1>1, <1>2 DEF BeginStream

\* header() and a failing sub-router make no Reply; in the handler they spoil the
\* buffer of a used responder only.
LEMMA SpoilStep ==
  ASSUME IInv, NEW r \in Requests, Header(r) \/ RouteRaises(r)
  PROVE  IInv'
<1> USE DEF IInv
<1>0. /\ Write(r, "broken") /\ "broken" \in Contents
      /\ UNCHANGED << handling, used, replies, native, sent, ended, stale >>
  BY DEF Header, RouteRaises, Contents
<1>1. /\ buf' \in [ Requests -> Contents \cup { None } ]
      /\ \A q \in Requests : q # r => buf'[q] = buf[q]
      /\ over' \in [ Requests -> BOOLEAN ]
      /\ \A q \in Requests : over[q] => over'[q]
      /\ \A q \in Requests : over'[q] => over[q] \/ (q = r /\ used[r] /\ handling = r)
      /\ used[r] /\ handling = r => over'[r]
  BY <1>0, WriteEffect
<1>2. TypeOK' /\ Places' /\ Claims' /\ Kept'
  BY <1>0, <1>1 DEF TypeOK, Places, Claims, Kept
<1>3. Heads' /\ OneReply' /\ FailureIsSeen'
  BY <1>0 DEF Heads, OneReply, FailureIsSeen
<1>4. Buffers'
  <2> SUFFICES ASSUME NEW p \in replies, p.of = handling, ~over'[handling],
                      p.gave \in Bodies \cup { "route" }
               PROVE  buf'[handling] = p.gave
    BY <1>0 DEF Buffers
  <2>1. handling \in Requests /\ used[handling]
    BY DEF TypeOK, Claims
  <2>2. handling # r /\ ~over[handling]
    BY <1>1, <2>1
  <2> QED
    BY <1>1, <2>1, <2>2 DEF Buffers
<1>5. ReplyDecides'
  BY <1>0, <1>1 DEF ReplyDecides, TypeOK
<1> QED
  BY <1>2, <1>3, <1>4, <1>5

\* A sub-router that handles the request writes, and then may claim.
LEMMA RoutedStep ==
  ASSUME IInv, NEW r \in Requests, Routed(r)
  PROVE  IInv'
<1> USE DEF IInv
<1>0. /\ Write(r, "route") /\ "route" \in Contents /\ native[r] # "unseen"
      /\ UNCHANGED << handling, native, sent, ended, stale >>
  BY DEF Routed, Contents, Started
<1>1. /\ buf' \in [ Requests -> Contents \cup { None } ]
      /\ buf'[r] = "route" /\ \A q \in Requests : q # r => buf'[q] = buf[q]
      /\ over' \in [ Requests -> BOOLEAN ]
      /\ \A q \in Requests : over[q] => over'[q]
      /\ \A q \in Requests : over'[q] => over[q] \/ (q = r /\ used[r] /\ handling = r)
      /\ used[r] /\ handling = r => over'[r]
      /\ MayClaim(r) => over' = over
  BY <1>0, WriteEffect
<1>2. CASE MayClaim(r)
  <2>0. over' = over
    BY <1>1, <1>2
  <2>1. replies' = replies \cup { Reply(r, "route") } /\ used' = Claimed(r)
    BY <1>2 DEF Routed
  <2>2. /\ OneReply' /\ Claims' /\ ended[r] # "own"
        /\ used' \in [ Requests -> BOOLEAN ]
        /\ replies' \subseteq [ of : Requests,
                                gave : Bodies \cup { "defer", "stream", "route" } ]
        /\ \A p \in replies : p.of # r
    BY <1>0, <1>2, <2>0, <2>1, ClaimStep DEF Started
  <2>3. TypeOK'
    BY <1>0, <1>1, <2>2 DEF TypeOK
  <2>4. Places' /\ FailureIsSeen'
    <3>1. \A q \in Requests : native[q] = "unseen" => used'[q] = used[q]
      BY <1>0, <2>1 DEF Claimed, TypeOK
    <3> QED
      BY <1>0, <3>1 DEF Places, FailureIsSeen
  <2>5. Heads'
    <3>1. \A q : Reply(q, "stream") \in replies' <=> Reply(q, "stream") \in replies
      BY <2>1 DEF Reply
    <3> QED
      BY <1>0, <3>1 DEF Heads
  <2>6. Buffers'
    <3> SUFFICES ASSUME NEW p \in replies', p.of = handling, ~over[handling],
                        p.gave \in Bodies \cup { "route" }
                 PROVE  buf'[handling] = p.gave
      BY <1>0, <2>0 DEF Buffers
    <3>1. CASE p = Reply(r, "route") /\ p \notin replies
      BY <1>1, <3>1 DEF Reply
    <3>2. CASE p \in replies
      BY <1>1, <2>2, <3>2 DEF Buffers, TypeOK
    <3> QED
      BY <2>1, <3>1, <3>2
  <2>7. Kept'
    BY <1>0, <2>1, <2>2 DEF Kept, Claimed, TypeOK
  <2>8. ReplyDecides'
    BY <1>0, <2>0, <2>1, <2>2 DEF ReplyDecides, Reply
  <2> QED
    BY <2>2, <2>3, <2>4, <2>5, <2>6, <2>7, <2>8
<1>3. CASE ~MayClaim(r)
  <2>1. UNCHANGED << used, replies >> /\ used[r]
    BY <1>3 DEF Routed, MayClaim
  <2>2. TypeOK' /\ Places' /\ Claims' /\ Kept'
    BY <1>0, <1>1, <2>1 DEF TypeOK, Places, Claims, Kept
  <2>3. Heads' /\ OneReply' /\ FailureIsSeen'
    BY <1>0, <2>1 DEF Heads, OneReply, FailureIsSeen
  <2>4. Buffers'
    <3> SUFFICES ASSUME NEW p \in replies, p.of = handling, ~over'[handling],
                        p.gave \in Bodies \cup { "route" }
                 PROVE  buf'[handling] = p.gave
      BY <1>0, <2>1 DEF Buffers
    <3>1. handling \in Requests
      BY DEF TypeOK
    <3>2. handling # r /\ ~over[handling]
      BY <1>1, <2>1, <3>1
    <3> QED
      BY <1>1, <3>1, <3>2 DEF Buffers
  <2>5. ReplyDecides'
    BY <1>0, <1>1, <2>1 DEF ReplyDecides, TypeOK
  <2> QED
    BY <2>2, <2>3, <2>4, <2>5
<1> QED
  BY <1>2, <1>3

\* The trampoline's code settles the request whose handler it was.
LEMMA FinishStep ==
  ASSUME IInv, NEW r \in Requests, NEW code \in { 0, 1, -801 },
         NEW how \in { "own", "other", "failed", "interrupted" }, Finish(r, code, how),
         how = "failed" <=> code = -801,
         how = "own" => \E p \in replies : p.of = r /\ Code(p) = code
  PROVE  IInv'
<1> USE DEF IInv
<1>0. /\ handling = r /\ r # None /\ ended[r] = "not" /\ native[r] # "unseen"
      /\ handling' = None
      /\ UNCHANGED << used, buf, replies, over, stale >>
      /\ ended' = [ ended EXCEPT ![r] = how ]
  BY RequestsAreNamed DEF Places, Finish
<1>1. \E state \in { "answered", "parked", "cut", native[r] },
         what \in Bodies \cup { None, "route", "stream", "error", "unavailable",
                               "unknown" } :
        /\ native' = [ native EXCEPT ![r] = state ]
        /\ sent' = [ sent EXCEPT ![r] = what ]
        /\ state = native[r] => native[r] \in { "streaming", "ended" }
        /\ state = "parked" => what = None
  BY <1>0 DEF Finish, Settle, Heads, Places, TypeOK
<1>2. TypeOK'
  BY <1>0, <1>1 DEF TypeOK
<1>3. Places'
  <2>1. \A q \in Requests : q # r => native'[q] = native[q] /\ sent'[q] = sent[q]
                                     /\ ended'[q] = ended[q]
    BY <1>0, <1>1 DEF TypeOK
  <2>2. native'[r] \notin { "unseen", "handling" } /\ ended'[r] # "not"
          /\ (native'[r] = "parked" => sent'[r] = None)
    BY <1>0, <1>1 DEF TypeOK
  <2> QED
    BY <1>0, <2>1, <2>2, RequestsAreNamed DEF Places
<1>4. Claims' /\ OneReply' /\ Heads' /\ Buffers'
  <2>1. \A p \in replies : p.of # None
    BY RequestsAreNamed DEF TypeOK
  <2> QED
    BY <1>0, <2>1, RequestsAreNamed DEF Claims, OneReply, Heads, Buffers
<1>5. Kept'
  BY <1>0 DEF Kept, Claims, TypeOK
<1>6. ReplyDecides'
  <2> SUFFICES ASSUME NEW p \in replies, ended'[p.of] = "own",
                      ~over[p.of] \/ p.gave = "stream" \/ p.gave = "defer"
               PROVE  IF p.gave = "defer"
                      THEN \/ /\ native'[p.of] \in { "parked", "gone" }
                              /\ sent'[p.of] = None
                           \/ /\ native'[p.of] = "answered"
                              /\ sent'[p.of] \in { "late", "unavailable" }
                      ELSE sent'[p.of] = p.gave
    BY <1>0 DEF ReplyDecides
  <2>0. p.of \in Requests /\ p.gave \in Bodies \cup { "defer", "stream", "route" }
          /\ p = Reply(p.of, p.gave)
    BY DEF TypeOK, Reply
  <2>1. CASE p.of # r
    <3>1. /\ native'[p.of] = native[p.of] /\ sent'[p.of] = sent[p.of]
          /\ ended[p.of] = "own"
      BY <1>0, <1>1, <2>0, <2>1 DEF TypeOK
    <3> QED
      BY <3>1 DEF ReplyDecides
  <2>2. CASE p.of = r
    <3>1. how = "own" /\ Code(p) = code
      BY <1>0, <2>2 DEF TypeOK, OneReply
    <3>2. \A g : Reply(r, g) \in replies => g = p.gave
      BY <2>0, <2>2 DEF OneReply, Reply
    <3>3. CASE p.gave = "defer"
      <4>1. sent[r] = None /\ native[r] = "handling" /\ code = 1
        BY <1>0, <3>1, <3>2, <3>3 DEF Heads, Code
      <4> QED
        BY <1>0, <2>2, <3>3, <4>1 DEF Finish, Settle, TypeOK
    <3>4. CASE p.gave = "stream"
      <4>1. sent[r] = "stream" /\ native[r] \in { "streaming", "ended" } /\ code = 0
        BY <1>0, <2>0, <2>2, <3>1, <3>4 DEF Heads, Code, Places
      <4> QED
        BY <1>0, <2>2, <3>4, <4>1 DEF Finish, Settle, TypeOK
    <3>5. CASE p.gave \in Bodies \cup { "route" }
      <4>1. p.gave # "defer" /\ p.gave # "stream"
        BY <3>5, BodiesAreBodies
      <4>2. native[r] = "handling" /\ code = 0 /\ buf[r] = p.gave
        BY <1>0, <2>2, <3>1, <3>2, <3>5, <4>1 DEF Heads, Code, Buffers
      <4> QED
        BY <1>0, <2>2, <3>5, <4>1, <4>2 DEF Finish, Settle, TypeOK
    <3> QED
      BY <2>0, <3>3, <3>4, <3>5
  <2> QED
    BY <2>1, <2>2
<1>7. FailureIsSeen'
  <2> SUFFICES ASSUME NEW q \in Requests, ended'[q] = "failed"
               PROVE  \/ native'[q] = "answered" /\ sent'[q] = "error"
                      \/ native'[q] = "cut" /\ sent'[q] = "stream"
    BY DEF FailureIsSeen
  <2>1. CASE q # r
    BY <1>0, <1>1, <2>1 DEF FailureIsSeen, TypeOK
  <2>2. CASE q = r
    <3>1. code = -801
      BY <1>0, <2>2 DEF TypeOK
    <3>2. CASE native[r] \in { "streaming", "ended" }
      BY <1>0, <2>2, <3>1, <3>2 DEF Finish, Settle, Heads, TypeOK
    <3>3. CASE native[r] = "handling"
      BY <1>0, <2>2, <3>1, <3>3 DEF Finish, Settle, TypeOK
    <3> QED
      BY <1>0, <3>2, <3>3 DEF Places
  <2> QED
    BY <2>1, <2>2
<1> QED
  BY <1>2, <1>3, <1>4, <1>5, <1>6, <1>7

\* A request arrives.
LEMMA BeginStep ==
  ASSUME IInv, NEW r \in Requests, Begin(r)
  PROVE  IInv'
<1> USE DEF IInv, Begin
<1>0. r # None /\ \A p \in replies : p.of # r
  BY RequestsAreNamed DEF Places, Claims
<1>1. TypeOK' /\ Claims' /\ OneReply' /\ Kept'
  BY DEF TypeOK, Claims, OneReply, Kept
<1>2. ended[r] = "not" /\ sent[r] = None
  BY DEF Places
<1>3. Places'
  <2>1. \A q \in Requests : q # handling
    BY RequestsAreNamed
  <2> QED
    BY <1>0, <1>2, <2>1 DEF Places, TypeOK
<1>4. Heads' /\ Buffers'
  BY <1>0, <1>2 DEF Heads, Buffers, Reply, TypeOK
<1>5. ReplyDecides' /\ FailureIsSeen'
  BY <1>0, <1>2 DEF ReplyDecides, FailureIsSeen, TypeOK
<1> QED
  BY <1>1, <1>3, <1>4, <1>5

\* What the loop and the peer do to a request that waits.
LEMMA WaitingStep ==
  ASSUME IInv, NEW r \in Requests, Gone(r) \/ Respond(r) \/ StreamEnd(r)
  PROVE  IInv'
<1> USE DEF IInv
<1>0. UNCHANGED << handling, used, buf, replies, ended, over, stale >>
  BY DEF Gone, Respond, StreamEnd
<1>1. \A q \in Requests : q # r => native'[q] = native[q] /\ sent'[q] = sent[q]
  BY DEF Gone, Respond, StreamEnd, TypeOK
<1>2. \/ native[r] = "parked" /\ native'[r] = "gone" /\ sent'[r] = sent[r]
      \/ native[r] = "streaming" /\ native'[r] = "gone" /\ sent'[r] = sent[r]
           /\ handling = None
      \/ native[r] = "parked" /\ native'[r] = "answered" /\ sent'[r] = "late"
      \/ native[r] = "streaming" /\ native'[r] = "ended" /\ sent'[r] = sent[r]
  BY DEF Gone, Respond, StreamEnd, TypeOK
<1>3. TypeOK'
  BY DEF TypeOK, Gone, Respond, StreamEnd
<1>4. Places' /\ Claims' /\ OneReply' /\ Kept' /\ Buffers'
  BY <1>0, <1>1, <1>2, RequestsAreNamed
     DEF Places, Claims, OneReply, Kept, Buffers
<1>5. Heads'
  BY <1>0, <1>1, <1>2, RequestsAreNamed DEF Heads, Places
<1>6. ReplyDecides'
  <2> SUFFICES ASSUME NEW p \in replies, ended[p.of] = "own",
                      ~over[p.of] \/ p.gave = "stream" \/ p.gave = "defer"
               PROVE  IF p.gave = "defer"
                      THEN \/ /\ native'[p.of] \in { "parked", "gone" }
                              /\ sent'[p.of] = None
                           \/ /\ native'[p.of] = "answered"
                              /\ sent'[p.of] \in { "late", "unavailable" }
                      ELSE sent'[p.of] = p.gave
    BY <1>0 DEF ReplyDecides
  <2>0. p.of \in Requests /\ p.gave # None
    BY BodiesAreBodies DEF TypeOK, None
  <2>1. CASE p.of # r
    BY <1>1, <2>0, <2>1 DEF ReplyDecides
  <2>2. CASE p.of = r
    BY <1>2, <2>0, <2>2 DEF ReplyDecides, Places
  <2> QED
    BY <2>1, <2>2
<1>7. FailureIsSeen'
  BY <1>0, <1>1, <1>2 DEF FailureIsSeen
<1> QED
  BY <1>3, <1>4, <1>5, <1>6, <1>7

-----------------------------------------------------------------------------
(* The theorems.                                                           *)

\* IInv is inductive.
THEOREM Invariance == Spec => []IInv
<1>1. Init => IInv
  BY RequestsAreNamed
     DEF Init, IInv, TypeOK, Places, Claims, Heads, Buffers, Kept, OneReply,
         ReplyDecides, FailureIsSeen
<1>2. IInv /\ [Next]_vars => IInv'
  <2> SUFFICES ASSUME IInv, [Next]_vars PROVE IInv'
    OBVIOUS
  <2>1. ASSUME NEW r \in Requests, Respondering(r) PROVE IInv'
    BY <2>1, AnswerStep, CopyRaisesStep, DeferStep, BeginStreamStep, RoutedStep,
       SpoilStep DEF Respondering
  <2>2. ASSUME NEW r \in Requests, Fail(r) PROVE IInv'
    <3>1. Finish(r, -801, "failed")
      BY <2>2 DEF Fail, Failure
    <3> QED
      BY <3>1, FinishStep
  <2>5. ASSUME NEW r \in Requests, Interrupted(r) PROVE IInv'
    <3>1. Finish(r, 0, "interrupted")
      BY <2>5 DEF Interrupted, Uncaught
    <3> QED
      BY <3>1, FinishStep
  <2>3. ASSUME NEW r \in Requests, NEW p \in replies, Return(r, p) PROVE IInv'
    <3>1. CASE p.of = r
      <4>1. Finish(r, Code(p), "own") /\ Code(p) \in { 0, 1, -801 } /\ Code(p) # -801
        BY <2>3, <3>1 DEF Return, Code
      <4> QED
        BY <3>1, <4>1, FinishStep
    <3>2. CASE p.of # r
      <4>1. Finish(r, Code(p), "other") /\ Code(p) \in { 0, 1, -801 } /\ Code(p) # -801
        BY <2>3, <3>2 DEF Return, Code
      <4> QED
        BY <4>1, FinishStep
    <3> QED
      BY <3>1, <3>2
  <2>4. CASE UNCHANGED vars
    BY <2>4 DEF vars, IInv, TypeOK, Places, Claims, Heads, Buffers, Kept, OneReply,
                ReplyDecides, FailureIsSeen
  <2> QED
    BY <2>1, <2>2, <2>3, <2>4, <2>5, BeginStep, WaitingStep DEF Next, HandlerEnds
<1> QED
  BY <1>1, <1>2, PTL DEF Spec

\* Every variable keeps its type.
THEOREM TypeCorrect == Spec => []TypeOK
<1>1. IInv => TypeOK
  BY DEF IInv
<1> QED
  BY <1>1, Invariance, PTL

\* "used exactly once" (server.py:253), whatever a handler tries.
THEOREM RespondersAreUsedOnce == Spec => []OneReply
<1>1. IInv => OneReply
  BY DEF IInv
<1> QED
  BY <1>1, Invariance, PTL

\* A Reply of one's own decides what the peer gets (server.py:241-243), unless
\* header() or a sub-router wrote over a used responder.
THEOREM RepliesDecide == Spec => []ReplyDecides
<1>1. IInv => ReplyDecides
  BY DEF IInv
<1> QED
  BY <1>1, Invariance, PTL

\* Nothing that `except Exception` catches is mistaken for an answer
\* (server.py:803-805).
THEOREM FailuresAreSeen == Spec => []FailureIsSeen
<1>1. IInv => FailureIsSeen
  BY DEF IInv
<1> QED
  BY <1>1, Invariance, PTL

\* No terminal of a responder that outlives its handler's Reply gets as far as the
\* buffer (server.py:256-257); header() and sub-routers do.
THEOREM KeptTerminalsRaise == Spec => []KeptTerminalRaises
<1>1. IInv => KeptTerminalRaises
  BY DEF IInv, Kept, KeptTerminalRaises
<1> QED
  BY <1>1, Invariance, PTL

-----------------------------------------------------------------------------
(* The safety side of EveryoneAnswered.                                    *)

\* Whoever waits is in the hands of someone who can end the wait: a handler that has
\* yet to return, a program that holds the Reply of its defer or of its stream, or
\* one whose handler returned the Reply of another request (server.py:241-253,
\* 797-825).
NobodyForgotten ==
  \A r \in Requests :
    /\ native[r] = "handling" => handling = r
    /\ native[r] = "parked" => Reply(r, "defer") \in replies \/ ended[r] = "other"
    /\ native[r] = "streaming" => Reply(r, "stream") \in replies

\* The trampoline parks a request for a deferred Reply only.
LEMMA ParkedByDefer ==
  ASSUME IInv, NobodyForgotten, NEW r \in Requests, HandlerEnds(r)
  PROVE  NobodyForgotten'
<1>1. /\ handling = r /\ handling' = None /\ replies' = replies
      /\ ended' \in [ Requests -> { "not", "own", "other", "failed", "interrupted" } ]
      /\ \A q \in Requests : q # r => ended'[q] = ended[q] /\ native'[q] = native[q]
  BY DEF HandlerEnds, Fail, Interrupted, Return, Finish, Settle, IInv, TypeOK
<1>2. \A q \in Requests : q # r => native[q] # "handling"
  BY <1>1 DEF IInv, Places
<1>3. native'[r] # "handling"
  <2>1. native[r] = "handling" => native'[r] \in { "cut", "answered", "parked" }
    BY DEF HandlerEnds, Fail, Interrupted, Return, Finish, Settle, IInv, TypeOK
  <2>2. native'[r] = native[r] \/ native'[r] \in { "cut", "answered", "parked" }
    BY DEF HandlerEnds, Fail, Interrupted, Return, Finish, Settle, IInv, TypeOK
  <2> QED
    BY <2>1, <2>2
<1>4. native'[r] = "streaming" => native[r] = "streaming"
  BY DEF HandlerEnds, Fail, Interrupted, Return, Finish, Settle, IInv, TypeOK
<1>5. ASSUME native'[r] = "parked"
      PROVE  Reply(r, "defer") \in replies \/ ended'[r] = "other"
  <2>1. native[r] \in { "handling", "streaming", "ended" }
    BY <1>1 DEF IInv, Places
  <2>2. CASE Fail(r) \/ Interrupted(r)
    BY <1>5, <2>1, <2>2
    DEF Fail, Failure, Interrupted, Uncaught, Finish, Settle, IInv, TypeOK
  <2>3. ASSUME NEW p \in replies, Return(r, p)
        PROVE  Reply(r, "defer") \in replies \/ ended'[r] = "other"
    <3>1. p.gave = "defer"
      BY <1>5, <2>1, <2>3 DEF Return, Code, Finish, Settle, IInv, TypeOK
    <3>2. p.of = r => p = Reply(r, "defer")
      BY <3>1 DEF Reply, IInv, TypeOK
    <3>3. p.of # r => ended'[r] = "other"
      BY <2>3 DEF Return, Finish, IInv, TypeOK
    <3> QED
      BY <3>2, <3>3
  <2> QED
    BY <2>2, <2>3 DEF HandlerEnds
<1> QED
  BY <1>1, <1>2, <1>3, <1>4, <1>5 DEF NobodyForgotten

\* No request waits for an answer that nobody can give.
THEOREM NobodyIsForgotten == Spec => []NobodyForgotten
<1>1. Init => NobodyForgotten
  BY DEF Init, NobodyForgotten
<1>2. IInv /\ NobodyForgotten /\ [Next]_vars => NobodyForgotten'
  <2> SUFFICES ASSUME IInv, NobodyForgotten, [Next]_vars PROVE NobodyForgotten'
    OBVIOUS
  <2>1. ASSUME NEW r \in Requests, Begin(r) \/ Gone(r) \/ Respond(r) \/ StreamEnd(r)
        PROVE  NobodyForgotten'
    <3>1. /\ replies' = replies /\ ended' = ended
          /\ \A q \in Requests : q # r => native'[q] = native[q]
          /\ native'[r] \notin { "parked", "streaming" }
      BY <2>1 DEF Begin, Gone, Respond, StreamEnd, IInv, TypeOK
    <3>2. \A q \in Requests : native'[q] = "handling" => handling' = q
      BY <2>1, RequestsAreNamed
      DEF Begin, Gone, Respond, StreamEnd, NobodyForgotten, IInv, TypeOK
    <3> QED
      BY <3>1, <3>2 DEF NobodyForgotten
  <2>2. ASSUME NEW r \in Requests, Respondering(r) PROVE NobodyForgotten'
    <3>1. handling' = handling /\ ended' = ended /\ replies \subseteq replies'
      BY <2>2
      DEF Respondering, Answer, Header, CopyRaises, Defer, BeginStream, Routed,
          RouteRaises
    <3>2. \/ native' = native
          \/ /\ native' = [ native EXCEPT ![r] = "streaming" ]
             /\ Reply(r, "stream") \in replies'
      BY <2>2
      DEF Respondering, Answer, Header, CopyRaises, Defer, BeginStream, Routed,
          RouteRaises
    <3> QED
      BY <3>1, <3>2 DEF NobodyForgotten, IInv, TypeOK
  <2>3. CASE UNCHANGED vars
    BY <2>3 DEF vars, NobodyForgotten
  <2> QED
    BY <2>1, <2>2, <2>3, ParkedByDefer DEF Next
<1> QED
  BY <1>1, <1>2, Invariance, PTL DEF Spec

=============================================================================
