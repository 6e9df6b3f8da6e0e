------------------------ MODULE ManagedServerProofs ------------------------
(***************************************************************************)
(* Proofs about ManagedServer, for any number of resolve(), dht_metrics()  *)
(* and shutdown() calls: who closes the two native handles, and when, that *)
(* no request is lost, and that the owner ends once it was stopped.        *)
(***************************************************************************)

EXTENDS ManagedServer, SequenceTheorems, FiniteSetTheorems, TLAPS

-----------------------------------------------------------------------------
(* The inductive invariant, part by part.                                  *)

Looping == { "check", "service", "pump", "tick", "wait", "teardown" }

\* Where the owner is determines which handles are open, and whether the port
\* has been published.
OwnerPhases ==
  /\ pc = "build" => server = "none" /\ dht = "none"
  /\ pc = "attach" => hasDht /\ server = "open" /\ dht = "none"
  /\ pc = "bootstrap" => hasDht /\ server = "open" /\ dht = "open"
  /\ pc = "abort" => server = "open"
  /\ pc \in { "publish" } \cup Looping =>
       /\ server = "open"
       /\ dht = IF hasDht THEN "open" ELSE "none"
  /\ pc = "last" => server = "open" /\ dht # "open"
  /\ pc = "done" => server # "open"
  /\ pc = "done" /\ ready = "result" => server = "closed" /\ dht # "open"
  /\ pc \in Looping \cup { "last" } => ready = "result"
  /\ ready = "result" => pc \in Looping \cup { "last", "done" }
  /\ pc = "pump" => cur \in Lookups

\* Only a program that got its RunningServer shuts it down, and a join ends
\* after the owner thread.
CallerPhases ==
  /\ awaiter = "returned" => ready = "result"
  /\ \A c \in Shutdowns :
       /\ closer[c] # "idle" => ready = "result"
       /\ closer[c] \in { "joined", "returned" } => pc = "done"

\* A posted return belongs to a shutdown() that has been called and to an owner
\* that has ended.
ReturnsAfterEnd ==
  \A i \in 1..Len(callbacks) :
    callbacks[i][1] = "return" =>
      pc = "done" /\ closer[callbacks[i][2]] # "idle"

IInv == TypeOK /\ OwnerPhases /\ CallerPhases /\ ReturnsAfterEnd

-----------------------------------------------------------------------------
(* Type correctness.                                                       *)

LEMMA TypeInit == Init => TypeOK
<1> SUFFICES ASSUME Init PROVE TypeOK
  OBVIOUS
<1>1. Ready!TypeOK
  BY DEF Init, Ready!Init, Ready!TypeOK
<1>2. commands \in Seq(Requests) /\ callbacks \in Seq(Callback)
  BY DEF Init
<1>3. lateWaits \in 0..Many
  BY DEF Init, Many
<1> QED
  BY <1>1, <1>2, <1>3 DEF Init, TypeOK

\* An answer posted by the owner is a callback, and leaves it in its loop.
LEMMA AnswerType ==
  ASSUME TypeOK, NEW outcome \in { "response", "error" }, NEW r \in Requests,
         Answer(outcome, r)
  PROVE  callbacks' \in Seq(Callback) /\ pc' \in { "service", "teardown" }
<1>1. << outcome, r >> \in Callback
  BY DEF Callback
<1>2. Append(callbacks, << outcome, r >>) \in Seq(Callback)
  BY <1>1, AppendProperties DEF TypeOK
<1> QED
  BY <1>2 DEF TypeOK, Answer, Post

\* What running the callback at the head of the queue does to the callers.
LEMMA RunCallbackCases ==
  ASSUME TypeOK, RunCallback
  PROVE  \/ /\ \E r \in Requests, outcome \in { "response", "error" } :
                 future' = [ future EXCEPT ![r] = outcome ]
            /\ closer' = closer
         \/ future' = future /\ closer' = closer
         \/ \E c \in Shutdowns :
              /\ Head(callbacks) = << "return", c >>
              /\ closer' = [ closer EXCEPT ![c] = "returned" ]
              /\ future' = future
<1>1. Head(callbacks) \in Callback
  BY HeadTailProperties DEF TypeOK, RunCallback
<1>2. CASE \E r \in Requests, outcome \in { "response", "error" } :
             Head(callbacks) = << outcome, r >>
  BY <1>2 DEF RunCallback
<1>3. CASE \E c \in Shutdowns : Head(callbacks) = << "return", c >>
  BY <1>3 DEF RunCallback
<1> QED
  BY <1>1, <1>2, <1>3 DEF Callback

LEMMA TypeNext == TypeOK /\ OwnerPhases /\ [Next]_vars => TypeOK'
<1> SUFFICES ASSUME TypeOK, OwnerPhases, [Next]_vars PROVE TypeOK'
  OBVIOUS
<1> USE DEF TypeOK, Ready!TypeOK, asyncs, handles
<1>1. CASE ServeReturns
  BY <1>1 DEF ServeReturns, Ready!Resume
<1>2. CASE CancelServe
  BY <1>2 DEF CancelServe, Ready!Cancel
<1>3. CASE PropagateCancel
  BY <1>3 DEF PropagateCancel, Ready!Propagate
<1>4. ASSUME NEW r \in Requests, Request(r) PROVE TypeOK'
  <2>1. Append(commands, r) \in Seq(Requests)
    BY AppendProperties
  <2>2. commands' \in Seq(Requests)
    BY <1>4, <2>1 DEF Request
  <2>3. future' \in [ Requests -> { "unsent", "pending", "refused", "response",
                                    "error", "cancelled" } ]
    BY <1>4 DEF Request
  <2>4. UNCHANGED << hasDht, awaiter, ready, pc, server, dht, cur, stop,
                     callbacks, closer, loop, lateWaits >>
    BY <1>4 DEF Request
  <2> QED
    BY <2>2, <2>3, <2>4
<1>5. ASSUME NEW r \in Requests, CancelRequest(r) PROVE TypeOK'
  BY <1>5 DEF CancelRequest
<1>6. ASSUME NEW c \in Shutdowns, Shutdown(c) PROVE TypeOK'
  BY <1>6 DEF Shutdown
<1>7. ASSUME NEW c \in Shutdowns, CancelShutdown(c) PROVE TypeOK'
  BY <1>7 DEF CancelShutdown
<1>8. CASE RunCallback
  <2>1. callbacks' \in Seq(Callback)
    BY <1>8, HeadTailProperties DEF RunCallback
  <2>2. UNCHANGED << hasDht, awaiter, ready, pc, server, dht, cur, stop,
                     commands, loop, lateWaits >>
    BY <1>8 DEF RunCallback
  <2>3. /\ future' \in [ Requests -> { "unsent", "pending", "refused",
                                       "response", "error", "cancelled" } ]
        /\ closer' \in [ Shutdowns -> { "idle", "joining", "joined",
                                        "returned", "cancelled" } ]
    BY <1>8, RunCallbackCases
  <2> QED
    BY <2>1, <2>2, <2>3
<1>9. CASE LoopClose
  BY <1>9 DEF LoopClose
<1>10. ASSUME NEW c \in Shutdowns, Join(c) PROVE TypeOK'
  <2>1. Append(callbacks, << "return", c >>) \in Seq(Callback)
    BY AppendProperties, << "return", c >> \in Callback DEF Callback
  <2> QED
    BY <1>10, <2>1 DEF Join
<1>11. CASE Build
  BY <1>11 DEF Build, Ready!Failed
<1>12. CASE Attach
  BY <1>12 DEF Attach
<1>13. CASE Bootstrap
  BY <1>13 DEF Bootstrap
<1>14. CASE Abort
  BY <1>14 DEF Abort, Ready!Failed
<1>15. CASE Publish
  BY <1>15 DEF Publish
<1>16. CASE CheckStop
  BY <1>16 DEF CheckStop
<1>17. CASE TakeCommand
  <2>1. Head(commands) \in Requests /\ Tail(commands) \in Seq(Requests)
    BY <1>17, HeadTailProperties DEF TakeCommand
  <2>2. CASE \E outcome \in { "response", "error" } :
               Answer(outcome, Head(commands)) /\ cur' = cur
    <3>1. callbacks' \in Seq(Callback) /\ pc' \in { "service", "teardown" }
      BY <2>1, <2>2, AnswerType
    <3> QED
      BY <1>17, <2>1, <2>2, <3>1 DEF TakeCommand
  <2>3. CASE IsResolve(Head(commands)) /\ cur' = Head(commands)
             /\ pc' = "pump" /\ callbacks' = callbacks
    BY <1>17, <2>1, <2>3 DEF TakeCommand, IsResolve
  <2> QED
    BY <1>17, <2>2, <2>3 DEF TakeCommand
<1>18. CASE PumpEnds
  <2>1. cur \in Requests
    BY <1>18 DEF PumpEnds, OwnerPhases, Requests
  <2>2. callbacks' \in Seq(Callback) /\ pc' \in { "service", "teardown" }
    BY <1>18, <2>1, AnswerType DEF PumpEnds
  <2> QED
    BY <1>18, <2>2 DEF PumpEnds
<1>19. CASE Serviced
  BY <1>19 DEF Serviced
<1>20. CASE Tick
  BY <1>20 DEF Tick
<1>21. CASE Wait
  BY <1>21 DEF Wait, Bump, Many
<1>22. CASE Teardown
  BY <1>22 DEF Teardown
<1>23. CASE CollectDht
  BY <1>23 DEF CollectDht
<1>24. CASE UNCHANGED vars
  BY <1>24 DEF vars
<1> QED
  BY <1>1, <1>2, <1>3, <1>4, <1>5, <1>6, <1>7, <1>8, <1>9, <1>10, <1>11,
     <1>12, <1>13, <1>14, <1>15, <1>16, <1>17, <1>18, <1>19, <1>20, <1>21,
     <1>22, <1>23, <1>24
  DEF Next, LoopStep, OwnerStep

-----------------------------------------------------------------------------
(* The phases of the owner thread and of the callers.                      *)

\* The steps of the loop and of the executor but one leave the owner alone.
CallerActions ==
  \/ ServeReturns \/ CancelServe
  \/ \E r \in Requests : Request(r) \/ CancelRequest(r)
  \/ \E c \in Shutdowns : Shutdown(c) \/ CancelShutdown(c) \/ Join(c)
  \/ RunCallback \/ LoopClose

LEMMA CallerActionsKeepOwner ==
  CallerActions => UNCHANGED << hasDht, pc, server, dht, cur, ready >>
BY DEF CallerActions, ServeReturns, CancelServe, Ready!Resume, Ready!Cancel,
       Request, CancelRequest, Shutdown, CancelShutdown, Join, RunCallback,
       LoopClose, handles

LEMMA OwnerPhasesNext ==
  TypeOK /\ OwnerPhases /\ [Next]_vars => OwnerPhases'
<1> SUFFICES ASSUME TypeOK, OwnerPhases, [Next]_vars PROVE OwnerPhases'
  OBVIOUS
<1> USE DEF OwnerPhases, Looping, handles
<1>1. CASE CallerActions \/ UNCHANGED vars
  <2>1. UNCHANGED << hasDht, pc, server, dht, cur, ready >>
    BY <1>1, CallerActionsKeepOwner DEF vars
  <2> QED
    BY <2>1
<1>2. CASE PropagateCancel
  BY <1>2 DEF PropagateCancel, Ready!Propagate
<1>3. CASE Build
  BY <1>3 DEF Build, Ready!Failed
<1>4. CASE Attach
  BY <1>4 DEF Attach
<1>5. CASE Bootstrap
  BY <1>5 DEF Bootstrap
<1>6. CASE Abort
  BY <1>6 DEF Abort, Ready!Failed
<1>7. CASE Publish
  BY <1>7 DEF Publish
<1>8. CASE CheckStop
  BY <1>8 DEF CheckStop
<1>9. CASE TakeCommand
  BY <1>9 DEF TakeCommand, Answer, IsResolve
<1>10. CASE PumpEnds
  BY <1>10 DEF PumpEnds, Answer
<1>11. CASE Serviced
  BY <1>11 DEF Serviced
<1>12. CASE Tick
  BY <1>12 DEF Tick
<1>13. CASE Wait
  BY <1>13 DEF Wait
<1>14. CASE Teardown
  BY <1>14 DEF Teardown
<1>15. CASE CollectDht
  BY <1>15 DEF CollectDht
<1> QED
  BY <1>1, <1>2, <1>3, <1>4, <1>5, <1>6, <1>7, <1>8, <1>9, <1>10, <1>11,
     <1>12, <1>13, <1>14, <1>15
  DEF Next, LoopStep, OwnerStep, CallerActions

\* What a step of the owner thread, or the dht's finalizer, does to the rest:
\* it leaves the callers alone, a published result stays published, and an
\* ended owner takes no further step.
LEMMA OwnerKeeps ==
  ASSUME OwnerPhases, OwnerStep \/ CollectDht
  PROVE  /\ UNCHANGED << awaiter, closer >>
         /\ ready = "result" => ready' = "result"
         /\ pc = "done" => pc' = "done" /\ callbacks' = callbacks
<1> USE DEF asyncs, OwnerPhases, Looping
<1>1. CASE Build \/ Attach \/ Bootstrap \/ Abort \/ Publish
  BY <1>1 DEF Build, Attach, Bootstrap, Abort, Publish, Ready!Failed
<1>2. CASE CheckStop \/ TakeCommand \/ PumpEnds \/ Serviced
  BY <1>2 DEF CheckStop, TakeCommand, PumpEnds, Serviced, Answer
<1>3. CASE Tick \/ Wait \/ Teardown \/ CollectDht
  BY <1>3 DEF Tick, Wait, Teardown, CollectDht
<1> QED
  BY <1>1, <1>2, <1>3 DEF OwnerStep

LEMMA CallerPhasesNext ==
  IInv /\ [Next]_vars => CallerPhases'
<1> SUFFICES ASSUME TypeOK, OwnerPhases, CallerPhases, ReturnsAfterEnd,
                    [Next]_vars
             PROVE  CallerPhases'
  BY DEF IInv
<1> USE DEF CallerPhases, TypeOK
<1>1. CASE OwnerStep \/ CollectDht
  BY <1>1, OwnerKeeps
<1>2. CASE ServeReturns
  BY <1>2 DEF ServeReturns, Ready!Resume
<1>3. CASE CancelServe
  BY <1>3 DEF CancelServe, Ready!Cancel
<1>4. CASE PropagateCancel
  BY <1>4 DEF PropagateCancel, Ready!Propagate
<1>5. ASSUME NEW r \in Requests, Request(r) \/ CancelRequest(r)
      PROVE  CallerPhases'
  BY <1>5 DEF Request, CancelRequest
<1>6. ASSUME NEW c \in Shutdowns, Shutdown(c) PROVE CallerPhases'
  BY <1>6 DEF Shutdown
<1>7. ASSUME NEW c \in Shutdowns, CancelShutdown(c) PROVE CallerPhases'
  BY <1>7 DEF CancelShutdown
<1>8. CASE RunCallback
  <2>1. UNCHANGED << awaiter, ready, pc >>
    BY <1>8 DEF RunCallback
  <2>2. ASSUME NEW c \in Shutdowns, Head(callbacks) = << "return", c >>,
               closer' = [ closer EXCEPT ![c] = "returned" ]
        PROVE  CallerPhases'
    <3>1. pc = "done" /\ closer[c] # "idle"
      BY <1>8, <2>2, HeadTailProperties DEF RunCallback, ReturnsAfterEnd
    <3> QED
      BY <2>1, <2>2, <3>1
  <2>3. CASE closer' = closer
    BY <2>1, <2>3
  <2> QED
    BY <1>8, <2>2, <2>3, RunCallbackCases
<1>9. CASE LoopClose
  BY <1>9 DEF LoopClose
<1>10. ASSUME NEW c \in Shutdowns, Join(c) PROVE CallerPhases'
  BY <1>10 DEF Join, Joinable
<1>11. CASE UNCHANGED vars
  BY <1>11 DEF vars
<1> QED
  BY <1>1, <1>2, <1>3, <1>4, <1>5, <1>6, <1>7, <1>8, <1>9, <1>10, <1>11
  DEF Next, LoopStep

\* A queue of callbacks keeps ReturnsAfterEnd when an answer is appended.
LEMMA AnswerNoReturn ==
  ASSUME TypeOK, ReturnsAfterEnd, NEW r \in Requests,
         NEW outcome \in { "response", "error" },
         Answer(outcome, r), pc # "done", closer' = closer
  PROVE  ReturnsAfterEnd'
<1>1. << outcome, r >> \in Callback /\ callbacks \in Seq(Callback)
  BY DEF Callback, TypeOK
<1>2. \A i \in 1..Len(callbacks) : callbacks[i][1] # "return"
  BY DEF ReturnsAfterEnd
<1>3. CASE callbacks' = callbacks
  BY <1>2, <1>3 DEF ReturnsAfterEnd
<1>4. CASE callbacks' = Append(callbacks, << outcome, r >>)
  <2>1. /\ Len(callbacks') = Len(callbacks) + 1
        /\ \A i \in 1..Len(callbacks) : callbacks'[i] = callbacks[i]
        /\ callbacks'[Len(callbacks) + 1] = << outcome, r >>
    BY <1>1, <1>4, AppendProperties
  <2>2. << outcome, r >>[1] # "return"
    OBVIOUS
  <2>3. ASSUME NEW i \in 1..Len(callbacks') PROVE callbacks'[i][1] # "return"
    <3>1. i \in 1..Len(callbacks) \/ i = Len(callbacks) + 1
      BY <1>1, <2>1
    <3> QED
      BY <1>2, <2>1, <2>2, <3>1
  <2> QED
    BY <2>3 DEF ReturnsAfterEnd
<1> QED
  BY <1>3, <1>4 DEF Answer, Post

\* A "return" in the queue names a shutdown.
LEMMA ReturnOf ==
  ASSUME TypeOK, NEW i \in 1..Len(callbacks), callbacks[i][1] = "return"
  PROVE  callbacks[i][2] \in Shutdowns
<1>1. callbacks[i] \in Callback
  BY DEF TypeOK
<1> QED
  BY <1>1 DEF Callback

LEMMA ReturnsAfterEndNext ==
  IInv /\ [Next]_vars => ReturnsAfterEnd'
<1> SUFFICES ASSUME TypeOK, OwnerPhases, CallerPhases, ReturnsAfterEnd,
                    [Next]_vars
             PROVE  ReturnsAfterEnd'
  BY DEF IInv
<1>0. callbacks \in Seq(Callback) /\ commands \in Seq(Requests)
  BY DEF TypeOK
<1> USE DEF ReturnsAfterEnd
<1>1. ASSUME UNCHANGED << callbacks, closer >>, pc = "done" => pc' = "done"
      PROVE  ReturnsAfterEnd'
  BY <1>1
<1>2. CASE ServeReturns \/ CancelServe \/ PropagateCancel \/ UNCHANGED vars
  BY <1>1, <1>2 DEF ServeReturns, CancelServe, PropagateCancel, vars
<1>3. ASSUME NEW r \in Requests, Request(r) \/ CancelRequest(r)
      PROVE  ReturnsAfterEnd'
  BY <1>1, <1>3 DEF Request, CancelRequest
<1>4. ASSUME NEW c \in Shutdowns, Shutdown(c) \/ CancelShutdown(c)
      PROVE  ReturnsAfterEnd'
  <2>1. /\ UNCHANGED << pc, callbacks >>
        /\ \A d \in Shutdowns : closer[d] # "idle" => closer'[d] # "idle"
    BY <1>4 DEF Shutdown, CancelShutdown, TypeOK
  <2> QED
    BY <2>1, ReturnOf
<1>5. CASE RunCallback
  <2>1. /\ callbacks # << >> /\ callbacks' = Tail(callbacks) /\ pc' = pc
        /\ \A d \in Shutdowns : closer[d] # "idle" => closer'[d] # "idle"
    BY <1>5, RunCallbackCases DEF RunCallback, TypeOK
  <2>2. ASSUME NEW i \in 1..Len(callbacks'), callbacks'[i][1] = "return"
        PROVE  pc' = "done" /\ closer'[callbacks'[i][2]] # "idle"
    <3>1. /\ callbacks'[i] = callbacks[i + 1]
          /\ i + 1 \in 1..Len(callbacks)
      BY <1>0, <2>1, HeadTailProperties
    <3>2. callbacks[i + 1] \in Callback
      BY <1>0, <3>1
    <3>3. callbacks[i + 1][2] \in Shutdowns
      BY <2>2, <3>1, <3>2 DEF Callback
    <3> QED
      BY <2>1, <2>2, <3>1, <3>3
  <2> QED
    BY <2>2
<1>6. CASE LoopClose
  BY <1>6 DEF LoopClose
<1>7. ASSUME NEW c \in Shutdowns, Join(c) PROVE ReturnsAfterEnd'
  <2>1. << "return", c >> \in Callback
    BY DEF Callback
  <2>2. /\ Len(callbacks') = Len(callbacks) + 1
        /\ \A i \in 1..Len(callbacks) : callbacks'[i] = callbacks[i]
        /\ callbacks'[Len(callbacks) + 1] = << "return", c >>
    BY <1>0, <1>7, <2>1, AppendProperties DEF Join
  <2>3. /\ pc = "done" /\ pc' = "done" /\ closer'[c] # "idle"
        /\ \A d \in Shutdowns : closer[d] # "idle" => closer'[d] # "idle"
    BY <1>7 DEF Join, Joinable, TypeOK
  <2>4. ASSUME NEW i \in 1..Len(callbacks'), callbacks'[i][1] = "return"
        PROVE  pc' = "done" /\ closer'[callbacks'[i][2]] # "idle"
    <3>1. i \in 1..Len(callbacks) \/ i = Len(callbacks) + 1
      BY <1>0, <2>2
    <3> QED
      BY <2>2, <2>3, <2>4, <3>1, ReturnOf
  <2> QED
    BY <2>4
<1>8. CASE OwnerStep \/ CollectDht
  <2>1. UNCHANGED closer /\ (pc = "done" => pc' = "done")
    BY <1>8, OwnerKeeps
  <2>2. CASE callbacks' = callbacks
    BY <1>1, <2>1, <2>2
  <2>3. CASE TakeCommand
    <3>1. Head(commands) \in Requests
      BY <1>0, <2>3, HeadTailProperties DEF TakeCommand
    <3>2. CASE \E outcome \in { "response", "error" } :
                 Answer(outcome, Head(commands))
      BY <2>1, <2>3, <3>1, <3>2, AnswerNoReturn DEF TakeCommand
    <3> QED
      BY <2>2, <2>3, <3>2 DEF TakeCommand
  <2>4. CASE PumpEnds
    <3>1. cur \in Requests
      BY <2>4 DEF PumpEnds, OwnerPhases, Requests
    <3> QED
      BY <2>1, <2>4, <3>1, AnswerNoReturn DEF PumpEnds
  <2> QED
    BY <1>8, <2>2, <2>3, <2>4
    DEF OwnerStep, Build, Attach, Bootstrap, Abort, Publish, CheckStop,
        Serviced, Tick, Wait, Teardown, CollectDht
<1> QED
  BY <1>2, <1>3, <1>4, <1>5, <1>6, <1>7, <1>8 DEF Next, LoopStep

-----------------------------------------------------------------------------
(* The theorems.                                                           *)

\* IInv is inductive: where the owner is, who has shut the server down, and
\* which joins have been posted.
THEOREM Invariance == Spec => []IInv
<1>1. Init => IInv
  <2>1. Init => OwnerPhases
    BY DEF Init, OwnerPhases, Looping, Ready!Init
  <2>2. Init => CallerPhases /\ ReturnsAfterEnd
    BY DEF Init, CallerPhases, ReturnsAfterEnd, Ready!Init
  <2> QED
    BY <2>1, <2>2, TypeInit DEF IInv
<1>2. IInv /\ [Next]_vars => IInv'
  BY TypeNext, OwnerPhasesNext, CallerPhasesNext, ReturnsAfterEndNext DEF IInv
<1> QED
  BY <1>1, <1>2, PTL DEF Spec

\* Every variable keeps its type; in particular the owner pumps lookups only.
THEOREM TypeCorrect == Spec => []TypeOK
<1>1. IInv => TypeOK
  BY DEF IInv
<1> QED
  BY <1>1, Invariance, PTL

\* "the dht borrows the server's socket, so it must be closed first"
\* (runtime.py:255-256), on every way out of a server that was published.
THEOREM DhtClosedFirst == Spec => []PublishedDhtBorrows
<1>1. IInv => PublishedDhtBorrows
  BY DEF IInv, OwnerPhases, Looping, PublishedDhtBorrows, DhtBorrows
<1> QED
  BY <1>1, Invariance, PTL

\* However the owner thread ends, it leaves no native server open
\* (runtime.py:217-259).
THEOREM NoServerIsLeft == Spec => []NoServerLeft
<1>1. IInv => NoServerLeft
  BY DEF IInv, OwnerPhases, NoServerLeft
<1> QED
  BY <1>1, Invariance, PTL

\* "the socket is closed by the time this returns" (runtime.py:188-189), for
\* every shutdown() call, and the dht is closed too.
THEOREM ShutdownHasClosed == Spec => []ShutdownCloses
<1>1. IInv => ShutdownCloses
  BY DEF IInv, OwnerPhases, CallerPhases, ShutdownCloses
<1> QED
  BY <1>1, Invariance, PTL

-----------------------------------------------------------------------------
(* The owner's loop notices a shutdown.                                    *)

\* After stop.set() the owner's loop begins one wait at most: it ends at the
\* check of the event, from where the owner only goes down.
Noticing ==
  /\ ~stop => lateWaits = 0
  /\ lateWaits # 0 =>
       lateWaits = 1 /\ pc \in { "check", "teardown", "last", "done" }

NoticeInv == IInv /\ Noticing

LEMMA NoticingNext == NoticeInv /\ [Next]_vars => Noticing'
<1> SUFFICES ASSUME TypeOK, Noticing, [Next]_vars PROVE Noticing'
  BY DEF NoticeInv, IInv
<1> USE DEF Noticing
<1>1. CASE CallerActions \/ PropagateCancel
  <2>1. lateWaits' = lateWaits /\ pc' = pc
    BY <1>1
    DEF CallerActions, ServeReturns, CancelServe, PropagateCancel, Request,
        CancelRequest, Shutdown, CancelShutdown, RunCallback, LoopClose, Join
  <2>2. stop' = stop \/ stop' = TRUE
    BY <1>1
    DEF CallerActions, ServeReturns, CancelServe, PropagateCancel, Request,
        CancelRequest, Shutdown, CancelShutdown, RunCallback, LoopClose, Join
  <2> QED
    BY <2>1, <2>2 DEF TypeOK
<1>2. CASE Build \/ Attach \/ Bootstrap \/ Abort \/ Publish
  BY <1>2 DEF Build, Attach, Bootstrap, Abort, Publish, asyncs
<1>3. CASE CheckStop
  BY <1>3 DEF CheckStop, Stopping, asyncs
<1>4. CASE TakeCommand \/ PumpEnds \/ Serviced \/ Tick
  BY <1>4 DEF TakeCommand, PumpEnds, Serviced, Tick, asyncs
<1>5. CASE Wait
  <2>1. lateWaits = 0 /\ stop' = stop /\ pc' = "check"
    BY <1>5 DEF Wait, asyncs
  <2>2. lateWaits' = IF stop THEN 1 ELSE 0
    BY <1>5, <2>1 DEF Wait, Bump, Many
  <2> QED
    BY <2>1, <2>2
<1>6. CASE Teardown \/ CollectDht
  BY <1>6 DEF Teardown, CollectDht, asyncs
<1>7. CASE UNCHANGED vars
  BY <1>7 DEF vars
<1> QED
  BY <1>1, <1>2, <1>3, <1>4, <1>5, <1>6, <1>7
  DEF Next, LoopStep, OwnerStep, CallerActions

\* "a shutdown request is noticed within one interval even when no transport
\* timer is pending" (runtime.py:35-37), wherever stop.set() falls in the
\* owner's loop and whatever is queued.
THEOREM StopIsNoticed == Spec => []LoopNoticesStop
<1>1. Init => Noticing
  BY DEF Init, Noticing
<1>2. NoticeInv /\ [Next]_vars => Noticing'
  BY NoticingNext
<1>3. Noticing => LoopNoticesStop
  BY DEF Noticing, LoopNoticesStop
<1>4. IInv /\ Noticing <=> NoticeInv
  BY DEF NoticeInv
<1> QED
  BY <1>1, <1>2, <1>3, <1>4, Invariance, PTL DEF Spec

-----------------------------------------------------------------------------
(* Every request is in one place: among the commands, being pumped, or     *)
(* among the callbacks.                                                    *)

Settles(e, r) == e[1] \in { "response", "error" } /\ e[2] = r

InQueue(r) == \E i \in 1..Len(commands) : commands[i] = r

Posted(r) == \E i \in 1..Len(callbacks) : Settles(callbacks[i], r)

OnItsWay(r) == InQueue(r) \/ cur = r \/ Posted(r)

OnceQueued(r) ==
  \A i, j \in 1..Len(commands) : commands[i] = r /\ commands[j] = r => i = j

OncePosted(r) ==
  \A i, j \in 1..Len(callbacks) :
    Settles(callbacks[i], r) /\ Settles(callbacks[j], r) => i = j

Placed(r) ==
  /\ future[r] = "pending" => OnItsWay(r)
  /\ OnItsWay(r) => future[r] \in { "pending", "cancelled" }
  /\ cur = r => ~InQueue(r) /\ ~Posted(r)
  /\ ~(InQueue(r) /\ Posted(r))
  /\ OnceQueued(r)
  /\ OncePosted(r)

\* A caller that waits has its command queued, pumped or answered, in one of
\* the three and there once; so no command is lost or answered twice, and
\* set_result never meets a future that has a result (runtime.py:325-341).
RequestsInOnePlace == \A r \in Requests : Placed(r)

\* The owner holds a command only while it pumps, and a loop is not closed
\* under a caller that waits.
Idle ==
  /\ cur # None => pc = "pump"
  /\ loop = "closed" => \A r \in Requests : future[r] # "pending"

PlaceInv == IInv /\ Idle /\ RequestsInOnePlace

LEMMA IdleNext == PlaceInv /\ [Next]_vars => Idle'
<1> SUFFICES ASSUME TypeOK, Idle, [Next]_vars PROVE Idle'
  BY DEF PlaceInv, IInv
<1> USE DEF Idle, TypeOK
<1>1. CASE ServeReturns \/ CancelServe \/ PropagateCancel \/ UNCHANGED vars
  BY <1>1 DEF ServeReturns, CancelServe, PropagateCancel, vars
<1>2. ASSUME NEW r \in Requests, Request(r) \/ CancelRequest(r) PROVE Idle'
  BY <1>2 DEF Request, CancelRequest
<1>3. ASSUME NEW c \in Shutdowns, Shutdown(c) \/ CancelShutdown(c) \/ Join(c)
      PROVE  Idle'
  BY <1>3 DEF Shutdown, CancelShutdown, Join
<1>4. CASE RunCallback \/ LoopClose
  BY <1>4 DEF RunCallback, LoopClose
<1>5. CASE Build \/ Attach \/ Bootstrap \/ Abort \/ Publish
  BY <1>5 DEF Build, Attach, Bootstrap, Abort, Publish, asyncs
<1>6. CASE TakeCommand \/ PumpEnds
  BY <1>6 DEF TakeCommand, PumpEnds, Answer, asyncs
<1>7. CASE CheckStop \/ Serviced \/ Tick \/ Wait \/ Teardown \/ CollectDht
  BY <1>7 DEF CheckStop, Serviced, Tick, Wait, Teardown, CollectDht, asyncs
<1> QED
  BY <1>1, <1>2, <1>3, <1>4, <1>5, <1>6, <1>7 DEF Next, LoopStep, OwnerStep

\* A request put at the end of the queue.
LEMMA QueueAppended ==
  ASSUME TypeOK, NEW x \in Requests, commands' = Append(commands, x),
         NEW r \in Requests, OnceQueued(r), x = r => ~InQueue(r)
  PROVE  /\ InQueue(r)' <=> InQueue(r) \/ x = r
         /\ OnceQueued(r)'
<1>1. /\ Len(commands') = Len(commands) + 1
      /\ Len(commands) \in Nat
      /\ \A i \in 1..Len(commands) : commands'[i] = commands[i]
      /\ commands'[Len(commands) + 1] = x
  BY AppendProperties DEF TypeOK
<1> QED
  BY <1>1 DEF InQueue, OnceQueued

\* The request at the head of the queue taken out.
LEMMA QueueTaken ==
  ASSUME TypeOK, commands # << >>, commands' = Tail(commands),
         NEW r \in Requests, OnceQueued(r)
  PROVE  /\ InQueue(r) <=> Head(commands) = r \/ InQueue(r)'
         /\ Head(commands) = r => ~InQueue(r)'
         /\ OnceQueued(r)'
<1>1. /\ Head(commands) = commands[1]
      /\ Len(commands) \in Nat \ {0}
      /\ Len(commands') = Len(commands) - 1
      /\ \A i \in 1..Len(commands') : commands'[i] = commands[i + 1]
  BY HeadTailProperties DEF TypeOK
<1>2. InQueue(r) => Head(commands) = r \/ InQueue(r)'
  <2> SUFFICES ASSUME NEW i \in 1..Len(commands), commands[i] = r, i # 1
               PROVE  InQueue(r)'
    BY <1>1 DEF InQueue
  <2>1. i - 1 \in 1..Len(commands') /\ commands'[i - 1] = r
    BY <1>1
  <2> QED
    BY <2>1 DEF InQueue
<1>3. InQueue(r)' => InQueue(r) /\ Head(commands) # r
  <2> SUFFICES ASSUME NEW i \in 1..Len(commands'), commands'[i] = r
               PROVE  InQueue(r) /\ Head(commands) # r
    BY DEF InQueue
  <2>1. /\ i + 1 \in 1..Len(commands) /\ commands[i + 1] = r /\ i + 1 # 1
        /\ 1 \in 1..Len(commands)
    BY <1>1
  <2> QED
    BY <1>1, <2>1 DEF InQueue, OnceQueued
<1>4. Head(commands) = r => InQueue(r)
  BY <1>1 DEF InQueue
<1>5. OnceQueued(r)'
  <2> SUFFICES ASSUME NEW i \in 1..Len(commands'), NEW j \in 1..Len(commands'),
                      commands'[i] = r, commands'[j] = r
               PROVE  i = j
    BY DEF OnceQueued
  <2>1. /\ i + 1 \in 1..Len(commands) /\ commands[i + 1] = r
        /\ j + 1 \in 1..Len(commands) /\ commands[j + 1] = r
    BY <1>1
  <2>2. i + 1 = j + 1
    BY <2>1 DEF OnceQueued
  <2> QED
    BY <2>2
<1> QED
  BY <1>2, <1>3, <1>4, <1>5

\* A callback posted.
LEMMA CallbackAppended ==
  ASSUME TypeOK, NEW e \in Callback, callbacks' = Append(callbacks, e),
         NEW r \in Requests, OncePosted(r), Settles(e, r) => ~Posted(r)
  PROVE  /\ Posted(r)' <=> Posted(r) \/ Settles(e, r)
         /\ OncePosted(r)'
<1>1. /\ Len(callbacks') = Len(callbacks) + 1
      /\ Len(callbacks) \in Nat
      /\ \A i \in 1..Len(callbacks) : callbacks'[i] = callbacks[i]
      /\ callbacks'[Len(callbacks) + 1] = e
  BY AppendProperties DEF TypeOK
<1>2. Posted(r)' <=> Posted(r) \/ Settles(e, r)
  BY <1>1 DEF Posted, Settles
<1>3. OncePosted(r)'
  <2> SUFFICES ASSUME NEW i \in 1..Len(callbacks'), NEW j \in 1..Len(callbacks'),
                      Settles(callbacks'[i], r), Settles(callbacks'[j], r)
               PROVE  i = j
    BY DEF OncePosted, Settles
  <2>1. CASE i \in 1..Len(callbacks) /\ j \in 1..Len(callbacks)
    BY <1>1, <2>1 DEF OncePosted
  <2>2. CASE i = Len(callbacks) + 1 /\ j \in 1..Len(callbacks)
    BY <1>1, <2>2 DEF Posted
  <2>3. CASE i \in 1..Len(callbacks) /\ j = Len(callbacks) + 1
    BY <1>1, <2>3 DEF Posted
  <2> QED
    BY <1>1, <2>1, <2>2, <2>3
<1> QED
  BY <1>2, <1>3

\* The callback at the head of the queue taken out.
LEMMA CallbackTaken ==
  ASSUME TypeOK, callbacks # << >>, callbacks' = Tail(callbacks),
         NEW r \in Requests, OncePosted(r)
  PROVE  /\ Posted(r) <=> Settles(Head(callbacks), r) \/ Posted(r)'
         /\ Settles(Head(callbacks), r) => ~Posted(r)'
         /\ OncePosted(r)'
<1>1. /\ Head(callbacks) = callbacks[1]
      /\ Len(callbacks) \in Nat \ {0}
      /\ Len(callbacks') = Len(callbacks) - 1
      /\ \A i \in 1..Len(callbacks') : callbacks'[i] = callbacks[i + 1]
  BY HeadTailProperties DEF TypeOK
<1>2. Posted(r) => Settles(Head(callbacks), r) \/ Posted(r)'
  <2> SUFFICES ASSUME NEW i \in 1..Len(callbacks), Settles(callbacks[i], r),
                      i # 1
               PROVE  Posted(r)'
    BY <1>1 DEF Posted
  <2>1. i - 1 \in 1..Len(callbacks') /\ callbacks'[i - 1] = callbacks[i]
    BY <1>1
  <2> QED
    BY <2>1 DEF Posted, Settles
<1>3. Posted(r)' => Posted(r) /\ ~Settles(Head(callbacks), r)
  <2> SUFFICES ASSUME NEW i \in 1..Len(callbacks'), Settles(callbacks'[i], r)
               PROVE  Posted(r) /\ ~Settles(Head(callbacks), r)
    BY DEF Posted, Settles
  <2>1. /\ i + 1 \in 1..Len(callbacks) /\ i + 1 # 1
        /\ 1 \in 1..Len(callbacks)
        /\ Settles(callbacks[i + 1], r)
    BY <1>1
  <2> QED
    BY <1>1, <2>1 DEF Posted, OncePosted
<1>4. Settles(Head(callbacks), r) => Posted(r)
  BY <1>1 DEF Posted
<1>5. OncePosted(r)'
  <2> SUFFICES ASSUME NEW i \in 1..Len(callbacks'), NEW j \in 1..Len(callbacks'),
                      Settles(callbacks'[i], r), Settles(callbacks'[j], r)
               PROVE  i = j
    BY DEF OncePosted, Settles
  <2>1. /\ i + 1 \in 1..Len(callbacks) /\ Settles(callbacks[i + 1], r)
        /\ j + 1 \in 1..Len(callbacks) /\ Settles(callbacks[j + 1], r)
    BY <1>1
  <2>2. i + 1 = j + 1
    BY <2>1 DEF OncePosted
  <2> QED
    BY <2>2
<1> QED
  BY <1>2, <1>3, <1>4, <1>5

\* A step that leaves the three places and the future of r alone keeps it placed.
LEMMA PlacedKept ==
  ASSUME NEW r \in Requests, Placed(r),
         future'[r] = future[r], cur' = cur, commands' = commands,
         callbacks' = callbacks
  PROVE  Placed(r)'
BY DEF Placed, OnItsWay, InQueue, Posted, OnceQueued, OncePosted, Settles

\* The owner answers x, which is in none of the three places any more; or its
\* loop is closed and nobody waits.
LEMMA AnswerPlaces ==
  ASSUME TypeOK, Idle, NEW r \in Requests, NEW x \in Requests,
         NEW outcome \in { "response", "error" }, Answer(outcome, x),
         OncePosted(r), x = r => ~Posted(r)
  PROVE  /\ OncePosted(r)'
         /\ \/ Posted(r)' <=> Posted(r) \/ x = r
            \/ (Posted(r)' <=> Posted(r)) /\ future[r] # "pending"
<1>1. << outcome, x >> \in Callback /\ (Settles(<< outcome, x >>, r) <=> x = r)
  BY DEF Callback, Settles
<1>2. CASE callbacks' = Append(callbacks, << outcome, x >>)
  BY <1>1, <1>2, CallbackAppended
<1>3. CASE loop = "closed" /\ callbacks' = callbacks
  BY <1>3 DEF Idle, Posted, OncePosted, Settles
<1> QED
  BY <1>2, <1>3 DEF Answer, Post

LEMMA RequestsInOnePlaceNext == PlaceInv /\ [Next]_vars => RequestsInOnePlace'
<1> SUFFICES ASSUME PlaceInv, [Next]_vars, NEW r \in Requests PROVE Placed(r)'
  BY DEF RequestsInOnePlace
<1>0. TypeOK /\ OwnerPhases /\ Idle /\ Placed(r)
  BY DEF PlaceInv, IInv, RequestsInOnePlace
<1>q. /\ commands' = commands => (InQueue(r)' <=> InQueue(r))
      /\ commands' = commands => (OnceQueued(r)' <=> OnceQueued(r))
  BY DEF InQueue, OnceQueued
<1>p. /\ callbacks' = callbacks => (Posted(r)' <=> Posted(r))
      /\ callbacks' = callbacks => (OncePosted(r)' <=> OncePosted(r))
  BY DEF Posted, OncePosted, Settles
<1>1. CASE ServeReturns \/ CancelServe \/ PropagateCancel \/ UNCHANGED vars
  BY <1>0, <1>1, PlacedKept
  DEF ServeReturns, CancelServe, PropagateCancel, vars
<1>2. ASSUME NEW x \in Requests, Request(x) PROVE Placed(r)'
  <2>1. UNCHANGED << cur, callbacks >>
    BY <1>2 DEF Request
  <2>2. /\ x = r => future[r] = "unsent"
        /\ x # r => future'[r] = future[r]
    BY <1>0, <1>2 DEF Request, TypeOK
  <2>3. x = r => ~OnItsWay(r)
    BY <1>0, <2>2 DEF Placed
  <2>4. CASE hasDht
    <3>1. commands' = Append(commands, x) /\ (x = r => future'[r] = "pending")
      BY <1>0, <1>2, <2>4 DEF Request, TypeOK
    <3>2. (InQueue(r)' <=> InQueue(r) \/ x = r) /\ OnceQueued(r)'
      BY <1>0, <2>3, <3>1, QueueAppended DEF Placed, OnItsWay
    <3> QED
      BY <1>0, <1>p, <2>1, <2>2, <2>3, <3>1, <3>2 DEF Placed, OnItsWay
  <2>5. CASE ~hasDht
    <3>1. commands' = commands /\ (x = r => future'[r] = "refused")
      BY <1>0, <1>2, <2>5 DEF Request, TypeOK
    <3> QED
      BY <1>0, <1>p, <1>q, <2>1, <2>2, <2>3, <3>1 DEF Placed, OnItsWay
  <2> QED
    BY <2>4, <2>5
<1>3. ASSUME NEW x \in Requests, CancelRequest(x) PROVE Placed(r)'
  <2>1. /\ x = r => future[r] = "pending" /\ future'[r] = "cancelled"
        /\ x # r => future'[r] = future[r]
        /\ UNCHANGED << cur, commands, callbacks >>
    BY <1>0, <1>3 DEF CancelRequest, TypeOK
  <2> QED
    BY <1>0, <1>p, <1>q, <2>1 DEF Placed, OnItsWay
<1>4. ASSUME NEW c \in Shutdowns, Shutdown(c) \/ CancelShutdown(c)
      PROVE  Placed(r)'
  BY <1>0, <1>4, PlacedKept DEF Shutdown, CancelShutdown
<1>5. CASE RunCallback
  <2>0. UNCHANGED << cur, commands >>
    BY <1>5 DEF RunCallback
  <2>1. /\ Posted(r) <=> Settles(Head(callbacks), r) \/ Posted(r)'
        /\ Settles(Head(callbacks), r) => ~Posted(r)'
        /\ OncePosted(r)'
    BY <1>0, <1>5, CallbackTaken DEF RunCallback, Placed
  <2>2. CASE Settles(Head(callbacks), r)
    <3>1. ~InQueue(r) /\ cur # r /\ ~Posted(r)'
      BY <1>0, <2>1, <2>2 DEF Placed
    <3>2. future'[r] # "pending"
      BY <1>0, <1>5, <2>2 DEF RunCallback, Settles, TypeOK
    <3> QED
      BY <1>0, <1>q, <2>0, <2>1, <3>1, <3>2 DEF Placed, OnItsWay
  <2>3. CASE ~Settles(Head(callbacks), r)
    <3>1. future'[r] = future[r]
      BY <1>0, <1>5, <2>3 DEF RunCallback, Settles, TypeOK
    <3> QED
      BY <1>0, <1>q, <2>0, <2>1, <2>3, <3>1 DEF Placed, OnItsWay
  <2> QED
    BY <2>2, <2>3
<1>6. CASE LoopClose
  <2>1. UNCHANGED << future, cur, commands >> /\ future[r] # "pending"
    BY <1>6 DEF LoopClose
  <2>2. ~Posted(r)' /\ OncePosted(r)'
    BY <1>6 DEF LoopClose, Posted, OncePosted
  <2> QED
    BY <1>0, <1>q, <2>1, <2>2 DEF Placed, OnItsWay
<1>7. ASSUME NEW c \in Shutdowns, Join(c) PROVE Placed(r)'
  <2>1. /\ UNCHANGED << future, cur, commands >>
        /\ callbacks' = Append(callbacks, << "return", c >>)
    BY <1>7 DEF Join
  <2>2. << "return", c >> \in Callback /\ ~Settles(<< "return", c >>, r)
    BY DEF Callback, Settles
  <2>3. (Posted(r)' <=> Posted(r)) /\ OncePosted(r)'
    BY <1>0, <2>1, <2>2, CallbackAppended DEF Placed
  <2> QED
    BY <1>0, <1>q, <2>1, <2>3 DEF Placed, OnItsWay
<1>8. CASE TakeCommand
  <2>1. /\ InQueue(r) <=> Head(commands) = r \/ InQueue(r)'
        /\ Head(commands) = r => ~InQueue(r)'
        /\ OnceQueued(r)'
    BY <1>0, <1>8, QueueTaken DEF TakeCommand, Placed
  <2>2. Head(commands) \in Requests
    BY <1>0, <1>8, HeadTailProperties DEF TakeCommand, TypeOK
  <2>3. future' = future /\ cur = None
    BY <1>0, <1>8 DEF TakeCommand, asyncs, Idle
  <2>4. ASSUME NEW outcome \in { "response", "error" },
               Answer(outcome, Head(commands)), cur' = cur
        PROVE  Placed(r)'
    <3>1. Head(commands) = r => ~Posted(r)
      BY <1>0, <2>1 DEF Placed
    <3>2. OncePosted(r)
      BY <1>0 DEF Placed
    <3>3. /\ OncePosted(r)'
          /\ \/ Posted(r)' <=> Posted(r) \/ Head(commands) = r
             \/ (Posted(r)' <=> Posted(r)) /\ future[r] # "pending"
      BY <1>0, <2>2, <2>4, <3>1, <3>2, AnswerPlaces
    <3>4. cur # r
      BY <2>3, RequestKinds
    <3> QED
      BY <1>0, <2>1, <2>3, <2>4, <3>1, <3>3, <3>4 DEF Placed, OnItsWay
  <2>5. CASE cur' = Head(commands) /\ callbacks' = callbacks
    <3>1. cur # r
      BY <2>3, RequestKinds
    <3> QED
      BY <1>0, <1>p, <2>1, <2>3, <2>5, <3>1 DEF Placed, OnItsWay
  <2> QED
    BY <1>8, <2>4, <2>5 DEF TakeCommand
<1>9. CASE PumpEnds
  <2>1. cur \in Requests /\ cur' = None /\ UNCHANGED << future, commands >>
    BY <1>0, <1>9 DEF PumpEnds, OwnerPhases, Requests, asyncs
  <2>2. cur' # r
    BY <2>1, RequestKinds
  <2>3. cur = r => ~Posted(r)
    BY <1>0 DEF Placed
  <2>4. OncePosted(r)
    BY <1>0 DEF Placed
  <2>5. /\ OncePosted(r)'
        /\ \/ Posted(r)' <=> Posted(r) \/ cur = r
           \/ (Posted(r)' <=> Posted(r)) /\ future[r] # "pending"
    BY <1>0, <1>9, <2>1, <2>3, <2>4, AnswerPlaces DEF PumpEnds
  <2> QED
    BY <1>0, <1>q, <2>1, <2>2, <2>3, <2>5 DEF Placed, OnItsWay
<1>10. CASE Build \/ Attach \/ Bootstrap \/ Abort \/ Publish
  BY <1>0, <1>10, PlacedKept DEF Build, Attach, Bootstrap, Abort, Publish, asyncs
<1>11. CASE CheckStop \/ Serviced \/ Tick \/ Wait \/ Teardown \/ CollectDht
  BY <1>0, <1>11, PlacedKept
  DEF CheckStop, Serviced, Tick, Wait, Teardown, CollectDht, asyncs
<1> QED
  BY <1>1, <1>2, <1>3, <1>4, <1>5, <1>6, <1>7, <1>8, <1>9, <1>10, <1>11
  DEF Next, LoopStep, OwnerStep

LEMMA PlaceInvariance == Spec => []PlaceInv
<1>1. Init => Idle /\ RequestsInOnePlace
  <2> SUFFICES ASSUME Init, NEW r \in Requests PROVE Idle /\ Placed(r)
    BY DEF Init, Idle, RequestsInOnePlace
  <2>1. commands = << >> /\ callbacks = << >> /\ cur = None
        /\ future[r] = "unsent" /\ loop = "running"
    BY DEF Init
  <2>2. ~InQueue(r) /\ ~Posted(r) /\ OnceQueued(r) /\ OncePosted(r)
    BY <2>1 DEF InQueue, Posted, OnceQueued, OncePosted
  <2> QED
    BY <2>1, <2>2, RequestKinds DEF Placed, OnItsWay, Idle
<1>2. PlaceInv /\ [Next]_vars => Idle' /\ RequestsInOnePlace'
  BY IdleNext, RequestsInOnePlaceNext
<1>3. IInv /\ Idle /\ RequestsInOnePlace <=> PlaceInv
  BY DEF PlaceInv
<1> QED
  BY <1>1, <1>2, <1>3, Invariance, PTL DEF Spec

\* No resolve() or dht_metrics() is lost or answered twice, whichever way the
\* owner thread ends (runtime.py:266-296).
THEOREM RequestsAreNotLost == Spec => []RequestsInOnePlace
<1>1. PlaceInv => RequestsInOnePlace
  BY DEF PlaceInv
<1> QED
  BY <1>1, PlaceInvariance, PTL

\* What a caller was told stays: its future is settled once, and an answer that
\* comes after a cancellation is dropped (runtime.py:325-341).
AnsweredOnce ==
  [][ \A r \in Requests :
        future[r] \in { "refused", "response", "error", "cancelled" } =>
          future'[r] = future[r] ]_vars

THEOREM RequestsAreAnsweredOnce == Spec => AnsweredOnce
<1>1. PlaceInv /\ [Next]_vars =>
        [ \A r \in Requests :
            future[r] \in { "refused", "response", "error", "cancelled" } =>
              future'[r] = future[r] ]_vars
  <2> SUFFICES ASSUME PlaceInv, [Next]_vars, NEW r \in Requests,
                      future[r] \in { "refused", "response", "error", "cancelled" }
               PROVE  future'[r] = future[r]
    OBVIOUS
  <2>0. TypeOK /\ Placed(r)
    BY DEF PlaceInv, IInv, RequestsInOnePlace
  <2>1. CASE RunCallback
    <3>1. Head(callbacks) = callbacks[1] /\ 1 \in 1..Len(callbacks)
      BY <2>0, <2>1, HeadTailProperties DEF RunCallback, TypeOK
    <3>2. Settles(Head(callbacks), r) => future[r] = "cancelled"
      BY <2>0, <3>1 DEF Placed, OnItsWay, Posted
    <3> QED
      BY <2>0, <2>1, <3>2 DEF RunCallback, Settles, TypeOK
  <2>2. CASE \E x \in Requests : Request(x) \/ CancelRequest(x)
    BY <2>0, <2>2 DEF Request, CancelRequest, TypeOK
  <2>3. CASE OwnerStep \/ CollectDht
    BY <2>3
    DEF OwnerStep, Build, Attach, Bootstrap, Abort, Publish, CheckStop,
        TakeCommand, PumpEnds, Serviced, Tick, Wait, Teardown, CollectDht, asyncs
  <2> QED
    BY <2>1, <2>2, <2>3
    DEF Next, LoopStep, ServeReturns, CancelServe, PropagateCancel, Shutdown,
        CancelShutdown, LoopClose, Join, vars
<1> QED
  BY <1>1, PlaceInvariance, PTL DEF Spec, AnsweredOnce

-----------------------------------------------------------------------------
(* A shutdown() waits for nothing that is past: the safety side of         *)
(* ShutdownReturns.                                                        *)

\* Whoever shut down has set the event, which nobody clears, and a join that
\* ended has its return among the callbacks, on a loop that still runs them
\* (runtime.py:185-193).
ShutdownsHeard ==
  \A c \in Shutdowns :
    /\ closer[c] # "idle" => stop
    /\ closer[c] \in { "joining", "joined" } => loop = "running"
    /\ closer[c] = "joined" =>
         \E i \in 1..Len(callbacks) : callbacks[i] = << "return", c >>

\* A callback that is not taken stays.
LEMMA CallbackStays ==
  ASSUME TypeOK, NEW e, NEW i \in 1..Len(callbacks), callbacks[i] = e,
         \/ callbacks' = callbacks
         \/ \E f \in Callback : callbacks' = Append(callbacks, f)
         \/ callbacks # << >> /\ callbacks' = Tail(callbacks) /\ Head(callbacks) # e
  PROVE  \E j \in 1..Len(callbacks') : callbacks'[j] = e
<1>1. CASE callbacks' = callbacks
  BY <1>1
<1>2. ASSUME NEW f \in Callback, callbacks' = Append(callbacks, f)
      PROVE  \E j \in 1..Len(callbacks') : callbacks'[j] = e
  <2>1. i \in 1..Len(callbacks') /\ callbacks'[i] = e
    BY <1>2, AppendProperties DEF TypeOK
  <2> QED
    BY <2>1
<1>3. CASE callbacks # << >> /\ callbacks' = Tail(callbacks) /\ Head(callbacks) # e
  <2>1. /\ Head(callbacks) = callbacks[1]
        /\ Len(callbacks) \in Nat \ {0}
        /\ Len(callbacks') = Len(callbacks) - 1
        /\ \A j \in 1..Len(callbacks') : callbacks'[j] = callbacks[j + 1]
    BY <1>3, HeadTailProperties DEF TypeOK
  <2>2. i # 1
    BY <1>3, <2>1
  <2>3. i - 1 \in 1..Len(callbacks')
    BY <2>1, <2>2
  <2>4. callbacks'[i - 1] = e
    BY <2>1, <2>3
  <2> QED
    BY <2>3, <2>4
<1> QED
  BY <1>1, <1>2, <1>3

LEMMA ShutdownsHeardNext ==
  IInv /\ ShutdownsHeard /\ [Next]_vars => ShutdownsHeard'
<1> SUFFICES ASSUME IInv, ShutdownsHeard, [Next]_vars PROVE ShutdownsHeard'
  OBVIOUS
<1>0. TypeOK /\ OwnerPhases /\ callbacks \in Seq(Callback)
  BY DEF IInv, TypeOK
<1>1. ASSUME closer' = closer, stop => stop', loop' = loop,
             callbacks' = callbacks
             \/ \E f \in Callback : callbacks' = Append(callbacks, f)
      PROVE  ShutdownsHeard'
  <2> SUFFICES ASSUME NEW c \in Shutdowns, closer[c] = "joined"
               PROVE  \E i \in 1..Len(callbacks') :
                        callbacks'[i] = << "return", c >>
    BY <1>1 DEF ShutdownsHeard
  <2>1. PICK i \in 1..Len(callbacks) : callbacks[i] = << "return", c >>
    BY DEF ShutdownsHeard
  <2> QED
    BY <1>0, <1>1, <2>1, CallbackStays
<1>2. CASE ServeReturns \/ CancelServe \/ PropagateCancel \/ UNCHANGED vars
  BY <1>1, <1>2 DEF ServeReturns, CancelServe, PropagateCancel, vars
<1>3. ASSUME NEW r \in Requests, Request(r) \/ CancelRequest(r)
      PROVE  ShutdownsHeard'
  BY <1>1, <1>3 DEF Request, CancelRequest
<1>4. ASSUME NEW d \in Shutdowns, Shutdown(d) \/ CancelShutdown(d)
      PROVE  ShutdownsHeard'
  BY <1>0, <1>4 DEF Shutdown, CancelShutdown, ShutdownsHeard, TypeOK
<1>5. CASE RunCallback
  <2>1. /\ stop' = stop /\ loop' = loop
        /\ callbacks # << >> /\ callbacks' = Tail(callbacks)
    BY <1>5 DEF RunCallback
  <2>2. \A c \in Shutdowns :
          /\ closer'[c] = "joined" =>
               closer[c] = "joined" /\ Head(callbacks) # << "return", c >>
          /\ closer'[c] = "joining" => closer[c] = "joining"
          /\ closer'[c] # "idle" =>
               closer[c] # "idle" \/ Head(callbacks) = << "return", c >>
    BY <1>0, <1>5, RunCallbackCases DEF RunCallback, TypeOK
  <2>3. ASSUME NEW c \in Shutdowns, Head(callbacks) = << "return", c >>
        PROVE  closer[c] # "idle"
    BY <1>0, <2>1, <2>3, HeadTailProperties DEF IInv, ReturnsAfterEnd
  <2>4. ASSUME NEW c \in Shutdowns, closer'[c] = "joined"
        PROVE  \E i \in 1..Len(callbacks') : callbacks'[i] = << "return", c >>
    <3>1. PICK i \in 1..Len(callbacks) : callbacks[i] = << "return", c >>
      BY <2>2, <2>4 DEF ShutdownsHeard
    <3> QED
      BY <1>0, <2>1, <2>2, <2>4, <3>1, CallbackStays
  <2> QED
    BY <2>1, <2>2, <2>3, <2>4 DEF ShutdownsHeard
<1>6. CASE LoopClose
  BY <1>6 DEF LoopClose, ShutdownsHeard
<1>7. ASSUME NEW d \in Shutdowns, Join(d) PROVE ShutdownsHeard'
  <2>0. /\ stop' = stop /\ loop' = loop /\ closer[d] = "joining"
        /\ closer' = [ closer EXCEPT ![d] = "joined" ]
        /\ callbacks' = Append(callbacks, << "return", d >>)
        /\ << "return", d >> \in Callback
    BY <1>7 DEF Join, Callback
  <2>1. ASSUME NEW c \in Shutdowns, closer'[c] = "joined", c # d
        PROVE  \E i \in 1..Len(callbacks') : callbacks'[i] = << "return", c >>
    <3>1. closer[c] = "joined"
      BY <1>0, <2>0, <2>1 DEF TypeOK
    <3>2. PICK i \in 1..Len(callbacks) : callbacks[i] = << "return", c >>
      BY <3>1 DEF ShutdownsHeard
    <3> QED
      BY <1>0, <2>0, <3>2, CallbackStays
  <2>2. \E i \in 1..Len(callbacks') : callbacks'[i] = << "return", d >>
    <3>1. Len(callbacks') = Len(callbacks) + 1 /\ Len(callbacks) \in Nat
      BY <1>0, <2>0, AppendProperties
    <3>2. callbacks'[Len(callbacks')] = << "return", d >>
      BY <1>0, <2>0, <3>1, AppendProperties
    <3> QED
      BY <3>1, <3>2
  <2>3. \A c \in Shutdowns :
          /\ closer'[c] # "idle" => stop'
          /\ closer'[c] \in { "joining", "joined" } => loop' = "running"
    BY <1>0, <2>0 DEF ShutdownsHeard, TypeOK
  <2> QED
    BY <2>1, <2>2, <2>3 DEF ShutdownsHeard
<1>8. CASE OwnerStep \/ CollectDht
  <2>1. closer' = closer /\ stop' = stop /\ loop' = loop
    BY <1>8
    DEF OwnerStep, Build, Attach, Bootstrap, Abort, Publish, CheckStop,
        TakeCommand, PumpEnds, Serviced, Tick, Wait, Teardown, CollectDht, asyncs
  <2>2. \A r \in Requests, outcome \in { "response", "error" } :
          << outcome, r >> \in Callback
    BY DEF Callback
  <2>3. CASE TakeCommand
    <3>1. Head(commands) \in Requests
      BY <1>0, <2>3, HeadTailProperties DEF TakeCommand, TypeOK
    <3> QED
      BY <1>1, <2>1, <2>2, <2>3, <3>1 DEF TakeCommand, Answer, Post
  <2>4. CASE PumpEnds
    <3>1. cur \in Requests
      BY <1>0, <2>4 DEF PumpEnds, OwnerPhases, Requests
    <3> QED
      BY <1>1, <2>1, <2>2, <2>4, <3>1 DEF PumpEnds, Answer, Post
  <2>5. CASE callbacks' = callbacks
    BY <1>1, <2>1, <2>5
  <2> QED
    BY <1>8, <2>3, <2>4, <2>5
    DEF OwnerStep, Build, Attach, Bootstrap, Abort, Publish, CheckStop,
        Serviced, Tick, Wait, Teardown, CollectDht
<1> QED
  BY <1>2, <1>3, <1>4, <1>5, <1>6, <1>7, <1>8 DEF Next, LoopStep

\* An event set and a return posted are never taken back under a shutdown() that
\* waits for them.
THEOREM ShutdownsAreHeard == Spec => []ShutdownsHeard
<1>1. Init => ShutdownsHeard
  BY DEF Init, ShutdownsHeard
<1> QED
  BY <1>1, ShutdownsHeardNext, Invariance, PTL DEF Spec

-----------------------------------------------------------------------------
(* The variant under ShutdownReturns and CancelledServeEnds: after         *)
(* stop.set(), or a cancelled serve(), the owner has only so many steps    *)
(* left, whatever the program asks of it meanwhile.                        *)

\* the requests the program has not made yet
Unsent == { r \in Requests : future[r] = "unsent" }

\* how far the owner is from its end, if it goes into no further turn of its loop
Rank ==
  CASE pc = "build" -> 11
    [] pc = "attach" -> 10
    [] pc = "bootstrap" -> 9
    [] pc \in { "abort", "publish" } -> 8
    [] pc = "pump" -> 7
    [] pc = "service" -> 6
    [] pc = "tick" -> 5
    [] pc = "wait" -> 4
    [] pc = "check" -> 3
    [] pc = "teardown" -> 2
    [] pc = "last" -> 1
    [] pc = "done" -> 0

\* A command, made or still to be made, may cost the owner a lookup.
StepsLeft == 2 * (Cardinality(Unsent) + Len(commands)) + Rank

LEMMA Weights ==
  ASSUME NEW u \in Nat, NEW v \in Nat, NEW m \in Nat, NEW n \in Nat,
         NEW i \in 0..11, NEW j \in 0..11
  PROVE  /\ 2 * (u + m) + i \in Nat
         /\ v + n < u + m /\ j <= i + 1 => 2 * (v + n) + j < 2 * (u + m) + i
         /\ v + n <= u + m /\ j <= i => 2 * (v + n) + j <= 2 * (u + m) + i
         /\ v + n <= u + m /\ j < i => 2 * (v + n) + j < 2 * (u + m) + i
OBVIOUS

\* The measure is a number, and no request comes to be unsent.
LEMMA StepsAreCounted ==
  ASSUME IsFiniteSet(Requests), TypeOK, TypeOK'
  PROVE  /\ Cardinality(Unsent) \in Nat /\ Cardinality(Unsent') \in Nat
         /\ Len(commands) \in Nat /\ Len(commands') \in Nat
         /\ Rank \in 0..11 /\ Rank' \in 0..11
         /\ Unsent' \subseteq Unsent => Cardinality(Unsent') <= Cardinality(Unsent)
         /\ \A r \in Unsent :
              Unsent' = Unsent \ { r } => Cardinality(Unsent') = Cardinality(Unsent) - 1
         /\ StepsLeft = 2 * (Cardinality(Unsent) + Len(commands)) + Rank
         /\ StepsLeft' = 2 * (Cardinality(Unsent') + Len(commands')) + Rank'
<1>1. IsFiniteSet(Unsent) /\ IsFiniteSet(Unsent')
  BY FS_Subset DEF Unsent
<1>2. Cardinality(Unsent) \in Nat /\ Cardinality(Unsent') \in Nat
  BY <1>1, FS_CardinalityType
<1>3. Len(commands) \in Nat /\ Len(commands') \in Nat
  BY DEF TypeOK
<1>4. Rank \in 0..11 /\ Rank' \in 0..11
  BY DEF TypeOK, Rank
<1>5. Unsent' \subseteq Unsent => Cardinality(Unsent') <= Cardinality(Unsent)
  BY <1>1, FS_Subset
<1>6. \A r \in Unsent :
        Unsent' = Unsent \ { r } => Cardinality(Unsent') = Cardinality(Unsent) - 1
  BY <1>1, FS_RemoveElement
<1>7. /\ StepsLeft = 2 * (Cardinality(Unsent) + Len(commands)) + Rank
      /\ StepsLeft' = 2 * (Cardinality(Unsent') + Len(commands')) + Rank'
  BY DEF StepsLeft
<1> QED
  BY <1>2, <1>3, <1>4, <1>5, <1>6, <1>7

\* A step of the owner that does not begin another turn.
LEMMA OwnerWindsDown ==
  ASSUME IsFiniteSet(Requests), TypeOK, TypeOK', pc = "check" => stop, OwnerStep
  PROVE  StepsLeft' < StepsLeft
<1>1. Unsent' = Unsent
  BY DEF OwnerStep, Build, Attach, Bootstrap, Abort, Publish, CheckStop, TakeCommand,
         PumpEnds, Serviced, Tick, Wait, Teardown, asyncs, Unsent
<1>2. Cardinality(Unsent) \in Nat /\ Len(commands) \in Nat
  BY StepsAreCounted
<1>3. CASE TakeCommand
  <2>1. Len(commands') = Len(commands) - 1
    BY <1>3, HeadTailProperties DEF TakeCommand, TypeOK
  <2>2. Rank = 6 /\ Rank' \in { 2, 6, 7 }
    BY <1>3 DEF TakeCommand, Answer, Rank
  <2> QED
    BY <1>1, <1>2, <2>1, <2>2, StepsAreCounted, Weights
<1>4. CASE ~TakeCommand
  <2>1. commands' = commands
    BY <1>4 DEF OwnerStep, Build, Attach, Bootstrap, Abort, Publish, CheckStop,
                PumpEnds, Serviced, Tick, Wait, Teardown
  <2>2. Rank' < Rank
    <3>1. CASE Build \/ Attach \/ Bootstrap \/ Abort \/ Publish
      BY <3>1 DEF Build, Attach, Bootstrap, Abort, Publish, Rank
    <3>2. CASE CheckStop \/ PumpEnds \/ Serviced
      BY <3>2 DEF CheckStop, Stopping, PumpEnds, Answer, Serviced, Rank
    <3>3. CASE Tick \/ Wait \/ Teardown
      BY <3>3 DEF Tick, Wait, Teardown, Rank
    <3> QED
      BY <1>4, <3>1, <3>2, <3>3 DEF OwnerStep
  <2>3. Rank \in 0..11 /\ Rank' \in 0..11
    BY StepsAreCounted
  <2> QED
    BY <1>1, <1>2, <2>1, <2>2, <2>3, StepsAreCounted, Weights
<1> QED
  BY <1>3, <1>4

\* A step of anyone else.
LEMMA OthersAddNothing ==
  ASSUME IsFiniteSet(Requests), TypeOK, TypeOK', [Next]_vars, ~OwnerStep
  PROVE  StepsLeft' <= StepsLeft
<1>1. /\ Cardinality(Unsent) \in Nat /\ Cardinality(Unsent') \in Nat
      /\ Len(commands) \in Nat /\ Rank \in 0..11
  BY StepsAreCounted
<1>2. Rank' = Rank
  BY DEF Next, LoopStep, ServeReturns, CancelServe, PropagateCancel, Request,
         CancelRequest, Shutdown, CancelShutdown, RunCallback, LoopClose, Join,
         CollectDht, vars, Rank
<1>3. ASSUME NEW r \in Requests, Request(r) PROVE StepsLeft' <= StepsLeft
  <2>1. r \in Unsent /\ Unsent' = Unsent \ { r }
    BY <1>3 DEF Request, Unsent, TypeOK
  <2>2. Cardinality(Unsent') = Cardinality(Unsent) - 1
    BY <2>1, StepsAreCounted
  <2>3. Len(commands') <= Len(commands) + 1 /\ Len(commands') \in Nat
    BY <1>3, StepsAreCounted, AppendProperties DEF Request, TypeOK
  <2>4. Cardinality(Unsent') + Len(commands') <= Cardinality(Unsent) + Len(commands)
    BY <1>1, <2>2, <2>3
  <2>5. /\ StepsLeft = 2 * (Cardinality(Unsent) + Len(commands)) + Rank
        /\ StepsLeft' = 2 * (Cardinality(Unsent') + Len(commands')) + Rank
    BY <1>2, StepsAreCounted
  <2> QED
    BY <1>1, <2>3, <2>4, <2>5, Weights
<1>4. ASSUME Unsent' \subseteq Unsent, commands' = commands
      PROVE  StepsLeft' <= StepsLeft
  <2>1. Cardinality(Unsent') <= Cardinality(Unsent)
    BY <1>4, StepsAreCounted
  <2> QED
    BY <1>1, <1>2, <1>4, <2>1, StepsAreCounted, Weights
<1>5. ASSUME NEW r \in Requests, CancelRequest(r) PROVE StepsLeft' <= StepsLeft
  <2>1. Unsent' \subseteq Unsent /\ commands' = commands
    BY <1>5 DEF CancelRequest, Unsent, TypeOK
  <2> QED
    BY <1>4, <2>1
<1>6. CASE RunCallback
  <2>1. future' = future \/
        \E r \in Requests, outcome \in { "response", "error" } :
          future' = [ future EXCEPT ![r] = outcome ]
    BY <1>6, RunCallbackCases
  <2>2. Unsent' \subseteq Unsent
    BY <2>1 DEF Unsent, TypeOK
  <2> QED
    BY <1>4, <1>6, <2>2 DEF RunCallback
<1>7. CASE UNCHANGED << future, commands >>
  BY <1>4, <1>7 DEF Unsent
<1>8. CASE \/ ServeReturns \/ CancelServe \/ PropagateCancel \/ LoopClose \/ CollectDht
           \/ \E c \in Shutdowns : Shutdown(c) \/ CancelShutdown(c) \/ Join(c)
           \/ UNCHANGED vars
  BY <1>7, <1>8
  DEF ServeReturns, CancelServe, PropagateCancel, LoopClose, CollectDht, Shutdown,
      CancelShutdown, Join, asyncs, vars
<1> QED
  BY <1>3, <1>5, <1>6, <1>8 DEF Next, LoopStep

Ending == stop \/ ready = "cancelled"

\* The owner has fewer steps left after each of its own, once the event is set or
\* the cancellation of serve() reached `ready`, and nobody gives it more: not the
\* commands that wait, nor those the program goes on to make, each of which is a
\* lookup that may run to its deadline (runtime.py:217-259, 262-284).  Under
\* WF(OwnerStep) this ends the thread that shutdown() joins.
WindsDown ==
  [][ Ending => /\ StepsLeft' <= StepsLeft
                /\ OwnerStep => StepsLeft' < StepsLeft ]_vars

THEOREM OwnerEndsAfterStop == ASSUME IsFiniteSet(Requests) PROVE Spec => WindsDown
<1>1. /\ IInv /\ TypeOK /\ TypeOK' /\ [Next]_vars
      => [ Ending => /\ StepsLeft' <= StepsLeft
                     /\ OwnerStep => StepsLeft' < StepsLeft ]_vars
  <2> SUFFICES ASSUME IInv, TypeOK, TypeOK', [Next]_vars, Ending
               PROVE  /\ StepsLeft' <= StepsLeft
                      /\ OwnerStep => StepsLeft' < StepsLeft
    OBVIOUS
  <2>1. /\ Cardinality(Unsent) \in Nat /\ Cardinality(Unsent') \in Nat
        /\ Len(commands) \in Nat /\ Len(commands') \in Nat
        /\ Rank \in 0..11 /\ Rank' \in 0..11
    BY StepsAreCounted
  <2>2. StepsLeft \in Nat /\ StepsLeft' \in Nat
    BY <2>1, StepsAreCounted, Weights
  <2>3. pc = "check" => stop
    BY DEF Ending, IInv, OwnerPhases, Looping
  <2> QED
    BY <2>2, <2>3, OwnerWindsDown, OthersAddNothing
<1> QED
  BY <1>1, Invariance, TypeCorrect, PTL DEF Spec, WindsDown

=============================================================================
