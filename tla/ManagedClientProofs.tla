------------------------ MODULE ManagedClientProofs ------------------------
(***************************************************************************)
(* Proofs about ManagedClient, for any number of send() and aclose()       *)
(* calls.  IInv below is inductive; the safety properties the runs of      *)
(* ManagedClient check follow from it, and so do the refinement of         *)
(* CallService and the end of the owner once the client was closed.        *)
(***************************************************************************)

EXTENDS ManagedClient, SequenceTheorems, TLAPS

-----------------------------------------------------------------------------
(* The inductive invariant, part by part.                                  *)

BeforeReady == { "connect", "publish" }
Serving == { "get", "tick", "sending" }
Leaving == { "drain", "close", "done" }

\* Where the owner is, what it holds and what it has published go together.
OwnerPhases ==
  /\ pc = "connect" => handle = "none"
  /\ pc \in { "publish" } \cup Serving \cup { "drain", "close" }
       => handle = "open"
  /\ pc = "done" => handle # "open"
  /\ pc = "done" /\ ready = "result" => handle = "closed"
  /\ pc \in BeforeReady => ready \in { "pending", "cancelled" }
  /\ pc \in Serving \cup { "drain", "close" } => ready = "result"
  /\ cur # None => pc = "sending"
  /\ pc = "sending" => cur # None

\* Only a program that got its AsyncClient sends and closes; the first aclose
\* sets _closed, and a join ends after the owner thread.
CallerPhases ==
  /\ awaiter = "returned" => ready = "result"
  /\ closed => awaiter = "returned"
  /\ \A s \in Sends : future[s] # "unsent" => awaiter = "returned"
  /\ \A s \in Sends : future[s] = "refused" => closed
  /\ \A c \in Closers :
       /\ closer[c] # "idle" => closed
       /\ closer[c] \in { "joined", "returned" } => pc = "done"
  /\ loop = "closed" => \A s \in Sends : future[s] # "pending"

\* The sentinel is the last command, put when _closed was set; an owner that
\* took it left nothing behind it.
SentinelLast ==
  /\ \A i \in 1..Len(commands) :
       commands[i] = Stop => closed /\ i = Len(commands)
  /\ closed /\ pc \in Serving /\ ~faulted => InQueue(Stop)
  /\ pc \in Leaving /\ ready = "result" /\ ~faulted /\ loop = "running"
       => closed /\ commands = << >>

\* A posted return belongs to an ended owner, and the answers of the owner were
\* all posted before it.
ReturnsLast ==
  /\ \A i \in 1..Len(callbacks) :
       callbacks[i][1] = "return" => /\ pc = "done"
                                     /\ closer[callbacks[i][2]] # "idle"
  /\ \A i, j \in 1..Len(callbacks) :
       i < j /\ callbacks[i][1] = "return" => callbacks[j][1] = "return"

IInv ==
  /\ TypeOK
  /\ OwnerPhases
  /\ CallerPhases
  /\ OnePlace
  /\ SentinelLast
  /\ ReturnsLast
  /\ AcloseSettles

-----------------------------------------------------------------------------
(* Type correctness.                                                       *)

LEMMA TypeInit == Init => TypeOK
<1> SUFFICES ASSUME Init PROVE TypeOK
  OBVIOUS
<1>1. Ready!TypeOK
  BY DEF Init, Ready!Init, Ready!TypeOK
<1>2. commands \in Seq(Sends \cup { Stop }) /\ puts \in Seq(Sends)
  BY DEF Init
<1>3. callbacks \in Seq(Callback)
  BY DEF Init
<1> QED
  BY <1>1, <1>2, <1>3 DEF Init, TypeOK

LEMMA PostedType ==
  ASSUME TypeOK, NEW outcome \in { "response", "error" }, NEW s \in Sends
  PROVE  Post(outcome, s) \in Seq(Callback)
BY AppendProperties, << outcome, s >> \in Callback DEF TypeOK, Post, Callback

\* what running the callback at the head of the queue does to the callers
Answers(s, outcome) ==
  /\ Head(callbacks) = << outcome, s >>
  /\ future' = SetFuture(s, outcome)
  /\ closer' = closer

Wakes(c) ==
  /\ Head(callbacks) = << "return", c >>
  /\ closer' = IF closer[c] = "cancelled" THEN closer
               ELSE [ closer EXCEPT ![c] = "returned" ]
  /\ future' = future

LEMMA RunCallbackCases ==
  ASSUME TypeOK, RunCallback
  PROVE  \/ \E s \in Sends, outcome \in { "response", "error" } :
              Answers(s, outcome)
         \/ \E c \in Closers : Wakes(c)
<1>1. Head(callbacks) \in Callback
  BY HeadTailProperties DEF TypeOK, RunCallback
<1>2. CASE \E s \in Sends, outcome \in { "response", "error" } :
             Head(callbacks) = << outcome, s >>
  BY <1>2 DEF RunCallback, Answers
<1>3. CASE \E c \in Closers : Head(callbacks) = << "return", c >>
  BY <1>3 DEF RunCallback, Wakes
<1> QED
  BY <1>1, <1>2, <1>3 DEF Callback

LEMMA TypeNext == TypeOK /\ OwnerPhases /\ [Next]_vars => TypeOK'
<1> SUFFICES ASSUME TypeOK, OwnerPhases, [Next]_vars PROVE TypeOK'
  OBVIOUS
<1> USE DEF TypeOK, Ready!TypeOK
<1>1. CASE ConnectReturns
  BY <1>1 DEF ConnectReturns, Ready!Resume, owner
<1>2. CASE CancelConnect
  BY <1>2 DEF CancelConnect, Ready!Cancel, owner
<1>3. CASE PropagateCancel
  BY <1>3 DEF PropagateCancel, Ready!Propagate, owner
<1>4. ASSUME NEW s \in Sends, Send(s) PROVE TypeOK'
  <2>1. Append(commands, s) \in Seq(Sends \cup { Stop })
    BY AppendProperties
  <2>2. Append(puts, s) \in Seq(Sends)
    BY AppendProperties
  <2>3. commands' \in Seq(Sends \cup { Stop }) /\ puts' \in Seq(Sends)
    BY <1>4, <2>1, <2>2 DEF Send, Put
  <2>4. UNCHANGED << awaiter, ready, owner, closed, callbacks, closer, loop >>
    BY <1>4 DEF Send
  <2>5. future' \in [ Sends -> { "unsent", "pending", "refused", "response",
                                 "error", "cancelled" } ]
    BY <1>4 DEF Send
  <2> QED
    BY <2>3, <2>4, <2>5 DEF owner
<1>5. ASSUME NEW s \in Sends, CancelSend(s) PROVE TypeOK'
  BY <1>5 DEF CancelSend, owner
<1>6. ASSUME NEW c \in Closers, Aclose(c) PROVE TypeOK'
  <2>1. Append(commands, Stop) \in Seq(Sends \cup { Stop })
    BY AppendProperties
  <2>2. commands' \in Seq(Sends \cup { Stop }) /\ closed' \in BOOLEAN
    BY <1>6, <2>1 DEF Aclose, PutStop, Put
  <2>3. closer' \in [ Closers -> { "idle", "joining", "joined", "returned", "noop",
                                   "cancelled" } ]
    BY <1>6 DEF Aclose
  <2>4. UNCHANGED << awaiter, ready, owner, future, callbacks, loop, puts >>
    BY <1>6 DEF Aclose
  <2> QED
    BY <2>2, <2>3, <2>4 DEF owner
<1>7. ASSUME NEW c \in Closers, CancelAclose(c) PROVE TypeOK'
  BY <1>7 DEF CancelAclose, owner
<1>8. CASE RunCallback
  <2>1. Tail(callbacks) \in Seq(Callback)
    BY <1>8, HeadTailProperties DEF RunCallback
  <2>2. ASSUME NEW s \in Sends, NEW outcome \in { "response", "error" },
               Answers(s, outcome)
        PROVE  TypeOK'
    BY <1>8, <2>1, <2>2 DEF RunCallback, Answers, SetFuture, owner
  <2>3. ASSUME NEW c \in Closers, Wakes(c) PROVE TypeOK'
    BY <1>8, <2>1, <2>3 DEF RunCallback, Wakes, owner
  <2> QED
    BY <1>8, <2>2, <2>3, RunCallbackCases
<1>9. CASE LoopClose
  BY <1>9 DEF LoopClose, owner
<1>10. ASSUME NEW c \in Closers, Join(c) PROVE TypeOK'
  <2>1. Append(callbacks, << "return", c >>) \in Seq(Callback)
    BY AppendProperties, << "return", c >> \in Callback DEF Callback
  <2> QED
    BY <1>10, <2>1 DEF Join, owner
<1>11. CASE ConnectSucceeds
  BY <1>11 DEF ConnectSucceeds, callers
<1>12. CASE ConnectFails
  BY <1>12 DEF ConnectFails, Ready!Failed, callers
<1>13. CASE Publish
  BY <1>13 DEF Publish, callers
<1>14. CASE Take
  <2>1. /\ Head(commands) \in Sends \cup { Stop }
        /\ Tail(commands) \in Seq(Sends \cup { Stop })
    BY <1>14, HeadTailProperties DEF Take
  <2>2. cur' \in Sends \cup { None } /\ pc' \in { "drain", "sending" }
    BY <1>14, <2>1 DEF Take, IsStop
  <2>3. /\ UNCHANGED << callers, ready, handle, callbacks, faulted >>
        /\ commands' \in Seq(Sends \cup { Stop })
    BY <1>14, <2>1 DEF Take
  <2> QED
    BY <2>2, <2>3 DEF callers
<1>15. CASE IdleTimeout
  BY <1>15 DEF IdleTimeout, callers
<1>16. CASE Tick
  <2>1. pc' \in { "get", "drain" } /\ faulted' \in BOOLEAN
    BY <1>16 DEF Tick
  <2>2. UNCHANGED << callers, ready, handle, cur, commands, callbacks >>
    BY <1>16 DEF Tick
  <2> QED
    BY <2>1, <2>2 DEF callers
<1>17. CASE Exchange
  <2>1. cur \in Sends
    BY <1>17 DEF Exchange, OwnerPhases
  <2> QED
    BY <1>17, <2>1, PostedType DEF Exchange, callers
<1>18. CASE Drain
  <2>1. /\ Head(commands) \in Sends \cup { Stop }
        /\ Tail(commands) \in Seq(Sends \cup { Stop })
    BY <1>18, HeadTailProperties DEF Drain
  <2> QED
    BY <1>18, <2>1, PostedType DEF Drain, IsStop, callers
<1>19. CASE Drained
  BY <1>19 DEF Drained, callers
<1>20. CASE CloseHandle
  BY <1>20 DEF CloseHandle, callers
<1>21. CASE UNCHANGED vars
  BY <1>21 DEF vars
<1> QED
  BY <1>1, <1>2, <1>3, <1>4, <1>5, <1>6, <1>7, <1>8, <1>9, <1>10, <1>11,
     <1>12, <1>13, <1>14, <1>15, <1>16, <1>17, <1>18, <1>19, <1>20, <1>21
  DEF Next, LoopStep, OwnerStep

-----------------------------------------------------------------------------
(* The phases of the owner thread and of the callers.                      *)

\* The steps of the loop and of the executor, which leave the owner where it is.
LoopActions ==
  \/ ConnectReturns \/ CancelConnect
  \/ \E s \in Sends : Send(s) \/ CancelSend(s)
  \/ \E c \in Closers : Aclose(c) \/ CancelAclose(c) \/ Join(c)
  \/ RunCallback \/ LoopClose

LEMMA LoopActionsKeepOwner ==
  LoopActions => UNCHANGED << owner, ready >>
BY DEF LoopActions, ConnectReturns, CancelConnect, Ready!Resume, Ready!Cancel,
       Send, CancelSend, Aclose, CancelAclose, Join, RunCallback, LoopClose

LEMMA OwnerPhasesNext ==
  TypeOK /\ OwnerPhases /\ [Next]_vars => OwnerPhases'
<1> SUFFICES ASSUME TypeOK, OwnerPhases, [Next]_vars PROVE OwnerPhases'
  OBVIOUS
<1> USE DEF OwnerPhases, BeforeReady, Serving
<1>1. CASE LoopActions \/ UNCHANGED vars
  <2>1. UNCHANGED << owner, ready >>
    BY <1>1, LoopActionsKeepOwner DEF vars, owner
  <2> QED
    BY <2>1 DEF owner
<1>2. CASE PropagateCancel
  BY <1>2 DEF PropagateCancel, Ready!Propagate, owner
<1>3. CASE ConnectSucceeds
  BY <1>3 DEF ConnectSucceeds, callers
<1>4. CASE ConnectFails
  BY <1>4 DEF ConnectFails, Ready!Failed
<1>5. CASE Publish
  BY <1>5 DEF Publish, Publishable
<1>6. CASE Take
  <2>1. Head(commands) \in Sends \cup { Stop }
    BY <1>6, HeadTailProperties DEF Take, TypeOK
  <2> QED
    BY <1>6, <2>1, NoneIsNoSend DEF Take, IsStop
<1>7. CASE IdleTimeout
  BY <1>7 DEF IdleTimeout
<1>8. CASE Tick
  BY <1>8 DEF Tick
<1>9. CASE Exchange
  BY <1>9 DEF Exchange
<1>10. CASE Drain
  BY <1>10 DEF Drain
<1>11. CASE Drained
  BY <1>11 DEF Drained
<1>12. CASE CloseHandle
  BY <1>12 DEF CloseHandle
<1> QED
  BY <1>1, <1>2, <1>3, <1>4, <1>5, <1>6, <1>7, <1>8, <1>9, <1>10, <1>11, <1>12
  DEF Next, LoopStep, OwnerStep, LoopActions

\* The steps of the owner thread, which leave the callers alone.
LEMMA OwnerKeepsCallers == OwnerStep => UNCHANGED callers
BY DEF OwnerStep, ConnectSucceeds, ConnectFails, Publish, Take, IdleTimeout,
       Tick, Exchange, Drain, Drained, CloseHandle

\* An owner thread that has ended stays so, and a published result stays.
LEMMA OwnerKeepsDone ==
  ASSUME OwnerStep, OwnerPhases
  PROVE  /\ pc # "done"
         /\ ready = "result" => ready' = "result"
BY DEF OwnerStep, ConnectSucceeds, ConnectFails, Publish, Take, IdleTimeout,
       Tick, Exchange, Drain, Drained, CloseHandle, OwnerPhases, Ready!Failed,
       Publishable

\* The answer at the head of the callbacks is for a send that has none yet.
LEMMA HeadAnswers ==
  ASSUME TypeOK, OnePlace, RunCallback,
         NEW s \in Sends, NEW outcome \in { "response", "error" },
         Answers(s, outcome)
  PROVE  Settles(callbacks[1], s) /\ future[s] \in { "pending", "cancelled" }
<1>1. callbacks # << >> /\ callbacks \in Seq(Callback)
  BY DEF RunCallback, TypeOK
<1>2. Head(callbacks) = callbacks[1] /\ 1 \in 1..Len(callbacks)
  BY <1>1, HeadTailProperties
<1>3. Settles(callbacks[1], s)
  BY <1>2 DEF Answers, Settles
<1> QED
  BY <1>2, <1>3 DEF OnePlace, OnItsWay, Posted

LEMMA CallerPhasesNext ==
  IInv /\ [Next]_vars => CallerPhases'
<1> SUFFICES ASSUME TypeOK, OwnerPhases, CallerPhases, OnePlace, ReturnsLast,
                    [Next]_vars
             PROVE  CallerPhases'
  BY DEF IInv
<1> USE DEF CallerPhases, TypeOK
<1>1. CASE ConnectReturns
  BY <1>1 DEF ConnectReturns, Ready!Resume, owner
<1>2. CASE CancelConnect
  BY <1>2 DEF CancelConnect, Ready!Cancel, owner
<1>3. CASE PropagateCancel
  BY <1>3 DEF PropagateCancel, Ready!Propagate, owner
<1>4. ASSUME NEW s \in Sends, Send(s) PROVE CallerPhases'
  BY <1>4 DEF Send, Refused, owner
<1>5. ASSUME NEW s \in Sends, CancelSend(s) PROVE CallerPhases'
  BY <1>5 DEF CancelSend, owner
<1>6. ASSUME NEW c \in Closers, Aclose(c) PROVE CallerPhases'
  BY <1>6 DEF Aclose, owner
<1>7. ASSUME NEW c \in Closers, CancelAclose(c) PROVE CallerPhases'
  BY <1>7 DEF CancelAclose, owner
<1>8. CASE RunCallback
  <2>1. ASSUME NEW s \in Sends, NEW outcome \in { "response", "error" },
               Answers(s, outcome), future[s] # "unsent"
        PROVE  CallerPhases'
    BY <1>8, <2>1 DEF RunCallback, Answers, SetFuture, owner
  <2>2. ASSUME NEW c \in Closers, Wakes(c) PROVE CallerPhases'
    <3>1. pc = "done" /\ closer[c] # "idle"
      BY <1>8, <2>2, HeadTailProperties DEF RunCallback, Wakes, ReturnsLast
    <3> QED
      BY <1>8, <2>2, <3>1 DEF RunCallback, Wakes, owner
  <2> QED
    BY <1>8, <2>1, <2>2, RunCallbackCases, HeadAnswers
<1>9. CASE LoopClose
  BY <1>9 DEF LoopClose, owner
<1>10. ASSUME NEW c \in Closers, Join(c) PROVE CallerPhases'
  BY <1>10 DEF Join, owner
<1>11. CASE OwnerStep
  BY <1>11, OwnerKeepsCallers, OwnerKeepsDone DEF callers
<1>12. CASE UNCHANGED vars
  BY <1>12 DEF vars
<1> QED
  BY <1>1, <1>2, <1>3, <1>4, <1>5, <1>6, <1>7, <1>8, <1>9, <1>10, <1>11, <1>12
  DEF Next, LoopStep

-----------------------------------------------------------------------------
(* The order of the commands and of the callbacks.                         *)

LEMMA SentinelLastNext == IInv /\ [Next]_vars => SentinelLast'
<1> SUFFICES ASSUME TypeOK, OwnerPhases, CallerPhases, SentinelLast, [Next]_vars
             PROVE  SentinelLast'
  BY DEF IInv
<1>0. commands \in Seq(Sends \cup { Stop })
  BY DEF TypeOK
<1> USE DEF SentinelLast, InQueue, BeforeReady, Serving, Leaving
<1>1. CASE ConnectReturns \/ CancelConnect \/ UNCHANGED vars
  BY <1>1 DEF ConnectReturns, CancelConnect, Ready!Resume, Ready!Cancel, owner,
              vars
<1>2. CASE PropagateCancel
  BY <1>2 DEF PropagateCancel, Ready!Propagate, owner
<1>3. ASSUME NEW s \in Sends, Send(s) PROVE SentinelLast'
  <2>1. CASE closed
    BY <1>3, <2>1 DEF Send, Refused, owner
  <2>2. CASE ~closed
    <3>1. /\ Len(commands') = Len(commands) + 1
          /\ \A i \in 1..Len(commands) : commands'[i] = commands[i]
          /\ commands'[Len(commands) + 1] = s
      BY <1>0, <1>3, <2>2, AppendProperties DEF Send, Refused, Put
    <3>2. \A i \in 1..Len(commands') : commands'[i] # Stop
      BY <1>0, <2>2, <3>1, StopIsNoSend
    <3> QED
      BY <1>3, <2>2, <3>2 DEF Send, Refused, owner
  <2> QED
    BY <2>1, <2>2
<1>4. ASSUME NEW s \in Sends, CancelSend(s) PROVE SentinelLast'
  BY <1>4 DEF CancelSend, owner
<1>5. ASSUME NEW c \in Closers, Aclose(c) PROVE SentinelLast'
  <2>1. CASE closed
    BY <1>5, <2>1 DEF Aclose, owner
  <2>2. CASE ~closed
    <3>1. /\ Len(commands') = Len(commands) + 1
          /\ Len(commands) \in Nat
          /\ \A i \in 1..Len(commands) : commands'[i] = commands[i]
          /\ commands'[Len(commands) + 1] = Stop
      BY <1>0, <1>5, <2>2, AppendProperties DEF Aclose, PutStop, Put
    <3> QED
      BY <1>5, <2>2, <3>1 DEF Aclose, owner
  <2> QED
    BY <2>1, <2>2
<1>6. ASSUME NEW c \in Closers, CancelAclose(c) \/ Join(c) PROVE SentinelLast'
  BY <1>6 DEF CancelAclose, Join, owner
<1>7. CASE RunCallback \/ LoopClose
  BY <1>7 DEF RunCallback, LoopClose, owner
<1>8. CASE ConnectSucceeds \/ ConnectFails
  BY <1>8 DEF ConnectSucceeds, ConnectFails, Ready!Failed, callers, OwnerPhases
<1>9. CASE Publish
  <2>1. ~closed
    BY <1>9 DEF Publish, OwnerPhases, CallerPhases
  <2> QED
    BY <1>9, <2>1 DEF Publish, Publishable, callers, OwnerPhases
<1>10. CASE Take
  <2>1. /\ Head(commands) = commands[1]
        /\ Len(commands) \in Nat \ {0}
        /\ Len(commands') = Len(commands) - 1
        /\ \A i \in 1..Len(commands') : commands'[i] = commands[i + 1]
    BY <1>0, <1>10, HeadTailProperties DEF Take
  <2>2. commands' \in Seq(Sends \cup { Stop })
    BY <1>0, <1>10, HeadTailProperties DEF Take
  <2>3. CASE Head(commands) = Stop
    <3>1. closed /\ Len(commands) = 1
      BY <2>1, <2>3
    <3>2. commands' = << >>
      BY <2>1, <2>2, <3>1
    <3>3. pc' = "drain" /\ closed'
      BY <1>10, <2>3, <3>1 DEF Take, IsStop, callers
    <3>4. \A i \in 1..Len(commands') : FALSE
      BY <2>1, <3>1
    <3> QED
      BY <3>2, <3>3, <3>4
  <2>4. CASE Head(commands) # Stop
    <3>1. \A i \in 1..Len(commands') : commands'[i] = Stop
            => closed /\ i = Len(commands')
      BY <2>1
    <3>2. InQueue(Stop) => InQueue(Stop)'
      <4> SUFFICES ASSUME NEW i \in 1..Len(commands), commands[i] = Stop
                   PROVE  InQueue(Stop)'
        OBVIOUS
      <4>1. i - 1 \in 1..Len(commands') /\ commands'[i - 1] = Stop
        BY <2>1, <2>4
      <4> QED
        BY <4>1
    <3> QED
      BY <1>10, <2>4, <3>1, <3>2 DEF Take, IsStop, callers
  <2> QED
    BY <2>3, <2>4
<1>11. CASE IdleTimeout \/ Tick \/ Exchange
  BY <1>0, <1>11 DEF IdleTimeout, Tick, Exchange, callers
<1>12. CASE Drain
  <2>1. /\ Head(commands) = commands[1]
        /\ Len(commands) \in Nat \ {0}
        /\ Len(commands') = Len(commands) - 1
        /\ \A i \in 1..Len(commands') : commands'[i] = commands[i + 1]
    BY <1>0, <1>12, HeadTailProperties DEF Drain
  <2>2. \A i \in 1..Len(commands') : commands'[i] = Stop
          => closed /\ i = Len(commands')
    BY <2>1
  <2>3. ~(ready = "result" /\ ~faulted /\ loop = "running")
    BY <1>12 DEF Drain
  <2>4. closed' = closed /\ UNCHANGED << ready, faulted, loop >>
    BY <1>12 DEF Drain, callers
  <2>5. pc' \in { "drain", "done" }
    BY <1>12 DEF Drain
  <2> QED
    BY <2>2, <2>3, <2>4, <2>5
<1>13. CASE Drained \/ CloseHandle
  BY <1>13 DEF Drained, CloseHandle, callers
<1>14. CASE LoopStep
  BY <1>1, <1>2, <1>3, <1>4, <1>5, <1>6, <1>7, <1>14 DEF LoopStep
<1>15. CASE OwnerStep
  BY <1>8, <1>9, <1>10, <1>11, <1>12, <1>13, <1>15 DEF OwnerStep
<1> QED
  BY <1>1, <1>6, <1>14, <1>15 DEF Next

\* A step that leaves the callbacks alone keeps ReturnsLast.
LEMMA ReturnsLastKept ==
  ASSUME ReturnsLast, TypeOK, callbacks' = callbacks,
         pc = "done" => pc' = "done",
         \A c \in Closers : closer[c] # "idle" => closer'[c] # "idle"
  PROVE  ReturnsLast'
<1>1. \A i \in 1..Len(callbacks) :
        callbacks[i][1] = "return" => callbacks[i][2] \in Closers
  BY DEF TypeOK, Callback
<1> QED
  BY <1>1 DEF ReturnsLast

\* So does an answer posted by an owner that has not ended.
LEMMA ReturnsLastPosted ==
  ASSUME ReturnsLast, TypeOK, pc # "done",
         NEW s \in Sends, NEW outcome \in { "response", "error" },
         callbacks' = Post(outcome, s)
  PROVE  ReturnsLast'
<1>1. << outcome, s >> \in Callback
  BY DEF Callback
<1>2. /\ Len(callbacks') = Len(callbacks) + 1
      /\ Len(callbacks) \in Nat
      /\ \A i \in 1..Len(callbacks) : callbacks'[i] = callbacks[i]
      /\ callbacks'[Len(callbacks) + 1] = << outcome, s >>
  BY <1>1, AppendProperties DEF TypeOK, Post
<1>3. \A i \in 1..Len(callbacks') : callbacks'[i][1] # "return"
  BY <1>2 DEF ReturnsLast
<1> QED
  BY <1>3 DEF ReturnsLast

LEMMA ReturnsLastNext == IInv /\ [Next]_vars => ReturnsLast'
<1> SUFFICES ASSUME TypeOK, OwnerPhases, OnePlace, ReturnsLast, [Next]_vars
             PROVE  ReturnsLast'
  BY DEF IInv
<1>1. CASE ConnectReturns \/ CancelConnect \/ PropagateCancel \/ UNCHANGED vars
  BY <1>1, ReturnsLastKept
  DEF ConnectReturns, CancelConnect, PropagateCancel, owner, vars
<1>2. ASSUME NEW s \in Sends, Send(s) \/ CancelSend(s) PROVE ReturnsLast'
  BY <1>2, ReturnsLastKept DEF Send, CancelSend, owner
<1>3. ASSUME NEW c \in Closers, Aclose(c) \/ CancelAclose(c) PROVE ReturnsLast'
  BY <1>3, ReturnsLastKept DEF Aclose, CancelAclose, owner, TypeOK
<1>4. CASE RunCallback
  <2>1. /\ Len(callbacks) \in Nat \ {0}
        /\ Len(callbacks') = Len(callbacks) - 1
        /\ \A i \in 1..Len(callbacks') : callbacks'[i] = callbacks[i + 1]
    BY <1>4, HeadTailProperties DEF RunCallback, TypeOK
  <2>2. \A i, j \in 1..Len(callbacks') :
          i < j /\ callbacks'[i][1] = "return" => callbacks'[j][1] = "return"
    BY <2>1 DEF ReturnsLast
  <2>3. pc' = pc
    BY <1>4 DEF RunCallback, owner
  <2>4. \A c \in Closers : closer[c] # "idle" => closer'[c] # "idle"
    BY <1>4, RunCallbackCases DEF Answers, Wakes, TypeOK
  <2>5. ASSUME NEW i \in 1..Len(callbacks'), callbacks'[i][1] = "return"
        PROVE  pc' = "done" /\ closer'[callbacks'[i][2]] # "idle"
    <3>1. i + 1 \in 1..Len(callbacks) /\ callbacks'[i] = callbacks[i + 1]
      BY <2>1
    <3>2. callbacks[i + 1][2] \in Closers
      BY <2>5, <3>1 DEF TypeOK, Callback
    <3> QED
      BY <2>3, <2>4, <2>5, <3>1, <3>2 DEF ReturnsLast
  <2> QED
    BY <2>2, <2>5 DEF ReturnsLast
<1>5. CASE LoopClose
  BY <1>5 DEF LoopClose, ReturnsLast
<1>6. ASSUME NEW c \in Closers, Join(c) PROVE ReturnsLast'
  <2>1. << "return", c >> \in Callback
    BY DEF Callback
  <2>2. /\ Len(callbacks') = Len(callbacks) + 1
        /\ Len(callbacks) \in Nat
        /\ \A i \in 1..Len(callbacks) : callbacks'[i] = callbacks[i]
        /\ callbacks'[Len(callbacks) + 1] = << "return", c >>
    BY <1>6, <2>1, AppendProperties DEF Join, TypeOK
  <2>3. /\ pc = "done" /\ pc' = "done"
        /\ closer'[c] = "joined"
        /\ \A d \in Closers : closer[d] # "idle" => closer'[d] # "idle"
    BY <1>6 DEF Join, owner, TypeOK
  <2>4. ASSUME NEW i \in 1..Len(callbacks'), callbacks'[i][1] = "return"
        PROVE  pc' = "done" /\ closer'[callbacks'[i][2]] # "idle"
    <3>1. CASE i = Len(callbacks) + 1
      BY <2>2, <2>3, <3>1
    <3>2. CASE i \in 1..Len(callbacks)
      <4>1. callbacks'[i] = callbacks[i] /\ callbacks[i][2] \in Closers
        BY <2>2, <2>4, <3>2 DEF TypeOK, Callback
      <4> QED
        BY <2>3, <2>4, <3>2, <4>1 DEF ReturnsLast
    <3> QED
      BY <2>2, <3>1, <3>2
  <2>5. ASSUME NEW i \in 1..Len(callbacks'), NEW j \in 1..Len(callbacks'),
               i < j, callbacks'[i][1] = "return"
        PROVE  callbacks'[j][1] = "return"
    <3>1. i \in 1..Len(callbacks) /\ callbacks'[i] = callbacks[i]
      BY <2>2, <2>5
    <3>2. CASE j = Len(callbacks) + 1
      BY <2>2, <3>2
    <3>3. CASE j \in 1..Len(callbacks)
      BY <2>2, <2>5, <3>1, <3>3 DEF ReturnsLast
    <3> QED
      BY <2>2, <3>2, <3>3
  <2> QED
    BY <2>4, <2>5 DEF ReturnsLast
<1>7. CASE Exchange
  <2>1. cur \in Sends /\ pc # "done"
    BY <1>7 DEF Exchange, OwnerPhases, TypeOK
  <2> QED
    BY <1>7, <2>1, ReturnsLastKept, ReturnsLastPosted DEF Exchange, callers
<1>8. CASE Drain
  <2>1. Head(commands) \in Sends \cup { Stop } /\ pc # "done"
    BY <1>8, HeadTailProperties DEF Drain, TypeOK
  <2> QED
    BY <1>8, <2>1, ReturnsLastKept, ReturnsLastPosted DEF Drain, IsStop, callers
<1>9. CASE \/ ConnectSucceeds \/ ConnectFails \/ Publish \/ Take \/ IdleTimeout
           \/ Tick \/ Drained \/ CloseHandle
  BY <1>9, ReturnsLastKept
  DEF ConnectSucceeds, ConnectFails, Publish, Take, IdleTimeout, Tick, Drained,
      CloseHandle, callers
<1> QED
  BY <1>1, <1>2, <1>3, <1>4, <1>5, <1>6, <1>7, <1>8, <1>9
  DEF Next, LoopStep, OwnerStep

-----------------------------------------------------------------------------
(* Every send is in one place.                                             *)

OnceQueued(s) ==
  \A i, j \in 1..Len(commands) : commands[i] = s /\ commands[j] = s => i = j

OncePosted(s) ==
  \A i, j \in 1..Len(callbacks) :
    Settles(callbacks[i], s) /\ Settles(callbacks[j], s) => i = j

\* OnePlace for one send.
Placed(s) ==
  /\ future[s] = "pending" => OnItsWay(s)
  /\ OnItsWay(s) => future[s] \in { "pending", "cancelled" }
  /\ cur = s => ~InQueue(s) /\ ~Posted(s)
  /\ ~(InQueue(s) /\ Posted(s))
  /\ OnceQueued(s)
  /\ OncePosted(s)

LEMMA PlacedIsOnePlace == OnePlace <=> \A s \in Sends : Placed(s)
BY DEF OnePlace, Placed, OnceQueued, OncePosted

LEMMA QueueAppended ==
  ASSUME TypeOK, NEW x \in Sends \cup { Stop }, commands' = Append(commands, x),
         NEW s \in Sends, OnceQueued(s), x = s => ~InQueue(s)
  PROVE  /\ InQueue(s)' <=> InQueue(s) \/ x = s
         /\ OnceQueued(s)'
<1>1. /\ Len(commands') = Len(commands) + 1
      /\ Len(commands) \in Nat
      /\ \A i \in 1..Len(commands) : commands'[i] = commands[i]
      /\ commands'[Len(commands) + 1] = x
  BY AppendProperties DEF TypeOK
<1> QED
  BY <1>1 DEF InQueue, OnceQueued

LEMMA QueueTaken ==
  ASSUME TypeOK, commands # << >>, commands' = Tail(commands),
         NEW s \in Sends, OnceQueued(s)
  PROVE  /\ InQueue(s) <=> Head(commands) = s \/ InQueue(s)'
         /\ Head(commands) = s => ~InQueue(s)'
         /\ OnceQueued(s)'
<1>1. /\ Head(commands) = commands[1]
      /\ Len(commands) \in Nat \ {0}
      /\ Len(commands') = Len(commands) - 1
      /\ \A i \in 1..Len(commands') : commands'[i] = commands[i + 1]
  BY HeadTailProperties DEF TypeOK
<1>2. InQueue(s) => Head(commands) = s \/ InQueue(s)'
  <2> SUFFICES ASSUME NEW i \in 1..Len(commands), commands[i] = s, i # 1
               PROVE  InQueue(s)'
    BY <1>1 DEF InQueue
  <2>1. i - 1 \in 1..Len(commands') /\ commands'[i - 1] = s
    BY <1>1
  <2> QED
    BY <2>1 DEF InQueue
<1>3. InQueue(s)' => InQueue(s) /\ Head(commands) # s
  <2> SUFFICES ASSUME NEW i \in 1..Len(commands'), commands'[i] = s
               PROVE  InQueue(s) /\ Head(commands) # s
    BY DEF InQueue
  <2>1. i + 1 \in 1..Len(commands) /\ commands[i + 1] = s /\ i + 1 # 1
    BY <1>1
  <2>2. 1 \in 1..Len(commands)
    BY <1>1
  <2> QED
    BY <1>1, <2>1, <2>2 DEF InQueue, OnceQueued
<1>4. Head(commands) = s => InQueue(s)
  BY <1>1 DEF InQueue
<1>5. OnceQueued(s)'
  <2> SUFFICES ASSUME NEW i \in 1..Len(commands'), NEW j \in 1..Len(commands'),
                      commands'[i] = s, commands'[j] = s
               PROVE  i = j
    BY DEF OnceQueued
  <2>1. /\ i + 1 \in 1..Len(commands) /\ commands[i + 1] = s
        /\ j + 1 \in 1..Len(commands) /\ commands[j + 1] = s
    BY <1>1
  <2>2. i + 1 = j + 1
    BY <2>1 DEF OnceQueued
  <2> QED
    BY <2>2
<1> QED
  BY <1>2, <1>3, <1>4, <1>5

LEMMA CallbackAppended ==
  ASSUME TypeOK, NEW e \in Callback, callbacks' = Append(callbacks, e),
         NEW s \in Sends, OncePosted(s), Settles(e, s) => ~Posted(s)
  PROVE  /\ Posted(s)' <=> Posted(s) \/ Settles(e, s)
         /\ OncePosted(s)'
<1>1. /\ Len(callbacks') = Len(callbacks) + 1
      /\ Len(callbacks) \in Nat
      /\ \A i \in 1..Len(callbacks) : callbacks'[i] = callbacks[i]
      /\ callbacks'[Len(callbacks) + 1] = e
  BY AppendProperties DEF TypeOK
<1>2. Posted(s)' <=> Posted(s) \/ Settles(e, s)
  BY <1>1 DEF Posted, Settles
<1>3. OncePosted(s)'
  <2> SUFFICES ASSUME NEW i \in 1..Len(callbacks'), NEW j \in 1..Len(callbacks'),
                      Settles(callbacks'[i], s), Settles(callbacks'[j], s)
               PROVE  i = j
    BY DEF OncePosted, Settles
  <2>1. CASE i \in 1..Len(callbacks) /\ j \in 1..Len(callbacks)
    BY <1>1, <2>1 DEF OncePosted
  <2>2. CASE i = Len(callbacks) + 1 /\ j \in 1..Len(callbacks)
    BY <1>1, <2>2 DEF Posted
  <2>3. CASE i \in 1..Len(callbacks) /\ j = Len(callbacks) + 1
    BY <1>1, <2>3 DEF Posted
  <2> QED
    BY <1>1, <2>1, <2>2, <2>3
<1> QED
  BY <1>2, <1>3

LEMMA CallbackTaken ==
  ASSUME TypeOK, callbacks # << >>, callbacks' = Tail(callbacks),
         NEW s \in Sends, OncePosted(s)
  PROVE  /\ Posted(s) <=> Settles(Head(callbacks), s) \/ Posted(s)'
         /\ Settles(Head(callbacks), s) => ~Posted(s)'
         /\ OncePosted(s)'
<1>1. /\ Head(callbacks) = callbacks[1]
      /\ Len(callbacks) \in Nat \ {0}
      /\ Len(callbacks') = Len(callbacks) - 1
      /\ \A i \in 1..Len(callbacks') : callbacks'[i] = callbacks[i + 1]
  BY HeadTailProperties DEF TypeOK
<1>2. Posted(s) => Settles(Head(callbacks), s) \/ Posted(s)'
  <2> SUFFICES ASSUME NEW i \in 1..Len(callbacks), Settles(callbacks[i], s),
                      i # 1
               PROVE  Posted(s)'
    BY <1>1 DEF Posted
  <2>1. i - 1 \in 1..Len(callbacks') /\ callbacks'[i - 1] = callbacks[i]
    BY <1>1
  <2> QED
    BY <2>1 DEF Posted, Settles
<1>3. Posted(s)' => Posted(s) /\ ~Settles(Head(callbacks), s)
  <2> SUFFICES ASSUME NEW i \in 1..Len(callbacks'), Settles(callbacks'[i], s)
               PROVE  Posted(s) /\ ~Settles(Head(callbacks), s)
    BY DEF Posted, Settles
  <2>1. /\ i + 1 \in 1..Len(callbacks) /\ i + 1 # 1
        /\ Settles(callbacks[i + 1], s)
    BY <1>1
  <2>2. 1 \in 1..Len(callbacks)
    BY <1>1
  <2> QED
    BY <1>1, <2>1, <2>2 DEF Posted, OncePosted
<1>4. Settles(Head(callbacks), s) => Posted(s)
  BY <1>1 DEF Posted
<1>5. OncePosted(s)'
  <2> SUFFICES ASSUME NEW i \in 1..Len(callbacks'), NEW j \in 1..Len(callbacks'),
                      Settles(callbacks'[i], s), Settles(callbacks'[j], s)
               PROVE  i = j
    BY DEF OncePosted, Settles
  <2>1. /\ i + 1 \in 1..Len(callbacks) /\ Settles(callbacks[i + 1], s)
        /\ j + 1 \in 1..Len(callbacks) /\ Settles(callbacks[j + 1], s)
    BY <1>1
  <2>2. i + 1 = j + 1
    BY <2>1 DEF OncePosted
  <2> QED
    BY <2>2
<1> QED
  BY <1>2, <1>3, <1>4, <1>5

\* A step that leaves the three places and the future of s alone keeps it placed.
LEMMA PlacedKept ==
  ASSUME NEW s \in Sends, Placed(s),
         future'[s] = future[s], cur' = cur, commands' = commands,
         callbacks' = callbacks
  PROVE  Placed(s)'
BY DEF Placed, OnItsWay, InQueue, Posted, OnceQueued, OncePosted, Settles

LEMMA OnePlaceNext == IInv /\ [Next]_vars => OnePlace'
<1> SUFFICES ASSUME IInv, [Next]_vars, NEW s \in Sends PROVE Placed(s)'
  BY PlacedIsOnePlace DEF OnePlace, Placed, OnceQueued, OncePosted
<1>0. TypeOK /\ OwnerPhases /\ CallerPhases /\ Placed(s)
  BY PlacedIsOnePlace DEF IInv
<1>q. /\ commands' = commands => (InQueue(s)' <=> InQueue(s))
      /\ commands' = commands => (OnceQueued(s)' <=> OnceQueued(s))
  BY DEF InQueue, OnceQueued
<1>p. /\ callbacks' = callbacks => (Posted(s)' <=> Posted(s))
      /\ callbacks' = callbacks => (OncePosted(s)' <=> OncePosted(s))
  BY DEF Posted, OncePosted, Settles
<1>1. CASE ConnectReturns \/ CancelConnect \/ PropagateCancel \/ UNCHANGED vars
  BY <1>0, <1>1, PlacedKept
  DEF ConnectReturns, CancelConnect, PropagateCancel, owner, vars
<1>2. ASSUME NEW x \in Sends, Send(x) PROVE Placed(s)'
  <2>1. CASE closed
    <3>1. x = s => future[s] = "unsent" /\ future'[s] = "refused"
      BY <1>0, <1>2, <2>1 DEF Send, Refused, TypeOK
    <3>2. x # s => future'[s] = future[s]
      BY <1>0, <1>2, <2>1 DEF Send, Refused, TypeOK
    <3>3. UNCHANGED << cur, commands, callbacks >>
      BY <1>2, <2>1 DEF Send, Refused, owner
    <3> QED
      BY <1>0, <1>p, <1>q, <3>1, <3>2, <3>3, PlacedKept DEF Placed, OnItsWay
  <2>2. CASE ~closed
    <3>1. commands' = Append(commands, x)
      BY <1>2, <2>2 DEF Send, Refused, Put
    <3>2. UNCHANGED << cur, callbacks >>
      BY <1>2, <2>2 DEF Send, owner
    <3>3. /\ x = s => future[s] = "unsent" /\ future'[s] = "pending"
          /\ x # s => future'[s] = future[s]
      BY <1>0, <1>2, <2>2 DEF Send, Refused, TypeOK
    <3>4. x = s => ~OnItsWay(s)
      BY <1>0, <3>3 DEF Placed
    <3>5. (InQueue(s)' <=> InQueue(s) \/ x = s) /\ OnceQueued(s)'
      BY <1>0, <3>1, <3>4, QueueAppended DEF Placed, OnItsWay
    <3> QED
      BY <1>0, <1>p, <3>2, <3>3, <3>4, <3>5 DEF Placed, OnItsWay
  <2> QED
    BY <2>1, <2>2
<1>3. ASSUME NEW x \in Sends, CancelSend(x) PROVE Placed(s)'
  <2>1. /\ x = s => future[s] = "pending" /\ future'[s] = "cancelled"
        /\ x # s => future'[s] = future[s]
        /\ UNCHANGED << cur, commands, callbacks >>
    BY <1>0, <1>3 DEF CancelSend, owner, TypeOK
  <2> QED
    BY <1>0, <1>p, <1>q, <2>1 DEF Placed, OnItsWay
<1>4. ASSUME NEW c \in Closers, Aclose(c) PROVE Placed(s)'
  <2>1. UNCHANGED << future, cur, callbacks >>
    BY <1>4 DEF Aclose, owner
  <2>2. CASE closed
    BY <1>0, <1>4, <2>1, <2>2, PlacedKept DEF Aclose
  <2>3. CASE ~closed
    <3>1. commands' = Append(commands, Stop)
      BY <1>4, <2>3 DEF Aclose, PutStop, Put
    <3>2. (InQueue(s)' <=> InQueue(s)) /\ OnceQueued(s)'
      BY <1>0, <3>1, QueueAppended, StopIsNoSend DEF Placed
    <3> QED
      BY <1>0, <1>p, <2>1, <3>2 DEF Placed, OnItsWay
  <2> QED
    BY <2>2, <2>3
<1>5. ASSUME NEW c \in Closers, CancelAclose(c) PROVE Placed(s)'
  BY <1>0, <1>5, PlacedKept DEF CancelAclose, owner
<1>6. CASE RunCallback
  <2>0. UNCHANGED << cur, commands >>
    BY <1>6 DEF RunCallback, owner
  <2>1. /\ Posted(s) <=> Settles(Head(callbacks), s) \/ Posted(s)'
        /\ Settles(Head(callbacks), s) => ~Posted(s)'
        /\ OncePosted(s)'
    BY <1>0, <1>6, CallbackTaken DEF RunCallback, Placed
  <2>2. ASSUME NEW x \in Sends, NEW outcome \in { "response", "error" },
               Answers(x, outcome)
        PROVE  Placed(s)'
    <3>1. CASE x = s
      <4>1. Settles(Head(callbacks), s)
        BY <2>2, <3>1 DEF Answers, Settles
      <4>2. ~InQueue(s) /\ cur # s /\ ~Posted(s)'
        BY <1>0, <2>1, <4>1 DEF Placed
      <4>3. future'[s] # "pending"
        BY <1>0, <2>2, <3>1 DEF Answers, SetFuture, TypeOK
      <4> QED
        BY <1>0, <1>q, <2>0, <2>1, <4>2, <4>3 DEF Placed, OnItsWay
    <3>2. CASE x # s
      <4>1. ~Settles(Head(callbacks), s)
        BY <2>2, <3>2 DEF Answers, Settles
      <4>2. future'[s] = future[s]
        BY <1>0, <2>2, <3>2 DEF Answers, SetFuture, TypeOK
      <4> QED
        BY <1>0, <1>q, <2>0, <2>1, <4>1, <4>2 DEF Placed, OnItsWay
    <3> QED
      BY <3>1, <3>2
  <2>3. ASSUME NEW c \in Closers, Wakes(c) PROVE Placed(s)'
    <3>1. ~Settles(Head(callbacks), s) /\ future' = future
      BY <2>3 DEF Wakes, Settles
    <3> QED
      BY <1>0, <1>q, <2>0, <2>1, <3>1 DEF Placed, OnItsWay
  <2> QED
    BY <1>0, <1>6, <2>2, <2>3, RunCallbackCases
<1>7. CASE LoopClose
  <2>1. UNCHANGED << future, cur, commands >> /\ future[s] # "pending"
    BY <1>7 DEF LoopClose, owner
  <2>2. ~Posted(s)' /\ OncePosted(s)'
    BY <1>7 DEF LoopClose, Posted, OncePosted
  <2> QED
    BY <1>0, <1>q, <2>1, <2>2 DEF Placed, OnItsWay
<1>8. ASSUME NEW c \in Closers, Join(c) PROVE Placed(s)'
  <2>1. /\ UNCHANGED << future, cur, commands >>
        /\ callbacks' = Append(callbacks, << "return", c >>)
    BY <1>8 DEF Join, owner
  <2>2. << "return", c >> \in Callback /\ ~Settles(<< "return", c >>, s)
    BY DEF Callback, Settles
  <2>3. (Posted(s)' <=> Posted(s)) /\ OncePosted(s)'
    BY <1>0, <2>1, <2>2, CallbackAppended DEF Placed
  <2> QED
    BY <1>0, <1>q, <2>1, <2>3 DEF Placed, OnItsWay
<1>9. CASE Take
  <2>1. /\ InQueue(s) <=> Head(commands) = s \/ InQueue(s)'
        /\ Head(commands) = s => ~InQueue(s)'
        /\ OnceQueued(s)'
    BY <1>0, <1>9, QueueTaken DEF Take, Placed
  <2>2. UNCHANGED << future, callbacks >>
    BY <1>9 DEF Take, callers
  <2>3. cur = None
    BY <1>0, <1>9 DEF Take, OwnerPhases
  <2>4. CASE Head(commands) = Stop
    <3>1. cur' = cur /\ Head(commands) # s
      BY <1>9, <2>4, StopIsNoSend DEF Take, IsStop
    <3> QED
      BY <1>0, <1>p, <2>1, <2>2, <3>1 DEF Placed, OnItsWay
  <2>5. CASE Head(commands) # Stop
    <3>1. cur' = Head(commands)
      BY <1>9, <2>5 DEF Take, IsStop
    <3> QED
      BY <1>0, <1>p, <2>1, <2>2, <2>3, <3>1, NoneIsNoSend DEF Placed, OnItsWay
  <2> QED
    BY <2>4, <2>5
<1>10. CASE Exchange
  <2>1. cur \in Sends /\ cur' = None /\ UNCHANGED << future, commands >>
    BY <1>0, <1>10 DEF Exchange, OwnerPhases, TypeOK, callers
  <2>2. cur' # s
    BY <2>1, NoneIsNoSend
  <2>3. ASSUME NEW outcome \in { "response", "error" },
               callbacks' = Post(outcome, cur)
        PROVE  Placed(s)'
    <3>1. << outcome, cur >> \in Callback
      BY <2>1 DEF Callback
    <3>2. Settles(<< outcome, cur >>, s) <=> cur = s
      BY DEF Settles
    <3>3. cur = s => ~Posted(s)
      BY <1>0 DEF Placed
    <3>4. callbacks' = Append(callbacks, << outcome, cur >>)
      BY <2>3 DEF Post
    <3>5. (Posted(s)' <=> Posted(s) \/ cur = s) /\ OncePosted(s)'
      BY <1>0, <3>1, <3>2, <3>3, <3>4, CallbackAppended DEF Placed
    <3> QED
      BY <1>0, <1>q, <2>1, <2>2, <3>5 DEF Placed, OnItsWay
  <2>4. CASE loop = "closed" /\ callbacks' = callbacks
    <3>1. future[s] # "pending"
      BY <1>0, <2>4 DEF CallerPhases
    <3> QED
      BY <1>0, <1>p, <1>q, <2>1, <2>2, <2>4, <3>1 DEF Placed, OnItsWay
  <2> QED
    BY <1>10, <2>3, <2>4 DEF Exchange
<1>11. CASE Drain
  <2>1. /\ InQueue(s) <=> Head(commands) = s \/ InQueue(s)'
        /\ Head(commands) = s => ~InQueue(s)'
        /\ OnceQueued(s)'
    BY <1>0, <1>11, QueueTaken DEF Drain, Placed
  <2>2. UNCHANGED << future, cur >>
    BY <1>11 DEF Drain, callers
  <2>3. cur # s
    BY <1>0, <1>11, NoneIsNoSend DEF Drain, OwnerPhases
  <2>4. CASE Head(commands) = Stop
    <3>1. callbacks' = callbacks /\ Head(commands) # s
      BY <1>11, <2>4, StopIsNoSend DEF Drain, IsStop
    <3> QED
      BY <1>0, <1>p, <2>1, <2>2, <3>1 DEF Placed, OnItsWay
  <2>5. CASE Head(commands) # Stop /\ loop = "running"
    <3>1. Head(commands) \in Sends
      BY <1>0, <1>11, <2>5, HeadTailProperties DEF Drain, TypeOK
    <3>2. callbacks' = Append(callbacks, << "error", Head(commands) >>)
      BY <1>11, <2>5 DEF Drain, IsStop, Post
    <3>3. /\ << "error", Head(commands) >> \in Callback
          /\ Settles(<< "error", Head(commands) >>, s) <=> Head(commands) = s
      BY <3>1 DEF Callback, Settles
    <3>4. Head(commands) = s => ~Posted(s)
      BY <1>0, <2>1 DEF Placed
    <3>5. (Posted(s)' <=> Posted(s) \/ Head(commands) = s) /\ OncePosted(s)'
      BY <1>0, <3>2, <3>3, <3>4, CallbackAppended DEF Placed
    <3> QED
      BY <1>0, <2>1, <2>2, <2>3, <3>5 DEF Placed, OnItsWay
  <2>6. CASE Head(commands) # Stop /\ loop = "closed"
    <3>1. callbacks' = callbacks /\ future[s] # "pending"
      BY <1>0, <1>11, <2>6 DEF Drain, IsStop, CallerPhases
    <3> QED
      BY <1>0, <1>p, <2>1, <2>2, <3>1 DEF Placed, OnItsWay
  <2> QED
    BY <1>0, <2>4, <2>5, <2>6 DEF TypeOK
<1>12. CASE \/ ConnectSucceeds \/ ConnectFails \/ Publish \/ IdleTimeout \/ Tick
            \/ Drained \/ CloseHandle
  BY <1>0, <1>12, PlacedKept
  DEF ConnectSucceeds, ConnectFails, Publish, IdleTimeout, Tick, Drained,
      CloseHandle, callers
<1> QED
  BY <1>1, <1>2, <1>3, <1>4, <1>5, <1>6, <1>7, <1>8, <1>9, <1>10, <1>11, <1>12
  DEF Next, LoopStep, OwnerStep

-----------------------------------------------------------------------------
(* An aclose() that returns has settled every send.                        *)

\* When a join is the next callback to run, the owner has ended with its client
\* closed, and unless it faulted no send is on its way any more.
LEMMA WakingIsSettled ==
  ASSUME IInv, RunCallback, NEW c \in Closers, Wakes(c)
  PROVE  /\ handle = "closed"
         /\ faulted \/ \A s \in Sends : future[s] # "pending"
<1> USE DEF IInv
<1>1. /\ callbacks # << >>
      /\ callbacks[1] = << "return", c >>
      /\ 1 \in 1..Len(callbacks) /\ Len(callbacks) \in Nat
  BY HeadTailProperties DEF RunCallback, Wakes, TypeOK
<1>2. pc = "done" /\ closer[c] # "idle"
  BY <1>1 DEF ReturnsLast
<1>3. closed /\ ready = "result"
  BY <1>2 DEF CallerPhases
<1>4. handle = "closed"
  BY <1>2, <1>3 DEF OwnerPhases
<1>5. ASSUME ~faulted, NEW s \in Sends PROVE future[s] # "pending"
  <2>1. commands = << >>
    BY <1>2, <1>3, <1>5 DEF RunCallback, SentinelLast, Leaving
  <2>2. ~InQueue(s)
    BY <2>1 DEF InQueue
  <2>3. cur # s
    BY <1>2, NoneIsNoSend DEF OwnerPhases
  <2>4. \A i \in 1..Len(callbacks) : callbacks[i][1] = "return"
    BY <1>1 DEF ReturnsLast
  <2>5. ~Posted(s)
    BY <2>4 DEF Posted, Settles
  <2> QED
    BY <2>2, <2>3, <2>5 DEF OnePlace, OnItsWay
<1> QED
  BY <1>4, <1>5

LEMMA AcloseSettlesNext == IInv /\ [Next]_vars => AcloseSettles'
<1> SUFFICES ASSUME IInv, [Next]_vars, NEW c \in Closers,
                    closer'[c] = "returned"
             PROVE  /\ handle' = "closed"
                    /\ faulted' \/ \A s \in Sends : future'[s] # "pending"
  BY DEF AcloseSettles
<1>0. TypeOK /\ CallerPhases /\ AcloseSettles
  BY DEF IInv
<1>1. CASE closer[c] = "returned"
  <2>1. /\ closed /\ pc = "done" /\ handle = "closed"
        /\ faulted \/ \A s \in Sends : future[s] # "pending"
    BY <1>0, <1>1 DEF CallerPhases, AcloseSettles
  <2>2. CASE OwnerStep
    BY <2>1, <2>2, OwnerKeepsDone DEF IInv
  <2>3. CASE LoopActions
    <3>1. UNCHANGED << handle, faulted >>
      BY <2>3, LoopActionsKeepOwner DEF owner
    <3>2. \A s \in Sends : future'[s] = "pending" => future[s] = "pending"
      <4>1. CASE RunCallback
        BY <1>0, <4>1, RunCallbackCases DEF Answers, Wakes, SetFuture, TypeOK
      <4>2. CASE \E s \in Sends : Send(s)
        BY <1>0, <2>1, <4>2 DEF Send, Refused, TypeOK
      <4>3. CASE \E s \in Sends : CancelSend(s)
        BY <1>0, <4>3 DEF CancelSend, TypeOK
      <4> QED
        BY <2>3, <4>1, <4>2, <4>3
        DEF LoopActions, ConnectReturns, CancelConnect, Aclose, CancelAclose,
            Join, LoopClose
    <3> QED
      BY <2>1, <3>1, <3>2
  <2>4. CASE PropagateCancel \/ UNCHANGED vars
    BY <2>1, <2>4 DEF PropagateCancel, owner, vars
  <2> QED
    BY <2>2, <2>3, <2>4 DEF Next, LoopStep, LoopActions
<1>2. CASE closer[c] # "returned"
  <2>1. RunCallback /\ Wakes(c)
    <3>1. CASE RunCallback
      BY <1>0, <1>2, <3>1, RunCallbackCases DEF Answers, Wakes, TypeOK
    <3>2. CASE OwnerStep
      BY <1>2, <3>2, OwnerKeepsCallers DEF callers
    <3>3. ASSUME NEW d \in Closers, Aclose(d) \/ CancelAclose(d) \/ Join(d)
          PROVE  FALSE
      BY <1>0, <1>2, <3>3 DEF Aclose, CancelAclose, Join, TypeOK
    <3>4. CASE \/ ConnectReturns \/ CancelConnect \/ PropagateCancel
               \/ LoopClose \/ UNCHANGED vars
      BY <1>2, <3>4
      DEF ConnectReturns, CancelConnect, PropagateCancel, LoopClose, vars
    <3>5. ASSUME NEW s \in Sends, Send(s) \/ CancelSend(s) PROVE FALSE
      BY <1>2, <3>5 DEF Send, CancelSend
    <3> QED
      BY <3>1, <3>2, <3>3, <3>4, <3>5 DEF Next, LoopStep
  <2>2. /\ handle = "closed"
        /\ faulted \/ \A s \in Sends : future[s] # "pending"
    BY <2>1, WakingIsSettled
  <2>3. UNCHANGED << handle, faulted, future >>
    BY <2>1 DEF RunCallback, Wakes, owner
  <2> QED
    BY <2>2, <2>3
<1> QED
  BY <1>1, <1>2

-----------------------------------------------------------------------------
(* The theorems.                                                           *)

\* IInv holds in every reachable state.
THEOREM Invariance == Spec => []IInv
<1>1. Init => IInv
  <2> SUFFICES ASSUME Init PROVE IInv
    OBVIOUS
  <2>1. TypeOK
    BY TypeInit
  <2>2. OwnerPhases /\ CallerPhases
    BY NoneIsNoSend
    DEF Init, Ready!Init, OwnerPhases, CallerPhases, BeforeReady, Serving
  <2>3. OnePlace
    <3>1. Len(commands) = 0 /\ Len(callbacks) = 0
      BY DEF Init
    <3>2. /\ \A i \in 1..Len(commands) : FALSE
          /\ \A i \in 1..Len(callbacks) : FALSE
      BY <3>1
    <3>3. ASSUME NEW s \in Sends
          PROVE  ~InQueue(s) /\ ~Posted(s) /\ cur # s /\ future[s] = "unsent"
      BY <3>2, NoneIsNoSend DEF Init, InQueue, Posted
    <3> QED
      BY <3>2, <3>3 DEF OnePlace, OnItsWay
  <2>4. SentinelLast /\ ReturnsLast /\ AcloseSettles
    BY DEF Init, SentinelLast, ReturnsLast, AcloseSettles, Serving, Leaving
  <2> QED
    BY <2>1, <2>2, <2>3, <2>4 DEF IInv
<1>2. IInv /\ [Next]_vars => IInv'
  <2> SUFFICES ASSUME IInv, [Next]_vars PROVE IInv'
    OBVIOUS
  <2>1. TypeOK' /\ OwnerPhases'
    BY TypeNext, OwnerPhasesNext DEF IInv
  <2>2. CallerPhases' /\ OnePlace' /\ SentinelLast' /\ ReturnsLast'
    BY CallerPhasesNext, OnePlaceNext, SentinelLastNext, ReturnsLastNext
  <2>3. AcloseSettles'
    BY AcloseSettlesNext
  <2> QED
    BY <2>1, <2>2, <2>3 DEF IInv
<1> QED
  BY <1>1, <1>2, PTL DEF Spec

\* Every variable keeps its type, whatever the program sends and closes.
THEOREM TypeCorrect == Spec => []TypeOK
<1>1. IInv => TypeOK
  BY DEF IInv
<1> QED
  BY <1>1, Invariance, PTL

\* No send is lost, none is answered twice (AsyncClient.send, the owner's loop
\* and _drain_pending).
THEOREM SendsInOnePlace == Spec => []OnePlace
<1>1. IInv => OnePlace
  BY DEF IInv
<1> QED
  BY <1>1, Invariance, PTL

\* When the joining aclose() returns, the client is closed and, unless the
\* connection faulted while idle, no send is left pending.
THEOREM AcloseSettlesAll == Spec => []AcloseSettles
<1>1. IInv => AcloseSettles
  BY DEF IInv
<1> QED
  BY <1>1, Invariance, PTL

\* However the owner thread ends, it leaves no native client open.
THEOREM NoHandleIsLeft == Spec => []NoHandleLeft
<1>1. IInv => NoHandleLeft
  BY DEF IInv, OwnerPhases, NoHandleLeft
<1> QED
  BY <1>1, Invariance, PTL

-----------------------------------------------------------------------------
(* Answers come in the order of the sends.                                 *)

WasPut(s) == \E i \in 1..Len(puts) : puts[i] = s

\* A send is put once, when it is accepted.
PutOnce ==
  /\ \A i, j \in 1..Len(puts) : puts[i] = puts[j] => i = j
  /\ \A s \in Sends : WasPut(s) => future[s] \notin { "unsent", "refused" }

QueuedBefore(s, t) ==
  \A i, j \in 1..Len(commands) : commands[i] = s /\ commands[j] = t => i < j

PostedBefore(s, t) ==
  \A i, j \in 1..Len(callbacks) :
    Settles(callbacks[i], s) /\ Settles(callbacks[j], t) => i < j

\* On the way from the queue through the owner's hands to the callbacks, t does
\* not pass s, and does not leave the way before s does.
Follows(s, t) ==
  /\ QueuedBefore(s, t)
  /\ PostedBefore(s, t)
  /\ InQueue(s) => InQueue(t)
  /\ cur = s => InQueue(t)
  /\ Posted(s) => OnItsWay(t)

SentBefore(s, t) ==
  \E i, j \in 1..Len(puts) : i < j /\ puts[i] = s /\ puts[j] = t

InOrder == \A s, t \in Sends : SentBefore(s, t) => Follows(s, t)

\* Nothing runs and nothing waits on a closed loop: an answer an owner drops
\* there overtakes nobody.
Emptied ==
  loop = "closed" =>
    /\ callbacks = << >>
    /\ \A c \in Closers : closer[c] \notin { "joining", "joined" }

OrderInv == IInv /\ PutOnce /\ InOrder /\ Emptied

LEMMA FollowsKept ==
  ASSUME NEW s \in Sends, NEW t \in Sends, Follows(s, t),
         cur' = cur, commands' = commands, callbacks' = callbacks
  PROVE  Follows(s, t)'
BY DEF Follows, QueuedBefore, PostedBefore, OnItsWay, InQueue, Posted, Settles

\* A command goes behind the others, as a new send does.
LEMMA FollowsQueued ==
  ASSUME TypeOK, NEW s \in Sends, NEW t \in Sends,
         NEW x \in Sends \cup { Stop }, commands' = Append(commands, x),
         cur' = cur, callbacks' = callbacks, x # s,
         \/ x # t /\ Follows(s, t)
         \/ x = t /\ ~InQueue(t) /\ ~Posted(t)
  PROVE  Follows(s, t)'
<1>1. /\ Len(commands') = Len(commands) + 1
      /\ Len(commands) \in Nat
      /\ \A i \in 1..Len(commands) : commands'[i] = commands[i]
      /\ commands'[Len(commands) + 1] = x
  BY AppendProperties DEF TypeOK
<1>2. QueuedBefore(s, t)'
  <2> SUFFICES ASSUME NEW i \in 1..Len(commands'), NEW j \in 1..Len(commands'),
                      commands'[i] = s, commands'[j] = t
               PROVE  i < j
    BY DEF QueuedBefore
  <2>1. i \in 1..Len(commands) /\ commands[i] = s
    BY <1>1
  <2>2. CASE j = Len(commands) + 1
    BY <1>1, <2>1, <2>2
  <2>3. CASE j \in 1..Len(commands)
    BY <1>1, <2>1, <2>3 DEF Follows, QueuedBefore, InQueue
  <2> QED
    BY <1>1, <2>2, <2>3
<1>3. (InQueue(s)' <=> InQueue(s)) /\ (InQueue(t)' <=> InQueue(t) \/ x = t)
  BY <1>1 DEF InQueue
<1>4. (Posted(s)' <=> Posted(s)) /\ (Posted(t)' <=> Posted(t))
  BY DEF Posted, Settles
<1>5. PostedBefore(s, t)'
  BY DEF PostedBefore, Posted, Settles, Follows
<1> QED
  BY <1>2, <1>3, <1>4, <1>5 DEF Follows, OnItsWay

\* The command taken from the queue is not t while s is behind it.
LEMMA FollowsTaken ==
  ASSUME TypeOK, NEW s \in Sends, NEW t \in Sends, s # t,
         Placed(s), Placed(t), Follows(s, t),
         commands # << >>, commands' = Tail(commands)
  PROVE  /\ QueuedBefore(s, t)'
         /\ InQueue(s)' => InQueue(t)'
         /\ Head(commands) = s => InQueue(t)'
         /\ Head(commands) = t => ~InQueue(s)
<1>1. /\ Head(commands) = commands[1]
      /\ Len(commands) \in Nat \ {0}
      /\ Len(commands') = Len(commands) - 1
      /\ \A i \in 1..Len(commands') : commands'[i] = commands[i + 1]
  BY HeadTailProperties DEF TypeOK
<1>2. Head(commands) = t => ~InQueue(s)
  <2> SUFFICES ASSUME commands[1] = t, NEW i \in 1..Len(commands),
                      commands[i] = s
               PROVE  FALSE
    BY <1>1 DEF InQueue
  <2>1. 1 \in 1..Len(commands)
    BY <1>1
  <2>2. i < 1
    BY <2>1 DEF Follows, QueuedBefore
  <2> QED
    BY <2>2
<1>3. QueuedBefore(s, t)'
  <2> SUFFICES ASSUME NEW i \in 1..Len(commands'), NEW j \in 1..Len(commands'),
                      commands'[i] = s, commands'[j] = t
               PROVE  i < j
    BY DEF QueuedBefore
  <2>1. /\ i + 1 \in 1..Len(commands) /\ commands[i + 1] = s
        /\ j + 1 \in 1..Len(commands) /\ commands[j + 1] = t
    BY <1>1
  <2>2. i + 1 < j + 1
    BY <2>1 DEF Follows, QueuedBefore
  <2> QED
    BY <2>2
<1>4. /\ InQueue(s) <=> Head(commands) = s \/ InQueue(s)'
      /\ InQueue(t) <=> Head(commands) = t \/ InQueue(t)'
  BY QueueTaken DEF Placed
<1> QED
  BY <1>2, <1>3, <1>4 DEF Follows

\* A callback goes behind the others; an answer to s does not go behind one to t.
LEMMA PostedBeforeAppended ==
  ASSUME TypeOK, NEW s \in Sends, NEW t \in Sends, PostedBefore(s, t),
         NEW e \in Callback, callbacks' = Append(callbacks, e),
         Settles(e, s) => ~Posted(t) /\ ~Settles(e, t)
  PROVE  PostedBefore(s, t)'
<1>1. /\ Len(callbacks') = Len(callbacks) + 1
      /\ Len(callbacks) \in Nat
      /\ \A i \in 1..Len(callbacks) : callbacks'[i] = callbacks[i]
      /\ callbacks'[Len(callbacks) + 1] = e
  BY AppendProperties DEF TypeOK
<1> SUFFICES ASSUME NEW i \in 1..Len(callbacks'), NEW j \in 1..Len(callbacks'),
                    Settles(callbacks'[i], s), Settles(callbacks'[j], t)
             PROVE  i < j
  BY DEF PostedBefore, Settles
<1>2. CASE i \in 1..Len(callbacks) /\ j \in 1..Len(callbacks)
  BY <1>1, <1>2 DEF PostedBefore
<1>3. CASE i \in 1..Len(callbacks) /\ j = Len(callbacks) + 1
  BY <1>1, <1>3
<1>4. CASE i = Len(callbacks) + 1
  <2>1. Settles(e, s)
    BY <1>1, <1>4
  <2>2. j \notin 1..Len(callbacks)
    BY <1>1, <2>1 DEF Posted
  <2>3. j # Len(callbacks) + 1
    BY <1>1, <2>1
  <2> QED
    BY <1>1, <2>2, <2>3
<1> QED
  BY <1>1, <1>2, <1>3, <1>4

\* The callback that runs is not t's while one of s is behind it.
LEMMA PostedBeforeTaken ==
  ASSUME TypeOK, NEW s \in Sends, NEW t \in Sends, PostedBefore(s, t),
         callbacks # << >>, callbacks' = Tail(callbacks)
  PROVE  /\ PostedBefore(s, t)'
         /\ Settles(Head(callbacks), t) => ~Posted(s)
<1>1. /\ Head(callbacks) = callbacks[1]
      /\ Len(callbacks) \in Nat \ {0}
      /\ Len(callbacks') = Len(callbacks) - 1
      /\ \A i \in 1..Len(callbacks') : callbacks'[i] = callbacks[i + 1]
  BY HeadTailProperties DEF TypeOK
<1>2. Settles(Head(callbacks), t) => ~Posted(s)
  <2> SUFFICES ASSUME Settles(callbacks[1], t), NEW i \in 1..Len(callbacks),
                      Settles(callbacks[i], s)
               PROVE  FALSE
    BY <1>1 DEF Posted
  <2>1. 1 \in 1..Len(callbacks)
    BY <1>1
  <2>2. i < 1
    BY <2>1 DEF PostedBefore
  <2> QED
    BY <2>2
<1>3. PostedBefore(s, t)'
  <2> SUFFICES ASSUME NEW i \in 1..Len(callbacks'), NEW j \in 1..Len(callbacks'),
                      Settles(callbacks'[i], s), Settles(callbacks'[j], t)
               PROVE  i < j
    BY DEF PostedBefore, Settles
  <2>1. /\ i + 1 \in 1..Len(callbacks) /\ Settles(callbacks[i + 1], s)
        /\ j + 1 \in 1..Len(callbacks) /\ Settles(callbacks[j + 1], t)
    BY <1>1
  <2>2. i + 1 < j + 1
    BY <2>1 DEF PostedBefore
  <2> QED
    BY <2>2
<1> QED
  BY <1>2, <1>3

LEMMA PutOnceNext == OrderInv /\ [Next]_vars => PutOnce'
<1> SUFFICES ASSUME TypeOK, OnePlace, PutOnce, [Next]_vars PROVE PutOnce'
  BY DEF OrderInv, IInv
<1>1. ASSUME puts' = puts,
             \A s \in Sends : future[s] \notin { "unsent", "refused" }
                                => future'[s] \notin { "unsent", "refused" }
      PROVE  PutOnce'
  BY <1>1 DEF PutOnce, WasPut
<1>2. ASSUME NEW x \in Sends, Send(x) PROVE PutOnce'
  <2>1. CASE Refused
    <3>1. puts' = puts
      BY <1>2, <2>1 DEF Send
    <3>2. \A s \in Sends : s # x => future'[s] = future[s]
      BY <1>2, <2>1 DEF Send, TypeOK
    <3> QED
      BY <1>1, <1>2, <3>1, <3>2 DEF Send
  <2>2. CASE ~Refused
    <3>1. /\ puts' = Append(puts, x)
          /\ future[x] = "unsent" /\ future'[x] = "pending"
          /\ \A s \in Sends : s # x => future'[s] = future[s]
      BY <1>2, <2>2 DEF Send, TypeOK
    <3>2. /\ Len(puts') = Len(puts) + 1
          /\ Len(puts) \in Nat
          /\ \A i \in 1..Len(puts) : puts'[i] = puts[i]
          /\ puts'[Len(puts) + 1] = x
      BY <3>1, AppendProperties DEF TypeOK
    <3>3. \A i \in 1..Len(puts) : puts[i] # x
      BY <3>1 DEF PutOnce, WasPut
    <3>4. ASSUME NEW i \in 1..Len(puts'), NEW j \in 1..Len(puts'),
                 puts'[i] = puts'[j]
          PROVE  i = j
      <4>1. CASE i \in 1..Len(puts) /\ j \in 1..Len(puts)
        BY <3>2, <3>4, <4>1 DEF PutOnce
      <4>2. CASE i = Len(puts) + 1 \/ j = Len(puts) + 1
        BY <3>2, <3>3, <3>4, <4>2
      <4> QED
        BY <3>2, <4>1, <4>2
    <3>5. \A s \in Sends : WasPut(s)' => WasPut(s) \/ s = x
      BY <3>2 DEF WasPut
    <3> QED
      BY <3>1, <3>4, <3>5 DEF PutOnce
  <2> QED
    BY <2>1, <2>2
<1>3. ASSUME NEW x \in Sends, CancelSend(x) PROVE PutOnce'
  BY <1>1, <1>3 DEF CancelSend, TypeOK
<1>4. CASE RunCallback
  <2>1. puts' = puts
    BY <1>4 DEF RunCallback
  <2> QED
    BY <1>1, <1>4, <2>1, RunCallbackCases
    DEF Answers, Wakes, SetFuture, TypeOK
<1>5. CASE OwnerStep
  BY <1>1, <1>5, OwnerKeepsCallers DEF callers
<1>6. CASE \/ ConnectReturns \/ CancelConnect \/ PropagateCancel
           \/ \E c \in Closers : Aclose(c) \/ CancelAclose(c) \/ Join(c)
           \/ LoopClose \/ UNCHANGED vars
  BY <1>1, <1>6
  DEF ConnectReturns, CancelConnect, PropagateCancel, Aclose, CancelAclose,
      Join, LoopClose, vars
<1> QED
  BY <1>2, <1>3, <1>4, <1>5, <1>6 DEF Next, LoopStep

LEMMA EmptiedNext == OrderInv /\ [Next]_vars => Emptied'
<1> SUFFICES ASSUME TypeOK, Emptied, [Next]_vars, loop' = "closed"
             PROVE  /\ callbacks' = << >>
                    /\ \A c \in Closers : closer'[c] \notin { "joining", "joined" }
  BY DEF OrderInv, IInv, Emptied
<1>1. CASE loop = "closed"
  <2>1. CASE \E c \in Closers : Join(c)
    BY <1>1, <2>1 DEF Join, Emptied
  <2>2. CASE OwnerStep
    <3>1. UNCHANGED << closer, loop >>
      BY <2>2, OwnerKeepsCallers DEF callers
    <3>2. callbacks' = callbacks
      BY <1>1, <2>2
      DEF OwnerStep, ConnectSucceeds, ConnectFails, Publish, Take, IdleTimeout,
          Tick, Exchange, Drain, Drained, CloseHandle
    <3> QED
      BY <1>1, <3>1, <3>2 DEF Emptied
  <2>3. CASE LoopStep
    BY <1>1, <2>3
    DEF LoopStep, ConnectReturns, CancelConnect, PropagateCancel, Send,
        CancelSend, Aclose, CancelAclose, RunCallback, LoopClose
  <2> QED
    BY <1>1, <2>1, <2>2, <2>3 DEF Next, vars, Emptied
<1>2. CASE loop # "closed"
  <2>1. LoopClose
    <3>1. ~OwnerStep
      BY <1>2, OwnerKeepsCallers DEF callers
    <3> QED
      BY <1>2, <3>1
      DEF Next, LoopStep, ConnectReturns, CancelConnect, PropagateCancel, Send,
          CancelSend, Aclose, CancelAclose, RunCallback, Join, vars
  <2> QED
    BY <2>1 DEF LoopClose
<1> QED
  BY <1>1, <1>2

\* No step lets t pass s.
LEMMA FollowsNext ==
  ASSUME OrderInv, [Next]_vars, NEW s \in Sends, NEW t \in Sends, s # t,
         WasPut(s), WasPut(t), Follows(s, t)
  PROVE  Follows(s, t)'
<1>0. /\ TypeOK /\ OwnerPhases /\ CallerPhases /\ PutOnce /\ Emptied
      /\ Placed(s) /\ Placed(t)
  BY PlacedIsOnePlace DEF OrderInv, IInv
<1>c. callbacks' = callbacks =>
        /\ (Posted(s)' <=> Posted(s)) /\ (Posted(t)' <=> Posted(t))
        /\ (PostedBefore(s, t)' <=> PostedBefore(s, t))
  BY DEF Posted, PostedBefore, Settles
<1>q. commands' = commands =>
        /\ (InQueue(s)' <=> InQueue(s)) /\ (InQueue(t)' <=> InQueue(t))
        /\ (QueuedBefore(s, t)' <=> QueuedBefore(s, t))
  BY DEF InQueue, QueuedBefore
<1>1. ASSUME NEW x \in Sends, Send(x) PROVE Follows(s, t)'
  <2>1. UNCHANGED << cur, callbacks >>
    BY <1>1 DEF Send, owner
  <2>2. x # s /\ x # t
    BY <1>0, <1>1 DEF Send, PutOnce
  <2>3. CASE commands' = Append(commands, x)
    BY <1>0, <2>1, <2>2, <2>3, FollowsQueued
  <2>4. CASE commands' = commands
    BY <2>1, <2>4, FollowsKept
  <2> QED
    BY <1>1, <2>3, <2>4 DEF Send, Put
<1>2. ASSUME NEW c \in Closers, Aclose(c) PROVE Follows(s, t)'
  <2>1. UNCHANGED << cur, callbacks >>
    BY <1>2 DEF Aclose, owner
  <2>2. CASE commands' = Append(commands, Stop)
    BY <1>0, <2>1, <2>2, FollowsQueued, StopIsNoSend
  <2>3. CASE commands' = commands
    BY <2>1, <2>3, FollowsKept
  <2> QED
    BY <1>2, <2>2, <2>3 DEF Aclose, PutStop, Put
<1>3. CASE RunCallback
  <2>1. UNCHANGED << cur, commands >>
    BY <1>3 DEF RunCallback, owner
  <2>2. PostedBefore(s, t)' /\ (Settles(Head(callbacks), t) => ~Posted(s))
    BY <1>0, <1>3, PostedBeforeTaken DEF RunCallback, Follows
  <2>3. /\ Posted(s) <=> Settles(Head(callbacks), s) \/ Posted(s)'
        /\ Posted(t) <=> Settles(Head(callbacks), t) \/ Posted(t)'
    BY <1>0, <1>3, CallbackTaken DEF RunCallback, Placed
  <2> QED
    BY <1>q, <2>1, <2>2, <2>3 DEF Follows, OnItsWay
<1>4. CASE LoopClose
  <2>1. UNCHANGED << cur, commands >> /\ callbacks' = << >>
    BY <1>4 DEF LoopClose, owner
  <2>2. ~Posted(s)' /\ PostedBefore(s, t)'
    BY <2>1 DEF Posted, PostedBefore
  <2> QED
    BY <1>q, <2>1, <2>2 DEF Follows
<1>5. ASSUME NEW c \in Closers, Join(c) PROVE Follows(s, t)'
  <2>1. /\ UNCHANGED << cur, commands >>
        /\ callbacks' = Append(callbacks, << "return", c >>)
    BY <1>5 DEF Join, owner
  <2>2. /\ << "return", c >> \in Callback
        /\ ~Settles(<< "return", c >>, s) /\ ~Settles(<< "return", c >>, t)
    BY DEF Callback, Settles
  <2>3. (Posted(s)' <=> Posted(s)) /\ (Posted(t)' <=> Posted(t))
    BY <1>0, <2>1, <2>2, CallbackAppended DEF Placed
  <2>4. PostedBefore(s, t)'
    BY <1>0, <2>1, <2>2, PostedBeforeAppended DEF Follows
  <2> QED
    BY <1>q, <2>1, <2>3, <2>4 DEF Follows, OnItsWay
<1>6. CASE Take
  <2>1. /\ QueuedBefore(s, t)'
        /\ InQueue(s)' => InQueue(t)'
        /\ Head(commands) = s => InQueue(t)'
        /\ Head(commands) = t => ~InQueue(s)
    BY <1>0, <1>6, FollowsTaken DEF Take
  <2>2. InQueue(t) <=> Head(commands) = t \/ InQueue(t)'
    BY <1>0, <1>6, QueueTaken DEF Take, Placed
  <2>3. cur = None /\ callbacks' = callbacks
    BY <1>0, <1>6 DEF Take, OwnerPhases
  <2>4. \/ Head(commands) = Stop /\ cur' = cur
        \/ Head(commands) # Stop /\ cur' = Head(commands)
    BY <1>6 DEF Take, IsStop
  <2>5. Posted(s) => OnItsWay(t)'
    BY <1>c, <2>2, <2>3, <2>4, NoneIsNoSend, StopIsNoSend DEF Follows, OnItsWay
  <2> QED
    BY <1>c, <2>1, <2>3, <2>4, <2>5, NoneIsNoSend DEF Follows
<1>7. CASE Exchange
  <2>1. cur \in Sends /\ cur' = None /\ commands' = commands
    BY <1>0, <1>7 DEF Exchange, OwnerPhases, TypeOK
  <2>2. ASSUME NEW outcome \in { "response", "error" },
               callbacks' = Post(outcome, cur)
        PROVE  Follows(s, t)'
    <3>1. /\ << outcome, cur >> \in Callback
          /\ callbacks' = Append(callbacks, << outcome, cur >>)
          /\ Settles(<< outcome, cur >>, s) <=> cur = s
          /\ Settles(<< outcome, cur >>, t) <=> cur = t
      BY <2>1, <2>2 DEF Callback, Post, Settles
    <3>2. cur = s => InQueue(t) /\ ~Posted(t)
      BY <1>0 DEF Follows, Placed
    <3>3. PostedBefore(s, t)'
      BY <1>0, <3>1, <3>2, PostedBeforeAppended DEF Follows
    <3>4. /\ Posted(s)' <=> Posted(s) \/ cur = s
          /\ Posted(t)' <=> Posted(t) \/ cur = t
      BY <1>0, <3>1, CallbackAppended DEF Placed
    <3> QED
      BY <1>q, <2>1, <3>2, <3>3, <3>4, NoneIsNoSend DEF Follows, OnItsWay
  <2>3. CASE loop = "closed" /\ callbacks' = callbacks
    <3>1. ~Posted(s)
      BY <1>0, <2>3 DEF Emptied, Posted
    <3> QED
      BY <1>c, <1>q, <2>1, <2>3, <3>1, NoneIsNoSend DEF Follows
  <2> QED
    BY <1>7, <2>2, <2>3 DEF Exchange
<1>8. CASE Drain
  <2>1. /\ QueuedBefore(s, t)'
        /\ InQueue(s)' => InQueue(t)'
        /\ Head(commands) = s => InQueue(t)'
        /\ Head(commands) = t => ~InQueue(s)
    BY <1>0, <1>8, FollowsTaken DEF Drain
  <2>2. InQueue(t) <=> Head(commands) = t \/ InQueue(t)'
    BY <1>0, <1>8, QueueTaken DEF Drain, Placed
  <2>3. cur = None /\ cur' = cur
    BY <1>0, <1>8 DEF Drain, OwnerPhases
  <2>4. CASE Head(commands) = Stop
    <3>1. callbacks' = callbacks /\ Head(commands) # t
      BY <1>8, <2>4, StopIsNoSend DEF Drain, IsStop
    <3> QED
      BY <1>c, <2>1, <2>2, <2>3, <3>1, NoneIsNoSend DEF Follows, OnItsWay
  <2>5. CASE Head(commands) # Stop /\ loop = "running"
    <3>1. Head(commands) \in Sends
      BY <1>0, <1>8, <2>5, HeadTailProperties DEF Drain, TypeOK
    <3>2. callbacks' = Append(callbacks, << "error", Head(commands) >>)
      BY <1>8, <2>5 DEF Drain, IsStop, Post
    <3>3. /\ << "error", Head(commands) >> \in Callback
          /\ Settles(<< "error", Head(commands) >>, s) <=> Head(commands) = s
          /\ Settles(<< "error", Head(commands) >>, t) <=> Head(commands) = t
      BY <3>1 DEF Callback, Settles
    <3>4. /\ Head(commands) = s => ~Posted(s) /\ ~Posted(t)
          /\ Head(commands) = t => ~Posted(t)
      <4>1. Head(commands) = s => InQueue(s)
        BY <1>0, <1>8, QueueTaken DEF Drain, Placed
      <4> QED
        BY <1>0, <2>1, <2>2, <4>1 DEF Placed
    <3>5. PostedBefore(s, t)'
      BY <1>0, <3>2, <3>3, <3>4, PostedBeforeAppended DEF Follows
    <3>6. /\ Posted(s)' <=> Posted(s) \/ Head(commands) = s
          /\ Posted(t)' <=> Posted(t) \/ Head(commands) = t
      BY <1>0, <3>2, <3>3, <3>4, CallbackAppended DEF Placed
    <3> QED
      BY <2>1, <2>2, <2>3, <3>5, <3>6, NoneIsNoSend DEF Follows, OnItsWay
  <2>6. CASE Head(commands) # Stop /\ loop = "closed"
    <3>1. callbacks' = callbacks /\ ~Posted(s)
      BY <1>0, <1>8, <2>6 DEF Drain, IsStop, Emptied, Posted
    <3> QED
      BY <1>c, <2>1, <2>3, <3>1, NoneIsNoSend DEF Follows
  <2> QED
    BY <1>0, <2>4, <2>5, <2>6 DEF TypeOK
<1>9. CASE \/ ConnectReturns \/ CancelConnect \/ PropagateCancel
           \/ \E x \in Sends : CancelSend(x)
           \/ \E c \in Closers : CancelAclose(c)
           \/ ConnectSucceeds \/ ConnectFails \/ Publish \/ IdleTimeout \/ Tick
           \/ Drained \/ CloseHandle \/ UNCHANGED vars
  BY <1>9, FollowsKept
  DEF ConnectReturns, CancelConnect, PropagateCancel, CancelSend, CancelAclose,
      ConnectSucceeds, ConnectFails, Publish, IdleTimeout, Tick, Drained,
      CloseHandle, owner, callers, vars
<1>10. CASE LoopStep
  BY <1>1, <1>2, <1>3, <1>4, <1>5, <1>6, <1>7, <1>8, <1>9, <1>10 DEF LoopStep
<1>11. CASE OwnerStep
  BY <1>1, <1>2, <1>3, <1>4, <1>5, <1>6, <1>7, <1>8, <1>9, <1>11 DEF OwnerStep
<1> QED
  BY <1>1, <1>2, <1>3, <1>4, <1>5, <1>6, <1>7, <1>8, <1>9, <1>10, <1>11 DEF Next

LEMMA InOrderNext == OrderInv /\ [Next]_vars => InOrder'
<1> SUFFICES ASSUME OrderInv, [Next]_vars, NEW s \in Sends, NEW t \in Sends,
                    SentBefore(s, t)'
             PROVE  Follows(s, t)'
  BY DEF InOrder
<1> PICK i \in 1..Len(puts'), j \in 1..Len(puts') :
           i < j /\ puts'[i] = s /\ puts'[j] = t
  BY DEF SentBefore
<1>0. TypeOK /\ OnePlace /\ PutOnce /\ InOrder
  BY DEF OrderInv, IInv
<1>1. ASSUME i \in 1..Len(puts), s = puts[i], j \in 1..Len(puts), t = puts[j]
      PROVE  Follows(s, t)'
  <2>1. WasPut(s) /\ WasPut(t) /\ s # t
    BY <1>0, <1>1 DEF TypeOK, WasPut, PutOnce
  <2>2. Follows(s, t)
    BY <1>0, <1>1 DEF InOrder, SentBefore
  <2> QED
    BY <2>1, <2>2, FollowsNext
<1>2. ASSUME NEW x \in Sends, Send(x), puts' = Append(puts, x)
      PROVE  Follows(s, t)'
  <2>1. /\ Len(puts') = Len(puts) + 1
        /\ Len(puts) \in Nat
        /\ \A k \in 1..Len(puts) : puts'[k] = puts[k] /\ puts[k] \in Sends
        /\ puts'[Len(puts) + 1] = x
    BY <1>0, <1>2, AppendProperties DEF TypeOK
  <2>2. i \in 1..Len(puts) /\ s = puts[i]
    BY <2>1
  <2>3. CASE j \in 1..Len(puts)
    BY <1>1, <2>1, <2>2, <2>3
  <2>4. CASE j = Len(puts) + 1
    <3>1. t = x /\ future[x] = "unsent"
      BY <1>2, <2>1, <2>4 DEF Send
    <3>2. s \in Sends /\ x # s
      BY <1>0, <2>1, <2>2, <3>1 DEF PutOnce, WasPut
    <3>3. ~InQueue(x) /\ ~Posted(x)
      BY <1>0, <3>1 DEF OnePlace, OnItsWay
    <3>4. commands' = Append(commands, x) /\ UNCHANGED << cur, callbacks >>
      <4>1. puts' # puts
        BY <2>1
      <4> QED
        BY <1>2, <4>1 DEF Send, Put, owner
    <3> QED
      BY <1>0, <3>1, <3>2, <3>3, <3>4, FollowsQueued
  <2> QED
    BY <2>1, <2>3, <2>4
<1>3. puts' = puts \/ \E x \in Sends : Send(x) /\ puts' = Append(puts, x)
  <2>1. CASE OwnerStep
    BY <2>1, OwnerKeepsCallers DEF callers
  <2>2. CASE ~OwnerStep
    BY <2>2
    DEF Next, LoopStep, ConnectReturns, CancelConnect, PropagateCancel, Send,
        CancelSend, Aclose, CancelAclose, RunCallback, LoopClose, Join, vars
  <2> QED
    BY <2>1, <2>2
<1> QED
  BY <1>1, <1>2, <1>3

\* When a send has its answer it is not on its way any more, so no send before
\* it is, and one that is on no way is not pending.
LEMMA InOrderAnswers == OrderInv => AnsweredInOrder
<1> SUFFICES ASSUME OrderInv, NEW i \in 1..Len(puts), NEW j \in 1..Len(puts),
                    i < j, future[puts[j]] \in { "response", "error" }
             PROVE  future[puts[i]] # "pending"
  BY DEF AnsweredInOrder
<1>1. puts[i] \in Sends /\ puts[j] \in Sends
  BY DEF OrderInv, IInv, TypeOK
<1>2. ~OnItsWay(puts[j])
  BY <1>1 DEF OrderInv, IInv, OnePlace
<1>3. Follows(puts[i], puts[j])
  BY <1>1 DEF OrderInv, InOrder, SentBefore
<1>4. ~OnItsWay(puts[i])
  BY <1>2, <1>3 DEF Follows, OnItsWay
<1> QED
  BY <1>1, <1>4 DEF OrderInv, IInv, OnePlace

\* Requests on one connection are answered in the order they were sent, however
\* the two threads interleave, whatever is cancelled, and when the rest of the
\* queue is failed at the end.
THEOREM AnswersKeepOrder == Spec => []AnsweredInOrder
<1>1. Init => PutOnce /\ InOrder /\ Emptied
  <2> SUFFICES ASSUME Init PROVE PutOnce /\ InOrder /\ Emptied
    OBVIOUS
  <2>1. Len(puts) = 0 /\ loop = "running"
    BY DEF Init
  <2> QED
    BY <2>1 DEF PutOnce, WasPut, InOrder, SentBefore, Emptied
<1>2. OrderInv /\ [Next]_vars /\ IInv' => OrderInv'
  BY PutOnceNext, InOrderNext, EmptiedNext DEF OrderInv
<1>3. PutOnce /\ InOrder /\ Emptied /\ IInv <=> OrderInv
  BY DEF OrderInv
<1> QED
  BY <1>1, <1>2, <1>3, Invariance, InOrderAnswers, PTL DEF Spec

-----------------------------------------------------------------------------
(* The two threads implement CallService.                                  *)

ServiceStep == [Service!Next]_(Service!vars)

\* A step that changes nothing a caller sees is a stutter of the service.
LEMMA Stutters ==
  ASSUME UNCHANGED << closed, future, faulted >>,
         (awaiter' = "returned") = (awaiter = "returned"),
         (\E c \in Closers : closer'[c] = "returned")
           = (\E c \in Closers : closer[c] = "returned")
  PROVE  ServiceStep
BY DEF ServiceStep, Service!vars, Phase

LEMMA StepRefines == IInv /\ [Next]_vars => ServiceStep
<1> SUFFICES ASSUME IInv, [Next]_vars PROVE ServiceStep
  OBVIOUS
<1>0. TypeOK /\ CallerPhases /\ OnePlace
  BY DEF IInv
<1>i. ~closed => \A c \in Closers : closer[c] = "idle"
  BY <1>0 DEF CallerPhases
<1> USE DEF ServiceStep, Service!Next, Service!vars
<1>1. CASE ConnectReturns
  <2>1. awaiter = "waiting" /\ ~closed
        /\ UNCHANGED << closed, future, faulted, closer >>
    BY <1>0, <1>1 DEF ConnectReturns, Ready!Resume, CallerPhases, owner
  <2>2. CASE awaiter' = "returned"
    <3>1. Phase = "opening" /\ Phase' = "open"
      BY <1>i, <2>1, <2>2 DEF Phase
    <3> QED
      BY <2>1, <3>1 DEF Service!Open
  <2>3. CASE awaiter' # "returned"
    BY <2>1, <2>3, Stutters
  <2> QED
    BY <2>2, <2>3
<1>2. CASE CancelConnect \/ PropagateCancel
  BY <1>2, Stutters
  DEF CancelConnect, PropagateCancel, Ready!Cancel, Ready!Propagate, owner
<1>3. ASSUME NEW s \in Sends, Send(s) PROVE ServiceStep
  <2>1. UNCHANGED << awaiter, closed, closer, faulted >> /\ Phase' = Phase
    BY <1>3 DEF Send, Phase, owner
  <2>2. CASE ~closed
    <3>1. Phase = "open"
      BY <1>3, <1>i, <2>2 DEF Send, Phase
    <3> QED
      BY <1>3, <2>1, <2>2, <3>1 DEF Send, Refused, Service!Submit
  <2>3. CASE closed
    <3>1. Phase \in { "closing", "closed" }
      BY <2>3 DEF Phase
    <3> QED
      BY <1>3, <2>1, <2>3, <3>1 DEF Send, Refused, Service!Refuse
  <2> QED
    BY <2>2, <2>3
<1>4. ASSUME NEW s \in Sends, CancelSend(s) PROVE ServiceStep
  <2>1. faulted' = faulted /\ Phase' = Phase
    BY <1>4 DEF CancelSend, Phase, owner
  <2> QED
    BY <1>4, <2>1 DEF CancelSend, Service!Settle, Service!Outcomes
<1>5. ASSUME NEW c \in Closers, Aclose(c) PROVE ServiceStep
  <2>1. UNCHANGED << awaiter, future, faulted >> /\ awaiter = "returned"
    BY <1>5 DEF Aclose, owner
  <2>2. CASE closed
    BY <1>0, <1>5, <2>1, <2>2, Stutters DEF Aclose, TypeOK
  <2>3. CASE ~closed
    <3>1. closed' /\ \A d \in Closers : closer'[d] # "returned"
      BY <1>0, <1>5, <1>i, <2>3 DEF Aclose, TypeOK
    <3>2. Phase = "open" /\ Phase' = "closing"
      BY <1>i, <2>1, <2>3, <3>1 DEF Phase
    <3> QED
      BY <2>1, <3>2 DEF Service!StartClose
  <2> QED
    BY <2>2, <2>3
<1>6. ASSUME NEW c \in Closers, CancelAclose(c) \/ Join(c) PROVE ServiceStep
  <2>1. UNCHANGED << awaiter, closed, future, faulted >>
    BY <1>6 DEF CancelAclose, Join, owner
  <2>2. \A d \in Closers : closer'[d] = "returned" <=> closer[d] = "returned"
    BY <1>0, <1>6 DEF CancelAclose, Join, TypeOK
  <2> QED
    BY <2>1, <2>2, Stutters
<1>7. CASE RunCallback
  <2>0. UNCHANGED << awaiter, closed, faulted >>
    BY <1>7 DEF RunCallback, owner
  <2>1. ASSUME NEW s \in Sends, NEW outcome \in { "response", "error" },
               Answers(s, outcome)
        PROVE  ServiceStep
    <3>1. future[s] \in { "pending", "cancelled" }
      BY <1>0, <1>7, <2>1, HeadAnswers
    <3>2. closer' = closer /\ Phase' = Phase
      BY <2>0, <2>1 DEF Answers, Phase
    <3>3. CASE future[s] = "cancelled"
      BY <2>0, <2>1, <3>2, <3>3 DEF Answers, SetFuture
    <3>4. CASE future[s] = "pending"
      BY <2>0, <2>1, <3>2, <3>4
      DEF Answers, SetFuture, Service!Settle, Service!Outcomes
    <3> QED
      BY <3>1, <3>3, <3>4
  <2>2. ASSUME NEW c \in Closers, Wakes(c) PROVE ServiceStep
    <3>1. faulted \/ \A s \in Sends : future[s] # "pending"
      BY <1>7, <2>2, WakingIsSettled
    <3>2. future' = future
      BY <2>2 DEF Wakes
    <3>3. CASE closer[c] = "cancelled"
      BY <2>0, <2>2, <3>2, <3>3, Stutters DEF Wakes
    <3>4. CASE closer[c] # "cancelled"
      <4>1. /\ callbacks # << >>
            /\ callbacks[1] = << "return", c >>
            /\ 1 \in 1..Len(callbacks)
        BY <1>0, <1>7, <2>2, HeadTailProperties DEF RunCallback, Wakes, TypeOK
      <4>2. closed
        BY <1>0, <4>1 DEF CallerPhases, ReturnsLast, IInv
      <4>3. closer'[c] = "returned"
        BY <1>0, <2>2, <3>4 DEF Wakes, TypeOK
      <4>4. Phase' = "closed" /\ Phase \in { "closing", "closed" }
        BY <4>2, <4>3 DEF Phase
      <4> QED
        BY <2>0, <3>1, <3>2, <4>4 DEF Service!FinishClose
    <3> QED
      BY <3>3, <3>4
  <2> QED
    BY <1>0, <1>7, <2>1, <2>2, RunCallbackCases
<1>8. CASE LoopClose \/ UNCHANGED vars
  BY <1>8, Stutters DEF LoopClose, owner, vars
<1>9. CASE OwnerStep
  <2>1. UNCHANGED << awaiter, closed, future, closer >> /\ Phase' = Phase
    BY <1>9, OwnerKeepsCallers DEF callers, Phase
  <2>2. faulted' = faulted \/ faulted' = TRUE
    BY <1>9
    DEF OwnerStep, ConnectSucceeds, ConnectFails, Publish, Take, IdleTimeout,
        Tick, Exchange, Drain, Drained, CloseHandle
  <2> QED
    BY <2>1, <2>2 DEF Service!Die
<1> QED
  BY <1>1, <1>2, <1>3, <1>4, <1>5, <1>6, <1>7, <1>8, <1>9 DEF Next, LoopStep

\* The owner thread, the queue and the loop's callbacks together keep what
\* CallService promises: every call settled once, none accepted after close
\* began, and a close that ends with no call pending unless the connection died.
THEOREM Refinement == Spec => ImplementsCallService
<1>1. Init => Service!Init
  BY DEF Init, Ready!Init, Service!Init, Phase
<1>2. IInv /\ [Next]_vars => [Service!Next]_(Service!vars)
  BY StepRefines DEF ServiceStep
<1> QED
  BY <1>1, <1>2, Invariance, PTL DEF Spec, Service!Spec, ImplementsCallService

-----------------------------------------------------------------------------
(* Nobody waits for an event that is past: the safety side of SendsSettle  *)
(* and AcloseReturns.                                                      *)

\* A join that ended has its return among the callbacks, and only the idle tick
\* that takes the owner out of its loop sets `faulted`.
JoinsHeard ==
  \A c \in Closers :
    closer[c] = "joined" =>
      \E i \in 1..Len(callbacks) : callbacks[i] = << "return", c >>

FaultLeaves == faulted => pc \in Leaving

HeardInv == IInv /\ JoinsHeard /\ FaultLeaves

\* A callback that is not taken stays.
LEMMA CallbackStays ==
  ASSUME TypeOK, NEW e, NEW i \in 1..Len(callbacks), callbacks[i] = e,
         \/ callbacks' = callbacks
         \/ \E f \in Callback : callbacks' = Append(callbacks, f)
         \/ callbacks # << >> /\ callbacks' = Tail(callbacks) /\ Head(callbacks) # e
  PROVE  \E j \in 1..Len(callbacks') : callbacks'[j] = e
<1>1. CASE callbacks' = callbacks
  BY <1>1
<1>2. ASSUME NEW f \in Callback, callbacks' = Append(callbacks, f)
      PROVE  \E j \in 1..Len(callbacks') : callbacks'[j] = e
  <2>1. i \in 1..Len(callbacks') /\ callbacks'[i] = e
    BY <1>2, AppendProperties DEF TypeOK
  <2> QED
    BY <2>1
<1>3. CASE callbacks # << >> /\ callbacks' = Tail(callbacks) /\ Head(callbacks) # e
  <2>1. /\ Head(callbacks) = callbacks[1]
        /\ Len(callbacks) \in Nat \ {0}
        /\ Len(callbacks') = Len(callbacks) - 1
        /\ \A j \in 1..Len(callbacks') : callbacks'[j] = callbacks[j + 1]
    BY <1>3, HeadTailProperties DEF TypeOK
  <2>2. i # 1
    BY <1>3, <2>1
  <2>3. i - 1 \in 1..Len(callbacks')
    BY <2>1, <2>2
  <2>4. callbacks'[i - 1] = e
    BY <2>1, <2>3
  <2> QED
    BY <2>3, <2>4
<1> QED
  BY <1>1, <1>2, <1>3

LEMMA JoinsHeardNext == HeardInv /\ [Next]_vars => JoinsHeard'
<1> SUFFICES ASSUME HeardInv, [Next]_vars, NEW c \in Closers,
                    closer'[c] = "joined"
             PROVE  \E i \in 1..Len(callbacks') :
                      callbacks'[i] = << "return", c >>
  BY DEF JoinsHeard
<1>0. TypeOK /\ OwnerPhases /\ callbacks \in Seq(Callback)
  BY DEF HeardInv, IInv, TypeOK
<1>r. << "return", c >> \in Callback
  BY DEF Callback
<1>1. ASSUME closer[c] = "joined",
             \/ callbacks' = callbacks
             \/ \E f \in Callback : callbacks' = Append(callbacks, f)
             \/ /\ callbacks # << >> /\ callbacks' = Tail(callbacks)
                /\ Head(callbacks) # << "return", c >>
      PROVE  \E i \in 1..Len(callbacks') : callbacks'[i] = << "return", c >>
  <2>1. PICK i \in 1..Len(callbacks) : callbacks[i] = << "return", c >>
    BY <1>1 DEF HeardInv, JoinsHeard
  <2> QED
    BY <1>0, <1>1, <2>1, CallbackStays
<1>2. CASE ConnectReturns \/ CancelConnect \/ PropagateCancel \/ UNCHANGED vars
  BY <1>1, <1>2 DEF ConnectReturns, CancelConnect, PropagateCancel, vars
<1>3. ASSUME NEW s \in Sends, Send(s) \/ CancelSend(s)
      PROVE  closer' = closer /\ callbacks' = callbacks
  BY <1>3 DEF Send, CancelSend
<1>4. ASSUME NEW d \in Closers, Aclose(d) \/ CancelAclose(d)
      PROVE  closer[c] = "joined" /\ callbacks' = callbacks
  BY <1>0, <1>4 DEF Aclose, CancelAclose, TypeOK
<1>5. CASE RunCallback
  <2>1. closer[c] = "joined" /\ Head(callbacks) # << "return", c >>
    BY <1>0, <1>5, RunCallbackCases DEF Answers, Wakes, TypeOK
  <2> QED
    BY <1>1, <1>5, <2>1 DEF RunCallback
<1>6. ASSUME LoopClose PROVE FALSE
  BY <1>6 DEF LoopClose
<1>7. ASSUME NEW d \in Closers, Join(d)
      PROVE  \E i \in 1..Len(callbacks') : callbacks'[i] = << "return", c >>
  <2>1. CASE d = c
    <3>1. /\ callbacks' = Append(callbacks, << "return", c >>)
          /\ Len(callbacks) \in Nat
      BY <1>0, <1>7, <2>1 DEF Join
    <3>2. Len(callbacks') = Len(callbacks) + 1
      BY <1>0, <1>r, <3>1, AppendProperties
    <3>3. callbacks'[Len(callbacks')] = << "return", c >>
      BY <1>0, <1>r, <3>1, <3>2, AppendProperties
    <3> QED
      BY <3>1, <3>2, <3>3
  <2>2. CASE d # c
    <3>1. closer[c] = "joined" /\ << "return", d >> \in Callback
      BY <1>0, <1>7, <2>2 DEF Join, TypeOK, Callback
    <3> QED
      BY <1>1, <1>7, <3>1 DEF Join
  <2> QED
    BY <2>1, <2>2
<1>8. CASE OwnerStep
  <2>1. closer' = closer
    BY <1>8, OwnerKeepsCallers DEF callers
  <2>2. CASE Exchange
    <3>1. cur \in Sends
      BY <1>0, <2>2 DEF Exchange, OwnerPhases, TypeOK
    <3>2. \A outcome \in { "response", "error" } : << outcome, cur >> \in Callback
      BY <3>1 DEF Callback
    <3> QED
      BY <1>1, <2>1, <2>2, <3>2 DEF Exchange, Post
  <2>3. CASE Drain
    <3>1. Head(commands) \in Sends \cup { Stop }
      BY <1>0, <2>3, HeadTailProperties DEF Drain, TypeOK
    <3>2. Head(commands) # Stop => << "error", Head(commands) >> \in Callback
      BY <3>1 DEF Callback
    <3> QED
      BY <1>1, <2>1, <2>3, <3>2 DEF Drain, IsStop, Post
  <2>4. CASE ~Exchange /\ ~Drain
    <3>1. callbacks' = callbacks
      BY <1>8, <2>4
      DEF OwnerStep, ConnectSucceeds, ConnectFails, Publish, Take, IdleTimeout,
          Tick, Drained, CloseHandle
    <3> QED
      BY <1>1, <2>1, <3>1
  <2> QED
    BY <2>2, <2>3, <2>4
<1> QED
  BY <1>1, <1>2, <1>3, <1>4, <1>5, <1>6, <1>7, <1>8 DEF Next, LoopStep

LEMMA FaultLeavesNext == IInv /\ FaultLeaves /\ [Next]_vars => FaultLeaves'
<1> SUFFICES ASSUME OwnerPhases, FaultLeaves, [Next]_vars PROVE FaultLeaves'
  BY DEF IInv
<1> USE DEF FaultLeaves, Leaving
<1>1. CASE LoopActions \/ PropagateCancel \/ UNCHANGED vars
  BY <1>1, LoopActionsKeepOwner DEF owner, PropagateCancel, vars
<1>2. CASE OwnerStep
  BY <1>2
  DEF OwnerStep, ConnectSucceeds, ConnectFails, Publish, Take, IdleTimeout, Tick,
      Exchange, Drain, Drained, CloseHandle
<1> QED
  BY <1>1, <1>2 DEF Next, LoopStep, LoopActions

\* A send that waits when the owner has ended has its answer posted, unless the
\* idle tick faulted; an aclose() that set _closed has its sentinel before an
\* owner that will take it, or the owner is on its way out (so the join ends),
\* and a join that ended has posted its return (runtime.py:343-350, 399-434).
NobodyStranded ==
  /\ pc = "done" /\ ~faulted =>
       \A s \in Sends : future[s] = "pending" => Posted(s)
  /\ closed => InQueue(Stop) \/ pc \in Leaving
  /\ JoinsHeard

THEOREM CallersAreNotStranded == Spec => []NobodyStranded
<1>1. Init => JoinsHeard /\ FaultLeaves
  BY DEF Init, JoinsHeard, FaultLeaves
<1>2. HeardInv /\ [Next]_vars => JoinsHeard' /\ FaultLeaves'
  BY JoinsHeardNext, FaultLeavesNext DEF HeardInv
<1>3. IInv /\ JoinsHeard /\ FaultLeaves <=> HeardInv
  BY DEF HeardInv
<1>4. HeardInv => NobodyStranded
  <2> SUFFICES ASSUME HeardInv PROVE NobodyStranded
    OBVIOUS
  <2>1. ASSUME pc = "done", ~faulted, NEW s \in Sends, future[s] = "pending"
        PROVE  Posted(s)
    <3>1. ready = "result" /\ loop = "running"
      BY <2>1 DEF HeardInv, IInv, TypeOK, CallerPhases
    <3>2. commands = << >>
      BY <2>1, <3>1 DEF HeardInv, IInv, SentinelLast, Leaving
    <3>3. ~InQueue(s)
      BY <3>2 DEF InQueue
    <3>4. cur # s
      BY <2>1, NoneIsNoSend DEF HeardInv, IInv, OwnerPhases
    <3> QED
      BY <2>1, <3>3, <3>4 DEF HeardInv, IInv, OnePlace, OnItsWay
  <2>2. ASSUME closed PROVE InQueue(Stop) \/ pc \in Leaving
    <3>1. ready = "result"
      BY <2>2 DEF HeardInv, IInv, CallerPhases
    <3>2. pc \in Serving \cup Leaving
      BY <3>1 DEF HeardInv, IInv, TypeOK, OwnerPhases, BeforeReady, Serving, Leaving
    <3> QED
      BY <2>2, <3>2 DEF HeardInv, IInv, SentinelLast, FaultLeaves
  <2> QED
    BY <2>1, <2>2 DEF NobodyStranded, HeardInv
<1> QED
  BY <1>1, <1>2, <1>3, <1>4, Invariance, PTL DEF Spec

-----------------------------------------------------------------------------
(* The variant under AcloseReturns: once _closed is set, or a              *)
(* connect_async() was cancelled, the owner has only so many steps left,   *)
(* whatever the program does meanwhile.                                    *)

\* how far the owner is from its end, if it never waits for a command
Rank ==
  CASE pc = "connect" -> 6
    [] pc = "publish" -> 5
    [] pc \in { "tick", "sending" } -> 4
    [] pc = "get" -> 3
    [] pc = "drain" -> 2
    [] pc = "close" -> 1
    [] pc = "done" -> 0

\* A command may cost the owner an exchange.
StepsLeft == 2 * Len(commands) + Rank

LEMMA Weights ==
  ASSUME NEW m \in Nat, NEW n \in Nat, NEW i \in 0..6, NEW j \in 0..6
  PROVE  /\ 2 * m + i \in Nat
         /\ n = m - 1 /\ j <= i + 1 => 2 * n + j < 2 * m + i
         /\ n = m /\ j < i => 2 * n + j < 2 * m + i
OBVIOUS

LEMMA StepsAreCounted ==
  ASSUME TypeOK, TypeOK'
  PROVE  /\ Len(commands) \in Nat /\ Len(commands') \in Nat
         /\ Rank \in 0..6 /\ Rank' \in 0..6
         /\ StepsLeft = 2 * Len(commands) + Rank
         /\ StepsLeft' = 2 * Len(commands') + Rank'
<1>1. Len(commands) \in Nat /\ Len(commands') \in Nat
  BY DEF TypeOK
<1>2. Rank \in 0..6 /\ Rank' \in 0..6
  BY DEF TypeOK, Rank
<1>3. StepsLeft = 2 * Len(commands) + Rank /\ StepsLeft' = 2 * Len(commands') + Rank'
  BY DEF StepsLeft
<1> QED
  BY <1>1, <1>2, <1>3

\* A step of the owner that has a sentinel before it, or is not in its loop.
LEMMA OwnerWindsDown ==
  ASSUME TypeOK, TypeOK', pc = "get" => InQueue(Stop), OwnerStep
  PROVE  StepsLeft' < StepsLeft
<1>1. CASE Take \/ Drain
  <2>1. Len(commands') = Len(commands) - 1
    BY <1>1, HeadTailProperties DEF Take, Drain, TypeOK
  <2>2. Rank' <= Rank + 1
    BY <1>1 DEF Take, Drain, Rank
  <2> QED
    BY <2>1, <2>2, StepsAreCounted, Weights
<1>2. CASE Tick \/ Exchange \/ Drained \/ CloseHandle
  <2>1. commands' = commands
    BY <1>2 DEF Tick, Exchange, Drained, CloseHandle
  <2>2. Rank' < Rank
    BY <1>2 DEF Tick, Exchange, Drained, CloseHandle, Rank
  <2> QED
    BY <2>1, <2>2, StepsAreCounted, Weights
<1>3. CASE IdleTimeout
  BY <1>3 DEF IdleTimeout, InQueue
<1>4. CASE ConnectSucceeds \/ ConnectFails \/ Publish
  <2>1. commands' = commands
    BY <1>4 DEF ConnectSucceeds, ConnectFails, Publish
  <2>2. Rank' < Rank
    BY <1>4 DEF ConnectSucceeds, ConnectFails, Publish, Rank
  <2> QED
    BY <2>1, <2>2, StepsAreCounted, Weights
<1> QED
  BY <1>1, <1>2, <1>3, <1>4 DEF OwnerStep

Ending == closed \/ ready = "cancelled"

\* The owner has fewer steps left after each of its own, once _closed is set or the
\* cancellation of connect_async() reached `ready`, and nobody else changes how many:
\* send refuses, and a second aclose puts nothing (runtime.py:325-341, 399-434).
\* Under WF(OwnerStep) this ends the thread that aclose() joins.
WindsDown ==
  [][ Ending => IF OwnerStep THEN StepsLeft' < StepsLeft
                             ELSE StepsLeft' = StepsLeft ]_vars

THEOREM OwnerEndsAfterClose == Spec => WindsDown
<1>1. /\ IInv /\ TypeOK' /\ NobodyStranded /\ [Next]_vars
      => [ Ending => IF OwnerStep THEN StepsLeft' < StepsLeft
                                  ELSE StepsLeft' = StepsLeft ]_vars
  <2> SUFFICES ASSUME IInv, TypeOK', NobodyStranded, [Next]_vars, Ending
               PROVE  IF OwnerStep THEN StepsLeft' < StepsLeft
                                   ELSE StepsLeft' = StepsLeft
    OBVIOUS
  <2>1. CASE OwnerStep
    <3>1. pc = "get" => closed
      BY DEF Ending, IInv, OwnerPhases, Serving
    <3>2. pc = "get" => InQueue(Stop)
      BY <3>1 DEF NobodyStranded, Leaving
    <3> QED
      BY <2>1, <3>2, OwnerWindsDown DEF IInv
  <2>2. CASE ~OwnerStep
    <3>1. pc' = pc /\ commands' = commands
      BY <2>2
      DEF Ending, IInv, CallerPhases, Next, LoopStep, ConnectReturns, CancelConnect, PropagateCancel, Send,
          Refused, CancelSend, Aclose, CancelAclose, RunCallback, LoopClose, Join,
          owner, vars
    <3>2. Rank' = Rank
      BY <3>1 DEF Rank
    <3> QED
      BY <2>2, <3>1, <3>2, StepsAreCounted DEF IInv
  <2> QED
    BY <2>1, <2>2
<1> QED
  BY <1>1, Invariance, TypeCorrect, CallersAreNotStranded, PTL DEF Spec, WindsDown

=============================================================================
