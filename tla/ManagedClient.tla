--------------------------- MODULE ManagedClient ---------------------------
(***************************************************************************)
(* The managed client of nwep/runtime.py: _connect_async, its owner        *)
(* thread, and AsyncClient.                                                *)
(*                                                                         *)
(* Two threads share three things.  The asyncio loop runs the coroutines   *)
(* (connect_async, send, aclose) and the callbacks posted to it; the owner *)
(* thread is the only one that touches the native client handle.  They     *)
(* share the SimpleQueue `commands` (loop to owner), the loop's FIFO of    *)
(* callbacks (owner to loop, call_soon_threadsafe) and the concurrent      *)
(* future `ready`.  A coroutine runs without interruption between two      *)
(* awaits, so each action below is one such stretch, or one statement of   *)
(* the owner thread that another thread can observe.                       *)
(***************************************************************************)

EXTENDS Naturals, Sequences

CONSTANTS
  Sends,     \* the send() calls the program makes, one element each
  Closers,   \* the aclose() calls it makes
  Stop,      \* the sentinel _STOP
  None       \* "no command in hand"

ASSUME StopIsNoSend == Stop \notin Sends
ASSUME NoneIsNoSend == None \notin Sends /\ None # Stop

VARIABLES
  awaiter,    \* the coroutine in `await asyncio.wrap_future(ready)`
  ready,      \* the concurrent future the owner publishes the connection with
  pc,         \* where the owner thread is
  handle,     \* the native client: "none", "open" or "closed"
  cur,        \* the send the owner thread is running
  commands,   \* the SimpleQueue: sends and the sentinel
  closed,     \* AsyncClient._closed
  future,     \* the asyncio future of each send
  callbacks,  \* the loop's queue of callbacks posted from other threads
  closer,     \* each aclose() call
  loop,       \* "running", or "closed" once asyncio.run has returned
  faulted,    \* an idle client.tick raised
  puts        \* history: the sends in the order they were put

callers == << awaiter, closed, future, closer, loop, puts >>
owner == << pc, handle, cur, faulted >>
vars == << awaiter, ready, pc, handle, cur, commands, closed, future,
           callbacks, closer, loop, faulted, puts >>

-----------------------------------------------------------------------------

Ready == INSTANCE ReadyFuture

Init ==
  /\ Ready!Init
  /\ pc = "connect"
  /\ handle = "none"
  /\ cur = None
  /\ commands = << >>
  /\ closed = FALSE
  /\ future = [ s \in Sends |-> "unsent" ]
  /\ callbacks = << >>
  /\ closer = [ c \in Closers |-> "idle" ]
  /\ loop = "running"
  /\ faulted = FALSE
  /\ puts = << >>

-----------------------------------------------------------------------------
(* What the two threads do to the state they share.  An operator whose     *)
(* comment begins with "Mutant" is a plausible slip in the one after it    *)
(* and is used by no action.                                               *)

\* Mutant: a stack in place of a queue.
PutFirst(cmd) == << cmd >> \o commands

\* commands.put
Put(cmd) == Append(commands, cmd)

\* Mutant: the sentinel is never put.
PutNothing == commands

\* what aclose puts
PutStop == Put(Stop)

\* Mutant: send does not look at _closed.
NeverRefused == FALSE

\* the closed check of send
Refused == closed

\* `cmd is _STOP`
IsStop(cmd) == cmd = Stop

\* Mutant: an exception of client.send is not passed on.
PostAnswersOnly(outcome, s) ==
  IF outcome = "error" THEN callbacks
  ELSE Append(callbacks, << outcome, s >>)

\* cmd.loop.call_soon_threadsafe(_resolve or _reject, cmd.future, ...)
Post(outcome, s) == Append(callbacks, << outcome, s >>)

\* Mutant: a cancelled future is set like any other.
SetAnyFuture(s, outcome) == [ future EXCEPT ![s] = outcome ]

\* _resolve and _reject leave a cancelled future alone
SetFuture(s, outcome) ==
  IF future[s] = "cancelled" THEN future
  ELSE [ future EXCEPT ![s] = outcome ]

\* Mutant: InvalidStateError is swallowed and the owner goes on to its loop.
PublishesAnyway == TRUE

\* ready.set_result does not raise InvalidStateError
Publishable == ready = "pending"

-----------------------------------------------------------------------------
(* The coroutines, on the asyncio loop.                                    *)

\* connect_async resumes: an AsyncClient, or the error
ConnectReturns ==
  /\ loop = "running"
  /\ Ready!Resume
  /\ UNCHANGED << owner, commands, closed, future, callbacks, closer, loop,
                  puts >>

CancelConnect ==
  /\ loop = "running"
  /\ Ready!Cancel
  /\ UNCHANGED << owner, commands, closed, future, callbacks, closer, loop,
                  puts >>

PropagateCancel ==
  /\ loop = "running"
  /\ Ready!Propagate
  /\ UNCHANGED << owner, commands, closed, future, callbacks, closer, loop,
                  puts >>

\* AsyncClient.send up to its await
Send(s) ==
  /\ loop = "running"
  /\ awaiter = "returned"
  /\ future[s] = "unsent"
  /\ \/ /\ ~Refused
        /\ future' = [ future EXCEPT ![s] = "pending" ]
        /\ commands' = Put(s)
        /\ puts' = Append(puts, s)
     \/ /\ Refused
        /\ future' = [ future EXCEPT ![s] = "refused" ]
        /\ UNCHANGED << commands, puts >>
  /\ UNCHANGED << awaiter, ready, owner, closed, callbacks, closer, loop >>

CancelSend(s) ==
  /\ loop = "running"
  /\ future[s] = "pending"
  /\ future' = [ future EXCEPT ![s] = "cancelled" ]
  /\ UNCHANGED << awaiter, ready, owner, commands, closed, callbacks, closer,
                  loop, puts >>

\* AsyncClient.aclose up to its await: the first call stops the owner and has
\* an executor thread join it, every other call returns at once
Aclose(c) ==
  /\ loop = "running"
  /\ awaiter = "returned"
  /\ closer[c] = "idle"
  /\ \/ /\ ~closed
        /\ closed' = TRUE
        /\ commands' = PutStop
        /\ closer' = [ closer EXCEPT ![c] = "joining" ]
     \/ /\ closed
        /\ closer' = [ closer EXCEPT ![c] = "noop" ]
        /\ UNCHANGED << closed, commands >>
  /\ UNCHANGED << awaiter, ready, owner, future, callbacks, loop, puts >>

CancelAclose(c) ==
  /\ loop = "running"
  /\ closer[c] \in { "joining", "joined" }
  /\ closer' = [ closer EXCEPT ![c] = "cancelled" ]
  /\ UNCHANGED << awaiter, ready, owner, commands, closed, future, callbacks,
                  loop, puts >>

\* the callbacks run in the order they were posted: _resolve and _reject
\* settle a send's future unless it was cancelled, "return" wakes an aclose
RunCallback ==
  /\ loop = "running"
  /\ callbacks # << >>
  /\ callbacks' = Tail(callbacks)
  /\ LET what == Head(callbacks)[1]
         who == Head(callbacks)[2]
     IN  \/ /\ what \in { "response", "error" }
            /\ future' = SetFuture(who, what)
            /\ UNCHANGED closer
         \/ /\ what = "return"
            /\ closer' = IF closer[who] = "cancelled"
                         THEN closer
                         ELSE [ closer EXCEPT ![who] = "returned" ]
            /\ UNCHANGED future
  /\ UNCHANGED << awaiter, ready, owner, commands, closed, loop, puts >>

\* asyncio.run cancels what is left and closes the loop; its wait for the
\* executor's threads has a timeout, so an owner may outlive the loop
LoopClose ==
  /\ loop = "running"
  /\ awaiter \notin { "waiting", "cancelling" }
  /\ \A s \in Sends : future[s] # "pending"
  /\ \A c \in Closers : closer[c] \notin { "joining", "joined" }
  /\ loop' = "closed"
  /\ callbacks' = << >>
  /\ UNCHANGED << awaiter, ready, owner, commands, closed, future, closer,
                  puts >>

-----------------------------------------------------------------------------
(* The executor thread in run_in_executor(None, self._thread.join).        *)

Join(c) ==
  /\ closer[c] = "joining"
  /\ pc = "done"
  /\ closer' = [ closer EXCEPT ![c] = "joined" ]
  /\ callbacks' = Append(callbacks, << "return", c >>)
  /\ UNCHANGED << awaiter, ready, owner, commands, closed, future, loop, puts >>

-----------------------------------------------------------------------------
(* The owner thread.                                                       *)

ConnectSucceeds ==
  /\ pc = "connect"
  /\ pc' = "publish"
  /\ handle' = "open"
  /\ UNCHANGED << callers, ready, cur, commands, callbacks, faulted >>

\* set_exception on a cancelled future raises too, which ends the thread alike
ConnectFails ==
  /\ pc = "connect"
  /\ pc' = "done"
  /\ ready' = Ready!Failed
  /\ UNCHANGED << callers, handle, cur, commands, callbacks, faulted >>

\* ready.set_result; InvalidStateError means the awaiter's cancellation got
\* there first, and the client is closed again
Publish ==
  /\ pc = "publish"
  /\ \/ /\ Publishable
        /\ ready' = "result"
        /\ pc' = "get"
        /\ UNCHANGED handle
     \/ /\ ~Publishable
        /\ pc' = "done"
        /\ handle' = "closed"
        /\ UNCHANGED ready
  /\ UNCHANGED << callers, cur, commands, callbacks, faulted >>

\* commands.get returned a command
Take ==
  /\ pc = "get"
  /\ commands # << >>
  /\ commands' = Tail(commands)
  /\ \/ IsStop(Head(commands)) /\ pc' = "drain" /\ UNCHANGED cur
     \/ ~IsStop(Head(commands)) /\ pc' = "sending" /\ cur' = Head(commands)
  /\ UNCHANGED << callers, ready, handle, callbacks, faulted >>

\* commands.get raised queue.Empty after _POLL_CAP_S
IdleTimeout ==
  /\ pc = "get"
  /\ commands = << >>
  /\ pc' = "tick"
  /\ UNCHANGED << callers, ready, handle, cur, commands, callbacks, faulted >>

\* the idle client.tick: it returns, or raises on a fatal connection fault,
\* which leaves the loop for the finally clause
Tick ==
  /\ pc = "tick"
  /\ \/ pc' = "get" /\ UNCHANGED faulted
     \/ pc' = "drain" /\ faulted' = TRUE
  /\ UNCHANGED << callers, ready, handle, cur, commands, callbacks >>

\* client.send returned or raised, and the outcome is posted to the loop; on a
\* closed loop call_soon_threadsafe raises, again in the except clause
Exchange ==
  /\ pc = "sending"
  /\ \/ /\ loop = "running"
        /\ \E outcome \in { "response", "error" } :
             callbacks' = Post(outcome, cur)
        /\ pc' = "get"
     \/ /\ loop = "closed"
        /\ pc' = "drain"
        /\ UNCHANGED callbacks
  /\ cur' = None
  /\ UNCHANGED << callers, ready, handle, commands, faulted >>

\* _drain_pending takes one command; posting to a closed loop raises out of the
\* finally clause, and Client.__del__ closes the handle as the frame goes
Drain ==
  /\ pc = "drain"
  /\ commands # << >>
  /\ commands' = Tail(commands)
  /\ \/ /\ IsStop(Head(commands))
        /\ UNCHANGED << pc, handle, callbacks >>
     \/ /\ ~IsStop(Head(commands))
        /\ loop = "running"
        /\ callbacks' = Post("error", Head(commands))
        /\ UNCHANGED << pc, handle >>
     \/ /\ ~IsStop(Head(commands))
        /\ loop = "closed"
        /\ pc' = "done"
        /\ handle' = "closed"
        /\ UNCHANGED callbacks
  /\ UNCHANGED << callers, ready, cur, faulted >>

\* _drain_pending found the queue empty
Drained ==
  /\ pc = "drain"
  /\ commands = << >>
  /\ pc' = "close"
  /\ UNCHANGED << callers, ready, handle, cur, commands, callbacks, faulted >>

\* Mutant: the finally clause drains and forgets client.close().
EndsOpen ==
  /\ pc = "close"
  /\ pc' = "done"
  /\ UNCHANGED << callers, ready, handle, cur, commands, callbacks, faulted >>

CloseHandle ==
  /\ pc = "close"
  /\ pc' = "done"
  /\ handle' = "closed"
  /\ UNCHANGED << callers, ready, cur, commands, callbacks, faulted >>

-----------------------------------------------------------------------------

LoopStep ==
  \/ ConnectReturns \/ CancelConnect \/ PropagateCancel
  \/ \E s \in Sends : Send(s) \/ CancelSend(s)
  \/ \E c \in Closers : Aclose(c) \/ CancelAclose(c)
  \/ RunCallback \/ LoopClose

OwnerStep ==
  \/ ConnectSucceeds \/ ConnectFails \/ Publish
  \/ Take \/ IdleTimeout \/ Tick \/ Exchange
  \/ Drain \/ Drained \/ CloseHandle

Next == LoopStep \/ OwnerStep \/ \E c \in Closers : Join(c)

Spec == Init /\ [][Next]_vars

\* Every native call the owner makes returns (connect and send carry the
\* transport's own timeouts), the loop keeps running its callbacks, and an
\* executor thread is free to join.  Nothing makes a caller send or close.
Fairness ==
  /\ WF_vars(OwnerStep)
  /\ WF_vars(ConnectReturns)
  /\ WF_vars(PropagateCancel)
  /\ WF_vars(RunCallback)
  /\ \A c \in Closers : WF_vars(Join(c))

FairSpec == Spec /\ Fairness

-----------------------------------------------------------------------------
(* Properties.                                                             *)

Callback == ({ "response", "error" } \X Sends) \cup ({ "return" } \X Closers)

\* The type invariant: in particular the owner never runs the sentinel as a
\* request (runtime.py:405), and only requests and joins are posted.
TypeOK ==
  /\ Ready!TypeOK
  /\ pc \in { "connect", "publish", "get", "tick", "sending", "drain", "close",
              "done" }
  /\ handle \in { "none", "open", "closed" }
  /\ cur \in Sends \cup { None }
  /\ commands \in Seq(Sends \cup { Stop })
  /\ closed \in BOOLEAN
  /\ future \in [ Sends -> { "unsent", "pending", "refused", "response",
                             "error", "cancelled" } ]
  /\ callbacks \in Seq(Callback)
  /\ closer \in [ Closers -> { "idle", "joining", "joined", "returned", "noop",
                               "cancelled" } ]
  /\ loop \in { "running", "closed" }
  /\ faulted \in BOOLEAN
  /\ puts \in Seq(Sends)

Settles(e, s) == e[1] \in { "response", "error" } /\ e[2] = s

\* how many of the queue, the owner's hands and the posted callbacks hold s
InQueue(s) == \E i \in 1..Len(commands) : commands[i] = s

Posted(s) == \E i \in 1..Len(callbacks) : Settles(callbacks[i], s)

OnItsWay(s) == InQueue(s) \/ cur = s \/ Posted(s)

\* A send nobody has answered is in exactly one place on its way to an answer,
\* a send that was answered or never accepted is in none, and a cancelled one
\* in at most one: no request is lost or answered twice, so set_result never
\* meets a future that already has a result (runtime.py:325-341, 399-434).
OnePlace ==
  \A s \in Sends :
    /\ future[s] = "pending" => OnItsWay(s)
    /\ OnItsWay(s) => future[s] \in { "pending", "cancelled" }
    /\ cur = s => ~InQueue(s) /\ ~Posted(s)
    /\ ~(InQueue(s) /\ Posted(s))
    /\ \A i, j \in 1..Len(commands) :
         commands[i] = s /\ commands[j] = s => i = j
    /\ \A i, j \in 1..Len(callbacks) :
         Settles(callbacks[i], s) /\ Settles(callbacks[j], s) => i = j

\* Answers come in the order of the sends: no send is answered while an earlier
\* one still waits ("requests on one connection are served in order",
\* runtime.py:312-314), the ones failed by _drain_pending included.
AnsweredInOrder ==
  \A i, j \in 1..Len(puts) :
    i < j /\ future[puts[j]] \in { "response", "error" }
      => future[puts[i]] # "pending"

\* When the aclose() that stopped the owner returns, the native client is
\* closed and every send made before it has been settled, although the answers
\* and the join travel separately (runtime.py:343-350, 412-415).  The one
\* exception is an owner that ended by itself on an idle fault.
AcloseSettles ==
  \A c \in Closers : closer[c] = "returned" =>
    /\ handle = "closed"
    /\ faulted \/ \A s \in Sends : future[s] # "pending"

\* An owner thread that has ended leaves no native client open, whichever of
\* its exits it took: failed or abandoned connect, sentinel, idle fault, closed
\* loop (runtime.py:387-415).
NoHandleLeft == pc = "done" => handle # "open"

\* Every accepted send is settled in the end, unless the connection faulted
\* while idle (runtime.py:325-341 and the owner's loop).
SendsSettle ==
  \A s \in Sends : future[s] = "pending" ~> (future[s] # "pending" \/ faulted)

\* An aclose() that joins is never left waiting: the sentinel always gets to
\* the owner, or the owner has ended already (runtime.py:343-350).
AcloseReturns ==
  \A c \in Closers : closer[c] = "joining" ~> closer[c] \notin { "joining", "joined" }

\* The service the callers see: "closed" when the aclose() that joined returned.
Phase ==
  IF \E c \in Closers : closer[c] = "returned" THEN "closed"
  ELSE IF closed THEN "closing"
  ELSE IF awaiter = "returned" THEN "open"
  ELSE "opening"

Service == INSTANCE CallService
             WITH Calls <- Sends, phase <- Phase, call <- future, dead <- faulted

\* The two threads together keep the promise of CallService.
ImplementsCallService == Service!Spec

=============================================================================
