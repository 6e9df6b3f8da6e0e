--------------------------- MODULE ManagedServer ---------------------------
(***************************************************************************)
(* The managed server of nwep/runtime.py: _serve, its owner thread, the    *)
(* RunningServer, and the managed dht that borrows the server's socket.    *)
(*                                                                         *)
(* The owner thread builds, drives and closes both native handles.  The    *)
(* asyncio loop reaches it through `commands` (resolve and dht_metrics)    *)
(* and the event `stop` (shutdown), and hears from it through `ready` and  *)
(* the callbacks posted with call_soon_threadsafe.  The owner looks at     *)
(* `stop` once a turn of its loop only; a turn first serves every queued   *)
(* command, and a lookup pumps the network until it is found or times out. *)
(***************************************************************************)

EXTENDS Naturals, Sequences

CONSTANTS
  Lookups,    \* the resolve() calls the program makes
  Scrapes,    \* its dht_metrics() calls
  Shutdowns,  \* its shutdown() calls
  None        \* "no command in hand"

Requests == Lookups \cup Scrapes

ASSUME RequestKinds == Lookups \cap Scrapes = {} /\ None \notin Requests

VARIABLES
  hasDht,     \* ServerBuilder.dht was called (never changes)
  awaiter,    \* the coroutine in `await asyncio.wrap_future(ready)`
  ready,      \* the concurrent future the owner publishes the port with
  pc,         \* where the owner thread is
  server,     \* the native server: "none", "open" or "closed"
  dht,        \* the native dht: "none", "open" or "closed"
  cur,        \* the lookup being pumped
  stop,       \* the threading.Event
  commands,   \* the SimpleQueue
  future,     \* the asyncio future of each request
  callbacks,  \* the loop's queue of callbacks posted from other threads
  closer,     \* each shutdown() call
  loop,       \* "running", or "closed" once asyncio.run has returned
  lateWaits   \* history: socket waits of the owner's loop begun after stop.set()

\* Bound on lateWaits, which only has to tell 0, 1 and more apart.
Many == 2

asyncs == << awaiter, stop, future, closer, loop >>
handles == << server, dht >>
vars == << hasDht, awaiter, ready, pc, server, dht, cur, stop, commands,
           future, callbacks, closer, loop, lateWaits >>

-----------------------------------------------------------------------------

Ready == INSTANCE ReadyFuture

Init ==
  /\ hasDht \in BOOLEAN
  /\ Ready!Init
  /\ pc = "build"
  /\ server = "none"
  /\ dht = "none"
  /\ cur = None
  /\ stop = FALSE
  /\ commands = << >>
  /\ future = [ r \in Requests |-> "unsent" ]
  /\ callbacks = << >>
  /\ closer = [ c \in Shutdowns |-> "idle" ]
  /\ loop = "running"
  /\ lateWaits = 0

-----------------------------------------------------------------------------
(* Parts of the actions.  A "Mutant" is a plausible slip in the operator   *)
(* after it and is used by no action.                                      *)

\* Mutant: the owner does not look at the event.
StopIgnored == FALSE

\* stop.is_set()
Stopping == stop

\* Mutant: InvalidStateError is swallowed and the owner goes on to its loop.
PublishesAnyway == TRUE

\* ready.set_result does not raise InvalidStateError
Publishable == ready = "pending"

\* Mutant: an exception of a command is not passed on.
PostAnswersOnly(outcome, r) ==
  IF outcome = "error" THEN callbacks
  ELSE Append(callbacks, << outcome, r >>)

\* cmd.loop.call_soon_threadsafe(_resolve or _reject, cmd.future, ...)
Post(outcome, r) == Append(callbacks, << outcome, r >>)

\* Mutant: shutdown does not wait for the owner thread.
JoinedAtOnce == TRUE

\* thread.join() returns
Joinable == pc = "done"

\* isinstance(cmd, _Resolve)
IsResolve(cmd) == cmd \in Lookups

Bump(counter) ==
  IF stop /\ counter < Many THEN counter + 1 ELSE counter

-----------------------------------------------------------------------------
(* The coroutines, on the asyncio loop.                                    *)

ServeReturns ==
  /\ loop = "running"
  /\ Ready!Resume
  /\ UNCHANGED << hasDht, pc, handles, cur, stop, commands, future, callbacks,
                  closer, loop, lateWaits >>

CancelServe ==
  /\ loop = "running"
  /\ Ready!Cancel
  /\ UNCHANGED << hasDht, pc, handles, cur, stop, commands, future, callbacks,
                  closer, loop, lateWaits >>

PropagateCancel ==
  /\ loop = "running"
  /\ Ready!Propagate
  /\ UNCHANGED << hasDht, pc, handles, cur, stop, commands, future, callbacks,
                  closer, loop, lateWaits >>

\* RunningServer.resolve and dht_metrics up to their await: ConfigMissing
\* without a dht, and no check whether the server still runs
Request(r) ==
  /\ loop = "running"
  /\ awaiter = "returned"
  /\ future[r] = "unsent"
  /\ \/ /\ hasDht
        /\ future' = [ future EXCEPT ![r] = "pending" ]
        /\ commands' = Append(commands, r)
     \/ /\ ~hasDht
        /\ future' = [ future EXCEPT ![r] = "refused" ]
        /\ UNCHANGED commands
  /\ UNCHANGED << hasDht, awaiter, ready, pc, handles, cur, stop, callbacks,
                  closer, loop, lateWaits >>

CancelRequest(r) ==
  /\ loop = "running"
  /\ future[r] = "pending"
  /\ future' = [ future EXCEPT ![r] = "cancelled" ]
  /\ UNCHANGED << hasDht, awaiter, ready, pc, handles, cur, stop, commands,
                  callbacks, closer, loop, lateWaits >>

\* RunningServer.shutdown up to its await; any number of calls may join
Shutdown(c) ==
  /\ loop = "running"
  /\ awaiter = "returned"
  /\ closer[c] = "idle"
  /\ stop' = TRUE
  /\ closer' = [ closer EXCEPT ![c] = "joining" ]
  /\ UNCHANGED << hasDht, awaiter, ready, pc, handles, cur, commands, future,
                  callbacks, loop, lateWaits >>

CancelShutdown(c) ==
  /\ loop = "running"
  /\ closer[c] \in { "joining", "joined" }
  /\ closer' = [ closer EXCEPT ![c] = "cancelled" ]
  /\ UNCHANGED << hasDht, awaiter, ready, pc, handles, cur, stop, commands,
                  future, callbacks, loop, lateWaits >>

\* the callbacks run in the order they were posted
RunCallback ==
  /\ loop = "running"
  /\ callbacks # << >>
  /\ callbacks' = Tail(callbacks)
  /\ LET what == Head(callbacks)[1]
         who == Head(callbacks)[2]
     IN  \/ /\ what \in { "response", "error" }
            /\ future' = IF future[who] = "cancelled" THEN future
                         ELSE [ future EXCEPT ![who] = what ]
            /\ UNCHANGED closer
         \/ /\ what = "return"
            /\ closer' = IF closer[who] = "cancelled" THEN closer
                         ELSE [ closer EXCEPT ![who] = "returned" ]
            /\ UNCHANGED future
  /\ UNCHANGED << hasDht, awaiter, ready, pc, handles, cur, stop, commands,
                  loop, lateWaits >>

\* asyncio.run cancels what is left and closes the loop; its wait for the
\* executor's threads has a timeout, so an owner may outlive the loop
LoopClose ==
  /\ loop = "running"
  /\ awaiter \notin { "waiting", "cancelling" }
  /\ \A r \in Requests : future[r] # "pending"
  /\ \A c \in Shutdowns : closer[c] \notin { "joining", "joined" }
  /\ loop' = "closed"
  /\ callbacks' = << >>
  /\ UNCHANGED << hasDht, awaiter, ready, pc, handles, cur, stop, commands,
                  future, closer, lateWaits >>

\* the executor thread in run_in_executor(None, self._thread.join)
Join(c) ==
  /\ closer[c] = "joining"
  /\ Joinable
  /\ closer' = [ closer EXCEPT ![c] = "joined" ]
  /\ callbacks' = Append(callbacks, << "return", c >>)
  /\ UNCHANGED << hasDht, awaiter, ready, pc, handles, cur, stop, commands,
                  future, loop, lateWaits >>

-----------------------------------------------------------------------------
(* The owner thread: coming up.                                            *)

Build ==
  /\ pc = "build"
  /\ \/ /\ server' = "open"
        /\ pc' = IF hasDht THEN "attach" ELSE "publish"
        /\ UNCHANGED ready
     \/ /\ pc' = "done"
        /\ ready' = Ready!Failed
        /\ UNCHANGED server
  /\ UNCHANGED << hasDht, asyncs, dht, cur, commands, callbacks, lateWaits >>

\* Dht.attach, which raises before or after it looked at the transport
Attach ==
  /\ pc = "attach"
  /\ \/ pc' = "bootstrap" /\ dht' = "open"
     \/ pc' = "abort" /\ UNCHANGED dht
  /\ UNCHANGED << hasDht, asyncs, ready, server, cur, commands, callbacks, lateWaits >>

Bootstrap ==
  /\ pc = "bootstrap"
  /\ pc' \in { "publish", "abort" }
  /\ UNCHANGED << hasDht, asyncs, ready, handles, cur, commands, callbacks, lateWaits >>

\* Mutant: the except clause reports and forgets server.close().
AbortOpen ==
  /\ pc = "abort"
  /\ ready' = Ready!Failed
  /\ pc' = "done"
  /\ UNCHANGED << hasDht, asyncs, handles, cur, commands, callbacks, lateWaits >>

\* the except clause of attach and bootstrap: it closes the server and never
\* the dht
Abort ==
  /\ pc = "abort"
  /\ server' = "closed"
  /\ ready' = Ready!Failed
  /\ pc' = "done"
  /\ UNCHANGED << hasDht, asyncs, dht, cur, commands, callbacks, lateWaits >>

\* ready.set_result; on InvalidStateError it closes the server and never the dht
Publish ==
  /\ pc = "publish"
  /\ \/ /\ Publishable
        /\ ready' = "result"
        /\ pc' = "check"
        /\ UNCHANGED server
     \/ /\ ~Publishable
        /\ pc' = "done"
        /\ server' = "closed"
        /\ UNCHANGED ready
  /\ UNCHANGED << hasDht, asyncs, dht, cur, commands, callbacks, lateWaits >>

\* Dht.__del__: a dht nobody closed is closed when its last reference goes,
\* any time after the owner thread ended
CollectDht ==
  /\ pc = "done"
  /\ dht = "open"
  /\ dht' = "closed"
  /\ UNCHANGED << hasDht, asyncs, ready, pc, server, cur, commands, callbacks,
                  lateWaits >>

-----------------------------------------------------------------------------
(* The owner thread: its loop.                                             *)

\* while not stop.is_set()
CheckStop ==
  /\ pc = "check"
  /\ pc' = IF Stopping THEN "teardown" ELSE "service"
  /\ UNCHANGED << hasDht, asyncs, ready, handles, cur, commands, callbacks, lateWaits >>

\* call_soon_threadsafe raises on a closed loop, in the except clause as well,
\* and leaves the owner's loop
Answer(outcome, r) ==
  \/ loop = "running" /\ callbacks' = Post(outcome, r) /\ pc' = "service"
  \/ loop = "closed" /\ UNCHANGED callbacks /\ pc' = "teardown"

\* _service_server_commands takes one command.  A scrape is answered, a lookup
\* too when the local store has the record or the native call fails; else it
\* starts pumping.
TakeCommand ==
  /\ pc = "service"
  /\ commands # << >>
  /\ commands' = Tail(commands)
  /\ \/ /\ \E outcome \in { "response", "error" } :
             Answer(outcome, Head(commands))
        /\ UNCHANGED cur
     \/ /\ IsResolve(Head(commands))
        /\ cur' = Head(commands)
        /\ pc' = "pump"
        /\ UNCHANGED callbacks
  /\ UNCHANGED << hasDht, asyncs, ready, handles, lateWaits >>

\* the end of _resolve_blocking's loop, which never looks at `stop`: the record
\* arrived, the deadline passed, or a tick raised
PumpEnds ==
  /\ pc = "pump"
  /\ \E outcome \in { "response", "error" } : Answer(outcome, cur)
  /\ cur' = None
  /\ UNCHANGED << hasDht, asyncs, ready, handles, commands, lateWaits >>

Serviced ==
  /\ pc = "service"
  /\ commands = << >>
  /\ pc' = "tick"
  /\ UNCHANGED << hasDht, asyncs, ready, handles, cur, commands, callbacks, lateWaits >>

\* server.tick, dht.tick and dht.announce: any of them may raise
Tick ==
  /\ pc = "tick"
  /\ pc' \in { "wait", "teardown" }
  /\ UNCHANGED << hasDht, asyncs, ready, handles, cur, commands, callbacks, lateWaits >>

\* _wait_readable, at most _POLL_CAP_S long
Wait ==
  /\ pc = "wait"
  /\ pc' = "check"
  /\ lateWaits' = Bump(lateWaits)
  /\ UNCHANGED << hasDht, asyncs, ready, handles, cur, commands, callbacks >>

\* Mutant: the finally clause closes the two handles in the other order.
TeardownServerFirst ==
  \/ /\ pc = "teardown"
     /\ pc' = "last"
     /\ server' = "closed"
     /\ UNCHANGED << hasDht, asyncs, ready, dht, cur, commands, callbacks, lateWaits >>
  \/ /\ pc = "last"
     /\ pc' = "done"
     /\ dht' = IF hasDht THEN "closed" ELSE dht
     /\ UNCHANGED << hasDht, asyncs, ready, server, cur, commands, callbacks, lateWaits >>

\* the finally clause: dht.close(), then server.close()
Teardown ==
  \/ /\ pc = "teardown"
     /\ pc' = "last"
     /\ dht' = IF hasDht THEN "closed" ELSE dht
     /\ UNCHANGED << hasDht, asyncs, ready, server, cur, commands, callbacks, lateWaits >>
  \/ /\ pc = "last"
     /\ pc' = "done"
     /\ server' = "closed"
     /\ UNCHANGED << hasDht, asyncs, ready, dht, cur, commands, callbacks, lateWaits >>

-----------------------------------------------------------------------------

LoopStep ==
  \/ ServeReturns \/ CancelServe \/ PropagateCancel
  \/ \E r \in Requests : Request(r) \/ CancelRequest(r)
  \/ \E c \in Shutdowns : Shutdown(c) \/ CancelShutdown(c)
  \/ RunCallback \/ LoopClose

OwnerStep ==
  \/ Build \/ Attach \/ Bootstrap \/ Abort \/ Publish
  \/ CheckStop \/ TakeCommand \/ PumpEnds \/ Serviced
  \/ Tick \/ Wait \/ Teardown

Next == LoopStep \/ OwnerStep \/ CollectDht \/ \E c \in Shutdowns : Join(c)

Spec == Init /\ [][Next]_vars

\* Every native call returns, a lookup meets its deadline, the loop keeps
\* running its callbacks and an executor thread is free to join.  Nothing makes
\* a caller resolve or shut down, and a dht may be collected at any time.
Fairness ==
  /\ WF_vars(OwnerStep)
  /\ WF_vars(ServeReturns)
  /\ WF_vars(PropagateCancel)
  /\ WF_vars(RunCallback)
  /\ \A c \in Shutdowns : WF_vars(Join(c))

FairSpec == Spec /\ Fairness

-----------------------------------------------------------------------------
(* Properties.                                                             *)

Callback ==
  ({ "response", "error" } \X Requests) \cup ({ "return" } \X Shutdowns)

\* The type invariant: in particular only a resolve is ever pumped
\* (runtime.py:275, 281).
TypeOK ==
  /\ hasDht \in BOOLEAN
  /\ Ready!TypeOK
  /\ pc \in { "build", "attach", "bootstrap", "abort", "publish", "check",
              "service", "pump", "tick", "wait", "teardown", "last", "done" }
  /\ server \in { "none", "open", "closed" }
  /\ dht \in { "none", "open", "closed" }
  /\ cur \in Lookups \cup { None }
  /\ stop \in BOOLEAN
  /\ commands \in Seq(Requests)
  /\ future \in [ Requests -> { "unsent", "pending", "refused", "response",
                                "error", "cancelled" } ]
  /\ callbacks \in Seq(Callback)
  /\ closer \in [ Shutdowns -> { "idle", "joining", "joined", "returned",
                                 "cancelled" } ]
  /\ loop \in { "running", "closed" }
  /\ lateWaits \in 0..Many

\* "the dht borrows the server, so the server must outlive it" (dht.py:166-167,
\* runtime.py:255-256): a dht that is still open has an open server under it.
DhtBorrows == dht = "open" => server = "open"

\* The same, once the server has been published: on every way out of the
\* owner's loop (shutdown, a fault of a tick, a closed loop) the dht is closed
\* before the server (runtime.py:254-259).
PublishedDhtBorrows == ready = "result" => DhtBorrows

\* An owner thread that has ended leaves no native server open, whether the
\* build, the attach, the bootstrap or the hand-over failed or the server ran
\* (runtime.py:217-259).
NoServerLeft == pc = "done" => server # "open"

\* "the socket is closed by the time this returns" (runtime.py:188-189): for
\* every shutdown() call, the first or a later one, and the dht is gone too.
ShutdownCloses ==
  \A c \in Shutdowns :
    closer[c] = "returned" => server = "closed" /\ dht # "open"

\* "a shutdown request is noticed within one interval even when no transport
\* timer is pending" (runtime.py:35-37): after stop.set() the owner's loop
\* begins at most one more socket wait, however stop.set() falls between its
\* check and its wait.  (A lookup in the same turn waits on its own deadline.)
LoopNoticesStop == lateWaits \leq 1

\* "returns the resolved Address. raises ... when the lookup times out"
\* (runtime.py:158-160): while the server runs and nobody shuts it down, every
\* accepted request is answered.
RunningServerAnswers ==
  \A r \in Requests :
    future[r] = "pending" ~> (future[r] # "pending" \/ stop \/ pc = "done")

\* Every shutdown() returns, whatever the owner was doing, a lookup included
\* (runtime.py:185-193).
ShutdownReturns ==
  \A c \in Shutdowns :
    closer[c] = "joining" ~> closer[c] \notin { "joining", "joined" }

\* A serve() whose cancellation reached `ready` in time leaves no server
\* running (runtime.py:235-239).
CancelledServeEnds == ready = "cancelled" ~> (pc = "done" /\ server # "open")

=============================================================================
