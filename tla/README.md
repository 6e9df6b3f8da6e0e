# nwep-py: a TLA+ model of the python binding

`nwep` (`src/nwep/`) is the python surface of the NWEP/web-1 library. A native
library (not part of the repository) does the cryptography and the transport;
the package wraps its handles and puts an asyncio runtime on top. The handles
are single-threaded and driven by their caller, so the runtime pins each one to
an *owner thread* and talks to it by message passing. That bridge is where the
package has concurrency, cancellation, shutdown and partial failure of its own.
Next to it stand the objects a program drives itself (clients, servers, their
requests and messages), the dht a managed server announces itself in, and the
trust layer, whose state has to survive crashes.

Contents: 1 inventory, 2 modules and how they correspond to the code, 3 runs and
bounds, 4 fairness, 5 proofs, 6 what the checks found, 7 limits and what is not
modelled, 8 plan.

## 1. Inventory

| Component | State it keeps | Operations | Hard behaviours | What makes it correct |
|---|---|---|---|---|
| Managed client, `runtime.py:287-434` | command queue, `_closed`, the owner thread and its native client, an asyncio future per send, the loop's callbacks, the `ready` future | `connect_async`, `send`, `aclose`; owner: connect, take, idle tick, exchange, drain, close | cancellation at any await, a send racing `aclose`, a fault while idle, the loop closing under the owner | no send lost or answered twice, answers in order, `aclose` leaves nothing pending and the handle closed |
| Managed server, `runtime.py:60-285` | stop event, command queue, native server and dht, futures, callbacks, `ready` | `serve`, `resolve`, `dht_metrics`, `shutdown`; owner: build, attach, bootstrap, publish, serve commands, tick, wait, teardown | failure between attach and publish, a lookup that blocks the owner, commands queued when the owner ends, several shutdowns | the dht never outlives the server it borrows, `shutdown` returns only when the socket is closed, requests are answered once |
| Managed stream, `runtime.py:437-579` | stop event, item queue, native client and stream, executor jobs, `ready` | `stream`, `recv`, `aclose`; owner: connect, open, read, verify, teardown | a cancelled `recv` keeps its pool thread, `recv` and `aclose` share the pool, stop without an end marker | `None` means an authentic, whole body; chunks in order; `recv` and `aclose` come back |
| Request dispatch, `server.py:138-560, 803-830` | a responder's `_used`, a reply's `deferred`, the response buffer | terminals, `header`, `capture`, `defer`, `stream`, the trampoline; `LogServer.dispatch`, `AnchorNode.dispatch` | a claim before a failing native call, exceptions into C, a reply from another request | answered exactly once, a failure is told as one, no exception unwinds into C |
| Driven server, `server.py:560-1031` | native handle, `_closed`, the handler callback | `tick`, `respond`, `relay`, `stream_send`, `stream_end`, `notify`, `drain`, `close` | late answers to parked requests, use after close | a parked request is answered at most once, drain completes |
| Driven client, `client.py:62-700` | native handle, `_closed`, cache reference, callback; `Connecting._done`; `Response._closed` | `send`, `submit`, `poll_request`, `cancel_request`, `on_request_done`, `poll_notify`, `poll`, `close` | hand-over of a handle from `Connecting` to `Client`, a hook replaced while it runs, who frees a message, a lazy reader of headers | a handle and a message have one owner and are freed once, no dropped hook is called, whoever asked hears of it |
| Stream, `client.py:700-808` | client reference, id, `_closed` | `response`, `recv`, `verify`, `close` | a stream used or closed after its client closed | a finalizer never closes its connection under it, and its own `close` makes no call on a closed one (`response`, `recv` and `verify` do: section 6) |
| Dht, `dht.py`, and the announce timer, `runtime.py:240-251` | native handle, server reference, `_closed`; the time and sequence of the last announcement, the records other nodes store | `attach`, `bootstrap`, `announce`, `start_lookup`, `lookup_result`, `tick`, `close`; the builder's `announce_as`, `dht_initial_seq` | it borrows the server's socket; lookups hold the thread that announces; a node that moves; clocks | closed before its server; a running node's record stays live; an old address is not found for longer than a record lives |
| Cache, `cache.py` | native cache, `_closed` | put, get, clear, close | a cache closed while attached to a client | borrowers do not outlive it |
| Log and LogServer, `log.py` | native tree in memory, append hook, `_closed` | `append`, `root`, `dispatch`, `on_append` | the hook raises and is swallowed, a crash between append, hook and answer | an acknowledged entry survives, at its index |
| Anchor and checkpoints, `trust/anchor.py`, `trust/checkpoint.py` | a replica, the collected root per epoch, partial signatures | `collect_log_root`, `dispatch`, `produce_partial_sig`, `request_partial_sig`, `finish_checkpoint` | a log server that lost entries and gives an epoch's root twice, anchors that restart | any two checkpoints are of one history |
| Trust store, `trust/store.py` | native store: anchors, checkpoint, largest log size, equivocation history | `load_genesis_anchors`, `update_checkpoint`, `observe_log_size`, `save`, `load` | a restart between a save and what was observed since; state that a blob leaves out | what was saved binds, and the log never falls behind what is trusted |
| Native library binding, `_sys.py` | none: what is installed where | the search at import | four sources, two names, files that do not load | the directory the user named comes first, a library that is there is found |
| Messages, `message.py` | none; the generator behind `headers` | `header`, `headers`, `body` | a generator that outlives its message | values do not depend on the message |
| Identity, BLS, Shamir, errors, wire, addresses, uris | a key pair and `_closed`; else none | conversions and checks around native calls | code ranges, sizes | total and consistent |

Interactions. The asyncio loop calls into a managed object, which puts a command
on a `SimpleQueue` or sets an `Event`; the owner thread picks it up between two
native calls and answers with `loop.call_soon_threadsafe`, so answers of all
threads meet in the loop's FIFO of callbacks. `aclose` and `shutdown` have a
thread of the loop's default executor join the owner, and the end of that join
is one more callback. A stream's `recv` blocks an executor thread instead of
sending a command. A dht borrows its server's socket; a stream borrows its
client; a log server borrows its log. A native client calls the program's hook, a
native server its handler, and a log server its append hook, each from inside the
native call that drives it. Log server, anchors and nodes exchange roots, partial
signatures and checkpoints over requests like any other.

`PROJECT.json` lists, at their lines, the hazards this leads to, and for each one
the properties that would catch it going wrong.

## 2. Modules

| Module | What it is |
|---|---|
| `ReadyFuture` | the handshake every managed terminal begins with: a coroutine in `await asyncio.wrap_future(ready)` and the owner that settles `ready`. Instanced by the three managed modules |
| `ManagedClient` | `_connect_async`, its owner thread, `AsyncClient`, `_drain_pending` |
| `CallService` | the abstract specification: what a caller of an asynchronous client may rely on, with no queue and no thread. `ManagedClient` implements it under the mapping `Service` (phase from `_closed` and the joining `aclose`, calls from the futures, "dead" from the idle fault) |
| `ManagedClientProofs` | the theorems about `ManagedClient`, and their proofs |
| `ManagedServer` | `_serve`, its owner thread, `RunningServer`, the command service and the lifetimes of server and dht |
| `ManagedServerProofs` | the theorems about `ManagedServer`, and their proofs |
| `Handles` | the wrappers around native handles without the runtime: who owns a handle, who borrows it, and when `close`, a finalizer or the garbage collector frees it |
| `HandlesProofs` | the theorems about `Handles`, and their proofs |
| `ManagedStream` | `_stream`, its owner thread, `AsyncStream`, and the executor both its coroutines block in |
| `BodyService` | the abstract specification of what a program that reads a stream may rely on: a body in order, closed once, each `recv` told the first item outstanding. `ManagedStream` implements it under the mapping `Service` |
| `ManagedStreamProofs` | the theorems about `ManagedStream`, and their proofs |
| `Dispatch` | a server's requests and their handlers: `Responder`, `Reply`, the trampoline, `header`, deferred and streamed responses, the sub-routers, the answers from the loop |
| `DispatchProofs` | the theorems about `Dispatch`, and their proofs |
| `DrivenClient` | a `Client` that one thread drives: requests in flight, polls, the completion hook, and the messages that `Response` objects own |
| `DrivenClientProofs` | the theorems about `DrivenClient`, and their proofs |
| `Discovery` | a managed server that announces its address and moves, and a node that resolves it: the announce timer, lookups, sequences and the life of records, in seconds |
| `DiscoveryProofs` | the theorems about `Discovery`, and their proofs |
| `TrustLog` | a `Log` and its `LogServer`: accepted writes, the append hook, a crash and the replay |
| `Anchors` | extends `TrustLog` with the anchors: replicas, collected roots, partial signatures, and which checkpoints verify |
| `TrustNetwork` | extends `Anchors` with a node's `TrustStore` through save, crash and load: the composition that is checked and proved about |
| `TrustNetworkProofs` | the theorems about `TrustNetwork`, and their proofs |
| `LibrarySearch` | the search for the native library when the package is imported |
| `MC...` | each of them for TLC, with the model values and the symmetry its runs use |

Grain. A coroutine runs without interruption between two awaits, so one action
is one such stretch (`Send`, `Aclose`, `Request`, `Shutdown`, `Recv`); a
cancellation may fall at any await. An owner thread is interrupted anywhere, so
one of its actions is one statement another thread can observe: `Take`,
`Exchange` and `Drain` each contain one queue operation or one post. Native
calls are their outcomes (returned, raised). A command holds its caller's
future, so a command *is* the caller's name.

Three details of asyncio matter and are modelled as they are:

* Cancelling a coroutine in `await wrap_future(ready)` cancels the wrapper at
  once and `ready` only in a later turn of the loop (`Cancel`, `Propagate`), so
  an owner can publish to a coroutine that has gone.
* `run_in_executor` queues a job; cancelling its coroutine drops the job while it
  is queued, and does nothing once a thread runs it (`PropagateCall`). A dropped job
  keeps its place in the queue until a thread passes over it (`StartJob`). A thread
  posts its result some time after it took an item, so the results of two threads
  arrive in any order (`Tell`).
* `call_soon_threadsafe` raises on a closed loop. In the owner's `try` it raises
  again in the `except`, and in `_drain_pending` it skips `client.close()`
  (`Exchange`, `Drain`, `Answer`); the finalizer closes the handle then.

State and code. In `ManagedClient`: `commands` is the `SimpleQueue`, `closed` is
`AsyncClient._closed`, `pc` is the place in `owner()` (`get` is `commands.get`,
`sending` is `client.send`, `drain` and `close` are the `finally` clause),
`callbacks` holds what `call_soon_threadsafe` posted. `puts` is a history
variable for the order of the sends, `faulted` records that the idle tick
raised. In `ManagedServer` the `finally` clause is two steps, `teardown`
(`dht.close`) and `last` (`server.close`), since their order is the point;
`hasDht` is chosen once; `lateWaits` counts. In `ManagedStream`, `put` says how
far the owner has read, `taken` is the result of each `recv` job and `received`
records what the callers got, in order. A definition whose comment begins with "Mutant" is used
by no action; it shows what slip a property would catch.

In `Handles` the actors are a program and the interpreter. The program makes wrappers
(`Build`, `Attach`, `Connect`, `StartConnect`, `OpenStream`, `NewCache`, `Poll`), ties
them together (`SetCache`, `SetHook`), calls through a stream (`CallStream`:
`response`, `recv`, `verify`, which look at the stream's own `_closed` only), closes
them (`Close`, `CloseStream`) and drops its own references (`Drop`). `keeps` is what
the slots `_server`, `_log`, `_cache` and `_client` refer to, `captures` what the
closure behind `_handler_cb`, `_done_cb` or `_append_cb` refers to, `lent` what the
native handle itself uses. The interpreter finalizes a wrapper with its last
reference, before the program goes on, or in a collection: `Collect` picks what
nothing outside it refers to, and `Finalize` takes the members in any order, since the
interpreter promises none. `stray` notes a native call on a handle that is not live; a
call through a stream whose client the program closed itself is the one it leaves out,
since the code makes it. A server over a dht and a log over a log server have the same
shape, so both pairs are a lender and its borrower. The program keeps to the
documented lifetimes where it closes something itself (`Borrowed`; nothing asks it to
close its streams before their client), and may drop its wrappers in any order.

In `Dispatch` the handler is any program (`Respondering`, `HandlerEnds`): it may
use its responder twice, call `header` or a sub-router at any time, catch what a call
raises and go on, keep the responder after it returned, or return a Reply it got
elsewhere. A call that raises and
changes nothing, such as a terminal on a used responder or a `respond` for a
request that is not parked, is no action. `header`, and with it the first half of
`moved` and `rate_limited`, and the sub-routers write the buffer without a look at
`_used`, within the handler (`over`) and after it. `buf` says who wrote the response
buffer last, `replies` the `Reply` objects with, as history, what they were made
for; the code's `deferred` is `gave = "defer"`. `Settle` is the native server's
side: a success without a whole frame in the buffer has an unknown result, and a
failure after the head of a stream cuts the stream. `Interrupted` is what
`except Exception` does not catch: the callback then returns 0, the code of an
answer.

In `DrivenClient` one thread runs the program, its hooks and the native calls, so
an action is a call. `req` says where a request is, from `submit` until its id is
retired; `awaiting` is the one `send` blocks for, while others may complete; a
hook runs between two steps of the native call that pumps (`inHook`), and may do
all but pump. `registered` is what C has, `kept` what Python keeps alive in
`_done_cb`: they differ if one is changed without the other. `msg`, `closed` and
`refs` follow a message from the native client to a `Response` and its free.
`Headers` makes the generator of `message.headers`, `NextHeader` runs it on.

`TrustLog` splits `dispatch()` where a crash may fall: `Accept` (the native
append), `HookPersists` or `HookFails` (the trampoline, which swallows what the
hook raises), `Created` (the answer). `Restart` is the program's part: a new `Log`,
the persisted entries in the order they were written, a new `LogServer`. In
`Anchors` a program reads the log entry by entry (`Sync`), hands the server's root
and its own to `collect_log_root` (`CrossCheck`), and signs what it collected; a
partial, once made, may reach any coordinator at any time, so `Certified` holds
every checkpoint that can be finished. `TrustNetwork` has the `phase` of a store
from its creation over `load` to `load_genesis_anchors`, what `save` captures in
`state`, and the blob on disk.

`Discovery` counts seconds. `OwnerSecond` is a second of the owner's loop: a second of
the lookup it pumps, and the timer only when no command waits, since the loop comes to
it after the queue. `Wall` is `_now_secs` of a host whose clock may be set to any
other time (`SetClock`); `skew` is how far it is ahead of the resolver's, and `ahead`
the most it ever was. `Start` takes whatever initial sequence the program passes;
`regressed` notes that it was less than what was announced before. What the native dht
promises is small: it keeps the record with the highest sequence and drops one whose
lifetime is over.

`LibrarySearch` has a machine as its initial state (`env`, `good`, `broken`) and
one action per source the search asks; directories are named by what they are for.

## 3. Runs and bounds

| Run | Shows |
|---|---|
| `Client` | `OnePlace`, `AnsweredInOrder`, `AcloseSettles`, `NoHandleLeft`, refinement of `CallService`; `SendsSettle`, `AcloseReturns` |
| `Server` | `PublishedDhtBorrows`, `NoServerLeft`, `ShutdownCloses`, `LoopNoticesStop`; `RunningServerAnswers`, `ShutdownReturns`, `CancelledServeEnds` |
| `Stream` | `UncancelledBodyIsWhole`, `NoClientLeft`, refinement of `BodyService`; `RecvAnsweredWhileStreaming`, `AcloseReturns` |
| `Handles` | `NoStrayCall`, `BorrowsHold`, `NoHandleLost` |
| `Dispatch` | `ReplyDecides`, `FailureIsSeen`, `KeptTerminalRaises`; `EveryoneAnswered` |
| `Trust` | `AckedSurvives`, `CheckpointsAgree`, `NothingTrustedIsLost`, `NeverContradictsItself` |
| `Driven` | `MessagesFreedOnce`, `HookCallsAreLive`; `EveryRequestHeard` |
| `Library` | `OverrideIsFirst`, `FindsWhatIsThere` |
| `Discovery` | `RecordStaysLive`, `StaleForALifetime`, `NeverBack` |
| `ServerDhtLeft`, `StreamLostChunk`, `DrivenIterator` | one statement of a docstring or a comment each, which the code does not keep: section 6 |

Every behaviour of a program with the given number of calls is explored: calls
are made at any time or not at all, cancelled at any await or not. The type
invariants of `ManagedClient`, `ManagedServer`, `ManagedStream`, `Handles`, `Dispatch`,
`DrivenClient` and `TrustNetwork` are proved, and so are in no run.

* `Client`: three sends, so that one can be in the owner's hands with one before
  and one behind it, and two closers, the one that joins and a later one. The
  proofs remove this bound for safety.
* `Server`: two resolves and a scrape, so that a command waits behind a lookup,
  and two shutdowns. With and without a dht are both initial states. `Many` caps
  the history counter `lateWaits` at 2; `LoopNoticesStop` is about 0, 1 and more.
* `Stream`: a body of two chunks, the smallest that can be reordered, and three
  `recv` calls, which is what it takes to receive it and its end. The calls are
  numbered because a program awaits one `recv` before the next. `Workers = 4`
  gives every call a thread, as the real default executor does (`min(32, cpus + 4)`
  threads).
* `Handles`: one wrapper of each kind, which is enough for every edge between two
  kinds: the client may have come from `connect` or from a `Connecting`, and the
  hooks may close a cycle through a borrower, through the client itself or
  through its cache. The proofs remove the bound.
* `Dispatch`: two requests, so that a Reply of one can be returned for the other,
  and `MaxParked = 1`, so that a second deferred request is shed. Two bodies tell
  a handler's answer from its fallback. The proofs remove the bounds.
* `Trust`: three anchors with a threshold of two, the smallest where two quorums
  differ; two entries, so that a log may come back with another one in a place; a
  log of one entry and one crash of the log server, which is one replay after one
  loss; one epoch, which may close again after the crash with another root. A node
  may restart any number of times. The proofs remove all of these bounds.
* `Driven`: two requests, so that one completes inside the `send` or the hook of
  the other; a third message that is not an answer; two hooks, so that one can be
  replaced by another or by none.
* `Library`: no or up to two libraries at any two places, either of which may fail
  to load: every shadowing is a matter of two. All three systems, with and without
  the override and `%LOCALAPPDATA%`, either bundle preferred, and a pkg-config that
  knows of nothing, of the installer's directory, or of a prefix of its own.
* `Discovery`: the periods 60 s, 5 s and the lifetime of a record become `Interval`
  2, `Timeout` 2 and `Lifetime` 4, which keeps `Lifetime >= Interval + MaxBurst *
  Timeout` at its edge: one lookup (`MaxBurst` 1) may delay an announcement for as
  long as it can. `MaxLives` 2 is one move, `MaxSkew` 1 and `MaxSets` 1 a clock set
  ahead or back by one second once, `Seqs` {0, 3} the default and a sequence that is
  higher than, equal to or lower than what was announced before, depending on when
  the node moves, and `MaxTime` 9 lets a record expire after the move. The proofs remove
  these bounds; a clock that is set several times is in the proofs only.

`CHECK_DEADLOCK FALSE` is set because these systems stop: when every call has
returned and the owner has ended, when the search is over, when the seconds are
up, nothing is left to do.

## 4. Fairness

Safety is checked for `Spec`, without fairness, or for `FairSpec` where the run has
liveness too, and holds in both. `FairSpec` assumes:

* the owner thread runs (`WF` on `OwnerStep`): it is a thread of its own, its
  blocking calls carry timeouts (`_POLL_CAP_S`, the transport's handshake and
  idle timeouts, a lookup's deadline), and its turns are finite;
* the loop runs its callbacks and resumes its coroutines, and propagates
  cancellations (`WF` on each, as the loop is a FIFO);
* a job of the executor starts when a thread is free, and a blocked thread wakes
  when it can;
* in `ManagedStream`, a peer that goes on sending comes to the end of the body or
  to a fault in the end (`SF` on `ReadingEnds`): a body is finite, and the model
  lets a read return nothing any number of times;
* in `Dispatch`, handlers return, and the program answers what it deferred and ends
  the streams it began: what `defer` and `stream` ask of it (`server.py:490-492,
  507-508`). The native server needs none, its steps come from `tick`;
* in `DrivenClient`, the program drives the client and polls the ids it holds, which
  is what `submit` asks of it, hooks return, and an exchange is answered or fails,
  as the transport's timeouts see to.

Nothing makes a caller send, close, receive or cancel. No fairness is given to
`CollectDht`, a finalizer. `Handles`, `TrustNetwork`, `Discovery` and
`LibrarySearch` have safety only: what must happen in `Discovery` within a time is
stated as safety over `now`.

## 5. Proofs

`ManagedClientProofs` is about `ManagedClient` for any sets of sends and closers.
Assumptions: `StopIsNoSend` and `NoneIsNoSend`, the sentinels are not sends
(`_STOP` is a fresh `object()`).

| Theorem | Establishes |
|---|---|
| `TypeCorrect` | `Spec => []TypeOK` |
| `SendsInOnePlace` | `Spec => []OnePlace` |
| `AcloseSettlesAll` | `Spec => []AcloseSettles` |
| `NoHandleIsLeft` | `Spec => []NoHandleLeft` |
| `AnswersKeepOrder` | `Spec => []AnsweredInOrder` |
| `CallersAreNotStranded` | `Spec => []NobodyStranded` |
| `Refinement` | `Spec => ImplementsCallService` |
| `OwnerEndsAfterClose` | `Spec => WindsDown` |
| `Invariance` | the inductive invariant `IInv`, which all the others rest on |

None of the properties is inductive alone. `AcloseSettles` is about a join that
is delivered through the same FIFO as the answers, so its proof has to know where
every send can be at each place of the owner. The invariant `IInv` adds to
`TypeOK` and `OnePlace`:

* *phases*: what `pc` says of the handle, of `ready`, of `cur` and of the callers
  (before `ready` has a result nobody sends; `cur` is a send exactly at
  `sending`; the handle is open between `publish` and `close`);
* *sentinel last*: once `closed`, the sentinel is in the queue with no send behind
  it, or was taken; this is where "`send` checks `_closed` before it puts" is
  used, and it makes the queue empty of sends when the drain has ended;
* *returns last*: a "return" callback is posted only by a joined closer after the
  owner's end, so every answer is ahead of it in `callbacks`. When it is run the
  callbacks before it have been, hence nothing is pending;
* *a closer joins only after `closed`*, and there is at most one of them.

What the steps on the two queues do to "s is in the queue" and "s is in it once"
comes first, then one lemma per conjunct with a step per action. `Refinement` is a
step simulation under the invariant: each action maps to an action of `CallService`
or to a stutter; `FinishClose` is the step that needs *returns last*.

Three theorems go further:

* `AnswersKeepOrder`: a send goes from the queue to the owner's hands to the
  callbacks, and `Follows` says that on this way no later send passes an earlier one
  or is gone from it sooner. `PutOnce` makes "earlier" an order, and `Emptied` covers
  the one exit that is no answer: an owner drops what it would post on a closed loop,
  where no callback is left to be overtaken;
* `CallersAreNotStranded` is the safety side of `SendsSettle` and `AcloseReturns`: a
  send that waits when the owner has ended has its answer among the callbacks unless
  the idle tick faulted, and an `aclose` whose join ended has its return there
  (`JoinsHeard`, `FaultLeaves`). `NobodyStranded` is proved and in no run;
* `OwnerEndsAfterClose` is the variant under them. `StepsLeft`, twice the commands
  in the queue and the owner's distance from its end, is a number that falls with
  every step of the owner once the client was closed (or `connect_async` cancelled)
  and that no other step changes: *sentinel last* is why the owner then never waits
  for a command, and why no send adds one.

`ManagedServerProofs` is about `ManagedServer` for any sets of resolves, scrapes
and shutdowns, under `RequestKinds`: the two kinds of request are disjoint.

| Theorem | Establishes |
|---|---|
| `TypeCorrect` | `Spec => []TypeOK` |
| `DhtClosedFirst` | `Spec => []PublishedDhtBorrows` |
| `NoServerIsLeft` | `Spec => []NoServerLeft` |
| `ShutdownHasClosed` | `Spec => []ShutdownCloses` |
| `StopIsNoticed` | `Spec => []LoopNoticesStop` |
| `RequestsAreNotLost` | `Spec => []RequestsInOnePlace` |
| `RequestsAreAnsweredOnce` | `Spec => AnsweredOnce` |
| `ShutdownsAreHeard` | `Spec => []ShutdownsHeard` |
| `OwnerEndsAfterStop` | for finitely many requests, `Spec => WindsDown` |
| `Invariance` | the inductive invariant `IInv`, which all the others rest on |

The invariant relates three parties that share no lock:

* *owner phases*: `pc` decides which of the two handles are open, and `ready` has a
  result exactly from the publishing to the end. A server that is aborted, or
  whose `serve` was cancelled, ends with `ready` failed or cancelled; this is what
  separates the ways out that close the dht from those that do not;
* *caller phases*: nobody shuts down a server that was not published, and no join
  ends before the owner has;
* *returns after the end*: a "return" among the callbacks was posted by a join, so
  the owner had ended, however many answers and other shutdowns are queued.

`StopIsNoticed` adds `Noticing`: the owner's loop begins one wait at most after
`stop.set()`, and from the end of that wait it only goes down. `RequestsInOnePlace`
says of every command that it is queued, pumped or posted as long as its caller
waits, in one of these and there once, so that none is lost and `set_result` never
meets a settled future; `AnsweredOnce` is the action property that follows. It holds
after the owner's end too: a `resolve` nobody answers is still queued, as section 6
says. `ShutdownsHeard` is the safety side of `ShutdownReturns`.

`OwnerEndsAfterStop` is the variant under `ShutdownReturns` and
`CancelledServeEnds`. A command may still be queued after `stop.set()`, and each is a
lookup that may run to its deadline, so `StepsLeft` counts two steps for every
request that is queued or still to be made: it never grows, and falls with every step
of the owner. The assumption `IsFiniteSet(Requests)` is what makes that a number; a
program that sent requests for ever would indeed keep the loop at its queue
(`runtime.py:269`). The last four properties are stated in the proof module and in no
run.

`HandlesProofs` is about `Handles` for any number of wrappers of each kind and any
callbacks, under `Kinds`: the kinds are disjoint.

| Theorem | Establishes |
|---|---|
| `TypeCorrect` | `Spec => []TypeOK` |
| `HandlesHaveOneOwner` | `Spec => []OneOwner` |
| `CallsOnLiveHandles` | `Spec => []NoStrayCall` |
| `LendersOutliveBorrowers` | `Spec => []BorrowsHold` |
| `FinalizersLoseNothing` | `Spec => []NoHandleLost` |
| `Invariance` | the inductive invariant they follow from |

The invariant says who may share a handle's name (`Owning`: only a client and the
`Connecting` it came from, which is done), that whoever borrows refers to what it
borrows (`Lending`), and that nothing outside a collection refers into it
(`DoomIsClosed`). The last two meet in `FinalizeStep`: a lender, or a stream's client, is finalized
because nothing refers to it, so nobody borrows from it, or in a collection,
which then has its borrowers too. That is the exception in `BorrowsHold`:
section 6 says how it comes about. A stream whose client the program closed itself is
the other one: there the code has no guard, so the invariant has none either, and
`NoStrayCall` says only that no finalizer brings a stream there and that `Stream.close`
makes no call then. `OneOwner` is proved and in no run.

`DispatchProofs` is about `Dispatch` for any sets of requests and bodies and any
cap, under `RequestsAreNamed` and `BodiesAreBodies` (the markers are not requests
or bodies).

| Theorem | Establishes |
|---|---|
| `TypeCorrect` | `Spec => []TypeOK` |
| `RespondersAreUsedOnce` | `Spec => []OneReply` |
| `RepliesDecide` | `Spec => []ReplyDecides` |
| `FailuresAreSeen` | `Spec => []FailureIsSeen` |
| `KeptTerminalsRaise` | `Spec => []KeptTerminalRaises` |
| `NobodyIsForgotten` | `Spec => []NobodyForgotten` |
| `Invariance` | the inductive invariant they follow from |

The invariant ties the four places an answer leaves a trace while its handler
runs: a Reply exists only if the responder is used (`Claims`), the head of a
stream was sent exactly if the Reply is that of `stream` (`Heads`), and the buffer
holds what the Reply was made for unless `header` or a sub-router wrote over it
(`Buffers`, with `over`). `FinishStep` then follows the trampoline's code case by
case.
`NobodyForgotten` is the safety side of `EveryoneAnswered`: a request that waits is
that of the handler that runs, or a program holds the Reply of its `defer` or
`stream`, or its handler returned the Reply of another one, as section 6 says.
`OneReply` and `NobodyForgotten` are proved and in no run.

`TrustNetworkProofs` is about `TrustNetwork` for any anchors, entries, epochs and
sizes and any number of crashes, under `QuorumsMeet`: the anchors are finitely many
and a checkpoint takes more than half of them.

| Theorem | Establishes |
|---|---|
| `TypeCorrect` | `Spec => []TypeOK` |
| `AckedEntriesSurvive` | `Spec => []AckedSurvives` |
| `CheckpointsNeverSplit` | `Spec => []CheckpointsAgree` |
| `TrustIsKept` | `Spec => []NothingTrustedIsLost` |
| `SavedHistoryBinds` | `Spec => NeverContradictsItself` |
| `Invariance` | the inductive invariant they follow from |

The properties speak of a log that may fall back by a crash and of nodes and
anchors that keep what they read of it, so the invariant says what each may have
read:

* `Persisted`: unless an entry was missed, the disk is the log but for the entry in
  hand, record by record at its own index, and has every acknowledged entry. This
  is where "the hook runs after the append and before the created response" is used;
* `Durable`: what the replicas, the store and its blob hold of the log is on the disk,
  because nobody reads between the steps of a write (`Readable`), and so a restart
  does not take it back;
* `Signed`: what an anchor collects or signs begins its replica, which only grows,
  though the log does not. Two quorums share an anchor, so two certified roots begin
  one replica, and one of them begins the other (`PrefixesOfOne`); this needs no
  assumption about the hook;
* `Pins`: what was ever saved is in the blob and, from `load` on, in the store, and an
  installed root is the one its epoch's history names. An action property follows:
  the step that installs another root has looked at that history.

`DrivenClientProofs` is about `DrivenClient` for any requests, other messages and
hooks, under `OthersAnswerNone`: a message that answers no request is not named like
one.

| Theorem | Establishes |
|---|---|
| `TypeCorrect` | `Spec => []TypeOK` |
| `MessagesAreFreedOnce` | `Spec => []MessagesFreedOnce` |
| `HooksStayAlive` | `Spec => []HookCallsAreLive` |
| `NobodyIsUnheard` | `Spec => []NobodyUnheard` |
| `RequestsAreDecidedOnce` | `Spec => DecidedOnce` |
| `Invariance` | the inductive invariant they follow from |

A message is the native client's, a `Response`'s or freed, and three things move it:
a poll, the hook, `close`. `Owning` says that whoever holds a message is in reach and
that only a closed `Response` has freed its own, so that closing, dropping and
replacing references can free in any order; `Answering` ties a message the native
client still has to the state its request is polled by, which is what keeps a poll
inside a hook from handing out the answer a second time. `Hooked` is that the closure
C has registered is the one python keeps, between any two native calls.

`NobodyUnheard` is the safety side of `EveryRequestHeard`: whatever hooks do while
`send` blocks, its request stays in flight on an open client until it is answered or
fails, and a closed client leaves no request undecided. `DecidedOnce` is an action
property: what was heard, cancelled or lost stays so. Both are proved and in no run.

`ManagedStreamProofs` is about `ManagedStream` for any number of `recv` and `aclose`
calls, any length of the body and any executor, under `JobKinds` (the two kinds of
call are disjoint) and `Sizes`.

| Theorem | Establishes |
|---|---|
| `TypeCorrect` | `Spec => []TypeOK` |
| `EndsAreAuthentic` | `Spec => []EndIsAuthentic` |
| `UncancelledBodiesAreWhole` | `Spec => []UncancelledBodyIsWhole` |
| `NoClientIsLeft` | `Spec => []NoClientLeft` |
| `Refinement` | `Spec => ImplementsBodyService` |
| `ReadersHearTheEnd` | `Spec => []EndsAreTold` |
| `OwnerEndsAfterStop` | `Spec => WindsDown` |
| `ExecutorHasRoom` | with a thread for each call, `Spec => []RoomForAll` |
| `BodyInvariance` | the stronger inductive invariant the refinement needs |
| `Invariance` | the inductive invariant `IInv`, which all the others rest on |

An item passes three places: the queue, the hands of a thread, a caller. The proof
gives each item a *rank*: the number of a chunk, and one more than the chunks put so
far for what ends the body.

* `Ordered`: ranks ascend along the queue, and all that was taken off it is before it;
* `Whole`: while nothing was taken for nobody (`~Lost`), the callers hold the ranks 1,
  2, ... in that order and every chunk put is in one of the places. Since one recv
  waits at a time (`Calls`), at most one item is in hand; it has the next rank, for a
  greater one would leave a chunk that is in no place (`TellStep`);
* `Sane`: an item that ends the body exists only once the owner is past reading, and
  the end marker only for a genuine body all of which was put;
* `Phases` and `Calls`: the connection is open from connecting to teardown, and a join
  ends after the owner does, which is what `NoClientLeft` needs.

`UncancelledBodyIsWhole` follows since the end marker has rank `BodyLen + 1` and no
item has a greater one.

`EndsAreTold` is the safety side of `RecvAnsweredWhileStreaming`: an owner that has left
its loop put the end or the fault on the queue, where it stays until a recv takes it,
unless an `aclose` stopped it.

`Refinement` is a step simulation under `BodyInv`. What the program knows of the body
is what is on the queue or in some thread's hands (`Known`), so the owner's `Read` is
the service's `Read`, and putting the end or the fault is its `Close`. The program
learns of an item later than a thread takes it: `GetItem` maps to a stutter and `Tell`
to the service's `Tell`. An item is lost (`Lose`) when a thread takes it for a `recv`
that was cancelled, or when the cancellation reaches one whose thread has an item.
`BodyInv` adds what a stutter must not disturb: no two calls took the same place of
the body (`Distinct`), and a chunk that was put stays known (`Complete`). That the
item told is the first one outstanding is `Ordered`, with one `recv` at a time.

`OwnerEndsAfterStop` is the variant under `AcloseReturns`: once nobody wants the
stream, each step of the owner brings it nearer to its end. It uses that a head that
was not published is never streamed (`HeadIsOut`). `ExecutorHasRoom` is about the
assumption both liveness properties are checked under: with `Workers` at least the
number of calls, a job that waits finds a free thread, however many `recv` calls are
blocked for ever. `EndIsAuthentic`,
`EndsAreTold`, `WindsDown` and `RoomForAll` are proved and in no run.

`DiscoveryProofs` is about `Discovery` for every `Interval`, `Timeout`, `Lifetime` and
`MaxBurst` that `Periods` allows, any number of starts with any initial sequences, any
number of settings of the announcer's clock, ahead or back, and any length of time,
under `NoneIsNoValue` (`None` is neither a time nor a record) and
`SequencesAreNumbers`.

| Theorem | Establishes |
|---|---|
| `RecordsStayLive` | `Spec => []RecordStaysLive` |
| `StaleIsForALifetime` | `Spec => []StaleForALifetime` |
| `NeverLedBack` | `Spec => NeverBack` |
| `Invariance` | the inductive invariant they follow from |

The owner that announces, the clock and the resolver move independently; the invariant
says how far apart they may come:

* `OnTime`: the owner is late for its timer by no more than the time its lookups took
  (`Taken`), since it looks at the timer whenever its queue is empty. With `Lifetime >=
  Interval + MaxBurst * Timeout` the last record is live when the next one follows;
* `Dated`: no record is from further in the future than the node's clock was `ahead`,
  and one of an earlier life is, but for that, older than the start of the present
  one, so a lifetime and `ahead` later it has expired;
* `Ordered`: unless the node was started with less than it had announced, a higher
  sequence is of the same or a later life and, if the clock was never set, was
  announced later;
* `Ahead`: what the resolver has is no older than what it last answered; when it has
  nothing, all that is no newer has expired. This is what `NeverBack` needs beyond "a
  dht keeps the highest sequence": the resolver may drop what it had and hear of an
  older record later, and that record is then too old to be taken.

Only model-checked:

* every liveness property, since the prover has no `ENABLED`. Proved of them are the
  safety sides (whoever still waits can be answered, for the client, the server, the
  stream, the handlers and the driven client) and, for the three owner threads,
  the variants. What is left to TLC is that an owner that has not ended can take a step
  and that the fair steps in between are taken;
* the two invariants of `LibrarySearch`. That model has no parameter a theorem could
  generalise: its constants are names, and TLC enumerates every environment with any
  two libraries at any places. A violation is a matter of the library that was loaded
  and one other.

## 6. What the checks found

Three runs are counterexamples to a sentence of the repository; the lines are under
"findings" in `PROJECT.json`.

* `ServerDhtLeft`: a failing `bootstrap`, or a cancelled `serve`, closes the server
  under an attached dht. `PublishedDhtBorrows` is the part that holds.
* `StreamLostChunk`: a cancelled `recv` (as `asyncio.wait_for` cancels it) takes a
  chunk for nobody. `UncancelledBodyIsWhole` is the part that holds.
* `DrivenIterator`: `headers()` is a generator over a message it does not keep alive.
  `MessagesFreedOnce` holds, but not for what reads through the generator.

Observations without a run, each visible as an exception in a property that holds:

* After a fault while idle the owner of a client drains and ends, but `_closed` stays
  false, so a later `send` awaits for ever, even past `aclose`. `AcloseSettles` and
  `SendsSettle` except it.
* The server's queue has no counterpart of `_drain_pending`: a `resolve` queued as the
  owner ends is never answered. `RunningServerAnswers` is the part that holds.
* An `aclose` during a stream's `recv`, or a `recv` after the end, leaves the `recv`
  waiting for ever; enough cancelled `recv` calls hold the whole executor, and with it
  the join of `aclose`. `RecvAnsweredWhileStreaming` holds, and `AcloseReturns` with a
  thread for every call.
* A dht's reference to its server does not order their finalizers when a handler that
  refers to the dht makes them a cycle. `BorrowsHold` excepts a collection.
* `KeyboardInterrupt`, `SystemExit` and `CancelledError` pass `except Exception`
  (`server.py:823`); the callback then returns 0, and the peer may get what was built so
  far, where `server.py:803-805` speaks of a generic error. `FailureIsSeen` is about the
  rest.
* A Reply of another request satisfies the trampoline, although "returning a Reply is
  evidence the request was answered exactly once" (`server.py:242-243`).
  `ReplyDecides` and `EveryoneAnswered` except it.
* `header` (`server.py:269-280`) does not look at `_used`; `moved` and `rate_limited`
  write a header before they claim (`server.py:315-317, 355-357`); a sub-router writes
  the buffer before it claims (`log.py:423-431`, `trust/anchor.py:138-148`). On a
  responder that was used they change what is about to be sent, and on one that was kept
  beyond its handler they write into a buffer that is the native server's again, before
  the terminal, if there is one, raises. `capture` reads that buffer late.
  `ReplyDecides` excepts them, and `KeptTerminalRaises` is about terminals only.
* A `Stream`'s `response`, `recv` and `verify` look at the stream's `_closed` and call on
  `self._client.raw` (`client.py:715-760, 768-770`): after `Client.close` that is a
  connection that was freed, and `raw` does not look either (`client.py:416-419`).
  `Stream.close` looks (`client.py:764`). `NoStrayCall` and `BorrowsHold` except a client
  the program closed itself; as a stream keeps its client, no finalizer leads there.
* The lean library is loaded unasked when it is in a nearer place than the full one, or
  the only one the linker knows, since both names are tried in each place before the
  next (`_sys.py:598-626`). "it returns False only when NWEP_LIB=core opted into the lean
  libnwep_core build" (`_sys.py:634-636`) and "the trust layer is available by default"
  (`_sys.py:578-580`) are then not so. `LibrarySearch` has this behaviour, and no property
  that excludes it.
* pkg-config's prefix comes before `NWEP_LIB_DIR`, whose comment calls it first
  (`_sys.py:494`), and before the copy in the wheel (`_sys.py:584-586`), and so does the
  linker's library before the wheel's. A file that exists and does not load ends the
  search. `OverrideIsFirst` and `FindsWhatIsThere` name these cases.
* Lookups hold the thread that announces (`runtime.py:243-251, 267-273`): a program that
  never leaves the queue empty keeps its node from announcing. `RecordStaysLive` bounds
  the burst. A wall clock that is set back delays the next announcement by as much
  (`runtime.py:249`), and one that was ahead dates records that stay good for longer. A
  resolver answers from its own store, so it may name the old address for the lifetime
  of a record and the time the clock was ahead, which is what `StaleForALifetime` says.
* A node has to come back with "the last announced seq from a previous run"
  (`dht.py:169-171`), but no method of the managed server tells it, and the builder's
  default is 0 (`server.py:879`). A program that leaves the default, or that crashed
  before it noted its last sequence, comes back with less than it announced, and
  resolvers are led back to its old address while a record of it lives. `NeverBack`
  excepts such a node (`regressed`), and `StaleForALifetime` bounds for how long.

And without a model: a `connect_async` or `serve` cancelled after its owner published,
and before the coroutine resumed, leaves an owner that nobody can stop; a second
`aclose` returns at once while the first is still joining; `Response.status`
(`client.py:84-88`), `LogServer.dispatch` and `on_append`, and `AnchorNode.dispatch` do
not look whether they were closed.

## 7. Limits, and what is not modelled

* The native library is its outcomes; what its calls do inside is not modelled. What
  the models need of it is stated where it is used: a request id is retired once a
  poll or the hook had it (`DrivenClient`), a dht keeps the highest sequence and drops
  expired records (`Discovery`), an anchor signs the root it collected and a
  checkpoint verifies with a threshold of shares of one root (`Anchors`).
* `ManagedStream` leaves out the end of the loop, which waits for the executor
  first; the other two managed modules have it (`LoopClose`).
* Contents of requests, responses and records are abstracted to their identity
  and to "response" or "error"; a log's root stands for its entries.
* What the native encoder makes of a header after a terminal is not known: `Header`
  takes it that nothing may be said of the response then. `capture` is not modelled,
  nor is a `tick` inside a handler. Which answers from the loop are refused, as for a
  request that is not parked, is the native server's check and a guard of the model.
* `Handles` has one thread, and its wrappers are only made, tied, closed and
  dropped, but for the calls of a stream: a call on a wrapper that was itself closed is
  not modelled. A constructor
  that raises got no handle, so it is no action. Resurrection by a finalizer does
  not happen in this code and is left out. `DrivenClient` has no `close` inside a
  hook.
* A program that awaits several `recv` calls at once is not modelled.
* `Discovery` has one announcer and one resolver. Its resolver's clock is the reference.
  Its lookups are bounded by `MaxBurst` between two announcements, which the code does
  not bound. When the program notes the sequence it announced is not modelled: it comes
  back with any.
* That a finalizer runs, and that it closes what a closed loop left open
  (`runtime.py:414`), is the interpreter's and assumed. Whether a hook that replaces
  itself stays alive until it returns (`client.py:372`) is cffi's and not examined.
* `Anchors` does not model what a dishonest anchor does, nor staleness by time, nor a
  change of the anchor set; `TrustNetwork` not the verdicts on a peer's key.

Not modelled: Identity (one flag in front of single native calls, nothing runs
between two of them), BLS and Shamir (native cryptography without state), errors,
wire, addresses and uris (tables and conversions that decide nothing the models
tell apart), the examples (programs that use the package).

## 8. Plan

1. Done: the managed objects with `CallService` and `BodyService`, `Handles`,
   `Dispatch`, `DrivenClient`, the trust layer, `Discovery`, `LibrarySearch`; proofs about
   `ManagedClient`, `ManagedServer`, `ManagedStream`, `Handles`, `Dispatch`,
   `DrivenClient`, `TrustNetwork` and `Discovery`.
2. The driven server's notifications and its drain, frames captured and blitted
   later, and the trust store's change of anchors.
