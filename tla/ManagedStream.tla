--------------------------- MODULE ManagedStream ---------------------------
(***************************************************************************)
(* The managed stream of nwep/runtime.py: _stream, its owner thread,       *)
(* AsyncStream, and the thread pool its coroutines block in.               *)
(*                                                                         *)
(* The owner thread reads the body from its own connection and puts every  *)
(* chunk on `items`.  AsyncStream.recv takes one item, and aclose joins    *)
(* the owner, but neither on the asyncio loop: both are jobs of the loop's *)
(* default executor, a FIFO of jobs served by a fixed number of threads.   *)
(* A job that runs cannot be cancelled: cancelling the coroutine leaves    *)
(* its thread in items.get(), where it takes the next item for nobody.     *)
(***************************************************************************)

EXTENDS Naturals, Sequences, FiniteSets

CONSTANTS
  NumRecvs,   \* how many recv() calls the program makes, one after the other
  Closers,    \* its aclose() calls
  BodyLen,    \* the number of chunks in the response body
  Workers     \* the threads of the default executor

Recvs == 1..NumRecvs
Jobs == Recvs \cup Closers

ASSUME JobKinds == Recvs \cap Closers = {}
ASSUME Sizes == NumRecvs \in Nat /\ BodyLen \in Nat /\ Workers \in Nat \ {0}

VARIABLES
  awaiter,    \* the coroutine in `await asyncio.wrap_future(ready)`
  ready,      \* the concurrent future the owner publishes the head with
  genuine,    \* the peer signed this body (never changes)
  pc,         \* where the owner thread is
  client,     \* the dedicated native client: "none", "open" or "closed"
  stream,     \* its native stream, likewise
  stop,       \* the threading.Event
  put,        \* how many chunks the owner has put
  items,      \* the SimpleQueue between the owner and recv
  caller,     \* each coroutine in recv or aclose
  job,        \* the job each of them has the executor do
  jobs,       \* the executor's queue
  taken,      \* what the job of each recv took off the queue, its result
  received    \* history: what the recv calls returned, in that order

handshake == << awaiter, ready >>
native == << client, stream >>
readers == << caller, job, jobs, taken, received >>
vars == << awaiter, ready, genuine, pc, client, stream, stop, put, items,
           caller, job, jobs, taken, received >>

Chunk(k) == << "chunk", k >>
End == << "end", 0 >>      \* _STREAM_END
Fault == << "fault", 0 >>  \* an exception put on the queue
Nothing == << "none", 0 >>

-----------------------------------------------------------------------------

Ready == INSTANCE ReadyFuture

Init ==
  /\ Ready!Init
  /\ genuine \in BOOLEAN
  /\ pc = "connect"
  /\ client = "none"
  /\ stream = "none"
  /\ stop = FALSE
  /\ put = 0
  /\ items = << >>
  /\ caller = [ j \in Jobs |-> "idle" ]
  /\ job = [ j \in Jobs |-> "none" ]
  /\ jobs = << >>
  /\ taken = [ r \in Recvs |-> Nothing ]
  /\ received = << >>

-----------------------------------------------------------------------------
(* Parts of the actions.  A "Mutant" is a plausible slip in the operator   *)
(* after it and is used by no action.                                      *)

\* Mutant: the newest item is taken first.
PutFirst(item) == << item >> \o items

\* items.put
Put(item) == Append(items, item)

\* Mutant: the trailer is not checked.
TrailerIgnored == TRUE

\* stream.verify(peer) does not raise
TrailerVerifies == genuine

\* What stream.recv() may return: the chunks read with it, and whether the body
\* ended there; a body that is not genuine may be cut short.
Reads == { r \in [ chunks : put .. put + 1, ended : BOOLEAN ] :
             /\ r.chunks <= BodyLen
             /\ r.ended /\ genuine => r.chunks = BodyLen }

\* stop.is_set()
Stopping == stop

\* ready.set_result does not raise InvalidStateError
Publishable == ready = "pending"

\* Mutant: aclose waits for an empty queue besides.
JoinedWhenEmpty == pc = "done" /\ items = << >>

\* thread.join() returns
Joinable == pc = "done"

-----------------------------------------------------------------------------
(* The coroutines, on the asyncio loop.                                    *)

StreamReturns ==
  /\ Ready!Resume
  /\ UNCHANGED << genuine, pc, native, stop, put, items, readers >>

CancelStream ==
  /\ Ready!Cancel
  /\ UNCHANGED << genuine, pc, native, stop, put, items, readers >>

PropagateCancel ==
  /\ Ready!Propagate
  /\ UNCHANGED << genuine, pc, native, stop, put, items, readers >>

\* run_in_executor: the job is queued and the coroutine awaits it
Submit(j) ==
  /\ awaiter = "returned"
  /\ caller[j] = "idle"
  /\ caller' = [ caller EXCEPT ![j] = "waiting" ]
  /\ job' = [ job EXCEPT ![j] = "queued" ]
  /\ jobs' = Append(jobs, j)

\* AsyncStream.recv up to its await; the program awaits one recv at a time
Recv(r) ==
  /\ \A q \in 1..r-1 : caller[q] \in { "returned", "cancelled" }
  /\ Submit(r)
  /\ UNCHANGED << handshake, genuine, pc, native, stop, put, items, taken,
                  received >>

\* AsyncStream.aclose up to its await
Aclose(c) ==
  /\ Submit(c)
  /\ stop' = TRUE
  /\ UNCHANGED << handshake, genuine, pc, native, put, items, taken, received >>

\* task.cancel(), as asyncio.wait_for does on a timeout
CancelCall(j) ==
  /\ caller[j] = "waiting"
  /\ caller' = [ caller EXCEPT ![j] = "cancelling" ]
  /\ UNCHANGED << handshake, genuine, pc, native, stop, put, items, job, jobs,
                  taken, received >>

\* a later turn of the loop: a job that has not begun never will, one that has is
\* not stopped
PropagateCall(j) ==
  /\ caller[j] = "cancelling"
  /\ caller' = [ caller EXCEPT ![j] = "cancelled" ]
  /\ job' = IF job[j] = "queued" THEN [ job EXCEPT ![j] = "dropped" ] ELSE job
  /\ UNCHANGED << handshake, genuine, pc, native, stop, put, items, jobs, taken,
                  received >>

\* the loop's callback that hands a finished job's result to its coroutine; a
\* coroutine that was cancelled gets nothing.  The thread posts it some time after
\* it took the item, so the results of two threads come in any order.
Tell(j) ==
  /\ job[j] = "finished"
  /\ caller[j] = "waiting"
  /\ caller' = [ caller EXCEPT ![j] = "returned" ]
  /\ received' = IF j \in Recvs THEN Append(received, taken[j]) ELSE received
  /\ UNCHANGED << handshake, genuine, pc, native, stop, put, items, job, jobs,
                  taken >>

-----------------------------------------------------------------------------
(* The threads of the default executor.                                    *)

Busy == { j \in Jobs : job[j] = "running" }

\* a free thread takes the next job, and passes over one that was cancelled
StartJob ==
  /\ jobs # << >>
  /\ Cardinality(Busy) < Workers
  /\ jobs' = Tail(jobs)
  /\ job' = IF job[Head(jobs)] = "queued"
            THEN [ job EXCEPT ![Head(jobs)] = "running" ] ELSE job
  /\ UNCHANGED << handshake, genuine, pc, native, stop, put, items, caller,
                  taken, received >>

Finish(j) ==
  /\ job[j] = "running"
  /\ job' = [ job EXCEPT ![j] = "finished" ]
  /\ UNCHANGED << handshake, genuine, pc, native, stop, put, caller, jobs,
                  received >>

\* items.get() returns, to whichever thread it woke
GetItem(r) ==
  /\ items # << >>
  /\ items' = Tail(items)
  /\ taken' = [ taken EXCEPT ![r] = Head(items) ]
  /\ Finish(r)

Join(c) ==
  /\ Joinable
  /\ Finish(c)
  /\ UNCHANGED << items, taken >>

-----------------------------------------------------------------------------
(* The owner thread.                                                       *)

Connect ==
  /\ pc = "connect"
  /\ \/ /\ client' = "open"
        /\ pc' = "open"
        /\ UNCHANGED ready
     \/ /\ pc' = "done"
        /\ ready' = Ready!Failed
        /\ UNCHANGED client
  /\ UNCHANGED << awaiter, genuine, stream, stop, put, items, readers >>

\* Mutant: the except clause reports and forgets client.close().
OpenLeavesClient ==
  /\ pc = "open"
  /\ \/ /\ stream' = "open"
        /\ pc' = "publish"
        /\ UNCHANGED << ready, client >>
     \/ /\ pc' = "done"
        /\ ready' = Ready!Failed
        /\ UNCHANGED << client, stream >>
  /\ UNCHANGED << awaiter, genuine, stop, put, items, readers >>

\* client.open_stream, and the head of the response; a failure of either
\* closes the client, and the native stream with it
OpenStream ==
  /\ pc = "open"
  /\ \/ /\ stream' = "open"
        /\ pc' = "publish"
        /\ UNCHANGED << ready, client >>
     \/ /\ client' = "closed"
        /\ pc' = "done"
        /\ ready' = Ready!Failed
        /\ UNCHANGED stream
  /\ UNCHANGED << awaiter, genuine, stop, put, items, readers >>

\* ready.set_result; on InvalidStateError both handles are closed
Publish ==
  /\ pc = "publish"
  /\ \/ /\ Publishable
        /\ ready' = "result"
        /\ pc' = "peer"
        /\ UNCHANGED native
     \/ /\ ~Publishable
        /\ stream' = "closed"
        /\ client' = "closed"
        /\ pc' = "done"
        /\ UNCHANGED ready
  /\ UNCHANGED << awaiter, genuine, stop, put, items, readers >>

\* client.peer_pubkey, whose exception is put like one of the body
ReadPeer ==
  /\ pc = "peer"
  /\ \/ pc' = "check" /\ UNCHANGED items
     \/ pc' = "teardown" /\ items' = Put(Fault)
  /\ UNCHANGED << handshake, genuine, native, stop, put, readers >>

\* while not stop.is_set(); leaving this way puts nothing
CheckStop ==
  /\ pc = "check"
  /\ pc' = IF Stopping THEN "teardown" ELSE "read"
  /\ UNCHANGED << handshake, genuine, native, stop, put, items, readers >>

\* stream.recv() returned a chunk or none, and whether the body ended there
Read ==
  /\ pc = "read"
  /\ \E r \in Reads :
       /\ put' = r.chunks
       /\ items' = IF r.chunks > put THEN Put(Chunk(r.chunks)) ELSE items
       /\ pc' = IF r.ended THEN "verify" ELSE "check"
  /\ UNCHANGED << handshake, genuine, native, stop, readers >>

\* Mutant: the outer except clause does not put the exception.
FailsSilently ==
  /\ pc = "read"
  /\ pc' = "teardown"
  /\ UNCHANGED << handshake, genuine, native, stop, put, items, readers >>

\* stream.recv() raised
ReadFails ==
  /\ pc = "read"
  /\ items' = Put(Fault)
  /\ pc' = "teardown"
  /\ UNCHANGED << handshake, genuine, native, stop, put, readers >>

\* the end marker, or the exception of the check
Verify ==
  /\ pc = "verify"
  /\ items' = IF TrailerVerifies THEN Put(End) ELSE Put(Fault)
  /\ pc' = "teardown"
  /\ UNCHANGED << handshake, genuine, native, stop, put, readers >>

\* the finally clause: stream.close(), then client.close()
Teardown ==
  /\ pc = "teardown"
  /\ stream' = "closed"
  /\ client' = "closed"
  /\ pc' = "done"
  /\ UNCHANGED << handshake, genuine, stop, put, items, readers >>

-----------------------------------------------------------------------------

OwnerStep ==
  \/ Connect \/ OpenStream \/ Publish
  \/ ReadPeer \/ CheckStop \/ Read \/ ReadFails \/ Verify \/ Teardown

LoopStep ==
  \/ StreamReturns \/ CancelStream \/ PropagateCancel
  \/ \E r \in Recvs : Recv(r)
  \/ \E c \in Closers : Aclose(c)
  \/ \E j \in Jobs : CancelCall(j) \/ PropagateCall(j) \/ Tell(j)

ExecutorStep ==
  \/ StartJob
  \/ \E r \in Recvs : GetItem(r)
  \/ \E c \in Closers : Join(c)

Next == OwnerStep \/ LoopStep \/ ExecutorStep

Spec == Init /\ [][Next]_vars

\* a stream.recv() that ends the owner's reading
ReadingEnds == (Read \/ ReadFails) /\ pc' # "check"

\* Every native call returns and the body comes to its end or to a fault
\* (the transport's idle timeout), the loop keeps running its callbacks, and
\* the executor and its threads run what they can.  Nothing makes a caller
\* receive, close or cancel.
Fairness ==
  /\ WF_vars(OwnerStep)
  /\ SF_vars(ReadingEnds)
  /\ WF_vars(StreamReturns)
  /\ WF_vars(PropagateCancel)
  /\ \A j \in Jobs : WF_vars(PropagateCall(j)) /\ WF_vars(Tell(j))
  /\ WF_vars(StartJob)
  /\ \A r \in Recvs : WF_vars(GetItem(r))
  /\ \A c \in Closers : WF_vars(Join(c))

FairSpec == Spec /\ Fairness

-----------------------------------------------------------------------------
(* Properties.                                                             *)

Item == ({ "chunk" } \X (1..BodyLen)) \cup { End, Fault }

\* The type invariant: in particular only items of the queue are returned.
TypeOK ==
  /\ Ready!TypeOK
  /\ genuine \in BOOLEAN
  /\ pc \in { "connect", "open", "publish", "peer", "check", "read", "verify",
              "teardown", "done" }
  /\ client \in { "none", "open", "closed" }
  /\ stream \in { "none", "open", "closed" }
  /\ stop \in BOOLEAN
  /\ put \in 0..BodyLen
  /\ items \in Seq(Item)
  /\ caller \in [ Jobs -> { "idle", "waiting", "cancelling", "cancelled",
                            "returned" } ]
  /\ job \in [ Jobs -> { "none", "queued", "running", "finished", "dropped" } ]
  /\ jobs \in Seq(Jobs)
  /\ taken \in [ Recvs -> Item \cup { Nothing } ]
  /\ received \in Seq(Item)

Got(item) == \E i \in 1..Len(received) : received[i] = item

\* "once recv returns None the body is complete and its trailer signature has
\* verified against the peer" (runtime.py:489-491): a recv returns None only
\* for a body the peer signed, all of which the owner has put.
EndIsAuthentic == Got(End) => genuine /\ put = BodyLen

Body == [ i \in 1..BodyLen + 1 |-> IF i = BodyLen + 1 THEN End ELSE Chunk(i) ]

\* "an authentic, whole body" (runtime.py:491): when a recv returns None, the
\* recv calls before it returned every chunk, once and in order.
BodyIsWhole == Got(End) => received = Body

\* the job of a recv that was cancelled took an item
Lost ==
  \E r \in Recvs : job[r] = "finished" /\ caller[r] \in { "cancelling", "cancelled" }

\* BodyIsWhole, for a program none of whose cancelled recv calls had its thread
\* take an item.
UncancelledBodyIsWhole == ~Lost => BodyIsWhole

\* The places of an item: the queue, and the hands of a thread that took it.
Queued(x) == \E i \in 1..Len(items) : items[i] = x

Known(x) == Queued(x) \/ \E r \in Recvs : taken[r] = x

\* What closed the body, what the program knows of each recv, and the item that a
\* recv returned or lost.  A recv counts as cancelled at once, and as having lost
\* what its thread took when the cancellation has got through.
Ending ==
  IF Known(End) THEN End ELSE IF Known(Fault) THEN Fault ELSE Nothing

Asked ==
  [ r \in Recvs |-> IF caller[r] = "cancelling" THEN "cancelled" ELSE caller[r] ]

Spent ==
  [ r \in Recvs |-> IF caller[r] \in { "returned", "cancelled" } THEN taken[r]
                                                                ELSE Nothing ]

\* What the program sees is a BodyService: the body in order, each item told once,
\* or lost by a recv that was cancelled, and None only after all of a body the peer
\* signed (runtime.py:489-498).
Service ==
  INSTANCE BodyService
    WITH NumCalls <- NumRecvs, read <- put, ending <- Ending, call <- Asked,
         got <- Spent

ImplementsBodyService == Service!Spec

\* An owner thread that has ended leaves its dedicated client closed, on every
\* way out of it, and so does an aclose() that returned (runtime.py:524-574).
NoClientLeft ==
  pc = "done" \/ (\E c \in Closers : caller[c] = "returned")
    => client # "open"

\* The end of the body, or its failure, has been taken off the queue.
Over == \E r \in Recvs : taken[r] \in { End, Fault }

\* "returns a chunk while streaming, or None at the verified end. raises a
\* transport error mid-stream, or CryptoError" (runtime.py:493-495): until the end
\* was taken or the stream was closed, a recv does one of them, if the executor
\* has a thread for it.
RecvAnsweredWhileStreaming ==
  \A r \in Recvs :
    caller[r] = "waiting" ~> (caller[r] # "waiting" \/ stop \/ Over)

\* aclose "stops the owner thread and tears down the dedicated connection"
\* (runtime.py:506): an aclose() that is not cancelled comes to its end.
AcloseReturns ==
  \A c \in Closers : caller[c] = "waiting" ~> caller[c] # "waiting"

=============================================================================
