------------------------ MODULE ManagedStreamProofs ------------------------
(***************************************************************************)
(* Proofs about ManagedStream, for any number of recv and aclose calls,    *)
(* any length of the body and any executor: what a recv that returns None  *)
(* says of the body, that no connection is left open, the refinement of    *)
(* BodyService, and how the owner and the executor come to an end.         *)
(***************************************************************************)

EXTENDS ManagedStream, SequenceTheorems, FiniteSetTheorems, TLAPS

-----------------------------------------------------------------------------
(* The inductive invariant, part by part.                                  *)

\* The connection is open from connect to teardown; the trailer is looked at when
\* a genuine body is there as a whole.
Phases ==
  /\ pc = "connect" => client = "none"
  /\ pc \in { "open", "publish", "peer", "check", "read", "verify", "teardown" } =>
       client = "open"
  /\ pc = "done" => client # "open"
  /\ pc = "verify" /\ genuine => put = BodyLen

\* A coroutine returns after its job, a join after the owner, and a recv is made
\* when the one before it has come back.
Calls ==
  /\ \A c \in Closers : job[c] = "finished" => pc = "done"
  /\ \A j \in Jobs : /\ caller[j] = "idle" => job[j] = "none"
                     /\ caller[j] = "returned" => job[j] = "finished"
  /\ \A r \in Recvs : taken[r] \in Item <=> job[r] = "finished"
  /\ \A q, r \in Recvs :
       q < r /\ caller[r] # "idle" => caller[q] \in { "returned", "cancelled" }

\* The places of an item on its way: the queue, the hands of a thread whose recv
\* still waits, a caller.
InHand(x) ==
  \E r \in Recvs : job[r] = "finished" /\ caller[r] = "waiting" /\ taken[r] = x

Placed(x) == Got(x) \/ InHand(x) \/ Queued(x)

\* A chunk was put, and what ends the body was put last and for a reason.
Sane ==
  /\ \A x \in Item :
       Known(x) =>
         /\ x[1] = "chunk" => x[2] <= put
         /\ x[1] # "chunk" => pc \in { "teardown", "done" }
         /\ x = End => genuine /\ put = BodyLen
  /\ \A x \in Item : Got(x) => \E r \in Recvs : taken[r] = x

\* the place of an item in a body of which p chunks were put
Rank(x, p) == IF x[1] = "chunk" THEN x[2] ELSE p + 1

\* The queue is in order, and behind all that was taken off it.
Ordered ==
  /\ \A i, j \in 1..Len(items) :
       i < j => Rank(items[i], put) < Rank(items[j], put)
  /\ \A r \in Recvs, y \in Item :
       taken[r] \in Item /\ Queued(y) => Rank(taken[r], put) < Rank(y, put)

\* While nothing was taken for nobody, the callers have the first items of the body,
\* and what they lack is still on its way.
Whole ==
  ~Lost =>
    /\ \A i \in 1..Len(received) : Rank(received[i], put) = i
    /\ \A x, y \in Item : Got(x) /\ InHand(y) => Rank(x, put) < Rank(y, put)
    /\ \A k \in 1..put : Placed(Chunk(k))

IInv == TypeOK /\ Phases /\ Calls /\ Sane /\ Ordered /\ Whole

-----------------------------------------------------------------------------
(* Lemmas about items.                                                     *)

\* What items are.
LEMMA Items ==
  /\ End \in Item /\ Fault \in Item /\ End # Fault /\ Nothing \notin Item
  /\ \A k \in 1..BodyLen : Chunk(k) \in Item
  /\ \A x \in Item : \/ x[1] = "chunk" /\ x[2] \in 1..BodyLen /\ x = Chunk(x[2])
                     \/ x[1] # "chunk" /\ x \in { End, Fault }
  /\ \A k : Chunk(k)[1] = "chunk" /\ Chunk(k)[2] = k
  /\ End[1] # "chunk" /\ Fault[1] # "chunk"
BY DEF Item, End, Fault, Chunk, Nothing

\* The types the lemmas below rest on.
LEMMA Types ==
  ASSUME IInv
  PROVE  /\ put \in Nat /\ put <= BodyLen /\ BodyLen \in Nat
         /\ items \in Seq(Item) /\ Len(items) \in Nat
         /\ received \in Seq(Item) /\ Len(received) \in Nat
         /\ \A i \in 1..Len(items) : items[i] \in Item
         /\ \A i \in 1..Len(received) : received[i] \in Item
         /\ taken \in [ Recvs -> Item \cup { Nothing } ]
         /\ job \in [ Jobs -> { "none", "queued", "running", "finished", "dropped" } ]
         /\ caller \in [ Jobs -> { "idle", "waiting", "cancelling", "cancelled",
                                   "returned" } ]
BY Sizes DEF IInv, TypeOK

\* An item's rank is a number, and a terminal item comes last.
LEMMA Ranks ==
  ASSUME IInv, NEW x \in Item
  PROVE  /\ Rank(x, put) \in Nat \ { 0 }
         /\ Known(x) => Rank(x, put) <= put + 1
BY Items, Types DEF IInv, Rank, Sane

\* An item in one of its places was put.
LEMMA PlacedIsKnown ==
  ASSUME IInv, NEW x \in Item, Placed(x) PROVE Known(x)
BY DEF IInv, Sane, Placed, Known, InHand

\* A callers' step that takes nothing: a recv whose thread took an item may be
\* cancelled, and then that item is lost.
LEMMA NothingMoves ==
  ASSUME IInv, UNCHANGED << put, items, taken, received >>,
         \A r \in Recvs : /\ job'[r] = "finished" <=> job[r] = "finished"
                          /\ job[r] = "finished" =>
                               \/ caller'[r] = caller[r]
                               \/ caller'[r] \in { "cancelling", "cancelled" }
  PROVE  Ordered' /\ Whole' /\ \A x \in Item : Known(x)' => Known(x)
<1>1. \A x : /\ Queued(x)' <=> Queued(x)
             /\ Known(x)' <=> Known(x)
             /\ Got(x)' <=> Got(x)
  BY DEF Queued, Known, Got
<1>2. Ordered'
  BY <1>1 DEF IInv, Ordered
<1>3. Whole'
  <2> SUFFICES ASSUME ~Lost' PROVE Whole'
    BY DEF Whole
  <2>1. \A r \in Recvs : job[r] = "finished" => caller'[r] = caller[r]
    BY DEF Lost
  <2>2. ~Lost /\ \A x : InHand(x)' <=> InHand(x)
    BY <2>1 DEF Lost, InHand
  <2> QED
    BY <1>1, <2>2 DEF IInv, Whole, Placed
<1> QED
  BY <1>1, <1>2, <1>3

\* The owner puts an item: the next chunk, or one that ends the body.
LEMMA PutStep ==
  ASSUME IInv, NEW x \in Item, pc \notin { "teardown", "done" },
         items' = Append(items, x),
         \/ x = Chunk(put + 1) /\ put' = put + 1
         \/ x[1] # "chunk" /\ put' = put,
         UNCHANGED << caller, job, taken, received >>
  PROVE  Ordered' /\ Whole' /\ \A y \in Item : Known(y)' => Known(y) \/ y = x
<1>1. /\ put' \in Nat /\ Rank(x, put') = put + 1
      /\ put' = put + 1 => x = Chunk(put + 1)
      /\ put' \in { put, put + 1 }
  BY Items, Types DEF Rank
<1>2. ASSUME NEW y \in Item, Known(y)
      PROVE  /\ Rank(y, put') = Rank(y, put)
             /\ Rank(y, put) \in Nat /\ Rank(y, put) <= put
  BY <1>2, Items, Types DEF IInv, Sane, Rank
<1>3. /\ Len(items') = Len(items) + 1
      /\ \A i \in 1..Len(items) : items'[i] = items[i] /\ items[i] \in Item
      /\ items'[Len(items) + 1] = x
      /\ Len(items) \in Nat
  BY AppendProperties, Types
<1>4. \A y : (InHand(y)' <=> InHand(y)) /\ (Got(y)' <=> Got(y))
  BY DEF InHand, Got
<1>5. \A y : Queued(y)' <=> Queued(y) \/ y = x
  BY <1>3 DEF Queued
<1>6. \A y \in Item : Known(y)' => Known(y) \/ y = x
  BY <1>5 DEF Known
<1>7. Ordered'
  <2>1. ASSUME NEW i \in 1..Len(items'), NEW j \in 1..Len(items'), i < j
        PROVE  Rank(items'[i], put') < Rank(items'[j], put')
    <3>1. i \in 1..Len(items) /\ items'[i] = items[i] /\ Known(items[i])
      BY <1>3, <2>1 DEF Known, Queued
    <3>2. CASE j \in 1..Len(items)
      <4>1. items'[j] = items[j] /\ Known(items[j])
        BY <1>3, <3>2 DEF Known, Queued
      <4>2. Rank(items[i], put) < Rank(items[j], put)
        BY <2>1, <3>1, <3>2 DEF IInv, Ordered
      <4> QED
        BY <1>2, <1>3, <3>1, <3>2, <4>1, <4>2
    <3>3. CASE j = Len(items) + 1
      BY <1>1, <1>2, <1>3, <3>1, <3>3, Types
    <3> QED
      BY <1>3, <3>2, <3>3
  <2>2. ASSUME NEW r \in Recvs, NEW z \in Item, taken[r] \in Item, Queued(z)'
        PROVE  Rank(taken[r], put') < Rank(z, put')
    <3>1. Known(taken[r])
      BY DEF Known
    <3>2. CASE Queued(z)
      <4>1. Rank(taken[r], put) < Rank(z, put) /\ Known(z)
        BY <2>2, <3>2 DEF IInv, Ordered, Known
      <4> QED
        BY <1>2, <2>2, <3>1, <4>1
    <3>3. CASE z = x
      BY <1>1, <1>2, <2>2, <3>1, <3>3, Types
    <3> QED
      BY <1>5, <2>2, <3>2, <3>3
  <2> QED
    BY <2>1, <2>2 DEF Ordered
<1>8. Whole'
  <2> SUFFICES ASSUME ~Lost' PROVE Whole'
    BY DEF Whole
  <2>0. ~Lost
    BY DEF Lost
  <2>1. ASSUME NEW i \in 1..Len(received) PROVE Rank(received[i], put') = i
    <3>1. received[i] \in Item /\ Known(received[i])
      BY Types, PlacedIsKnown DEF Placed, Got
    <3>2. Rank(received[i], put) = i
      BY <2>0 DEF IInv, Whole
    <3> QED
      BY <1>2, <3>1, <3>2
  <2>2. ASSUME NEW y \in Item, NEW z \in Item, Got(y)', InHand(z)'
        PROVE  Rank(y, put') < Rank(z, put')
    <3>1. Got(y) /\ Known(y) /\ InHand(z) /\ Known(z)
      BY <1>4, <2>2, PlacedIsKnown DEF Placed
    <3>2. Rank(y, put) < Rank(z, put)
      BY <2>0, <3>1 DEF IInv, Whole
    <3> QED
      BY <1>2, <3>1, <3>2
  <2>3. ASSUME NEW k \in 1..put' PROVE Placed(Chunk(k))'
    <3>1. CASE k \in 1..put
      <4>1. Placed(Chunk(k))
        BY <2>0, <3>1 DEF IInv, Whole
      <4> QED
        BY <1>4, <1>5, <4>1 DEF Placed
    <3>2. CASE k = put + 1 /\ put' = put + 1
      BY <1>1, <1>5, <3>2 DEF Placed
    <3> QED
      BY <1>1, <3>1, <3>2, Types
  <2> QED
    BY <2>1, <2>2, <2>3 DEF Whole
<1> QED
  BY <1>6, <1>7, <1>8

\* An executor thread takes the first item for a recv.
LEMMA GetStep ==
  ASSUME IInv, NEW r \in Recvs, GetItem(r)
  PROVE  Ordered' /\ Whole' /\ \A x \in Item : Known(x)' => Known(x)
<1> SUFFICES ASSUME NEW h, h = Head(items)
             PROVE  Ordered' /\ Whole' /\ \A x \in Item : Known(x)' => Known(x)
  OBVIOUS
<1>1. /\ items' = Tail(items) /\ items # << >>
      /\ taken' = [ taken EXCEPT ![r] = h ] /\ job' = [ job EXCEPT ![r] = "finished" ]
      /\ job[r] = "running" /\ UNCHANGED << put, caller, received >>
  BY DEF GetItem, Finish
<1>2. /\ h \in Item /\ h = items[1] /\ Len(items) \in Nat \ { 0 }
      /\ Len(items') = Len(items) - 1
      /\ \A i \in 1..Len(items') : items'[i] = items[i + 1]
  BY <1>1, Types, HeadTailProperties
<1>3. /\ taken'[r] = h /\ job'[r] = "finished"
      /\ \A q \in Recvs : q # r => taken'[q] = taken[q] /\ job'[q] = job[q]
  BY <1>1, Types DEF Jobs
<1>4. \A x : Queued(x)' => Queued(x)
  BY <1>2 DEF Queued
<1>5. Queued(h) /\ \A x : Queued(x) => Queued(x)' \/ x = h
  <2>1. Queued(h)
    BY <1>2 DEF Queued
  <2>2. ASSUME NEW x, Queued(x), x # h PROVE Queued(x)'
    <3>1. PICK i \in 1..Len(items) : items[i] = x
      BY <2>2 DEF Queued
    <3>2. i - 1 \in 1..Len(items') /\ items'[i - 1] = x
      BY <1>2, <2>2, <3>1
    <3> QED
      BY <3>2 DEF Queued
  <2> QED
    BY <2>1, <2>2
<1>6. \A x : (\E q \in Recvs : taken'[q] = x) => (\E q \in Recvs : taken[q] = x) \/ x = h
  BY <1>3
<1>7. \A x : Got(x)' <=> Got(x)
  BY <1>1 DEF Got
<1>8. ASSUME NEW x \in Item, Queued(x)' PROVE Rank(h, put) < Rank(x, put)
  <2>1. PICK i \in 1..Len(items') : items'[i] = x
    BY <1>8 DEF Queued
  <2>2. i + 1 \in 1..Len(items) /\ items[i + 1] = x /\ 1 < i + 1 /\ 1 \in 1..Len(items)
    BY <1>2, <2>1
  <2> QED
    BY <1>2, <2>2 DEF IInv, Ordered
<1>9. Ordered'
  <2>1. ASSUME NEW i \in 1..Len(items'), NEW j \in 1..Len(items'), i < j
        PROVE  Rank(items'[i], put) < Rank(items'[j], put)
    <3>1. /\ i + 1 \in 1..Len(items) /\ j + 1 \in 1..Len(items) /\ i + 1 < j + 1
          /\ items'[i] = items[i + 1] /\ items'[j] = items[j + 1]
      BY <1>2, <2>1
    <3> QED
      BY <3>1 DEF IInv, Ordered
  <2>2. ASSUME NEW q \in Recvs, NEW y \in Item, taken'[q] \in Item, Queued(y)'
        PROVE  Rank(taken'[q], put) < Rank(y, put)
    BY <1>3, <1>4, <1>8, <2>2 DEF IInv, Ordered
  <2> QED
    BY <1>1, <2>1, <2>2 DEF Ordered
<1>10. Whole'
  <2> SUFFICES ASSUME ~Lost' PROVE Whole'
    BY DEF Whole
  <2>1. ~Lost
    BY <1>1, <1>3 DEF Lost
  <2>2. caller[r] = "waiting"
    <3>1. caller'[r] \notin { "cancelling", "cancelled" }
      BY <1>3 DEF Lost
    <3>2. caller[r] \notin { "idle", "returned" }
      BY <1>1 DEF IInv, Calls, Jobs
    <3> QED
      BY <1>1, <3>1, <3>2, Types DEF Jobs
  <2>3. \A x : InHand(x)' <=> InHand(x) \/ x = h
    BY <1>1, <1>3, <2>2 DEF InHand
  <2>4. ASSUME NEW x \in Item, NEW y \in Item, Got(x), InHand(y)'
        PROVE  Rank(x, put) < Rank(y, put)
    <3>1. CASE InHand(y)
      BY <2>1, <2>4, <3>1 DEF IInv, Whole
    <3>2. CASE y = h
      BY <1>5, <2>4, <3>2 DEF IInv, Sane, Ordered
    <3> QED
      BY <2>3, <2>4, <3>1, <3>2
  <2>5. ASSUME NEW k \in 1..put PROVE Placed(Chunk(k))'
    <3>1. Placed(Chunk(k))
      BY <2>1 DEF IInv, Whole
    <3> QED
      BY <1>5, <1>7, <2>3, <3>1 DEF Placed
  <2> QED
    BY <1>1, <1>7, <2>1, <2>4, <2>5 DEF IInv, Whole
<1> QED
  BY <1>4, <1>5, <1>6, <1>9, <1>10 DEF Known

\* A recv returns the item its thread took: the next of the body.
LEMMA TellStep ==
  ASSUME IInv, NEW r \in Recvs, Tell(r)
  PROVE  Ordered' /\ Whole' /\ \A x \in Item : Known(x)' => Known(x)
<1> SUFFICES ASSUME NEW h, h = taken[r], NEW n, n = Len(received)
             PROVE  Ordered' /\ Whole' /\ \A x \in Item : Known(x)' => Known(x)
  OBVIOUS
<1>1. /\ UNCHANGED << put, items, taken, job >>
      /\ caller[r] = "waiting" /\ caller' = [ caller EXCEPT ![r] = "returned" ]
      /\ job[r] = "finished" /\ received' = Append(received, h)
  BY DEF Tell
<1>2. h \in Item
  BY <1>1 DEF IInv, Calls
<1>3. /\ n \in Nat /\ Len(received') = n + 1 /\ received'[n + 1] = h
      /\ \A i \in 1..n : received'[i] = received[i]
  BY <1>1, <1>2, Types, AppendProperties
<1>4. \A x : /\ Queued(x)' <=> Queued(x)
             /\ Known(x)' <=> Known(x)
  BY <1>1 DEF Queued, Known
<1>5. Ordered'
  BY <1>1, <1>4 DEF IInv, Ordered
<1>6. Whole'
  <2> SUFFICES ASSUME ~Lost' PROVE Whole'
    BY DEF Whole
  <2>1. /\ caller'[r] = "returned"
        /\ \A q \in Recvs : q # r => caller'[q] = caller[q]
    BY <1>1, Types DEF Jobs
  <2>2. ~Lost
    BY <1>1, <2>1 DEF Lost
  <2>3. ASSUME NEW q \in Recvs, q # r PROVE caller[q] # "waiting"
    BY <1>1, <2>3 DEF IInv, Calls, Recvs
  <2>4. InHand(h) /\ \A x : InHand(x) => x = h
    BY <1>1, <2>3 DEF InHand
  <2>5. \A x : ~InHand(x)'
    BY <2>1, <2>3 DEF InHand
  <2>6. \A x : Got(x)' <=> Got(x) \/ x = h
    BY <1>3 DEF Got
  <2>7. Rank(h, put) \in Nat \ { 0 } /\ Rank(h, put) <= put + 1 /\ put \in Nat
    BY <1>2, Types, Ranks DEF Known
  <2>8. Rank(h, put) > n
    <3>1. CASE n = 0
      BY <2>7, <3>1
    <3>2. CASE n # 0
      <4>1. n \in 1..n /\ Got(received[n]) /\ received[n] \in Item
        BY <1>3, <3>2, Types DEF Got
      <4>2. Rank(received[n], put) = n /\ Rank(received[n], put) < Rank(h, put)
        BY <1>2, <2>2, <2>4, <4>1 DEF IInv, Whole
      <4> QED
        BY <1>3, <2>7, <4>2
    <3> QED
      BY <3>1, <3>2
  <2>9. Rank(h, put) <= n + 1
    <3> SUFFICES ASSUME Rank(h, put) > n + 1, NEW c, c = Chunk(n + 1)
                 PROVE  FALSE
      BY <1>3, <2>7
    <3>1. n + 1 \in 1..put /\ Placed(c)
      BY <1>3, <2>2, <2>7 DEF IInv, Whole
    <3>2. c \in Item /\ Rank(c, put) = n + 1
      BY <1>3, <3>1, Items, Types DEF Rank
    <3>3. ~Got(c)
      BY <1>3, <2>2, <3>2 DEF Got, IInv, Whole
    <3>4. ~InHand(c)
      BY <1>3, <2>4, <2>7, <3>2
    <3>5. ~Queued(c)
      BY <1>2, <1>3, <2>7, <3>2 DEF IInv, Ordered
    <3> QED
      BY <3>1, <3>3, <3>4, <3>5 DEF Placed
  <2>10. ASSUME NEW i \in 1..Len(received') PROVE Rank(received'[i], put) = i
    <3>1. CASE i = n + 1
      BY <1>3, <2>7, <2>8, <2>9, <3>1
    <3>2. CASE i \in 1..n
      BY <1>3, <2>2, <3>2 DEF IInv, Whole
    <3> QED
      BY <1>3, <3>1, <3>2
  <2>11. ASSUME NEW k \in 1..put PROVE Placed(Chunk(k))'
    <3>1. Placed(Chunk(k))
      BY <2>2 DEF IInv, Whole
    <3> QED
      BY <1>4, <2>4, <2>6, <3>1 DEF Placed
  <2> QED
    BY <1>1, <2>5, <2>10, <2>11 DEF Whole
<1> QED
  BY <1>4, <1>5, <1>6

\* What is said of the items stays true while none is added to them.
LEMMA SaneMoves ==
  ASSUME IInv, UNCHANGED genuine, put' \in Nat, put <= put', put' <= BodyLen,
         pc \in { "teardown", "done" } => pc' \in { "teardown", "done" },
         \A x \in Item : Known(x)' => Known(x),
         \A x \in Item : Got(x)' => \E r \in Recvs : taken'[r] = x
  PROVE  Sane'
BY Items, Types DEF IInv, Sane

-----------------------------------------------------------------------------
(* The types, action by action.                                            *)

LEMMA TypeStep == IInv /\ [Next]_vars => TypeOK'
<1> SUFFICES ASSUME IInv, TypeOK, [Next]_vars PROVE TypeOK'
  BY DEF IInv
<1>0. \A x \in { End, Fault } : Append(items, x) \in Seq(Item)
  BY Items, Types, AppendProperties
<1> USE Sizes DEF TypeOK, Ready!TypeOK, handshake, native, readers
<1>1. CASE StreamReturns
  BY <1>1 DEF StreamReturns, Ready!Resume
<1>2. CASE CancelStream
  BY <1>2 DEF CancelStream, Ready!Cancel
<1>3. CASE PropagateCancel
  BY <1>3 DEF PropagateCancel, Ready!Propagate
<1>4. ASSUME NEW r \in Recvs, Recv(r) PROVE TypeOK'
  BY <1>4, AppendProperties DEF Recv, Submit, Jobs
<1>5. ASSUME NEW c \in Closers, Aclose(c) PROVE TypeOK'
  BY <1>5, AppendProperties DEF Aclose, Submit, Jobs
<1>6. ASSUME NEW j \in Jobs, CancelCall(j) PROVE TypeOK'
  BY <1>6 DEF CancelCall
<1>7. ASSUME NEW j \in Jobs, PropagateCall(j) PROVE TypeOK'
  BY <1>7 DEF PropagateCall
<1>8. ASSUME NEW j \in Jobs, Tell(j) PROVE TypeOK'
  <2>1. /\ UNCHANGED << handshake, genuine, pc, native, stop, put, items, job, jobs,
                        taken >>
        /\ caller' = [ caller EXCEPT ![j] = "returned" ]
    BY <1>8 DEF Tell
  <2>2. received' \in Seq(Item)
    <3>1. CASE j \in Recvs
      <4>1. taken[j] \in Item
        BY <1>8, <3>1 DEF Tell, IInv, Calls
      <4> QED
        BY <1>8, <3>1, <4>1, AppendProperties DEF Tell
    <3>2. CASE j \notin Recvs
      BY <1>8, <3>2 DEF Tell
    <3> QED
      BY <3>1, <3>2
  <2> QED
    BY <2>1, <2>2
<1>9. CASE StartJob
  <2>1. jobs' \in Seq(Jobs) /\ Head(jobs) \in Jobs
    BY <1>9, HeadTailProperties DEF StartJob
  <2> QED
    BY <1>9, <2>1 DEF StartJob
<1>10. ASSUME NEW r \in Recvs, GetItem(r) PROVE TypeOK'
  <2>1. items' \in Seq(Item) /\ Head(items) \in Item
    BY <1>10, HeadTailProperties DEF GetItem
  <2>2. taken' \in [ Recvs -> Item \cup { Nothing } ]
    BY <1>10, <2>1 DEF GetItem
  <2>3. job' \in [ Jobs -> { "none", "queued", "running", "finished", "dropped" } ]
    BY <1>10 DEF GetItem, Finish
  <2> QED
    BY <1>10, <2>1, <2>2, <2>3 DEF GetItem, Finish
<1>11. ASSUME NEW c \in Closers, Join(c) PROVE TypeOK'
  <2>1. job' \in [ Jobs -> { "none", "queued", "running", "finished", "dropped" } ]
    BY <1>11 DEF Join, Finish
  <2> QED
    BY <1>11, <2>1 DEF Join, Finish
<1>12. CASE Connect
  BY <1>12 DEF Connect, Ready!Failed
<1>13. CASE OpenStream
  BY <1>13 DEF OpenStream, Ready!Failed
<1>14. CASE Publish
  BY <1>14 DEF Publish
<1>15. CASE ReadPeer
  <2>1. items' \in Seq(Item)
    BY <1>0, <1>15 DEF ReadPeer, Put
  <2> QED
    BY <1>15, <2>1 DEF ReadPeer
<1>16. CASE CheckStop
  BY <1>16 DEF CheckStop
<1>17. CASE Read
  <2>1. PICK r \in Reads :
           /\ put' = r.chunks
           /\ items' = IF r.chunks > put THEN Put(Chunk(r.chunks)) ELSE items
           /\ pc' = IF r.ended THEN "verify" ELSE "check"
    BY <1>17 DEF Read
  <2>2. put' \in 0..BodyLen /\ put' \in { put, put + 1 }
    BY <2>1 DEF Reads
  <2>3. items' \in Seq(Item)
    BY <2>1, <2>2, Items, AppendProperties DEF Put
  <2> QED
    BY <1>17, <2>1, <2>2, <2>3 DEF Read
<1>18. CASE ReadFails
  <2>1. items' \in Seq(Item)
    BY <1>0, <1>18 DEF ReadFails, Put
  <2> QED
    BY <1>18, <2>1 DEF ReadFails
<1>19. CASE Verify
  <2>1. items' \in Seq(Item)
    BY <1>0, <1>19 DEF Verify, Put
  <2> QED
    BY <1>19, <2>1 DEF Verify
<1>20. CASE Teardown
  BY <1>20 DEF Teardown
<1>21. CASE UNCHANGED vars
  BY <1>21 DEF vars
<1> QED
  BY <1>1, <1>2, <1>3, <1>4, <1>5, <1>6, <1>7, <1>8, <1>9, <1>10, <1>11, <1>12, <1>13,
     <1>14, <1>15, <1>16, <1>17, <1>18, <1>19, <1>20, <1>21
  DEF Next, OwnerStep, LoopStep, ExecutorStep

-----------------------------------------------------------------------------
(* The invariant holds at first, and every step keeps it.                  *)

LEMMA Initially == Init => IInv
<1> SUFFICES ASSUME Init PROVE IInv
  OBVIOUS
<1> USE DEF Init
<1>1. TypeOK
  <2>1. Ready!TypeOK
    BY DEF Ready!Init, Ready!TypeOK
  <2>2. put \in 0..BodyLen /\ items \in Seq(Item) /\ jobs \in Seq(Jobs)
        /\ received \in Seq(Item)
    BY Sizes
  <2> QED
    BY <2>1, <2>2 DEF TypeOK
<1>2. Phases
  BY DEF Phases
<1>3. Calls
  BY Items, JobKinds DEF Calls, Jobs
<1>4. \A x \in Item : ~Got(x) /\ ~Known(x)
  BY Items DEF Got, Known, Queued
<1>5. Sane
  BY <1>4 DEF Sane
<1>6. Ordered
  BY <1>4 DEF Ordered, Known
<1>7. Whole
  BY <1>4 DEF Whole
<1> QED
  BY <1>1, <1>2, <1>3, <1>5, <1>6, <1>7 DEF IInv

\* A step that puts, takes and returns no item.
LEMMA Quietly ==
  ASSUME IInv, TypeOK', Phases', Calls',
         UNCHANGED << genuine, put, items, taken, received >>,
         pc \in { "teardown", "done" } => pc' \in { "teardown", "done" },
         \A r \in Recvs : /\ job'[r] = "finished" <=> job[r] = "finished"
                          /\ job[r] = "finished" =>
                               \/ caller'[r] = caller[r]
                               \/ caller'[r] \in { "cancelling", "cancelled" }
  PROVE  IInv'
<1>1. Ordered' /\ Whole' /\ \A x \in Item : Known(x)' => Known(x)
  BY NothingMoves
<1>2. \A x \in Item : Got(x)' => \E r \in Recvs : taken'[r] = x
  BY DEF IInv, Sane, Got
<1>3. Sane'
  BY <1>1, <1>2, SaneMoves, Types
<1> QED
  BY <1>1, <1>3 DEF IInv

\* The coroutines that await the stream's head touch none of it.
LEMMA HeadSteps ==
  ASSUME IInv, TypeOK', StreamReturns \/ CancelStream \/ PropagateCancel
  PROVE  IInv'
<1>1. UNCHANGED << genuine, pc, client, put, items, caller, job, taken, received >>
  BY DEF StreamReturns, CancelStream, PropagateCancel, native, readers
<1>2. Phases' /\ Calls'
  BY <1>1 DEF IInv, Phases, Calls
<1> QED
  BY <1>1, <1>2, Quietly

\* A recv or an aclose is called.
LEMMA SubmitSteps ==
  ASSUME IInv, TypeOK', NEW j \in Jobs, Submit(j),
         \A r \in Recvs : j = r =>
           \A q \in 1..r-1 : caller[q] \in { "returned", "cancelled" },
         UNCHANGED << genuine, pc, client, put, items, taken, received >>
  PROVE  IInv'
<1>1. /\ caller[j] = "idle" /\ job[j] = "none"
      /\ caller'[j] = "waiting" /\ job'[j] = "queued"
      /\ \A k \in Jobs : k # j => caller'[k] = caller[k] /\ job'[k] = job[k]
  BY Types DEF Submit, IInv, Calls
<1>2. Phases'
  BY DEF IInv, Phases
<1>3. Calls'
  <2>1. \A k \in Jobs : /\ job'[k] = "finished" <=> job[k] = "finished"
                        /\ caller'[k] = "idle" => job'[k] = "none"
                        /\ caller'[k] = "returned" => job'[k] = "finished"
    BY <1>1 DEF IInv, Calls
  <2>2. ASSUME NEW q \in Recvs, NEW r \in Recvs, q < r, caller'[r] # "idle"
        PROVE  caller'[q] \in { "returned", "cancelled" }
    <3>1. CASE r = j
      <4>1. q \in 1..r-1 /\ q # j
        BY <2>2, <3>1 DEF Recvs
      <4> QED
        BY <1>1, <3>1, <4>1 DEF Jobs
    <3>2. CASE r # j
      <4>1. caller[q] \in { "returned", "cancelled" }
        BY <1>1, <2>2, <3>2 DEF IInv, Calls, Jobs
      <4> QED
        BY <1>1, <4>1 DEF Jobs
    <3> QED
      BY <3>1, <3>2
  <2> QED
    BY <2>1, <2>2 DEF IInv, Calls, Jobs
<1>4. \A r \in Recvs : /\ job'[r] = "finished" <=> job[r] = "finished"
                       /\ job[r] = "finished" => caller'[r] = caller[r]
  BY <1>1 DEF Jobs
<1> QED
  BY <1>2, <1>3, <1>4, Quietly

\* A call is cancelled, and its job dropped; a thread starts a job.
LEMMA CallSteps ==
  ASSUME IInv, TypeOK', (\E j \in Jobs : CancelCall(j) \/ PropagateCall(j)) \/ StartJob
  PROVE  IInv'
<1>1. UNCHANGED << genuine, pc, client, put, items, taken, received >>
  BY DEF CancelCall, PropagateCall, StartJob, native
<1>2. \A j \in Jobs : /\ \/ caller'[j] = caller[j]
                         \/ caller[j] = "waiting" /\ caller'[j] = "cancelling"
                         \/ caller[j] = "cancelling" /\ caller'[j] = "cancelled"
                      /\ \/ job'[j] = job[j]
                         \/ /\ job[j] = "queued"
                            /\ job'[j] \in { "dropped", "running" }
  <2>1. ASSUME NEW j \in Jobs, CancelCall(j) \/ PropagateCall(j)
        PROVE  \A k \in Jobs :
                 /\ \/ caller'[k] = caller[k]
                    \/ caller[k] = "waiting" /\ caller'[k] = "cancelling"
                    \/ caller[k] = "cancelling" /\ caller'[k] = "cancelled"
                 /\ \/ job'[k] = job[k]
                    \/ job[k] = "queued" /\ job'[k] \in { "dropped", "running" }
    BY <2>1, Types DEF CancelCall, PropagateCall
  <2>2. CASE StartJob
    BY <2>2, Types DEF StartJob
  <2> QED
    BY <2>1, <2>2
<1>3. Phases'
  BY <1>1 DEF IInv, Phases
<1>4. Calls'
  BY <1>1, <1>2 DEF IInv, Calls, Jobs
<1> QED
  BY <1>1, <1>2, <1>3, <1>4, Quietly DEF Jobs

\* The owner connects, opens, publishes, looks at stop or tears down.
LEMMA QuietOwnerSteps ==
  ASSUME IInv, TypeOK', Connect \/ OpenStream \/ Publish \/ CheckStop \/ Teardown
  PROVE  IInv'
<1>1. /\ UNCHANGED << genuine, put, items, caller, job, taken, received >>
      /\ pc # "done" /\ (pc = "teardown" => pc' = "done")
  BY DEF Connect, OpenStream, Publish, CheckStop, Teardown, readers
<1>2. Phases'
  BY <1>1 DEF IInv, Phases, Connect, OpenStream, Publish, CheckStop, Teardown, native
<1>3. Calls'
  BY <1>1 DEF IInv, Calls
<1> QED
  BY <1>1, <1>2, <1>3, Quietly

\* The owner puts an item, or reads to the end of the body without one.
LEMMA PuttingSteps ==
  ASSUME IInv, TypeOK', ReadPeer \/ Read \/ ReadFails \/ Verify PROVE IInv'
<1>1. /\ UNCHANGED << genuine, client, caller, job, taken, received >>
      /\ pc \in { "peer", "read", "verify" }
      /\ pc' \in { "check", "verify", "teardown" }
      /\ put' \in Nat /\ put <= put' /\ put' <= BodyLen
  BY Types DEF ReadPeer, Read, Reads, ReadFails, Verify, readers, native
<1>2. pc' = "verify" /\ genuine => put' = BodyLen
  BY <1>1 DEF ReadPeer, Read, Reads, ReadFails, Verify
<1>3. Phases'
  BY <1>1, <1>2 DEF IInv, Phases
<1>4. Calls'
  BY <1>1 DEF IInv, Calls
<1>5. \/ UNCHANGED << put, items >>
      \/ /\ items' = Append(items, Chunk(put + 1))
         /\ put' = put + 1 /\ put + 1 \in 1..BodyLen
      \/ items' = Append(items, Fault) /\ put' = put /\ pc' = "teardown"
      \/ /\ items' = Append(items, End) /\ put' = put /\ pc' = "teardown"
         /\ genuine /\ put = BodyLen
  BY <1>1, Types DEF IInv, Phases, ReadPeer, Read, Reads, ReadFails, Verify, Put,
                     TrailerVerifies
<1>6. CASE UNCHANGED << put, items >>
  BY <1>1, <1>3, <1>4, <1>6, Quietly
<1>7. ASSUME NEW x \in Item, items' = Append(items, x),
             \/ x = Chunk(put + 1) /\ put' = put + 1
             \/ x[1] # "chunk" /\ put' = put /\ pc' = "teardown",
             x = End => genuine /\ put' = BodyLen
      PROVE  IInv'
  <2>1. Ordered' /\ Whole' /\ \A y \in Item : Known(y)' => Known(y) \/ y = x
    BY <1>1, <1>7, PutStep
  <2>2. \A y \in Item : Got(y)' => \E r \in Recvs : taken'[r] = y
    BY <1>1 DEF IInv, Sane, Got
  <2>3. Sane'
    BY <1>1, <1>7, <2>1, <2>2, Items, Types DEF IInv, Sane
  <2> QED
    BY <1>3, <1>4, <2>1, <2>3 DEF IInv
<1> QED
  BY <1>5, <1>6, <1>7, Items

\* A thread of the executor has taken an item.
LEMMA GetSteps == ASSUME IInv, TypeOK', NEW r \in Recvs, GetItem(r) PROVE IInv'
<1>1. /\ UNCHANGED << genuine, pc, client, put, caller, received >>
      /\ job[r] = "running" /\ job' = [ job EXCEPT ![r] = "finished" ]
      /\ taken' = [ taken EXCEPT ![r] = Head(items) ] /\ Head(items) \in Item
  BY Types, HeadTailProperties DEF GetItem, Finish, native
<1>2. Ordered' /\ Whole' /\ \A x \in Item : Known(x)' => Known(x)
  BY GetStep
<1>3. /\ taken'[r] \in Item /\ job'[r] = "finished" /\ r \in Jobs /\ r \notin Closers
      /\ \A q \in Recvs : q # r => taken'[q] = taken[q]
      /\ \A j \in Jobs : j # r => job'[j] = job[j]
  BY <1>1, Types, JobKinds DEF Jobs
<1>4. Phases'
  BY <1>1 DEF IInv, Phases
<1>5. Calls'
  BY <1>1, <1>3 DEF IInv, Calls, Jobs
<1>6. \A x \in Item : Got(x)' => \E q \in Recvs : taken'[q] = x
  <2> SUFFICES ASSUME NEW x \in Item, Got(x) PROVE \E q \in Recvs : taken'[q] = x
    BY <1>1 DEF Got
  <2>1. PICK q \in Recvs : taken[q] = x
    BY DEF IInv, Sane
  <2>2. q # r
    BY <1>1, <2>1 DEF IInv, Calls
  <2> QED
    BY <1>3, <2>1, <2>2
<1>7. Sane'
  BY <1>1, <1>2, <1>6, SaneMoves, Types
<1> QED
  BY <1>2, <1>4, <1>5, <1>7 DEF IInv

\* The join of the owner thread has ended.
LEMMA JoinSteps == ASSUME IInv, TypeOK', NEW c \in Closers, Join(c) PROVE IInv'
<1>1. /\ UNCHANGED << genuine, pc, client, put, items, caller, taken, received >>
      /\ job[c] = "running" /\ pc = "done"
      /\ \A j \in Jobs : job'[j] = IF j = c THEN "finished" ELSE job[j]
  BY Types DEF Join, Finish, Joinable, native, Jobs
<1>2. Phases'
  BY <1>1 DEF IInv, Phases
<1>3. Calls'
  BY <1>1, JobKinds DEF IInv, Calls, Jobs
<1>4. \A r \in Recvs : job'[r] = job[r]
  BY <1>1, JobKinds DEF Jobs
<1> QED
  BY <1>1, <1>2, <1>3, <1>4, Quietly

\* The loop hands a result to its caller.
LEMMA TellSteps == ASSUME IInv, TypeOK', NEW j \in Jobs, Tell(j) PROVE IInv'
<1>1. /\ UNCHANGED << genuine, pc, client, put, items, job, taken >>
      /\ job[j] = "finished" /\ caller[j] = "waiting"
      /\ received' = IF j \in Recvs THEN Append(received, taken[j]) ELSE received
      /\ \A k \in Jobs : caller'[k] = IF k = j THEN "returned" ELSE caller[k]
  BY Types DEF Tell, native
<1>2. Phases'
  BY <1>1 DEF IInv, Phases
<1>3. Calls'
  BY <1>1 DEF IInv, Calls, Jobs
<1>4. CASE j \in Recvs
  <2>1. Ordered' /\ Whole' /\ \A x \in Item : Known(x)' => Known(x)
    BY <1>4, TellStep
  <2>2. taken[j] \in Item
    BY <1>1, <1>4 DEF IInv, Calls
  <2>3. /\ Len(received') = Len(received) + 1 /\ received'[Len(received) + 1] = taken[j]
        /\ \A i \in 1..Len(received) : received'[i] = received[i]
    BY <1>1, <1>4, <2>2, Types, AppendProperties
  <2>4. ASSUME NEW x \in Item, Got(x)' PROVE Got(x) \/ x = taken[j]
    <3>1. PICK i \in 1..Len(received') : received'[i] = x
      BY <2>4 DEF Got
    <3>2. i = Len(received) + 1 \/ i \in 1..Len(received)
      BY <2>3, Types
    <3> QED
      BY <2>3, <3>1, <3>2 DEF Got
  <2>5. \A x \in Item : Got(x)' => \E r \in Recvs : taken'[r] = x
    BY <1>1, <1>4, <2>4 DEF IInv, Sane
  <2>6. Sane'
    BY <1>1, <2>1, <2>5, SaneMoves, Types
  <2> QED
    BY <1>2, <1>3, <2>1, <2>6 DEF IInv
<1>5. CASE j \notin Recvs
  <2>1. \A r \in Recvs : caller'[r] = caller[r]
    BY <1>1, <1>5 DEF Jobs
  <2> QED
    BY <1>1, <1>2, <1>3, <1>5, <2>1, Quietly
<1> QED
  BY <1>4, <1>5

\* Nothing happens.
LEMMA Stuttering == ASSUME IInv, TypeOK', UNCHANGED vars PROVE IInv'
<1>1. Phases' /\ Calls'
  BY DEF IInv, Phases, Calls, vars
<1> QED
  BY <1>1, Quietly DEF vars

LEMMA Step == IInv /\ [Next]_vars => IInv'
<1> SUFFICES ASSUME IInv, [Next]_vars PROVE IInv'
  OBVIOUS
<1>1. TypeOK'
  BY TypeStep
<1>2. CASE OwnerStep
  BY <1>1, <1>2, QuietOwnerSteps, PuttingSteps DEF OwnerStep
<1>3. ASSUME NEW r \in Recvs, Recv(r) PROVE IInv'
  <2>1. /\ r \in Jobs /\ Submit(r)
        /\ \A q \in 1..r-1 : caller[q] \in { "returned", "cancelled" }
        /\ UNCHANGED << genuine, pc, client, put, items, taken, received >>
    BY <1>3 DEF Recv, native, Jobs
  <2> QED
    BY <1>1, <2>1, SubmitSteps
<1>4. ASSUME NEW c \in Closers, Aclose(c) PROVE IInv'
  <2>1. /\ c \in Jobs /\ Submit(c) /\ c \notin Recvs
        /\ UNCHANGED << genuine, pc, client, put, items, taken, received >>
    BY <1>4, JobKinds DEF Aclose, native, Jobs
  <2> QED
    BY <1>1, <2>1, SubmitSteps
<1>5. CASE LoopStep
  BY <1>1, <1>3, <1>4, <1>5, HeadSteps, CallSteps, TellSteps DEF LoopStep
<1>6. CASE ExecutorStep
  BY <1>1, <1>6, CallSteps, GetSteps, JoinSteps DEF ExecutorStep
<1>7. CASE UNCHANGED vars
  BY <1>1, <1>7, Stuttering
<1> QED
  BY <1>2, <1>5, <1>6, <1>7 DEF Next

-----------------------------------------------------------------------------
(* The theorems.                                                           *)

\* The inductive invariant holds in every reachable state.
THEOREM Invariance == Spec => []IInv
BY Initially, Step, PTL DEF Spec

\* Every variable keeps its type, for any calls, body and executor.
THEOREM TypeCorrect == Spec => []TypeOK
<1>1. IInv => TypeOK
  BY DEF IInv
<1> QED
  BY <1>1, Invariance, PTL

\* A recv returns None only for a body the peer signed and the owner put whole
\* (runtime.py:489-491).
THEOREM EndsAreAuthentic == Spec => []EndIsAuthentic
<1>1. IInv => EndIsAuthentic
  BY Items DEF IInv, Sane, Known, EndIsAuthentic
<1> QED
  BY <1>1, Invariance, PTL

\* When a recv returns None and no item was taken for a cancelled one, what the
\* recv calls returned is the body: every chunk once and in order, then None.
THEOREM UncancelledBodiesAreWhole == Spec => []UncancelledBodyIsWhole
<1>1. ASSUME IInv PROVE UncancelledBodyIsWhole
  <2> SUFFICES ASSUME ~Lost, Got(End) PROVE received = Body
    BY DEF UncancelledBodyIsWhole, BodyIsWhole
  <2>1. /\ \A i \in 1..Len(received) : Rank(received[i], put) = i
        /\ \A i \in 1..Len(received) : received[i] \in Item
        /\ received \in Seq(Item) /\ Len(received) \in Nat /\ BodyLen \in Nat
    BY <1>1, Types DEF IInv, Whole
  <2>2. put = BodyLen /\ Rank(End, put) = BodyLen + 1
    BY <1>1, Items DEF IInv, Sane, Known, Rank
  <2>3. PICK n \in 1..Len(received) : received[n] = End
    BY DEF Got
  <2>4. n = BodyLen + 1
    BY <2>1, <2>2, <2>3
  <2>5. \A i \in 1..Len(received) : Known(received[i])
    BY <1>1, <2>1 DEF IInv, Sane, Known, Got
  <2>6. \A i \in 1..Len(received) : i <= BodyLen + 1
    BY <1>1, <2>1, <2>2, <2>5, Ranks
  <2>7. Len(received) = BodyLen + 1
    BY <2>1, <2>3, <2>4, <2>6
  <2>8. ASSUME NEW i \in 1..BodyLen PROVE received[i] = Chunk(i)
    <3>1. received[i] \in Item /\ Rank(received[i], put) = i /\ i # put + 1
      BY <2>1, <2>2, <2>7
    <3> QED
      BY <3>1, Items DEF Rank
  <2>9. \A i \in 1..BodyLen + 1 :
           received[i] = IF i = BodyLen + 1 THEN End ELSE Chunk(i)
    BY <2>1, <2>3, <2>4, <2>8
  <2>10. received = [ i \in 1..Len(received) |-> received[i] ]
    BY <2>1
  <2> QED
    BY <2>7, <2>9, <2>10 DEF Body
<1> QED
  BY <1>1, Invariance, PTL

\* An owner that has ended, and so an aclose that returned, leaves no client open
\* (runtime.py:524-574).
THEOREM NoClientIsLeft == Spec => []NoClientLeft
<1>1. IInv => NoClientLeft
  BY DEF IInv, Phases, Calls, Jobs, NoClientLeft
<1> QED
  BY <1>1, Invariance, PTL

-----------------------------------------------------------------------------
(* A reader is told of the end: the safety side of                         *)
(* RecvAnsweredWhileStreaming.                                             *)

\* The head is published on the way into the owner's loop.
PublishedLate == pc \in { "connect", "open", "publish" } => ready # "result"

\* An owner that left its loop put what ends the body, or an aclose() stopped it:
\* so a recv that waits for an owner that has ended finds the end on the queue,
\* unless an earlier recv took it (runtime.py:475-521, 544-574).
EndsAreTold ==
  pc \in { "teardown", "done" } /\ ready = "result" =>
    stop \/ Known(End) \/ Known(Fault)

ToldInv == IInv /\ PublishedLate /\ EndsAreTold

\* What was put stays known, on the queue or in the hands of the one thread that
\* took it.
LEMMA KnownStays ==
  ASSUME IInv, [Next]_vars, NEW x \in Item, Known(x) PROVE Known(x)'
<1>1. ASSUME NEW r \in Recvs, GetItem(r) PROVE Known(x)'
  <2> SUFFICES ASSUME NEW h, h = Head(items) PROVE Known(x)'
    OBVIOUS
  <2>1. /\ taken' = [ taken EXCEPT ![r] = h ] /\ taken[r] \notin Item
        /\ items # << >> /\ items' = Tail(items)
    BY <1>1 DEF GetItem, Finish, IInv, Calls
  <2>2. /\ h = items[1] /\ Len(items) \in Nat \ { 0 }
        /\ Len(items') = Len(items) - 1
        /\ \A i \in 1..Len(items') : items'[i] = items[i + 1]
    BY <2>1, Types, HeadTailProperties
  <2>3. taken'[r] = h /\ \A q \in Recvs : q # r => taken'[q] = taken[q]
    BY <2>1, Types
  <2>4. CASE \E q \in Recvs : taken[q] = x
    BY <2>1, <2>3, <2>4 DEF Known
  <2>5. CASE Queued(x)
    <3>1. PICK i \in 1..Len(items) : items[i] = x
      BY <2>5 DEF Queued
    <3>2. CASE i = 1
      BY <2>2, <2>3, <3>1, <3>2 DEF Known
    <3>3. CASE i # 1
      <4>1. i - 1 \in 1..Len(items') /\ items'[i - 1] = x
        BY <2>2, <3>1, <3>3
      <4> QED
        BY <4>1 DEF Known, Queued
    <3> QED
      BY <3>2, <3>3
  <2> QED
    BY <2>4, <2>5 DEF Known
<1>2. ASSUME taken' = taken, NEW y \in Item,
             items' = items \/ items' = Append(items, y)
      PROVE  Known(x)'
  <2>1. \A i \in 1..Len(items) : i \in 1..Len(items') /\ items'[i] = items[i]
    BY <1>2, Types, AppendProperties
  <2> QED
    BY <1>2, <2>1 DEF Known, Queued
<1>3. CASE OwnerStep
  <2>1. taken' = taken
    BY <1>3
    DEF OwnerStep, Connect, OpenStream, Publish, ReadPeer, CheckStop, Read,
        ReadFails, Verify, Teardown, readers
  <2>2. CASE Read
    <3>1. PICK r \in Reads :
            items' = IF r.chunks > put THEN Append(items, Chunk(r.chunks)) ELSE items
      BY <2>2 DEF Read, Put
    <3>2. r.chunks > put => r.chunks \in 1..BodyLen
      BY Types DEF Reads
    <3> QED
      BY <1>2, <2>1, <3>1, <3>2, Items
  <2>3. CASE ~Read
    <3>1. \E y \in Item : items' = items \/ items' = Append(items, y)
      BY <1>3, <2>3, Items
      DEF OwnerStep, Connect, OpenStream, Publish, ReadPeer, CheckStop,
          ReadFails, Verify, Teardown, Put
    <3> QED
      BY <1>2, <2>1, <3>1
  <2> QED
    BY <2>2, <2>3
<1>4. CASE LoopStep \/ UNCHANGED vars
  <2>1. taken' = taken /\ items' = items
    BY <1>4
    DEF LoopStep, StreamReturns, CancelStream, PropagateCancel, Recv, Aclose,
        CancelCall, PropagateCall, Tell, readers, vars
  <2> QED
    BY <1>2, <2>1
<1>5. CASE StartJob \/ \E c \in Closers : Join(c)
  <2>1. taken' = taken /\ items' = items
    BY <1>5 DEF StartJob, Join
  <2> QED
    BY <1>2, <2>1
<1> QED
  BY <1>1, <1>3, <1>4, <1>5 DEF Next, ExecutorStep

LEMMA PublishedLateNext == IInv /\ PublishedLate /\ [Next]_vars => PublishedLate'
<1> SUFFICES ASSUME PublishedLate, [Next]_vars PROVE PublishedLate'
  OBVIOUS
<1> USE DEF PublishedLate
<1>1. CASE OwnerStep
  BY <1>1
  DEF OwnerStep, Connect, OpenStream, Publish, ReadPeer, CheckStop, Read,
      ReadFails, Verify, Teardown, handshake, Ready!Failed
<1>2. CASE LoopStep
  BY <1>2
  DEF LoopStep, StreamReturns, CancelStream, PropagateCancel, Recv, Aclose,
      CancelCall, PropagateCall, Tell, handshake, Ready!Resume, Ready!Cancel,
      Ready!Propagate
<1>3. CASE ExecutorStep \/ UNCHANGED vars
  BY <1>3 DEF ExecutorStep, StartJob, GetItem, Join, Finish, handshake, vars
<1> QED
  BY <1>1, <1>2, <1>3 DEF Next

LEMMA EndsAreToldNext == ToldInv /\ [Next]_vars => EndsAreTold'
<1> SUFFICES ASSUME ToldInv, [Next]_vars,
                    pc' \in { "teardown", "done" }, ready' = "result"
             PROVE  stop' \/ Known(End)' \/ Known(Fault)'
  BY DEF EndsAreTold, Known, Queued
<1>0. IInv /\ PublishedLate /\ EndsAreTold
  BY DEF ToldInv
<1>1. CASE pc \in { "teardown", "done" } /\ ready = "result"
  <2>1. stop => stop'
    BY DEF Next, OwnerStep, Connect, OpenStream, Publish, ReadPeer, CheckStop,
           Read, ReadFails, Verify, Teardown, LoopStep, StreamReturns,
           CancelStream, PropagateCancel, Recv, Aclose, CancelCall,
           PropagateCall, Tell, ExecutorStep, StartJob, GetItem, Join, Finish, vars
  <2> QED
    BY <1>0, <1>1, <2>1, KnownStays, Items DEF EndsAreTold
<1>2. CASE ~(pc \in { "teardown", "done" } /\ ready = "result")
  <2>1. \/ CheckStop /\ stop /\ stop' = stop
        \/ ReadPeer \/ ReadFails \/ Verify
    <3>1. CASE OwnerStep
      BY <1>0, <1>2, <3>1
      DEF OwnerStep, Connect, OpenStream, Publish, CheckStop, Stopping, Read,
          Teardown, PublishedLate, handshake, Ready!Failed
    <3>2. CASE LoopStep
      BY <1>0, <1>2, <3>2
      DEF LoopStep, StreamReturns, CancelStream, PropagateCancel, Recv, Aclose,
          CancelCall, PropagateCall, Tell, handshake, Ready!Resume,
          Ready!Cancel, Ready!Propagate
    <3>3. CASE ExecutorStep \/ UNCHANGED vars
      BY <1>2, <3>3
      DEF ExecutorStep, StartJob, GetItem, Join, Finish, handshake, vars
    <3> QED
      BY <3>1, <3>2, <3>3 DEF Next
  <2>2. CASE CheckStop /\ stop /\ stop' = stop
    BY <2>2
  <2>3. CASE ReadPeer \/ ReadFails \/ Verify
    <3>1. items' = Append(items, End) \/ items' = Append(items, Fault)
      BY <2>3 DEF ReadPeer, ReadFails, Verify, Put
    <3>2. ASSUME NEW x \in Item, items' = Append(items, x) PROVE Known(x)'
      <4>1. Len(items') \in 1..Len(items') /\ items'[Len(items')] = x
        BY <3>2, Types, AppendProperties
      <4> QED
        BY <4>1 DEF Known, Queued
    <3> QED
      BY <3>1, <3>2, Items
  <2> QED
    BY <2>1, <2>2, <2>3
<1> QED
  BY <1>1, <1>2

\* No reader is left without an answer by an owner that ended of itself.
THEOREM ReadersHearTheEnd == Spec => []EndsAreTold
<1>1. Init => PublishedLate /\ EndsAreTold
  BY DEF Init, Ready!Init, PublishedLate, EndsAreTold
<1>2. ToldInv /\ [Next]_vars => PublishedLate' /\ EndsAreTold'
  BY PublishedLateNext, EndsAreToldNext DEF ToldInv
<1>3. IInv /\ PublishedLate /\ EndsAreTold <=> ToldInv
  BY DEF ToldInv
<1> QED
  BY <1>1, <1>2, <1>3, Invariance, PTL DEF Spec

-----------------------------------------------------------------------------
(* The stream implements BodyService.                                      *)

\* No two threads took the same place of the body.
Distinct ==
  \A q, r \in Recvs :
    q # r /\ taken[q] \in Item /\ taken[r] \in Item =>
      Rank(taken[q], put) # Rank(taken[r], put)

\* Every chunk that was put is on the queue or was taken.
Complete == \A k \in 1..put : Known(Chunk(k))

BodyInv == IInv /\ Distinct /\ Complete

\* What a step does to the items: a thread takes one, nothing is taken or read, or
\* the owner reads a chunk.
LEMMA ItemSteps ==
  ASSUME IInv, [Next]_vars
  PROVE  \/ \E r \in Recvs : GetItem(r)
         \/ taken' = taken /\ put' = put
         \/ /\ taken' = taken /\ pc = "read" /\ put' = put + 1
            /\ items' = Append(items, Chunk(put + 1))
<1>1. CASE Read
  <2>1. taken' = taken /\ pc = "read"
    BY <1>1 DEF Read, readers
  <2>2. PICK r \in Reads :
           /\ put' = r.chunks
           /\ items' = IF r.chunks > put THEN Append(items, Chunk(r.chunks)) ELSE items
    BY <1>1 DEF Read, Put
  <2>3. r.chunks = put \/ (r.chunks = put + 1 /\ r.chunks > put)
    BY <2>2, Types DEF Reads
  <2> QED
    BY <2>1, <2>2, <2>3
<1>2. CASE OwnerStep /\ ~Read
  BY <1>2
  DEF OwnerStep, Connect, OpenStream, Publish, ReadPeer, CheckStop, ReadFails,
      Verify, Teardown, readers
<1>3. CASE LoopStep \/ UNCHANGED vars
  BY <1>3
  DEF LoopStep, StreamReturns, CancelStream, PropagateCancel, Recv, Aclose,
      CancelCall, PropagateCall, Tell, readers, vars
<1>4. CASE StartJob \/ \E c \in Closers : Join(c)
  BY <1>4 DEF StartJob, Join, Finish
<1> QED
  BY <1>1, <1>2, <1>3, <1>4 DEF Next, ExecutorStep

LEMMA DistinctNext == BodyInv /\ [Next]_vars => Distinct'
<1> SUFFICES ASSUME IInv, Distinct, [Next]_vars PROVE Distinct'
  BY DEF BodyInv
<1>1. CASE taken' = taken /\ put' = put
  BY <1>1 DEF Distinct
<1>2. CASE taken' = taken /\ pc = "read" /\ put' = put + 1
  <2>1. \A r \in Recvs : taken[r] \in Item => Rank(taken[r], put') = Rank(taken[r], put)
    BY <1>2 DEF IInv, Sane, Known, Rank
  <2> QED
    BY <1>2, <2>1 DEF Distinct
<1>3. ASSUME NEW r \in Recvs, GetItem(r) PROVE Distinct'
  <2> SUFFICES ASSUME NEW h, h = Head(items) PROVE Distinct'
    OBVIOUS
  <2>1. /\ put' = put /\ taken' = [ taken EXCEPT ![r] = h ] /\ items # << >>
    BY <1>3 DEF GetItem, Finish
  <2>2. h = items[1] /\ 1 \in 1..Len(items) /\ h \in Item
    BY <2>1, Types, HeadTailProperties
  <2>3. \A q \in Recvs : taken[q] \in Item => Rank(taken[q], put) < Rank(h, put)
    BY <2>2 DEF IInv, Ordered, Queued
  <2>4. \A q \in Recvs : taken[q] \in Item => Rank(taken[q], put) # Rank(h, put)
    BY <2>2, <2>3, Ranks
  <2> QED
    BY <2>1, <2>4, Types DEF Distinct
<1> QED
  BY <1>1, <1>2, <1>3, ItemSteps

LEMMA CompleteNext == BodyInv /\ [Next]_vars => Complete'
<1> SUFFICES ASSUME IInv, Complete, [Next]_vars, NEW k \in 1..put'
             PROVE  Known(Chunk(k))'
  BY DEF BodyInv, Complete, Known, Queued
<1>1. put \in Nat /\ put <= BodyLen /\ BodyLen \in Nat
  BY Types
<1>2. CASE k \in 1..put
  BY <1>1, <1>2, KnownStays, Items DEF Complete
<1>3. CASE k = put + 1 /\ items' = Append(items, Chunk(put + 1))
  <2>1. k \in 1..BodyLen
    BY <1>1, <1>3, TypeStep DEF TypeOK
  <2>2. Len(items') \in 1..Len(items') /\ items'[Len(items')] = Chunk(k)
    BY <1>3, <2>1, Items, Types, AppendProperties
  <2> QED
    BY <2>2 DEF Known, Queued
<1>4. put' = put \/ (put' = put + 1 /\ items' = Append(items, Chunk(put + 1)))
  BY ItemSteps DEF GetItem, Finish
<1> QED
  BY <1>1, <1>2, <1>3, <1>4

\* The stronger invariant holds in every reachable state.
THEOREM BodyInvariance == Spec => []BodyInv
<1>1. Init => Distinct /\ Complete
  BY Items, Sizes DEF Init, Distinct, Complete
<1>2. BodyInv /\ [Next]_vars => Distinct' /\ Complete'
  BY DistinctNext, CompleteNext
<1>3. IInv /\ Distinct /\ Complete <=> BodyInv
  BY DEF BodyInv
<1> QED
  BY <1>1, <1>2, <1>3, Invariance, PTL DEF Spec

\* A body has one ending.
LEMMA OneEnding ==
  ASSUME BodyInv
  PROVE  /\ ~(Known(End) /\ Known(Fault))
         /\ Ending = End <=> Known(End)
         /\ Ending = Fault <=> Known(Fault)
         /\ Ending \in { End, Fault, Nothing }
<1>1. Rank(End, put) = put + 1 /\ Rank(Fault, put) = put + 1 /\ put \in Nat
  BY Items, Types DEF Rank, BodyInv
<1>2. ASSUME Known(End), Known(Fault) PROVE FALSE
  <2>1. CASE Queued(End) /\ Queued(Fault)
    <3>1. PICK i, j \in 1..Len(items) : items[i] = End /\ items[j] = Fault
      BY <2>1 DEF Queued
    <3>2. i < j \/ j < i
      BY <3>1, Items, Types DEF BodyInv
    <3> QED
      BY <1>1, <3>1, <3>2 DEF BodyInv, IInv, Ordered
  <2>2. ASSUME NEW q \in Recvs, taken[q] \in { End, Fault } PROVE FALSE
    <3>1. ASSUME NEW x \in { End, Fault }, x # taken[q], Queued(x) PROVE FALSE
      <4>1. Rank(taken[q], put) < Rank(x, put)
        BY <2>2, <3>1, Items DEF BodyInv, IInv, Ordered
      <4> QED
        BY <1>1, <2>2, <4>1
    <3>2. ASSUME NEW r \in Recvs, taken[r] \in { End, Fault }, taken[r] # taken[q]
          PROVE  FALSE
      <4>1. Rank(taken[q], put) # Rank(taken[r], put)
        BY <2>2, <3>2, Items DEF BodyInv, Distinct
      <4> QED
        BY <1>1, <2>2, <3>2, <4>1
    <3> QED
      BY <1>2, <2>2, <3>1, <3>2, Items DEF Known
  <2> QED
    BY <1>2, <2>1, <2>2 DEF Known
<1> QED
  BY <1>2, Items DEF Ending

\* What the service has read and closed is what was put.
LEMMA ServiceItems ==
  ASSUME BodyInv
  PROVE  /\ \A x : x \in Service!Items <=> x \in Item /\ Known(x)
         /\ \A x \in Item : Service!Place(x) = Rank(x, put)
<1>1. ASSUME NEW x \in Service!Items PROVE x \in Item /\ Known(x)
  <2>1. CASE x \in { Ending } \ { Nothing }
    BY <2>1, OneEnding, Items
  <2>2. ASSUME NEW k \in 1..put, x = Chunk(k) PROVE x \in Item /\ Known(x)
    BY <2>2, Items, Types DEF BodyInv, Complete
  <2> QED
    BY <1>1, <2>1, <2>2 DEF Service!Items, Service!Chunk, Chunk
<1>2. ASSUME NEW x \in Item, Known(x) PROVE x \in Service!Items
  <2>1. CASE x[1] = "chunk"
    <3>1. x[2] \in 1..put /\ x = Chunk(x[2])
      BY <1>2, <2>1, Items, Types DEF BodyInv, IInv, Sane
    <3> QED
      BY <3>1 DEF Service!Items, Service!Chunk, Chunk
  <2>2. CASE x \in { End, Fault }
    BY <1>2, <2>2, OneEnding, Items DEF Service!Items
  <2> QED
    BY <2>1, <2>2, Items
<1>3. \A x \in Item : Service!Place(x) = Rank(x, put)
  BY Items DEF Service!Place, Rank
<1> QED
  BY <1>1, <1>2, <1>3

\* What a thread holds for a recv that nobody has told is outstanding, and so is
\* what is on the queue.
LEMMA StillOutstanding ==
  ASSUME BodyInv, NEW x \in Item,
         \/ Queued(x)
         \/ \E r \in Recvs : taken[r] = x /\ caller[r] \notin { "returned", "cancelled" }
  PROVE  x \in Service!Outstanding
<1>1. Known(x) /\ x # Nothing
  BY Items DEF Known
<1>2. ASSUME NEW q \in Recvs, Spent[q] = x PROVE FALSE
  <2>1. taken[q] = x /\ caller[q] \in { "returned", "cancelled" }
    BY <1>1, <1>2 DEF Spent
  <2>2. CASE Queued(x)
    <3>1. Rank(taken[q], put) < Rank(x, put)
      BY <2>1, <2>2 DEF BodyInv, IInv, Ordered
    <3> QED
      BY <2>1, <3>1, Ranks DEF BodyInv
  <2>3. CASE \E r \in Recvs :
               taken[r] = x /\ caller[r] \notin { "returned", "cancelled" }
    BY <2>1, <2>3 DEF BodyInv, Distinct
  <2> QED
    BY <2>2, <2>3
<1> QED
  BY <1>1, <1>2, ServiceItems DEF Service!Outstanding, Service!Calls, Recvs

\* The next item for a caller is the first that is outstanding: those before it
\* were told or lost, since the calls before have come back.
LEMMA FirstOutstanding ==
  ASSUME BodyInv, NEW r \in Recvs, caller[r] = "waiting", taken[r] \in Item,
         NEW y \in Service!Outstanding
  PROVE  Service!Place(taken[r]) <= Service!Place(y)
<1>1. y \in Item /\ Known(y) /\ \A q \in Recvs : Spent[q] # y
  BY ServiceItems DEF Service!Outstanding, Service!Calls, Recvs
<1>2. Rank(taken[r], put) \in Nat /\ Rank(y, put) \in Nat
  BY <1>1, Ranks DEF BodyInv
<1>3. CASE Queued(y)
  <2>1. Rank(taken[r], put) < Rank(y, put)
    BY <1>1, <1>3 DEF BodyInv, IInv, Ordered
  <2> QED
    BY <1>1, <1>2, <2>1, ServiceItems
<1>4. ASSUME NEW q \in Recvs, taken[q] = y
      PROVE  Service!Place(taken[r]) <= Service!Place(y)
  <2>1. CASE q = r
    BY <1>1, <1>2, <1>4, <2>1, ServiceItems
  <2>2. CASE q # r
    <3>1. caller[q] \notin { "returned", "cancelled" }
      BY <1>1, <1>4 DEF Spent
    <3>2. job[q] = "finished"
      BY <1>1, <1>4 DEF BodyInv, IInv, Calls
    <3>3. caller[q] # "idle"
      BY <3>2 DEF BodyInv, IInv, Calls, Jobs
    <3>4. q < r \/ r < q
      BY <2>2 DEF Recvs
    <3> QED
      BY <3>1, <3>3, <3>4 DEF BodyInv, IInv, Calls
  <2> QED
    BY <2>1, <2>2
<1> QED
  BY <1>1, <1>3, <1>4 DEF Known

\* The owner closes the body with a fault, or with the end of one that is genuine.
LEMMA CloseStep ==
  ASSUME BodyInv, [Next]_vars, pc \notin { "teardown", "done" },
         UNCHANGED << genuine, put, caller, taken, received >>,
         \/ items' = Append(items, Fault)
         \/ items' = Append(items, End) /\ genuine /\ put = BodyLen
  PROVE  Service!Close
<1>1. ~Known(End) /\ ~Known(Fault) /\ Ending = Nothing
  BY Items DEF BodyInv, IInv, Sane, Ending
<1>2. ASSUME NEW x \in { End, Fault }, items' = Append(items, x) PROVE Ending' = x
  <2>1. Len(items') \in 1..Len(items') /\ items'[Len(items')] = x
    BY <1>2, Items, Types, AppendProperties DEF BodyInv
  <2>2. Known(x)'
    BY <2>1 DEF Known, Queued
  <2>3. ASSUME NEW y \in { End, Fault }, y # x PROVE ~Known(y)'
    <3>1. \A i \in 1..Len(items') : items'[i] = x \/ Queued(items'[i])
      BY <1>2, Items, Types, AppendProperties DEF Queued, BodyInv
    <3> QED
      BY <1>1, <2>3, <3>1 DEF Known, Queued
  <2> QED
    BY <2>2, <2>3, Items DEF Ending
<1>3. Asked' = Asked /\ Spent' = Spent
  BY DEF Asked, Spent
<1> QED
  BY <1>1, <1>2, <1>3 DEF Service!Close

\* The owner reads a chunk.
LEMMA ReadStep ==
  ASSUME BodyInv, [Next]_vars, pc = "read", put' = put + 1,
         items' = Append(items, Chunk(put + 1)),
         UNCHANGED << genuine, caller, taken, received >>
  PROVE  Service!Read
<1>1. ~Known(End) /\ ~Known(Fault) /\ Ending = Nothing
  BY Items DEF BodyInv, IInv, Sane, Ending
<1>2. put' \in 0..BodyLen /\ put \in 0..BodyLen /\ BodyLen \in Nat
  BY TypeStep, Sizes DEF TypeOK, BodyInv, IInv
<1>3. put < BodyLen /\ Chunk(put + 1) \in Item
  BY <1>2, Items
<1>4. ASSUME NEW x \in { End, Fault } PROVE ~Known(x)'
  <2>1. \A i \in 1..Len(items') : items'[i] = Chunk(put + 1) \/ Queued(items'[i])
    BY <1>3, Types, AppendProperties DEF Queued, BodyInv
  <2>2. x # Chunk(put + 1)
    BY Items
  <2> QED
    BY <1>1, <2>1, <2>2 DEF Known, Queued
<1>5. Ending' = Nothing /\ Asked' = Asked /\ Spent' = Spent
  BY <1>4 DEF Ending, Asked, Spent
<1> QED
  BY <1>1, <1>3, <1>5 DEF Service!Read

\* A recv is made, or cancelled.
LEMMA AskStep ==
  ASSUME BodyInv, NEW r \in Recvs, Recv(r) \/ CancelCall(r)
  PROVE  Service!Ask(r) \/ Service!Cancel(r)
<1>1. /\ UNCHANGED << genuine, put, items, taken, received >>
      /\ \A q \in Recvs : q # r => caller'[q] = caller[q]
  BY Types DEF BodyInv, Recv, Submit, CancelCall, Jobs
<1>2. Ending' = Ending
  BY <1>1 DEF Ending, Known, Queued
<1>3. CASE Recv(r)
  <2>1. /\ caller[r] = "idle" /\ caller'[r] = "waiting"
        /\ \A q \in 1..r-1 : caller[q] \in { "returned", "cancelled" }
    BY <1>3, Types DEF BodyInv, Recv, Submit, Jobs
  <2>2. \A q \in 1..r-1 : q \in Recvs
    BY Sizes DEF Recvs
  <2>3. Spent' = Spent /\ Asked' = [ Asked EXCEPT ![r] = "waiting" ]
    BY <1>1, <2>1 DEF Asked, Spent
  <2> QED
    BY <1>1, <1>2, <2>1, <2>2, <2>3 DEF Service!Ask, Service!Becomes, Asked
<1>4. CASE CancelCall(r)
  <2>1. caller[r] = "waiting" /\ caller'[r] = "cancelling"
    BY <1>4, Types DEF BodyInv, CancelCall, Jobs
  <2>2. Spent' = Spent /\ Asked' = [ Asked EXCEPT ![r] = "cancelled" ]
    BY <1>1, <2>1 DEF Asked, Spent
  <2> QED
    BY <1>1, <1>2, <2>1, <2>2 DEF Service!Cancel, Service!Becomes, Asked
<1> QED
  BY <1>3, <1>4

\* A cancellation gets through to a recv: what its thread took is lost.
LEMMA PropagateStep ==
  ASSUME BodyInv, NEW r \in Recvs, PropagateCall(r)
  PROVE  \/ UNCHANGED Service!vars
         \/ \E x \in Service!Items : Service!Lose(r, x)
<1>1. /\ UNCHANGED << genuine, put, items, taken, received >>
      /\ caller[r] = "cancelling" /\ caller'[r] = "cancelled"
      /\ \A q \in Recvs : q # r => caller'[q] = caller[q]
  BY Types DEF BodyInv, PropagateCall, Jobs
<1>2. Ending' = Ending
  BY <1>1 DEF Ending, Known, Queued
<1>3. Asked' = Asked /\ Spent' = [ Spent EXCEPT ![r] = taken[r] ]
  BY <1>1 DEF Asked, Spent
<1>4. Asked[r] = "cancelled" /\ Spent[r] = Nothing
  BY <1>1 DEF Asked, Spent
<1>5. CASE taken[r] = Nothing
  <2>1. Spent' = Spent
    BY <1>3, <1>4, <1>5 DEF Spent
  <2> QED
    BY <1>1, <1>2, <1>3, <2>1 DEF Service!vars
<1>6. CASE taken[r] \in Item
  <2>1. taken[r] \in Service!Outstanding
    BY <1>1, <1>6, StillOutstanding
  <2>2. taken[r] \in Service!Items
    BY <2>1 DEF Service!Outstanding
  <2> QED
    BY <1>1, <1>2, <1>3, <1>4, <2>1, <2>2 DEF Service!Lose, Service!Take
<1> QED
  BY <1>5, <1>6, Types DEF BodyInv

\* A thread takes an item: for a recv whose cancellation has got through it is
\* lost, and for another the program has not heard of it yet.
LEMMA TakeStep ==
  ASSUME BodyInv, NEW r \in Recvs, GetItem(r)
  PROVE  \/ UNCHANGED Service!vars
         \/ \E x \in Service!Items : Service!Lose(r, x)
<1> SUFFICES ASSUME NEW h, h = Head(items)
             PROVE  \/ UNCHANGED Service!vars
                    \/ \E x \in Service!Items : Service!Lose(r, x)
  OBVIOUS
<1>1. /\ UNCHANGED << genuine, put, caller, received >> /\ job[r] = "running"
      /\ items # << >> /\ taken' = [ taken EXCEPT ![r] = h ]
  BY DEF GetItem, Finish
<1>2. taken'[r] = h /\ \A q \in Recvs : q # r => taken'[q] = taken[q]
  BY <1>1, Types DEF BodyInv
<1>3. h \in Item /\ Queued(h)
  BY <1>1, Types, HeadTailProperties DEF Queued, BodyInv
<1>4. Ending' = Ending
  <2>1. \A x \in { End, Fault } : Known(x)' <=> Known(x)
    BY GetStep, KnownStays, Items DEF BodyInv, Next, ExecutorStep
  <2> QED
    BY <2>1 DEF Ending
<1>5. Asked' = Asked
  BY <1>1 DEF Asked
<1>6. taken[r] = Nothing /\ caller[r] # "returned"
  BY <1>1, Types DEF BodyInv, IInv, Calls, Jobs
<1>7. CASE caller[r] # "cancelled"
  <2>1. Spent' = Spent
    BY <1>1, <1>2, <1>6, <1>7 DEF Spent
  <2> QED
    BY <1>1, <1>4, <1>5, <2>1 DEF Service!vars
<1>8. CASE caller[r] = "cancelled"
  <2>1. Spent' = [ Spent EXCEPT ![r] = h ]
    BY <1>1, <1>2, <1>8 DEF Spent
  <2>2. Asked[r] = "cancelled" /\ Spent[r] = Nothing
    BY <1>6, <1>8 DEF Asked, Spent
  <2>3. h \in Service!Outstanding
    BY <1>3, StillOutstanding
  <2>4. h \in Service!Items
    BY <2>3 DEF Service!Outstanding
  <2> QED
    BY <1>1, <1>4, <1>5, <2>1, <2>2, <2>3, <2>4 DEF Service!Lose, Service!Take
<1> QED
  BY <1>7, <1>8

\* A recv returns what its thread took.
LEMMA AnswerStep ==
  ASSUME BodyInv, NEW r \in Recvs, Tell(r)
  PROVE  \E x \in Service!Items : Service!Tell(r, x)
<1> SUFFICES ASSUME NEW h, h = taken[r]
             PROVE  \E x \in Service!Items : Service!Tell(r, x)
  OBVIOUS
<1>1. /\ UNCHANGED << genuine, put, items, taken >> /\ job[r] = "finished"
      /\ caller[r] = "waiting" /\ received' = Append(received, h)
      /\ caller' = [ caller EXCEPT ![r] = "returned" ]
  BY DEF Tell
<1>2. caller'[r] = "returned" /\ \A q \in Recvs : q # r => caller'[q] = caller[q]
  BY <1>1, Types DEF BodyInv, Jobs
<1>3. Ending' = Ending
  BY <1>1 DEF Ending, Known, Queued
<1>4. Asked' = [ Asked EXCEPT ![r] = "returned" ] /\ Asked[r] = "waiting"
  BY <1>1, <1>2 DEF Asked
<1>5. Spent' = [ Spent EXCEPT ![r] = h ]
  BY <1>1, <1>2 DEF Spent
<1>6. h \in Item
  BY <1>1 DEF BodyInv, IInv, Calls
<1>7. h \in Service!Outstanding /\ h \in Service!Items
  BY <1>1, <1>6, StillOutstanding DEF Service!Outstanding
<1>8. \A y \in Service!Outstanding : Service!Place(h) <= Service!Place(y)
  BY <1>1, <1>6, FirstOutstanding
<1> QED
  BY <1>1, <1>3, <1>4, <1>5, <1>7, <1>8
  DEF Service!Tell, Service!Becomes, Service!Take

\* What concerns neither the items nor a recv is no step of the service.
LEMMA QuietStep ==
  ASSUME UNCHANGED << genuine, put, items, taken, received >>,
         \A r \in Recvs : caller'[r] = caller[r]
  PROVE  UNCHANGED Service!vars
<1>1. Ending' = Ending
  BY DEF Ending, Known, Queued
<1>2. Asked' = Asked /\ Spent' = Spent
  BY DEF Asked, Spent
<1> QED
  BY <1>1, <1>2 DEF Service!vars

LEMMA ServiceOwner ==
  ASSUME BodyInv, [Next]_vars, OwnerStep PROVE Service!Next \/ UNCHANGED Service!vars
<1>1. UNCHANGED << genuine, caller, taken, received >>
  BY DEF OwnerStep, Connect, OpenStream, Publish, ReadPeer, CheckStop, Read,
         ReadFails, Verify, Teardown, readers
<1>2. CASE Read
  <2>1. PICK x \in Reads :
           /\ put' = x.chunks
           /\ items' = IF x.chunks > put THEN Append(items, Chunk(x.chunks)) ELSE items
    BY <1>2 DEF Read, Put
  <2>2. x.chunks = put \/ (x.chunks = put + 1 /\ x.chunks > put)
    BY <2>1, Types DEF Reads, BodyInv
  <2>3. CASE x.chunks = put
    BY <1>1, <2>1, <2>3, Types, QuietStep DEF BodyInv
  <2>4. CASE x.chunks = put + 1 /\ x.chunks > put
    BY <1>1, <1>2, <2>1, <2>4, ReadStep DEF Read, Service!Next
  <2> QED
    BY <2>2, <2>3, <2>4
<1>3. CASE ReadPeer \/ ReadFails \/ Verify
  <2>1. UNCHANGED << genuine, put >> /\ pc \notin { "teardown", "done" }
    BY <1>3 DEF ReadPeer, ReadFails, Verify
  <2>2. \/ items' = items
        \/ items' = Append(items, Fault)
        \/ items' = Append(items, End) /\ genuine /\ put = BodyLen
    BY <1>3
    DEF ReadPeer, ReadFails, Verify, Put, TrailerVerifies, BodyInv, IInv, Phases
  <2>3. CASE items' = items
    BY <1>1, <2>1, <2>3, QuietStep
  <2>4. CASE items' # items
    BY <1>1, <2>1, <2>2, <2>4, CloseStep DEF Service!Next
  <2> QED
    BY <2>3, <2>4
<1>4. CASE Connect \/ OpenStream \/ Publish \/ CheckStop \/ Teardown
  <2>1. UNCHANGED << put, items >>
    BY <1>4 DEF Connect, OpenStream, Publish, CheckStop, Teardown
  <2> QED
    BY <1>1, <2>1, QuietStep
<1> QED
  BY <1>2, <1>3, <1>4 DEF OwnerStep

LEMMA ServiceLoop ==
  ASSUME BodyInv, [Next]_vars, LoopStep PROVE Service!Next \/ UNCHANGED Service!vars
<1>1. CASE StreamReturns \/ CancelStream \/ PropagateCancel
  <2>1. UNCHANGED << genuine, put, items, caller, taken, received >>
    BY <1>1 DEF StreamReturns, CancelStream, PropagateCancel, readers
  <2> QED
    BY <2>1, QuietStep
<1>2. ASSUME NEW r \in Recvs, Recv(r) PROVE Service!Next
  BY <1>2, AskStep DEF Service!Next, Service!Calls, Recvs
<1>3. ASSUME NEW r \in Recvs, CancelCall(r) PROVE Service!Next
  BY <1>3, AskStep DEF Service!Next, Service!Calls, Recvs
<1>4. ASSUME NEW r \in Recvs, PropagateCall(r)
      PROVE  Service!Next \/ UNCHANGED Service!vars
  BY <1>4, PropagateStep DEF Service!Next, Service!Calls, Recvs
<1>5. ASSUME NEW r \in Recvs, Tell(r) PROVE Service!Next
  BY <1>5, AnswerStep DEF Service!Next, Service!Calls, Recvs
<1>6. ASSUME NEW c \in Closers, Aclose(c) \/ CancelCall(c) \/ PropagateCall(c) \/ Tell(c)
      PROVE  UNCHANGED Service!vars
  <2>1. c \notin Recvs
    BY JobKinds
  <2>2. UNCHANGED << genuine, put, items, taken, received >>
    BY <1>6, <2>1 DEF Aclose, Submit, CancelCall, PropagateCall, Tell
  <2>3. \A r \in Recvs : caller'[r] = caller[r]
    BY <1>6, <2>1, Types
    DEF Aclose, Submit, CancelCall, PropagateCall, Tell, BodyInv, Jobs
  <2> QED
    BY <2>2, <2>3, QuietStep
<1> QED
  BY <1>1, <1>2, <1>3, <1>4, <1>5, <1>6 DEF LoopStep, Jobs

LEMMA ServiceExecutor ==
  ASSUME BodyInv, [Next]_vars, ExecutorStep
  PROVE  Service!Next \/ UNCHANGED Service!vars
<1>1. ASSUME NEW r \in Recvs, GetItem(r) PROVE Service!Next \/ UNCHANGED Service!vars
  BY <1>1, TakeStep DEF Service!Next, Service!Calls, Recvs
<1>2. CASE StartJob \/ \E c \in Closers : Join(c)
  <2>1. UNCHANGED << genuine, put, items, caller, taken, received >>
    BY <1>2 DEF StartJob, Join, Finish
  <2> QED
    BY <2>1, QuietStep
<1> QED
  BY <1>1, <1>2 DEF ExecutorStep

LEMMA ServiceInit == Init => Service!Init
<1> SUFFICES ASSUME Init PROVE Service!Init
  OBVIOUS
<1>1. \A x \in Item : ~Known(x)
  BY Items DEF Init, Known, Queued
<1>2. Ending = Nothing
  BY <1>1, Items DEF Ending
<1>3. \A r \in Recvs : caller[r] = "idle"
  BY DEF Init, Jobs
<1> QED
  BY <1>2, <1>3 DEF Init, Asked, Spent, Service!Init, Service!Calls, Recvs

\* Whatever the executor, the queue and the cancellations do, the program sees a
\* body that is read in order and closed once, and calls of which each is told the
\* first item that is outstanding; only a cancelled recv loses one, and None comes
\* after all of a body whose trailer verified (runtime.py:489-498).
THEOREM Refinement == Spec => ImplementsBodyService
<1>1. BodyInv /\ [Next]_vars => [Service!Next]_(Service!vars)
  <2> SUFFICES ASSUME BodyInv, [Next]_vars
               PROVE  Service!Next \/ UNCHANGED Service!vars
    OBVIOUS
  <2>1. CASE UNCHANGED vars
    BY <2>1, QuietStep DEF vars
  <2>2. CASE Next
    BY <2>2, ServiceOwner, ServiceLoop, ServiceExecutor DEF Next
  <2> QED
    BY <2>1, <2>2
<1> QED
  BY <1>1, ServiceInit, BodyInvariance, PTL
  DEF Spec, Service!Spec, ImplementsBodyService

-----------------------------------------------------------------------------
(* The variant under AcloseReturns: once `stop` is set the owner has only  *)
(* so many steps left.                                                     *)

\* how far the owner is from its end, a stop being set
StepsLeft ==
  CASE pc = "connect" -> 6
    [] pc = "open" -> 5
    [] pc \in { "publish", "read" } -> 4
    [] pc = "peer" -> 3
    [] pc \in { "check", "verify" } -> 2
    [] pc = "teardown" -> 1
    [] pc = "done" -> 0

\* The program wants no stream any more: an aclose has set the event, or the
\* cancellation of stream() has reached `ready`.
Leaving == stop \/ ready = "cancelled"

\* What comes after the publishing is of a head that was published.
HeadIsOut ==
  pc \in { "peer", "check", "read", "verify", "teardown" } => ready = "result"

\* Once it is not wanted any more the owner comes nearer to its end with each of its
\* steps, a recv() that is under way being the last, and nobody else holds it up
\* (runtime.py:505-509, 533-574).  Under WF(OwnerStep) this ends the thread that
\* the executor joins.
WindsDown ==
  [][ Leaving => IF OwnerStep THEN StepsLeft' < StepsLeft
                              ELSE StepsLeft' = StepsLeft ]_vars

LEMMA HeadIsOutNext == HeadIsOut /\ [Next]_vars => HeadIsOut'
<1> SUFFICES ASSUME HeadIsOut, [Next]_vars
             PROVE  HeadIsOut'
  OBVIOUS
<1>1. CASE OwnerStep
  <2>1. CASE Connect \/ OpenStream \/ Publish
    BY <2>1 DEF HeadIsOut, Connect, OpenStream, Publish
  <2>2. CASE ReadPeer \/ CheckStop \/ Read \/ ReadFails \/ Verify \/ Teardown
    BY <2>2
    DEF HeadIsOut, ReadPeer, CheckStop, Stopping, Read, ReadFails, Verify, Teardown,
        handshake
  <2> QED
    BY <1>1, <2>1, <2>2 DEF OwnerStep
<1>2. CASE PropagateCancel
  BY <1>2 DEF HeadIsOut, PropagateCancel, Ready!Propagate
<1>3. CASE ~OwnerStep /\ ~PropagateCancel
  <2>1. pc' = pc /\ ready' = ready
    BY <1>3
    DEF Next, LoopStep, ExecutorStep, StreamReturns, Ready!Resume, CancelStream,
        Ready!Cancel, Recv, Aclose, CancelCall, PropagateCall, Tell, StartJob,
        GetItem, Join, Finish, handshake, native, vars
  <2> QED
    BY <2>1 DEF HeadIsOut
<1> QED
  BY <1>1, <1>2, <1>3

THEOREM OwnerEndsAfterStop == Spec => WindsDown
<1>1. HeadIsOut /\ [Next]_vars
      => [ Leaving => IF OwnerStep THEN StepsLeft' < StepsLeft
                                   ELSE StepsLeft' = StepsLeft ]_vars
  <2> SUFFICES ASSUME HeadIsOut, [Next]_vars, Leaving
               PROVE  IF OwnerStep THEN StepsLeft' < StepsLeft
                                   ELSE StepsLeft' = StepsLeft
    OBVIOUS
  <2>1. CASE Connect \/ OpenStream \/ Publish \/ ReadPeer
    <3>1. \/ pc = "connect" /\ pc' \in { "open", "done" }
          \/ pc = "open" /\ pc' \in { "publish", "done" }
          \/ pc = "publish" /\ pc' \in { "peer", "done" }
          \/ pc = "peer" /\ pc' \in { "check", "teardown" }
      <4>1. CASE Connect
        BY <4>1 DEF Connect
      <4>2. CASE OpenStream
        BY <4>2 DEF OpenStream
      <4>3. CASE Publish
        BY <4>3 DEF Publish
      <4>4. CASE ReadPeer
        BY <4>4 DEF ReadPeer
      <4> QED
        BY <2>1, <4>1, <4>2, <4>3, <4>4
    <3>2. StepsLeft' < StepsLeft
      BY <3>1 DEF StepsLeft
    <3> QED
      BY <2>1, <3>2 DEF OwnerStep
  <2>2. CASE CheckStop \/ Read \/ ReadFails \/ Verify \/ Teardown
    <3>1. \/ pc = "check" /\ pc' = "teardown"
          \/ pc = "read" /\ pc' \in { "verify", "check", "teardown" }
          \/ pc = "verify" /\ pc' = "teardown"
          \/ pc = "teardown" /\ pc' = "done"
      BY <2>2
      DEF HeadIsOut, Leaving, CheckStop, Stopping, Read, ReadFails, Verify, Teardown
    <3>2. StepsLeft' < StepsLeft
      BY <3>1 DEF StepsLeft
    <3> QED
      BY <2>2, <3>2 DEF OwnerStep
  <2>3. CASE ~OwnerStep
    <3>1. pc' = pc
      BY <2>3
      DEF Next, LoopStep, ExecutorStep, StreamReturns, CancelStream,
          PropagateCancel, Recv, Aclose, CancelCall, PropagateCall, Tell,
          StartJob, GetItem, Join, Finish, vars
    <3> QED
      BY <2>3, <3>1 DEF StepsLeft
  <2> QED
    BY <2>1, <2>2, <2>3 DEF OwnerStep
<1>2. Init => HeadIsOut
  BY DEF Init, HeadIsOut
<1> QED
  BY <1>1, <1>2, HeadIsOutNext, PTL DEF Spec, WindsDown

\* A job that waits for a thread is on the executor's queue.
JobsQueued ==
  \A j \in Jobs : job[j] = "queued" => \E i \in 1..Len(jobs) : jobs[i] = j

LEMMA JobsQueuedNext == IInv /\ JobsQueued /\ [Next]_vars => JobsQueued'
<1> SUFFICES ASSUME IInv, JobsQueued, [Next]_vars, NEW j \in Jobs, job'[j] = "queued"
             PROVE  \E i \in 1..Len(jobs') : jobs'[i] = j
  BY DEF JobsQueued
<1>1. jobs \in Seq(Jobs) /\ Len(jobs) \in Nat
  BY DEF IInv, TypeOK
<1>2. ASSUME NEW k \in Jobs, Submit(k) PROVE \E i \in 1..Len(jobs') : jobs'[i] = j
  <2>1. /\ Len(jobs') = Len(jobs) + 1 /\ jobs'[Len(jobs) + 1] = k
        /\ \A i \in 1..Len(jobs) : jobs'[i] = jobs[i]
    BY <1>1, <1>2, AppendProperties DEF Submit
  <2>2. CASE j = k
    BY <1>1, <2>1, <2>2
  <2>3. CASE j # k
    <3>1. job[j] = "queued"
      BY <1>2, <2>3, Types DEF Submit
    <3> QED
      BY <1>1, <2>1, <3>1 DEF JobsQueued
  <2> QED
    BY <2>2, <2>3
<1>3. CASE StartJob
  <2>1. /\ Len(jobs') = Len(jobs) - 1
        /\ \A i \in 1..Len(jobs') : jobs'[i] = jobs[i + 1]
    BY <1>1, <1>3, HeadTailProperties DEF StartJob
  <2>2. /\ job[j] = "queued" /\ j # jobs[1] /\ jobs[1] \in Jobs
    BY <1>1, <1>3, Types, HeadTailProperties DEF StartJob
  <2>3. PICK i \in 1..Len(jobs) : jobs[i] = j
    BY <2>2 DEF JobsQueued
  <2>4. i - 1 \in 1..Len(jobs') /\ jobs'[i - 1] = j
    BY <1>1, <2>1, <2>2, <2>3
  <2> QED
    BY <2>4
<1>4. CASE jobs' = jobs /\ (job[j] = "queued")
  BY <1>4 DEF JobsQueued
<1>5. ASSUME NEW k \in Jobs, CancelCall(k) \/ PropagateCall(k) \/ Tell(k)
      PROVE  jobs' = jobs /\ job[j] = "queued"
  BY <1>5, Types DEF CancelCall, PropagateCall, Tell
<1>6. ASSUME NEW k \in Jobs, Finish(k)
      PROVE  jobs' = jobs /\ job[j] = "queued"
  BY <1>6, Types DEF Finish
<1>7. CASE OwnerStep \/ StreamReturns \/ CancelStream \/ PropagateCancel \/ UNCHANGED vars
  <2>1. jobs' = jobs /\ job' = job
    BY <1>7
    DEF OwnerStep, Connect, OpenStream, Publish, ReadPeer, CheckStop, Read,
        ReadFails, Verify, Teardown, StreamReturns, CancelStream, PropagateCancel,
        readers, vars
  <2> QED
    BY <1>4, <2>1
<1> QED
  BY <1>2, <1>3, <1>4, <1>5, <1>6, <1>7
  DEF Next, LoopStep, ExecutorStep, Recv, Aclose, GetItem, Join, Jobs

\* In an executor with a thread for each call, a job that waits is on the queue and a
\* thread is free to take it, however many recv() calls hold one: the assumption
\* under which RecvAnsweredWhileStreaming and AcloseReturns are checked is enough,
\* and min(32, cpus + 4) threads may not be (runtime.py:498, 509).
RoomForAll ==
  \A j \in Jobs :
    job[j] = "queued" =>
      jobs # << >> /\ Cardinality(Busy) < Workers

THEOREM ExecutorHasRoom ==
  ASSUME IsFiniteSet(Jobs), Cardinality(Jobs) <= Workers
  PROVE  Spec => []RoomForAll
<1>1. Init => JobsQueued
  BY DEF Init, JobsQueued
<1>2. IInv /\ JobsQueued => RoomForAll
  <2> SUFFICES ASSUME IInv, JobsQueued, NEW j \in Jobs, job[j] = "queued"
               PROVE  jobs # << >> /\ Cardinality(Busy) < Workers
    BY DEF RoomForAll
  <2>1. jobs # << >>
    BY DEF JobsQueued
  <2>2. Busy \in SUBSET (Jobs \ { j })
    BY DEF Busy
  <2>3. IsFiniteSet(Jobs \ { j }) /\ Cardinality(Jobs \ { j }) = Cardinality(Jobs) - 1
    BY FS_RemoveElement
  <2>4. IsFiniteSet(Busy) /\ Cardinality(Busy) <= Cardinality(Jobs \ { j })
    BY <2>2, <2>3, FS_Subset
  <2>5. Cardinality(Busy) \in Nat /\ Cardinality(Jobs) \in Nat /\ Workers \in Nat
    BY <2>4, FS_CardinalityType, Sizes
  <2> QED
    BY <2>1, <2>3, <2>4, <2>5
<1> QED
  BY <1>1, <1>2, JobsQueuedNext, Invariance, PTL DEF Spec

=============================================================================
