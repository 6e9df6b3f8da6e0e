--------------------------- MODULE HandlesProofs ---------------------------
(***************************************************************************)
(* Proofs about Handles, for any number of wrappers of each kind and any   *)
(* callbacks: a handle has one owner and is freed once, none is lost, and  *)
(* what is borrowed outlives its borrower unless a cycle is collected.     *)
(***************************************************************************)

EXTENDS Handles, TLAPS

-----------------------------------------------------------------------------
(* The inductive invariant, part by part.                                  *)

\* Only a client has the handle of another wrapper, that of a Connecting which
\* is done.
Owning ==
  \A o \in Objects :
    own[o] # o => /\ o \in Clients /\ own[o] \in Connectings
                  /\ life[o] # "unmade"
                  /\ life[own[o]] \in { "closed", "gone" }

\* Whoever borrows is open, refers to the wrapper it borrows, and finds it open
\* unless it is being collected itself, or is a stream whose client was closed.
Lending ==
  \A o \in Objects :
    \A l \in lent[o] :
      /\ life[o] = "open" /\ o \notin Connectings
      /\ l \in keeps[o]
      /\ IF o \in Streams THEN l \in Clients ELSE l \in Lenders \cup Caches
      /\ \/ life[l] = "open"
         \/ o \in doomed
         \/ o \in Streams /\ life[l] = "closed"

\* What refers to something that is being collected is being collected.
DoomIsClosed ==
  \A l \in doomed :
    Alive(l) /\ \A p \in Objects : Refers(p, l) => p \in doomed

\* The program holds wrappers that exist, and the collector is not after them.
Rooted == \A o \in roots : Alive(o) /\ o \notin doomed

\* A wrapper that was closed or is gone has freed its handle, or passed it on.
Accounted ==
  \A o \in Objects :
    life[o] \in { "closed", "gone" } /\ handle[own[o]] = "live" =>
      o \in Streams \/ \E p \in Objects : life[p] = "open" /\ own[p] = own[o]

IInv ==
  TypeOK /\ Owning /\ OneOwner /\ Lending /\ DoomIsClosed /\ Rooted
    /\ Accounted /\ NoStrayCall

-----------------------------------------------------------------------------
(* Lemmas.                                                                 *)

\* The kinds have no wrapper in common, as far as the proofs need it.
LEMMA Apart ==
  /\ \A o \in Lenders \cup Caches :
       o \in Objects /\ o \notin Clients /\ o \notin Connectings /\ o \notin Streams
  /\ \A o \in Clients : o \in Objects /\ o \notin Connectings /\ o \notin Streams
  /\ \A o \in Connectings : o \in Objects /\ o \notin Streams
  /\ \A o \in Borrowers : o \in Objects /\ o \notin Connectings /\ o \notin Streams
  /\ \A o \in Streams : o \in Objects
BY Kinds DEF Objects

\* A lender or a cache is its own handle's owner.
LEMMA LenderOwnsItself ==
  ASSUME Owning, NEW l \in Lenders \cup Caches
  PROVE  own[l] = l
BY Apart DEF Owning

\* Garbage is alive, out of the program's reach, and referred to by garbage only.
LEMMA GarbageIsClosed ==
  /\ Garbage \subseteq Objects
  /\ Garbage \cap roots = {}
  /\ \A l \in Garbage :
       Alive(l) /\ \A p \in Objects : Refers(p, l) => p \in Garbage
BY DEF Garbage

\* Freeing an open wrapper's handle is no stray call, and touches no other's.
LEMMA FreeEffect ==
  ASSUME TypeOK, OneOwner, NoStrayCall, NEW o \in Objects, Free(o)
  PROVE  /\ stray' = FALSE
         /\ life[o] # "open" => UNCHANGED << handle, lent >>
         /\ life[o] = "open" =>
              /\ handle' = [ handle EXCEPT ![own[o]] = "freed" ]
              /\ lent' = [ lent EXCEPT ![o] = {} ]
BY DEF Free, TypeOK, OneOwner, NoStrayCall

-----------------------------------------------------------------------------
(* The steps, one lemma each.                                              *)

\* A new wrapper: nobody had its handle, and what it borrows is open.
LEMMA MakeStep ==
  ASSUME IInv, NEW o \in Objects, NEW uses \in SUBSET Objects,
         NEW refs \in SUBSET Objects, uses \subseteq refs,
         \A l \in uses : life[l] = "open" /\ (IF o \in Streams THEN l \in Clients
                                              ELSE l \in Lenders \cup Caches),
         uses # {} => o \notin Connectings,
         Make(o, uses, refs)
  PROVE  IInv'
<1> USE DEF IInv, Make
<1>0. TypeOK'
  BY Apart DEF TypeOK
<1>1. own[o] = o /\ \A p \in Objects : own[p] = o /\ p # o => life[p] = "unmade"
  BY DEF TypeOK, Owning
<1>2. Owning'
  BY DEF Owning, TypeOK
<1>3. OneOwner'
  BY <1>1 DEF OneOwner, TypeOK
<1>4. Lending'
  <2>1. \A p \in Objects : o \notin lent[p]
    BY DEF Lending, TypeOK, Quiet
  <2> QED
    BY <2>1, Apart DEF Lending, TypeOK, Quiet
<1>5. DoomIsClosed' /\ Rooted' /\ NoStrayCall'
  BY DEF DoomIsClosed, Rooted, NoStrayCall, Alive, Quiet, TypeOK
<1>6. Accounted'
  BY <1>1 DEF Accounted, TypeOK
<1> QED
  BY <1>0, <1>2, <1>3, <1>4, <1>5, <1>6

\* A handshake that ends passes its handle on or finds it freed.
LEMMA PollStep ==
  ASSUME IInv, NEW w \in Connectings, Poll(w)
  PROVE  IInv'
<1> USE DEF IInv, Poll, Done
<1>0. w \in Objects /\ life[w] = "open" /\ own[w] = w /\ doomed = {}
  BY Apart DEF Usable, Quiet, Owning
<1>1. TypeOK'
  BY <1>0, Apart DEF TypeOK
<1>2. Owning'
  BY <1>0, Apart DEF Owning, TypeOK
<1>3. OneOwner'
  BY <1>0, Apart DEF OneOwner, TypeOK
<1>4. Lending'
  <2>1. ASSUME NEW o \in Objects, NEW l \in lent[o]
        PROVE  life'[o] = life[o] /\ life'[l] = life[l]
    <3>1. /\ life[o] = "open" /\ lent[o] \in SUBSET Objects
          /\ l \in Lenders \cup Caches \cup Clients /\ life[l] \in { "open", "closed" }
      BY <1>0 DEF Lending, TypeOK
    <3>2. w # l
      BY <3>1, Apart
    <3>3. w # o
      BY <1>0, <3>1, Apart DEF Lending
    <3> QED
      BY <1>0, <3>1, <3>2, <3>3 DEF TypeOK
  <2> QED
    BY <2>1 DEF Lending
<1>5. DoomIsClosed' /\ NoStrayCall'
  BY <1>0 DEF DoomIsClosed, NoStrayCall
<1>7. Rooted'
  <2>1. ASSUME NEW c \in Clients, NEW o \in Objects, life[c] = "unmade",
               life' = [ life EXCEPT ![w] = "closed", ![c] = "open" ]
        PROVE  Alive(o) \/ o = c => Alive(o)'
    BY <1>0, <2>1, Apart DEF Alive, TypeOK
  <2>2. ASSUME NEW o \in Objects, life' = [ life EXCEPT ![w] = "closed" ]
        PROVE  Alive(o) => Alive(o)'
    BY <1>0, <2>2 DEF Alive, TypeOK
  <2>3. \A o \in roots : o \in Objects /\ Alive(o)
    BY DEF Rooted, TypeOK
  <2>4. doomed' = {}
    BY <1>0
  <2>5. CASE roots' = roots /\ life' = [ life EXCEPT ![w] = "closed" ]
    BY <2>2, <2>3, <2>4, <2>5 DEF Rooted
  <2>6. ASSUME NEW c \in Clients, roots' = roots \cup { c }, life[c] = "unmade",
               life' = [ life EXCEPT ![w] = "closed", ![c] = "open" ]
        PROVE  Rooted'
    BY <2>1, <2>3, <2>4, <2>6, Apart DEF Rooted
  <2> QED
    BY <2>5, <2>6
<1>6. Accounted'
  BY <1>0, Apart DEF Accounted, TypeOK, OneOwner
<1> QED
  BY <1>1, <1>2, <1>3, <1>4, <1>5, <1>6, <1>7

\* A client changes its cache, and its reference with it.
LEMMA SetCacheStep ==
  ASSUME IInv, NEW c \in Clients, NEW ks \in SUBSET Caches,
         \A k \in ks : Usable(k), SetCache(c, ks)
  PROVE  IInv'
<1> USE DEF IInv, SetCache, Usable, Quiet
<1>1. UNION { Kept(k) : k \in ks } = ks
  BY DEF Kept
<1>2. TypeOK'
  BY <1>1, Apart DEF TypeOK
<1>3. Owning' /\ OneOwner' /\ Accounted'
  BY DEF Owning, OneOwner, Accounted
<1>4. Lending'
  BY <1>1, Apart DEF Lending, TypeOK
<1>5. DoomIsClosed' /\ Rooted' /\ NoStrayCall'
  BY DEF DoomIsClosed, Rooted, NoStrayCall, Alive, Quiet, TypeOK
<1> QED
  BY <1>2, <1>3, <1>4, <1>5

\* close(): nobody borrows what the program closes.
LEMMA CloseStep ==
  ASSUME IInv, NEW o \in Objects, Close(o)
  PROVE  IInv'
<1> USE DEF IInv, Close
<1>0. /\ doomed = {} /\ o \notin Streams
      /\ \A p \in Objects \ Streams : o \notin lent[p]
  BY DEF Quiet, Borrowed, Lending
<1>1. /\ stray' = FALSE
      /\ life[o] # "open" => UNCHANGED << handle, lent >>
      /\ life[o] = "open" => /\ handle' = [ handle EXCEPT ![own[o]] = "freed" ]
                             /\ lent' = [ lent EXCEPT ![o] = {} ]
  BY FreeEffect
<1>2. TypeOK'
  BY <1>0, <1>1 DEF TypeOK
<1>3. Owning'
  BY DEF Owning, TypeOK
<1>4. OneOwner'
  BY <1>1 DEF OneOwner, TypeOK
<1>5. Lending'
  BY <1>0, <1>1 DEF Lending, TypeOK
<1>6. DoomIsClosed' /\ Rooted' /\ NoStrayCall'
  BY <1>0, <1>1 DEF DoomIsClosed, Rooted, NoStrayCall, Alive, Quiet, TypeOK
<1>7. Accounted'
  <2> SUFFICES ASSUME NEW p \in Objects, p \notin Streams,
                      life'[p] \in { "closed", "gone" },
                      handle'[own[p]] = "live"
               PROVE  \E q \in Objects : life'[q] = "open" /\ own[q] = own[p]
    BY DEF Accounted
  <2>1. handle[own[p]] = "live" /\ (life[o] = "open" => own[p] # own[o])
    BY <1>1 DEF TypeOK
  <2>4. life[p] \in { "closed", "gone" }
    BY <2>1 DEF TypeOK, Rooted, Alive
  <2>2. PICK q \in Objects : life[q] = "open" /\ own[q] = own[p]
    BY <2>1, <2>4 DEF Accounted
  <2>3. q # o /\ life'[q] = "open"
    BY <2>1, <2>2 DEF TypeOK
  <2> QED
    BY <2>2, <2>3
<1> QED
  BY <1>2, <1>3, <1>4, <1>5, <1>6, <1>7

\* response, recv and verify: the stream keeps its client, so only the program
\* can have closed the connection.
LEMMA CallStreamStep ==
  ASSUME IInv, NEW t \in Objects, CallStream(t)
  PROVE  IInv'
<1> USE DEF IInv, CallStream
<1>1. stray' = FALSE
  <2> SUFFICES ASSUME NEW c \in lent[t], handle[own[c]] # "live"
               PROVE  life[c] = "closed"
    BY DEF NoStrayCall
  <2>1. c \in Objects /\ doomed = {}
    BY DEF TypeOK, Quiet
  <2> QED
    BY <2>1 DEF Lending, OneOwner
<1>2. TypeOK'
  BY <1>1 DEF TypeOK
<1>3. /\ Owning' /\ OneOwner' /\ Lending' /\ DoomIsClosed' /\ Rooted'
      /\ Accounted' /\ NoStrayCall'
  BY <1>1 DEF Owning, OneOwner, Lending, DoomIsClosed, Rooted, Accounted,
              NoStrayCall, Alive, Refers
<1> QED
  BY <1>2, <1>3

\* Stream.close: if it calls, its client is open and so is the connection.
LEMMA CloseStreamStep ==
  ASSUME IInv, NEW t \in Objects, CloseStream(t)
  PROVE  IInv'
<1> USE DEF IInv, CloseStream
<1>0. doomed = {} /\ t \in Streams
  BY DEF Quiet
<1>1. stray' = FALSE
  BY DEF NoStrayCall, StreamMustClose, Lending, OneOwner, TypeOK
<1>2. TypeOK'
  BY <1>1 DEF TypeOK
<1>3. Owning' /\ OneOwner'
  BY DEF Owning, OneOwner, TypeOK
<1>4. Lending'
  BY <1>0, Apart DEF Lending, TypeOK
<1>5. DoomIsClosed' /\ Rooted' /\ NoStrayCall'
  BY <1>0, <1>1 DEF DoomIsClosed, Rooted, NoStrayCall, Alive, Quiet, TypeOK
<1>6. Accounted'
  BY <1>0, Apart DEF Accounted, TypeOK, OneOwner, Owning
<1> QED
  BY <1>1, <1>2, <1>3, <1>4, <1>5, <1>6

\* A finalizer: whoever borrows from o refers to it, so it is finalized in a
\* collection that has the borrower too.
LEMMA FinalizeStep ==
  ASSUME IInv, NEW o \in Objects, Finalize(o)
  PROVE  IInv'
<1> USE DEF IInv, Finalize
<1>0. \A p \in Objects : o \in lent[p] => p \in doomed
  <2>1. CASE o \in doomed
    BY <2>1 DEF Lending, DoomIsClosed, Refers, Alive
  <2>2. CASE Unreferenced(o)
    BY <2>2 DEF Lending, Unreferenced, Refers, Alive
  <2> QED
    BY <2>1, <2>2
<1>1. /\ stray' = FALSE
      /\ life[o] # "open" /\ o \notin Streams => UNCHANGED << handle, lent >>
      /\ o \in Streams => /\ UNCHANGED handle
                          /\ lent' = [ lent EXCEPT ![o] = {} ]
      /\ life[o] = "open" /\ o \notin Streams =>
           /\ handle' = [ handle EXCEPT ![own[o]] = "freed" ]
           /\ lent' = [ lent EXCEPT ![o] = {} ]
  <2>1. CASE o \in Streams
    BY <2>1 DEF Finalized, NoStrayCall
  <2>2. CASE o \notin Streams
    BY <2>2, FreeEffect DEF Finalized
  <2> QED
    BY <2>1, <2>2
<1>2. TypeOK'
  BY <1>1 DEF TypeOK
<1>3. Owning'
  BY DEF Owning, TypeOK
<1>4. OneOwner'
  BY <1>1 DEF OneOwner, TypeOK
<1>5. Lending'
  BY <1>0, <1>1 DEF Lending, TypeOK
<1>6. NoStrayCall'
  BY <1>1 DEF NoStrayCall
<1>8. DoomIsClosed'
  <2>1. \A p \in Objects : p # o => life'[p] = life[p] /\ keeps'[p] = keeps[p]
                                     /\ captures'[p] = captures[p]
    BY DEF TypeOK
  <2>2. life'[o] = "gone" /\ doomed' = doomed \ { o } /\ doomed \subseteq Objects
    BY DEF TypeOK
  <2>3. \A p \in Objects : ~Refers(o, p)'
    BY <2>2 DEF Refers, Alive
  <2>4. \A p, l \in Objects : p # o => (Refers(p, l)' <=> Refers(p, l))
    BY <2>1 DEF Refers, Alive
  <2>5. \A l \in Objects : l # o => (Alive(l)' <=> Alive(l))
    BY <2>1 DEF Alive
  <2> QED
    BY <2>2, <2>3, <2>4, <2>5 DEF DoomIsClosed
<1>9. Rooted'
  <2>1. o \notin roots
    BY DEF Rooted, Unreferenced
  <2> QED
    BY <2>1 DEF Rooted, Alive, TypeOK
<1>7. Accounted'
  <2> SUFFICES ASSUME NEW p \in Objects, p \notin Streams, life'[p] \in { "closed", "gone" },
                      handle'[own[p]] = "live"
               PROVE  \E q \in Objects : life'[q] = "open" /\ own[q] = own[p]
    BY DEF Accounted
  <2>1. handle[own[p]] = "live"
    BY <1>1 DEF TypeOK
  <2>2. life[o] = "open" /\ o \notin Streams => own[p] # own[o]
    BY <1>1 DEF TypeOK
  <2>3. life[p] \in { "closed", "gone" }
    <3>1. CASE p # o
      BY <3>1 DEF TypeOK
    <3>2. CASE p = o
      BY <2>1, <2>2, <3>2 DEF DoomIsClosed, Unreferenced, Alive, TypeOK
    <3> QED
      BY <3>1, <3>2
  <2>4. PICK q \in Objects : life[q] = "open" /\ own[q] = own[p]
    BY <2>1, <2>3 DEF Accounted
  <2>5. q # o
    <3>1. CASE o \notin Streams
      BY <2>2, <2>4, <3>1
    <3>2. CASE o \in Streams
      BY <2>4, <3>2, Apart DEF Owning
    <3> QED
      BY <3>1, <3>2
  <2> QED
    BY <2>4, <2>5 DEF TypeOK
<1> QED
  BY <1>2, <1>3, <1>4, <1>5, <1>6, <1>7, <1>8, <1>9

\* A collection starts with all of the garbage.
LEMMA CollectStep ==
  ASSUME IInv, Collect
  PROVE  IInv'
<1> USE DEF IInv, Collect
<1>1. TypeOK' /\ DoomIsClosed' /\ Rooted'
  BY GarbageIsClosed DEF TypeOK, DoomIsClosed, Rooted, Refers, Alive
<1>2. Owning' /\ OneOwner' /\ Accounted' /\ NoStrayCall'
  BY DEF Owning, OneOwner, Accounted, NoStrayCall
<1>3. Lending'
  BY DEF Lending, Quiet
<1> QED
  BY <1>1, <1>2, <1>3

-----------------------------------------------------------------------------
(* The theorems.                                                           *)

\* IInv is inductive.
THEOREM Invariance == Spec => []IInv
<1>1. Init => IInv
  <2> SUFFICES ASSUME Init PROVE IInv
    OBVIOUS
  <2>1. TypeOK /\ DoomIsClosed /\ Rooted /\ NoStrayCall
    BY DEF Init, Nothing, TypeOK, DoomIsClosed, Rooted, NoStrayCall
  <2>2. \A o \in Objects : own[o] = o /\ life[o] = "unmade" /\ lent[o] = {}
    BY DEF Init, Nothing
  <2>3. Owning /\ OneOwner /\ Lending /\ Accounted
    BY <2>2 DEF Owning, OneOwner, Lending, Accounted
  <2> QED
    BY <2>1, <2>3 DEF IInv
<1>2. IInv /\ [Next]_vars => IInv'
  <2> SUFFICES ASSUME IInv, [Next]_vars PROVE IInv'
    OBVIOUS
  <2>1. CASE Making
    <3>1. ASSUME NEW l \in Lenders, Build(l) PROVE IInv'
      BY <3>1, MakeStep DEF Build, Objects
    <3>2. ASSUME NEW l \in Lenders, NEW b \in Borrowers, Attach(b, l) PROVE IInv'
      BY <3>2, MakeStep, Apart DEF Attach, Usable, Kept
    <3>3. ASSUME NEW c \in Clients, Connect(c) PROVE IInv'
      BY <3>3, MakeStep DEF Connect, Objects
    <3>4. ASSUME NEW c \in Clients, NEW t \in Streams, OpenStream(t, c)
          PROVE  IInv'
      BY <3>4, MakeStep, Apart DEF OpenStream, Usable, Kept
    <3>5. ASSUME NEW w \in Connectings, StartConnect(w) PROVE IInv'
      BY <3>5, MakeStep DEF StartConnect, Objects
    <3>6. ASSUME NEW k \in Caches, NewCache(k) PROVE IInv'
      BY <3>6, MakeStep DEF NewCache, Objects
    <3> QED
      BY <2>1, <3>1, <3>2, <3>3, <3>4, <3>5, <3>6, PollStep DEF Making
  <2>2. CASE Using
    <3>1. ASSUME NEW c \in Clients, NEW ks \in { {} } \cup { { k } : k \in Caches },
                 \A k \in ks : Usable(k), SetCache(c, ks)
          PROVE  IInv'
      BY <3>1, SetCacheStep
    <3>2. ASSUME NEW o \in Objects, NEW ks \in SUBSET Objects, SetHook(o, ks)
          PROVE  IInv'
      BY <3>2 DEF SetHook, Quiet, Usable, IInv, TypeOK, Owning, OneOwner, Lending,
                  DoomIsClosed, Rooted, Accounted, NoStrayCall, Alive
    <3>3. ASSUME NEW o \in Objects, Drop(o) PROVE IInv'
      BY <3>3 DEF Drop, Quiet, IInv, TypeOK, Owning, OneOwner, Lending,
                  DoomIsClosed, Rooted, Accounted, NoStrayCall, Alive
    <3> QED
      BY <2>2, <3>1, <3>2, <3>3, CloseStep, CallStreamStep, CloseStreamStep DEF Using
  <2>3. CASE Interpreter
    BY <2>3, CollectStep, FinalizeStep DEF Interpreter
  <2>4. CASE UNCHANGED vars
    BY <2>4 DEF vars, IInv, TypeOK, Owning, OneOwner, Lending, DoomIsClosed,
                Rooted, Accounted, NoStrayCall, Alive, Refers
  <2> QED
    BY <2>1, <2>2, <2>3, <2>4 DEF Next
<1> QED
  BY <1>1, <1>2, PTL DEF Spec

\* Every variable keeps its type.
THEOREM TypeCorrect == Spec => []TypeOK
<1>1. IInv => TypeOK
  BY DEF IInv
<1> QED
  BY <1>1, Invariance, PTL

\* "ownership transfers" (client.py:471): no two open wrappers share a handle,
\* and it is live.
THEOREM HandlesHaveOneOwner == Spec => []OneOwner
<1>1. IInv => OneOwner
  BY DEF IInv
<1> QED
  BY <1>1, Invariance, PTL

\* No handle is freed twice, Stream.close makes no call on a closed connection,
\* and the other methods of a stream do only after the program closed the client.
THEOREM CallsOnLiveHandles == Spec => []NoStrayCall
<1>1. IInv => NoStrayCall
  BY DEF IInv
<1> QED
  BY <1>1, Invariance, PTL

\* A lender outlives its borrowers, and a client its streams, in whatever order
\* the program drops them, outside the collection of a cycle; but the program may
\* close a client under its stream.
THEOREM LendersOutliveBorrowers == Spec => []BorrowsHold
<1>1. IInv => BorrowsHold
  <2> SUFFICES ASSUME IInv, NEW o \in Objects, NEW l \in lent[o], o \notin doomed,
                      ~(o \in Streams /\ life[l] = "closed")
               PROVE  handle[own[l]] = "live"
    BY DEF BorrowsHold
  <2>1. l \in Objects /\ life[l] = "open"
    BY Apart DEF IInv, Lending
  <2> QED
    BY <2>1 DEF IInv, OneOwner
<1> QED
  BY <1>1, Invariance, PTL

\* The finalizers lose no handle (client.py:450).
THEOREM FinalizersLoseNothing == Spec => []NoHandleLost
<1>1. IInv => NoHandleLost
  BY DEF IInv, Accounted, NoHandleLost
<1> QED
  BY <1>1, Invariance, PTL

=============================================================================
