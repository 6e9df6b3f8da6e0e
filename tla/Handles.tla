------------------------------ MODULE Handles ------------------------------
(***************************************************************************)
(* The wrappers around native handles, and who frees a handle when: the    *)
(* program closes a wrapper, or drops its last reference and the finalizer *)
(* closes it, or the garbage collector finds it in a reference cycle.      *)
(*                                                                         *)
(* Some native handles use another one for as long as they live (a dht its *)
(* server's socket, a client its cache, a log server its log).  A wrapper  *)
(* of such a handle keeps a Python reference to the wrapper it borrows, so *)
(* that finalizers alone free the two in the right order.                  *)
(*                                                                         *)
(* A server and its dht, and a log and its log server, behave alike: each  *)
(* pair is a lender and its borrower here.  A handle goes by the name of   *)
(* the wrapper that got it first.                                          *)
(***************************************************************************)

EXTENDS Naturals

CONSTANTS
  Lenders,      \* servers and logs
  Borrowers,    \* dhts and log servers, each made over a lender
  Connectings, Clients, Streams, Caches,
  Hooks         \* << o, k >>: a callback installed on o may capture k

Objects == Lenders \cup Borrowers \cup Connectings \cup Clients \cup Streams
             \cup Caches

ASSUME Kinds ==
  /\ Lenders \cap (Borrowers \cup Connectings \cup Clients \cup Streams
                    \cup Caches) = {}
  /\ Borrowers \cap (Connectings \cup Clients \cup Streams \cup Caches) = {}
  /\ Connectings \cap (Clients \cup Streams \cup Caches) = {}
  /\ Clients \cap (Streams \cup Caches) = {}
  /\ Streams \cap Caches = {}
  /\ Hooks \subseteq Objects \X Objects

VARIABLES
  roots,     \* the wrappers the program holds in a variable
  life,      \* per wrapper: unmade, open, closed (_closed or _done), or gone
  own,       \* per wrapper: its handle
  handle,    \* per handle: none, live or freed
  keeps,     \* per wrapper: the wrappers its slots refer to
  captures,  \* per wrapper: the wrappers its callback refers to
  lent,      \* per wrapper: the handles its own handle uses, by their wrappers
  doomed,    \* wrappers the collector found unreachable and has yet to finalize
  stray      \* history: a native call was made on a handle that is not live,
             \* though the program had not closed the wrapper of that handle

vars == << roots, life, own, handle, keeps, captures, lent, doomed, stray >>

Nothing == [ o \in Objects |-> {} ]

Init ==
  /\ roots = {}
  /\ life = [ o \in Objects |-> "unmade" ]
  /\ own = [ o \in Objects |-> o ]
  /\ handle = [ o \in Objects |-> "none" ]
  /\ keeps = Nothing
  /\ captures = Nothing
  /\ lent = Nothing
  /\ doomed = {}
  /\ stray = FALSE

-----------------------------------------------------------------------------
(* References.                                                             *)

Alive(o) == life[o] \in { "open", "closed" }

Refers(p, o) == Alive(p) /\ o \in keeps[p] \cup captures[p]

Unreferenced(o) ==
  Alive(o) /\ o \notin roots /\ \A p \in Objects : ~Refers(p, o)

\* what no chain of references from the program's variables leads to
Garbage ==
  UNION { G \in SUBSET { o \in Objects : Alive(o) } :
            /\ G \cap roots = {}
            /\ \A o \in G, p \in Objects : Refers(p, o) => p \in G }

\* An object is finalized as soon as its last reference goes, and a collection
\* is not interrupted, so the program runs only when neither is due.
Quiet == doomed = {} /\ \A o \in Objects : ~Unreferenced(o)

-----------------------------------------------------------------------------
(* Parts of the actions.  A "Mutant" is a plausible slip in the operator   *)
(* after it and is used by no action.                                      *)

\* Mutant: a dht, a log server, a client or a stream keeps no reference.
KeepsNothing(o) == {}

\* the slots `_server`, `_log`, `_cache`, and `_client` of a stream
Kept(o) == { o }

\* self._done = True
Done(w) == "closed"

\* Mutant: a stream closes its id without a look at its client.
StreamCloses(t) == life[t] = "open"

\* not self._closed and not self._client._closed
StreamMustClose(t) ==
  life[t] = "open" /\ \A c \in keeps[t] : life[c] = "open"

\* Mutant: Connecting has no __del__.
ConnectingLacksDel == Objects \ (Streams \cup Connectings)

\* the classes with a __del__ that closes
Finalized == Objects \ Streams

-----------------------------------------------------------------------------
(* The program makes wrappers.                                             *)

\* A constructor got a handle from the native library.
Make(o, uses, refs) ==
  /\ Quiet
  /\ life[o] = "unmade"
  /\ life' = [ life EXCEPT ![o] = "open" ]
  /\ handle' = [ handle EXCEPT ![o] = "live" ]
  /\ lent' = [ lent EXCEPT ![o] = uses ]
  /\ keeps' = [ keeps EXCEPT ![o] = refs ]
  /\ roots' = roots \cup { o }
  /\ UNCHANGED << own, captures, doomed, stray >>

Usable(o) == o \in roots /\ life[o] = "open"

\* ServerBuilder.build, Log.__init__
Build(l) == l \in Lenders /\ Make(l, {}, {})

NewCache(k) == k \in Caches /\ Make(k, {}, {})

Connect(c) == c \in Clients /\ Make(c, {}, {})

StartConnect(w) == w \in Connectings /\ Make(w, {}, {})

\* Dht.attach, LogServer.__init__
Attach(b, l) ==
  b \in Borrowers /\ l \in Lenders /\ Usable(l) /\ Make(b, { l }, Kept(l))

\* A stream has an id on its client's connection and no handle of its own.
OpenStream(t, c) ==
  /\ t \in Streams /\ c \in Clients
  /\ Usable(c)
  /\ Make(t, { c }, Kept(c))

\* Connecting.poll: ValueError when done, nothing while handshaking; else the
\* handle passes to a new Client, or the native library has freed it.
Poll(w) ==
  /\ Quiet
  /\ w \in Connectings /\ Usable(w)
  /\ \/ \E c \in Clients :
          /\ life[c] = "unmade"
          /\ life' = [ life EXCEPT ![w] = Done(w), ![c] = "open" ]
          /\ own' = [ own EXCEPT ![c] = own[w] ]
          /\ roots' = roots \cup { c }
          /\ UNCHANGED handle
     \/ /\ life' = [ life EXCEPT ![w] = Done(w) ]
        /\ handle' = [ handle EXCEPT ![own[w]] = "freed" ]
        /\ UNCHANGED << own, roots >>
  /\ UNCHANGED << keeps, captures, lent, doomed, stray >>

-----------------------------------------------------------------------------
(* The program uses them.                                                  *)

\* attaches a cache, in place of another one, or detaches it
SetCache(c, ks) ==
  /\ Quiet
  /\ c \in Clients /\ Usable(c)
  /\ lent' = [ lent EXCEPT ![c] = ks ]
  /\ keeps' = [ keeps EXCEPT ![c] = UNION { Kept(k) : k \in ks } ]
  /\ UNCHANGED << roots, life, own, handle, captures, doomed, stray >>

\* on_request, on_request_done, on_append: a callback replaces another one, or
\* a variable it captured is assigned
SetHook(o, ks) ==
  /\ Quiet
  /\ Usable(o)
  /\ ks \subseteq roots
  /\ \A k \in ks : << o, k >> \in Hooks
  /\ captures' = [ captures EXCEPT ![o] = ks ]
  /\ UNCHANGED << roots, life, own, handle, keeps, lent, doomed, stray >>

Drop(o) ==
  /\ Quiet
  /\ o \in roots
  /\ roots' = roots \ { o }
  /\ UNCHANGED << life, own, handle, keeps, captures, lent, doomed, stray >>

\* The native close or free of o's handle, when o is open; closing it again
\* does nothing.  A closed wrapper lets go of its callback.
Free(o) ==
  IF life[o] = "open"
  THEN /\ handle' = [ handle EXCEPT ![own[o]] = "freed" ]
       /\ stray' = (stray \/ handle[own[o]] # "live")
       /\ lent' = [ lent EXCEPT ![o] = {} ]
  ELSE UNCHANGED << handle, stray, lent >>

Borrowed(o) == \E p \in Objects \ Streams : life[p] = "open" /\ o \in lent[p]

\* close(), or the end of a with-block.  The program keeps to the documents: a
\* server, cache or log outlives what borrows it.  Nothing asks it to close a
\* client's streams before the client.
Close(o) ==
  /\ Quiet
  /\ o \in roots \ Streams
  /\ ~Borrowed(o)
  /\ Free(o)
  /\ life' = [ life EXCEPT ![o] = "closed" ]
  /\ captures' = [ captures EXCEPT ![o] = {} ]
  /\ UNCHANGED << roots, own, keeps, doomed >>

\* response(), recv() and verify() look at the stream's own _closed and call on
\* the connection of its client, closed or not.
CallStream(t) ==
  /\ Quiet
  /\ t \in roots \cap Streams /\ life[t] = "open"
  /\ stray' = (stray \/ \E c \in lent[t] :
                          handle[own[c]] # "live" /\ life[c] # "closed")
  /\ UNCHANGED << roots, life, own, handle, keeps, captures, lent, doomed >>

\* Stream.close, which its client's close may precede
CloseStream(t) ==
  /\ Quiet
  /\ t \in roots \cap Streams
  /\ stray' = (stray \/ /\ StreamMustClose(t)
                        /\ \E c \in lent[t] : handle[own[c]] # "live")
  /\ life' = [ life EXCEPT ![t] = "closed" ]
  /\ lent' = [ lent EXCEPT ![t] = {} ]
  /\ UNCHANGED << roots, own, handle, keeps, captures, doomed >>

-----------------------------------------------------------------------------
(* The interpreter.                                                        *)

\* The collector finds what hangs on a cycle, and will finalize all of it.
Collect ==
  /\ Quiet
  /\ Garbage # {}
  /\ doomed' = Garbage
  /\ UNCHANGED << roots, life, own, handle, keeps, captures, lent, stray >>

\* __del__, for the last reference or in a collection: there in any order
Finalize(o) ==
  /\ o \in doomed \/ (doomed = {} /\ Unreferenced(o))
  /\ IF o \in Finalized
     THEN Free(o)
     ELSE lent' = [ lent EXCEPT ![o] = {} ] /\ UNCHANGED << handle, stray >>
  /\ life' = [ life EXCEPT ![o] = "gone" ]
  /\ keeps' = [ keeps EXCEPT ![o] = {} ]
  /\ captures' = [ captures EXCEPT ![o] = {} ]
  /\ doomed' = doomed \ { o }
  /\ UNCHANGED << roots, own >>

-----------------------------------------------------------------------------

Making ==
  \/ \E l \in Lenders : Build(l) \/ \E b \in Borrowers : Attach(b, l)
  \/ \E c \in Clients : Connect(c) \/ \E t \in Streams : OpenStream(t, c)
  \/ \E w \in Connectings : StartConnect(w) \/ Poll(w)
  \/ \E k \in Caches : NewCache(k)

Using ==
  \/ \E c \in Clients, ks \in { {} } \cup { { k } : k \in Caches } :
       (\A k \in ks : Usable(k)) /\ SetCache(c, ks)
  \/ \E o \in Objects : \E ks \in SUBSET { k \in Objects : << o, k >> \in Hooks } :
       SetHook(o, ks)
  \/ \E o \in Objects : Drop(o) \/ Close(o) \/ CallStream(o) \/ CloseStream(o)

Interpreter == Collect \/ \E o \in Objects : Finalize(o)

Next == Making \/ Using \/ Interpreter

Spec == Init /\ [][Next]_vars

-----------------------------------------------------------------------------
(* Properties.                                                             *)

TypeOK ==
  /\ roots \subseteq Objects
  /\ life \in [ Objects -> { "unmade", "open", "closed", "gone" } ]
  /\ own \in [ Objects -> Objects ]
  /\ handle \in [ Objects -> { "none", "live", "freed" } ]
  /\ keeps \in [ Objects -> SUBSET Objects ]
  /\ captures \in [ Objects -> SUBSET Objects ]
  /\ lent \in [ Objects -> SUBSET Objects ]
  /\ doomed \subseteq Objects
  /\ stray \in BOOLEAN

\* No handle is freed twice, by whichever of a Connecting, the Client it became,
\* a finalizer and the native library (client.py:471, 450); Stream.close makes no
\* call on a connection that has been closed (client.py:764); and the connection
\* of a stream the program still uses is never closed by a finalizer under it
\* (client.py:705-706).  Excepted, because the code does it: response, recv and
\* verify on a stream whose client the program closed itself (client.py:768-770
\* looks at the stream only) call on the freed connection.
NoStrayCall == ~stray

\* "ownership transfers" (client.py:471): two open wrappers never have the same
\* handle, and what an open wrapper owns is live.
OneOwner ==
  \A o \in Objects :
    life[o] = "open" =>
      /\ handle[own[o]] = "live"
      /\ \A p \in Objects \ { o } : life[p] = "open" => own[p] # own[o]

\* What a program that keeps to the documents can rely on: in whatever order it
\* drops its wrappers, a server, cache or log is live while something borrows it
\* (dht.py:167-168, client.py:271-272, log.py:368-369), and a client while it has
\* a stream, except inside the collection of a cycle that holds the borrower as
\* well, and a client that the program closed before its stream.
BorrowsHold ==
  \A o \in Objects :
    life[o] = "open" =>
      \A l \in lent[o] :
        \/ handle[own[l]] = "live"
        \/ o \in doomed
        \/ o \in Streams /\ life[l] = "closed"

\* "dropping it before completion closes the underlying handle" (client.py:450),
\* and the finalizers of the other classes: no handle is left live without an
\* open wrapper that will free it.
NoHandleLost ==
  \A o \in Objects :
    life[o] = "gone" /\ handle[own[o]] = "live" =>
      o \in Streams \/ \E p \in Objects : life[p] = "open" /\ own[p] = own[o]

=============================================================================
