---------------------------- MODULE BodyService ----------------------------
(***************************************************************************)
(* What a stream promises the program that reads it, with no owner thread, *)
(* no queue and no executor in sight: the body is read chunk by chunk, and *)
(* an end or a fault closes it, the end only all of a genuine body.  The   *)
(* calls come one after the other; each is told the first item that is     *)
(* outstanding, and only one that was cancelled may lose an item, one.     *)
(*                                                                         *)
(* ManagedStream implements this specification (see Service there).        *)
(***************************************************************************)

EXTENDS Naturals, Sequences

CONSTANTS NumCalls, BodyLen, End, Fault, Nothing

VARIABLES
  genuine,   \* the body is the peer's
  read,      \* how many chunks were read
  ending,    \* what closed the body, or Nothing
  call,      \* idle, waiting, returned or cancelled
  got,       \* the item each call was told or lost, or Nothing
  received   \* what the calls were told, in that order

vars == << genuine, read, ending, call, got, received >>

Calls == 1..NumCalls

Chunk(k) == << "chunk", k >>

Items == { Chunk(k) : k \in 1..read } \cup ({ ending } \ { Nothing })

Place(x) == IF x \in { End, Fault } THEN read + 1 ELSE x[2]

Outstanding == Items \ { got[c] : c \in Calls }

Init ==
  /\ genuine \in BOOLEAN
  /\ read = 0 /\ ending = Nothing
  /\ call = [ c \in Calls |-> "idle" ]
  /\ got = [ c \in Calls |-> Nothing ]
  /\ received = << >>

Read ==
  /\ ending = Nothing /\ read < BodyLen
  /\ read' = read + 1
  /\ UNCHANGED << genuine, ending, call, got, received >>

Close ==
  /\ ending = Nothing
  /\ \/ ending' = Fault
     \/ ending' = End /\ genuine /\ read = BodyLen
  /\ UNCHANGED << genuine, read, call, got, received >>

Becomes(c, from, to) ==
  /\ call[c] = from
  /\ call' = [ call EXCEPT ![c] = to ]

Ask(c) ==
  /\ \A b \in 1..c-1 : call[b] \in { "returned", "cancelled" }
  /\ Becomes(c, "idle", "waiting")
  /\ UNCHANGED << genuine, read, ending, got, received >>

Cancel(c) ==
  /\ Becomes(c, "waiting", "cancelled")
  /\ UNCHANGED << genuine, read, ending, got, received >>

\* an item is outstanding no longer
Take(c, x) ==
  /\ x \in Outstanding
  /\ got' = [ got EXCEPT ![c] = x ]

Tell(c, x) ==
  /\ Becomes(c, "waiting", "returned")
  /\ Take(c, x)
  /\ \A y \in Outstanding : Place(x) <= Place(y)
  /\ received' = Append(received, x)
  /\ UNCHANGED << genuine, read, ending >>

Lose(c, x) ==
  /\ call[c] = "cancelled" /\ got[c] = Nothing
  /\ Take(c, x)
  /\ UNCHANGED << genuine, read, ending, call, received >>

Next ==
  \/ Read \/ Close
  \/ \E c \in Calls :
       \/ Ask(c) \/ Cancel(c)
       \/ \E x \in Items : Tell(c, x) \/ Lose(c, x)

Spec == Init /\ [][Next]_vars

=============================================================================
