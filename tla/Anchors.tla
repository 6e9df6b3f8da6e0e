------------------------------- MODULE Anchors -------------------------------
(***************************************************************************)
(* The anchors that sign checkpoints of a log.  Each keeps its own replica *)
(* of the log, which the program reads entry by entry and persists, and an *)
(* AnchorNode, which is in memory.  A partial signature, once made, may    *)
(* reach any coordinator at any time.                                      *)
(***************************************************************************)

EXTENDS TrustLog, FiniteSets

CONSTANTS
  Members,     \* the anchors
  Threshold,   \* partial signatures a checkpoint takes
  Epochs,
  None         \* no root

ASSUME QuorumsMeet ==
  /\ IsFiniteSet(Members) /\ Threshold \in Nat
  /\ 2 * Threshold > Cardinality(Members)

VARIABLES
  snapshot,    \* per epoch: what /log/root?epoch=N names, or None
  replica,     \* per anchor: its copy of the log
  collected,   \* per anchor and epoch: the root it collected, or None
  partials     \* the PartialSigs made, each [by, epoch, root]

anchorVars == << snapshot, replica, collected, partials >>

NoRoots == [ n \in Epochs |-> None ]

AnchorInit ==
  /\ snapshot = NoRoots
  /\ replica = [ a \in Members |-> << >> ]
  /\ collected = [ a \in Members |-> NoRoots ]
  /\ partials = {}

-----------------------------------------------------------------------------

\* Mutant: the server's root is passed twice.
ServerRootTwice(server, local) == << server, server >>

\* the two roots given to the native node
CrossCheck(server, local) == << server, local >>

\* The native log server keeps the root it had as an epoch closed.
CloseEpoch(n) ==
  /\ Readable /\ snapshot[n] = None
  /\ snapshot' = [ snapshot EXCEPT ![n] = log ]
  /\ UNCHANGED << replica, collected, partials >>

\* the program reads the entry after those it has
Sync(a) ==
  /\ Readable /\ Len(replica[a]) < Len(log)
  /\ replica' = [ replica EXCEPT ![a] = Append(@, log[Len(@) + 1]) ]
  /\ UNCHANGED << snapshot, collected, partials >>

\* collect_log_root with the replica at the size of the snapshot; roots that
\* disagree raise TrustError and record nothing
Collect(a, n) ==
  /\ Readable /\ snapshot[n] # None
  /\ LET size == Len(snapshot[n])
         roots == CrossCheck(snapshot[n], SubSeq(replica[a], 1, size))
     IN /\ Len(replica[a]) >= size
        /\ roots[1] = roots[2]
        /\ collected' = [ collected EXCEPT ![a][n] = roots[1] ]
  /\ UNCHANGED << snapshot, replica, partials >>

\* a partial signature, which a node makes only of the root it collected
Sign(a, n, r) ==
  /\ collected[a][n] = r
  /\ partials' = partials \cup { [ by |-> a, epoch |-> n, root |-> r ] }
  /\ UNCHANGED << snapshot, replica, collected >>

\* the coordinator's own share
ProducePartialSig(a, n) ==
  collected[a][n] # None /\ Sign(a, n, collected[a][n])

\* Coordinator c asks the anchor a for a share of the root c collected; a's node
\* answers in dispatch(), if c is one of anchor_ids.  It answers `forbidden`, which
\* raises in c, when it did not collect that root.
RequestPartialSig(c, a, n) ==
  c # a /\ collected[c][n] # None /\ Sign(a, n, collected[c][n])

\* a new AnchorNode over the replica of before
AnchorRestarts(a) ==
  /\ collected[a] # NoRoots
  /\ collected' = [ collected EXCEPT ![a] = NoRoots ]
  /\ UNCHANGED << snapshot, replica, partials >>

AnchorNext ==
  \/ \E n \in Epochs :
       \/ CloseEpoch(n)
       \/ \E a \in Members :
            \/ Collect(a, n) \/ ProducePartialSig(a, n)
            \/ \E c \in Members : RequestPartialSig(c, a, n)
  \/ \E a \in Members : Sync(a) \/ AnchorRestarts(a)

-----------------------------------------------------------------------------

\* What finish_checkpoint makes of the partials ps for a claim: the threshold is
\* counted in partials, an aggregate over another root does not verify.
Checkpoint(n, r, ps) == [ epoch |-> n, root |-> r, shares |-> ps ]

Verifies(c) ==
  /\ Cardinality({ p.by : p \in c.shares }) >= Threshold
  /\ \A p \in c.shares : p.epoch = c.epoch /\ p.root = c.root

\* the checkpoints that verify, of any partials gathered so far
Certified ==
  { c \in { Checkpoint(p.epoch, p.root, { q \in partials : q.epoch = p.epoch
                                                  /\ q.root = p.root }) :
              p \in partials } :
      Verifies(c) }

\* Checkpoints never split the network: the roots of any two that verify are of
\* one history, one extending the other, although the log server may lose
\* entries, take others in their place and give an epoch's root twice.  Any two
\* quorums share an anchor, and what it signs it has cross-checked
\* (anchor.py:102-107).
CheckpointsAgree ==
  \A c, d \in Certified :
    IsPrefix(c.root, d.root) \/ IsPrefix(d.root, c.root)

=============================================================================
