---------------------------- MODULE TrustNetwork ----------------------------
(***************************************************************************)
(* A log server, the anchors that sign its checkpoints, and a node whose   *)
(* TrustStore installs them.  The node saves its store now and then; after *)
(* a crash it creates a store, loads the last blob it saved, and then the  *)
(* genesis anchors, which no blob has (store.py:169-171).                  *)
(***************************************************************************)

EXTENDS Anchors

VARIABLES
  phase,      \* of the node's store: created, loaded or anchored
  state,      \* what save() captures: the checkpoint, max_log_size, and the
              \* equivocation history, per epoch the root installed
  blob,       \* the state last saved, Empty before the first
  pinned      \* history: the [epoch, root] of every history that was saved

storeVars == << phase, state, blob, pinned >>

vars == << logVars, anchorVars, storeVars >>

Empty == [ installed |-> None, size |-> 0, history |-> NoRoots ]

StoreInit ==
  /\ phase = "created" /\ state = Empty
  /\ blob = Empty /\ pinned = {}

-----------------------------------------------------------------------------

Larger(m, n) == IF m > n THEN m ELSE n

\* Mutant: save leaves the equivocation history out, as it does the anchor set.
CapturedWithoutHistory == [ state EXCEPT !.history = NoRoots ]

\* max_log_size, the equivocation history and the checkpoint
Captured == state

\* load of the last blob on the new store, if there is one
Load ==
  /\ phase = "created"
  /\ state' = blob
  /\ phase' = "loaded"
  /\ UNCHANGED << blob, pinned >>

\* load_genesis_anchors, which a non-genesis checkpoint needs
LoadGenesisAnchors ==
  /\ phase = "loaded"
  /\ phase' = "anchored"
  /\ UNCHANGED << state, blob, pinned >>

\* update_checkpoint of what finish_checkpoint returned; a checkpoint that is
\* stale, does not verify, or contradicts the history of its epoch raises
UpdateCheckpoint(c) ==
  /\ phase = "anchored"
  /\ Verifies(c)
  /\ state.history[c.epoch] \in { None, c.root }
  /\ state' = [ installed |-> [ epoch |-> c.epoch, root |-> c.root ],
                size |-> Larger(state.size, Len(c.root)),
                history |-> [ state.history EXCEPT ![c.epoch] = c.root ] ]
  /\ UNCHANGED << phase, blob, pinned >>

\* observe_log_size of a /log/root; a smaller size raises
ObserveLogSize ==
  /\ phase = "anchored" /\ Readable
  /\ Len(log) >= state.size
  /\ state' = [ state EXCEPT !.size = Len(log) ]
  /\ UNCHANGED << phase, blob, pinned >>

Save ==
  /\ phase = "anchored"
  /\ blob' = Captured
  /\ pinned' = pinned \cup { [ epoch |-> n, root |-> state.history[n] ] :
                               n \in { m \in Epochs : state.history[m] # None } }
  /\ UNCHANGED << phase, state >>

\* the process ends, and the next one creates its store
StoreRestart ==
  /\ phase # "created"
  /\ phase' = "created" /\ state' = Empty
  /\ UNCHANGED << blob, pinned >>

StoreNext ==
  \/ Load \/ LoadGenesisAnchors \/ Save \/ StoreRestart
  \/ \E c \in Certified : UpdateCheckpoint(c)
  \/ ObserveLogSize

-----------------------------------------------------------------------------

\* a new log server has no snapshots of the epochs before
Snapshots == IF crashes' > crashes THEN NoRoots ELSE snapshot

Init == LogInit /\ AnchorInit /\ StoreInit

Next ==
  \/ /\ LogNext /\ snapshot' = Snapshots
     /\ UNCHANGED << replica, collected, partials, storeVars >>
  \/ AnchorNext /\ UNCHANGED << logVars, storeVars >>
  \/ StoreNext /\ UNCHANGED << logVars, anchorVars >>

Spec == Init /\ [][Next]_vars

-----------------------------------------------------------------------------

Log == Seq(Entries)

Root == { None } \cup Log

Claim == [ epoch : Epochs, root : Log ]

Store ==
  [ installed : { None } \cup Claim, size : Nat, history : [ Epochs -> Root ] ]

Acknowledged == [ entry : Entries, index : Nat ]

TypeOK ==
  /\ log \in Log /\ disk \in Seq(Acknowledged)
  /\ hooked \in BOOLEAN /\ missed \in BOOLEAN
  /\ serving \in { "idle", "persisting", "answering" }
  /\ acked \subseteq Acknowledged /\ crashes \in Nat
  /\ snapshot \in [ Epochs -> Root ]
  /\ replica \in [ Members -> Log ]
  /\ collected \in [ Members -> [ Epochs -> Root ] ]
  /\ partials \subseteq [ by : Members, epoch : Epochs, root : Log ]
  /\ phase \in { "created", "loaded", "anchored" }
  /\ state \in Store /\ blob \in Store
  /\ pinned \subseteq Claim


\* While the append hook keeps up, nothing a node trusts is ever lost: the root of
\* its checkpoint is of a log the server still extends, and the server's size never
\* trips the node's rollback counter (store.py:150-155), through crashes of both.
NothingTrustedIsLost ==
  ~missed /\ Readable =>
    /\ state.installed # None => IsPrefix(state.installed.root, log)
    /\ state.size <= Len(log)

\* A node never installs, for an epoch whose root it saved once, another root of
\* that epoch, in whatever later life of its process: save captures the equivocation
\* history (store.py:167-171) and load brings it back.
NeverContradictsItself ==
  [][ state'.installed \notin { None, state.installed } =>
        \A p \in pinned :
          p.epoch = state'.installed.epoch => p.root = state'.installed.root ]_vars

=============================================================================
