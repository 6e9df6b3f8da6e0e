------------------------- MODULE TrustNetworkProofs -------------------------
(***************************************************************************)
(* Proofs about TrustNetwork, for any entries, anchors, threshold of more  *)
(* than half of them, and any number of crashes: an acknowledged entry     *)
(* survives, checkpoints agree, nothing a node trusts is lost, and it does *)
(* not contradict what it saved.                                           *)
(***************************************************************************)

EXTENDS TrustNetwork, SequenceTheorems, FiniteSetTheorems, TLAPS

-----------------------------------------------------------------------------
(* The inductive invariant, part by part.                                  *)

\* IsPrefix, element by element
Begins(s, t) ==
  Len(s) <= Len(t) /\ \A i \in 1 .. Len(s) : s[i] = t[i]

\* s begins what a restart would replay
Kept(s) ==
  Len(s) <= Len(disk) /\ \A i \in 1 .. Len(s) : s[i] = disk[i].entry

\* A write is in hand only while its entry is the last of the tree.
Served == serving # "idle" => Len(log) > 0

\* The hook is behind the tree by the entry in hand at most, it was given each
\* entry's own index, and it was called before the client was answered.
Persisted ==
  ~missed =>
    /\ Len(log) = Len(disk) + (IF serving = "persisting" THEN 1 ELSE 0)
    /\ \A i \in 1 .. Len(disk) : log[i] = disk[i].entry /\ disk[i].index = i - 1
    /\ \A a \in acked : \E i \in 1 .. Len(disk) : disk[i] = a

\* What an anchor collects or signs begins its replica, which only grows.
Signed ==
  /\ \A a \in Members, n \in Epochs :
       collected[a][n] # None => Begins(collected[a][n], replica[a])
  /\ \A p \in partials : Begins(p.root, replica[p.by])

KeptBy(st) ==
  /\ st.installed # None => Kept(st.installed.root)
  /\ st.size <= Len(disk)

\* No reader of the log has seen what a restart would lose.
Durable ==
  ~missed =>
    /\ \A a \in Members : Kept(replica[a])
    /\ KeptBy(state) /\ KeptBy(blob)

Remembers(st) == \A p \in pinned : st.history[p.epoch] = p.root

Noted(st) ==
  st.installed # None => st.history[st.installed.epoch] = st.installed.root

\* What was saved once is in the blob, and in the store from load on.
Pins ==
  /\ \A p \in pinned : p.root # None
  /\ Remembers(blob) /\ (phase # "created" => Remembers(state))
  /\ Noted(blob) /\ Noted(state)

IInv == TypeOK /\ Served /\ Persisted /\ Signed /\ Durable /\ Pins

-----------------------------------------------------------------------------
(* Lemmas.                                                                 *)

\* Two prefixes of one log: one is a prefix of the other.
LEMMA PrefixesOfOne ==
  ASSUME NEW r \in Log, NEW s \in Log, NEW t \in Log, Begins(r, t), Begins(s, t)
  PROVE  IsPrefix(r, s) \/ IsPrefix(s, r)
<1>1. CASE Len(r) <= Len(s)
  <2>1. SubSeq(r, 1, Len(r)) = SubSeq(s, 1, Len(r))
    BY <1>1 DEF Begins, Log
  <2> QED
    BY <1>1, <2>1 DEF IsPrefix
<1>2. CASE Len(s) <= Len(r)
  <2>1. SubSeq(s, 1, Len(s)) = SubSeq(r, 1, Len(s))
    BY <1>2 DEF Begins, Log
  <2> QED
    BY <1>2, <2>1 DEF IsPrefix
<1> QED
  BY <1>1, <1>2 DEF Log

\* Two checkpoints that verify have shares of one anchor.
LEMMA QuorumsShareAnAnchor ==
  ASSUME TypeOK, NEW c \in Certified, NEW d \in Certified
  PROVE  \E p, q \in partials : p.by = q.by /\ p.root = c.root /\ q.root = d.root
<1> DEFINE By(x) == { p.by : p \in x.shares }
<1>1. ASSUME NEW x \in Certified
      PROVE  /\ x.shares \subseteq partials /\ By(x) \subseteq Members
             /\ Cardinality(By(x)) >= Threshold
             /\ \A p \in x.shares : p.root = x.root
  BY <1>1 DEF Certified, Checkpoint, Verifies, TypeOK
<1>2. By(c) \cap By(d) # {}
  <2>1. IsFiniteSet(By(c)) /\ IsFiniteSet(By(d))
    BY <1>1, QuorumsMeet, FS_Subset
  <2>2. Cardinality(By(c)) + Cardinality(By(d)) > Cardinality(Members)
    <3>1. /\ Cardinality(By(c)) \in Nat /\ Cardinality(By(d)) \in Nat
          /\ Cardinality(Members) \in Nat
      BY <2>1, QuorumsMeet, FS_CardinalityType
    <3>2. Cardinality(By(c)) >= Threshold /\ Cardinality(By(d)) >= Threshold
      BY <1>1
    <3> HIDE DEF By
    <3> QED
      BY <3>1, <3>2, QuorumsMeet
  <2>3. By(c) \subseteq Members /\ By(d) \subseteq Members
    BY <1>1
  <2> HIDE DEF By
  <2> QED
    BY <2>2, <2>3, QuorumsMeet, FS_MajoritiesIntersect
<1>3. PICK a \in By(c) : a \in By(d)
  BY <1>2
<1>4. PICK p \in c.shares : p.by = a
  OBVIOUS
<1>5. PICK q \in d.shares : q.by = a
  BY <1>3
<1>6. p \in partials /\ p.root = c.root /\ q \in partials /\ q.root = d.root
  BY <1>1
<1> QED
  BY <1>4, <1>5, <1>6

\* The root of a checkpoint that verifies is one that an anchor signed.
LEMMA CertifiedIsSigned ==
  ASSUME TypeOK, NEW c \in Certified
  PROVE  /\ c.epoch \in Epochs /\ c.root \in Log
         /\ \E p \in partials : p.root = c.root
BY DEF Certified, Checkpoint, TypeOK

\* The entry in hand is the last of the tree.
LEMMA InHand ==
  ASSUME TypeOK, Served, serving # "idle"
  PROVE  /\ Len(log) \in Nat \ { 0 }
         /\ Accepted \in Acknowledged
         /\ Accepted.entry = log[Len(log)] /\ Accepted.index = Len(log) - 1
BY DEF TypeOK, Served, Accepted, Index, Log, Acknowledged

\* What the hook persists goes behind what it persisted.
LEMMA HookAppends ==
  ASSUME TypeOK, Served, serving # "idle", disk' = Append(disk, Accepted)
  PROVE  /\ disk' \in Seq(Acknowledged) /\ Len(disk') = Len(disk) + 1
         /\ \A i \in 1 .. Len(disk) : disk'[i] = disk[i]
         /\ disk'[Len(disk) + 1] = Accepted
BY InHand, AppendProperties DEF TypeOK

\* A restart replays the entries of the disk.
LEMMA ReplayedIsLog ==
  ASSUME TypeOK
  PROVE  /\ Replayed \in Log /\ Len(Replayed) = Len(disk)
         /\ \A i \in 1 .. Len(disk) : Replayed[i] = disk[i].entry
<1>1. DOMAIN disk = 1 .. Len(disk) /\ Len(disk) \in Nat
  BY DEF TypeOK
<1>2. ASSUME NEW i \in 1 .. Len(disk) PROVE disk[i].entry \in Entries
  <2>1. disk[i] \in Acknowledged
    BY DEF TypeOK
  <2> QED
    BY <2>1 DEF Acknowledged
<1> QED
  BY <1>1, <1>2 DEF Replayed, Log

\* Whatever the log server does, the disk grows at its end, if at all.
LEMMA DiskGrows ==
  ASSUME TypeOK, Served, LogNext
  PROVE  /\ disk' \in Seq(Acknowledged) /\ Len(disk) <= Len(disk')
         /\ \A i \in 1 .. Len(disk) : disk'[i] = disk[i]
         /\ missed \in BOOLEAN /\ missed' \in BOOLEAN /\ (missed => missed')
<1>1. CASE HookPersists
  BY <1>1, HookAppends DEF HookPersists, TypeOK
<1>2. CASE HookFails
  <2>1. serving # "idle" /\ missed' \in BOOLEAN /\ (missed => missed')
    BY <1>2 DEF HookFails, TypeOK
  <2>2. CASE disk' = disk
    BY <2>1, <2>2 DEF TypeOK
  <2>3. CASE disk' = Append(disk, Accepted)
    BY <2>1, <2>3, HookAppends DEF TypeOK
  <2> QED
    BY <1>2, <2>2, <2>3 DEF HookFails
<1>3. CASE UNCHANGED << disk, missed >>
  BY <1>3 DEF TypeOK
<1> QED
  BY <1>1, <1>2, <1>3 DEF LogNext, Accept, Created, OnAppend, Restart

-----------------------------------------------------------------------------
(* The steps of the log server.                                            *)

LEMMA LogStepTypes ==
  ASSUME TypeOK, Served, LogNext, snapshot' = Snapshots,
         UNCHANGED << replica, collected, partials, storeVars >>
  PROVE  TypeOK'
<1>1. /\ log' \in Log /\ hooked' \in BOOLEAN /\ crashes' \in Nat
      /\ serving' \in { "idle", "persisting", "answering" }
      /\ acked' \subseteq Acknowledged
  <2>1. ASSUME NEW e \in Entries, Accept(e) PROVE <1>1!:
    BY <2>1 DEF Accept, AfterAppend, TypeOK, Log
  <2>2. CASE HookPersists
    BY <2>2 DEF HookPersists, TypeOK
  <2>3. CASE HookFails
    BY <2>3 DEF HookFails, TypeOK
  <2>4. CASE Created
    BY <2>4, InHand DEF Created, TypeOK
  <2>5. CASE OnAppend
    BY <2>5 DEF OnAppend, TypeOK
  <2>6. CASE Restart
    <3>1. log' \in Log
      BY <2>6, ReplayedIsLog DEF Restart
    <3>2. crashes' \in Nat
      BY <2>6 DEF Restart, TypeOK
    <3>3. hooked' \in BOOLEAN /\ serving' = "idle" /\ acked' = acked
      BY <2>6 DEF Restart
    <3> QED
      BY <3>1, <3>2, <3>3 DEF TypeOK
  <2> QED
    BY <2>1, <2>2, <2>3, <2>4, <2>5, <2>6 DEF LogNext
<1>2. snapshot' \in [ Epochs -> Root ]
  BY DEF Snapshots, NoRoots, TypeOK, Root
<1> QED
  BY <1>1, <1>2, DiskGrows DEF TypeOK, storeVars

LEMMA LogStepPersists ==
  ASSUME TypeOK, Served, Persisted, LogNext
  PROVE  Served' /\ Persisted'
<1> USE DEF Served, Persisted
<1>0. Len(disk) \in Nat /\ Len(log) \in Nat
  BY DEF TypeOK, Log
<1>1. ASSUME NEW e \in Entries, Accept(e) PROVE Served' /\ Persisted'
  <2>1. /\ Len(log') = Len(log) + 1 /\ \A i \in 1 .. Len(log) : log'[i] = log[i]
    BY <1>1, AppendProperties DEF Accept, TypeOK, Log
  <2> QED
    BY <1>0, <1>1, <2>1 DEF Accept, Readable, AfterAppend
<1>2. ASSUME serving = "persisting", serving' = "answering", UNCHANGED << log, acked >>,
             disk' = Append(disk, Accepted), UNCHANGED missed
      PROVE  Served' /\ Persisted'
  <2>1. serving # "idle"
    BY <1>2
  <2>2. /\ Len(disk') = Len(disk) + 1 /\ disk'[Len(disk) + 1] = Accepted
        /\ \A i \in 1 .. Len(disk) : disk'[i] = disk[i]
    BY <1>2, <2>1, HookAppends
  <2>3. Accepted.entry = log[Len(log)] /\ Accepted.index = Len(log) - 1
    BY <2>1, InHand
  <2>4. ASSUME ~missed PROVE Persisted'
    <3>1. Len(log) = Len(disk) + 1
      BY <1>2, <2>4
    <3>2. ASSUME NEW i \in 1 .. Len(disk')
          PROVE  log'[i] = disk'[i].entry /\ disk'[i].index = i - 1
      <4>1. CASE i = Len(disk) + 1
        BY <1>0, <1>2, <2>2, <2>3, <3>1, <4>1
      <4>2. CASE i \in 1 .. Len(disk)
        BY <1>2, <2>2, <2>4, <4>2
      <4> QED
        BY <1>0, <2>2, <4>1, <4>2
    <3>3. ASSUME NEW a \in acked' PROVE \E i \in 1 .. Len(disk') : disk'[i] = a
      <4>1. PICK i \in 1 .. Len(disk) : disk[i] = a
        BY <1>2, <2>4
      <4>2. i \in 1 .. Len(disk') /\ disk'[i] = a
        BY <1>0, <2>2, <4>1
      <4> QED
        BY <4>2
    <3>4. Len(log') = Len(disk') + (IF serving' = "persisting" THEN 1 ELSE 0)
      BY <1>0, <1>2, <2>2, <3>1
    <3> QED
      BY <3>2, <3>3, <3>4
  <2> QED
    BY <1>2, <2>4
<1>3. CASE HookPersists
  BY <1>2, <1>3 DEF HookPersists
<1>4. CASE HookFails
  BY <1>2, <1>4 DEF HookFails
<1>5. CASE Created
  <2>1. serving # "idle" /\ UNCHANGED << log, disk, missed >>
        /\ serving' = "idle" /\ acked' = acked \cup { Accepted }
    BY <1>5 DEF Created
  <2>2. ASSUME ~missed PROVE disk[Len(disk)] = Accepted /\ Len(disk) \in 1 .. Len(disk)
    <3>1. Len(log) = Len(disk) /\ Len(log) > 0
      BY <1>5, <2>1, <2>2 DEF Created
    <3>2. disk[Len(disk)] \in Acknowledged
      BY <1>0, <3>1 DEF TypeOK
    <3>3. /\ disk[Len(disk)].entry = log[Len(log)]
          /\ disk[Len(disk)].index = Len(log) - 1
      BY <1>0, <2>2, <3>1
    <3> QED
      BY <1>0, <2>1, <3>1, <3>2, <3>3, InHand DEF Acknowledged
  <2> QED
    BY <1>0, <1>5, <2>1, <2>2 DEF Created
<1>6. CASE OnAppend
  BY <1>6 DEF OnAppend
<1>7. CASE Restart
  BY <1>0, <1>7, ReplayedIsLog DEF Restart
<1> QED
  BY <1>1, <1>3, <1>4, <1>5, <1>6, <1>7 DEF LogNext

LEMMA LogStep ==
  ASSUME IInv, LogNext, snapshot' = Snapshots,
         UNCHANGED << replica, collected, partials, storeVars >>
  PROVE  IInv'
<1>1. TypeOK'
  BY LogStepTypes DEF IInv
<1>2. Served' /\ Persisted'
  BY LogStepPersists DEF IInv
<1>3. Signed' /\ Pins'
  BY DEF IInv, Signed, Begins, Pins, Remembers, Noted, storeVars
<1>4. Durable'
  <2>1. /\ Len(disk) \in Nat /\ Len(disk') \in Nat /\ Len(disk) <= Len(disk')
        /\ \A i \in 1 .. Len(disk) : disk'[i] = disk[i]
        /\ ~missed' => ~missed
    BY DiskGrows DEF IInv, TypeOK
  <2>2. ASSUME NEW s \in Log, Kept(s) PROVE Kept(s)'
    <3>1. Len(s) \in Nat
      BY DEF Log
    <3> QED
      BY <2>1, <2>2, <3>1 DEF Kept
  <2>3. ASSUME NEW st \in Store, KeptBy(st) PROVE KeptBy(st)'
    <3>1. ASSUME st.installed # None PROVE st.installed.root \in Log
      BY <3>1 DEF Store, Claim
    <3> QED
      BY <2>1, <2>2, <2>3, <3>1 DEF KeptBy, Store
  <2>4. state \in Store /\ blob \in Store /\ \A a \in Members : replica[a] \in Log
    BY DEF IInv, TypeOK
  <2>5. ASSUME ~missed' PROVE \A a \in Members : Kept(replica[a])'
    BY <2>1, <2>2, <2>4, <2>5 DEF IInv, Durable
  <2>6. ASSUME ~missed' PROVE KeptBy(state)' /\ KeptBy(blob)'
    BY <2>1, <2>3, <2>4, <2>6 DEF IInv, Durable, storeVars
  <2> QED
    BY <2>5, <2>6 DEF Durable
<1> QED
  BY <1>1, <1>2, <1>3, <1>4 DEF IInv

-----------------------------------------------------------------------------
(* The steps of the anchors.                                               *)

\* Reading one more entry: the replica grows by what the tree has next.
LEMMA SyncStep ==
  ASSUME IInv, NEW a \in Members, Sync(a), UNCHANGED << logVars, storeVars >>
  PROVE  IInv'
<1> DEFINE next == log[Len(replica[a]) + 1]
<1>1. /\ replica[a] \in Log /\ log \in Log /\ next \in Entries
      /\ Len(replica[a]) \in Nat /\ Len(log) \in Nat /\ Len(disk) \in Nat
      /\ Len(replica[a]) < Len(log) /\ serving = "idle"
  BY DEF Sync, Readable, IInv, TypeOK, Log
<1>2. replica' = [ replica EXCEPT ![a] = Append(replica[a], next) ]
  BY DEF Sync
<1> HIDE DEF next
<1>3. /\ Append(replica[a], next) \in Log
      /\ Len(Append(replica[a], next)) = Len(replica[a]) + 1
      /\ \A i \in 1 .. Len(replica[a]) : Append(replica[a], next)[i] = replica[a][i]
      /\ Append(replica[a], next)[Len(replica[a]) + 1] = next
  BY <1>1, AppendProperties DEF Log
<1>4. UNCHANGED << log, disk, hooked, serving, acked, missed, crashes, snapshot,
                   collected, partials, phase, state, blob, pinned >>
  BY DEF Sync, logVars, storeVars
<1>5. /\ replica' \in [ Members -> Log ]
      /\ replica'[a] = Append(replica[a], next)
      /\ \A b \in Members \ { a } : replica'[b] = replica[b]
  BY <1>2, <1>3 DEF IInv, TypeOK
<1>6. TypeOK'
  BY <1>4, <1>5 DEF IInv, TypeOK
<1>7. Signed'
  <2>1. ASSUME NEW b \in Members, NEW s \in Log, Begins(s, replica[b])
        PROVE  Begins(s, replica'[b])
    <3>1. Len(s) \in Nat
      BY DEF Log
    <3>2. CASE b = a
      BY <1>1, <1>3, <1>5, <2>1, <3>1, <3>2 DEF Begins
    <3>3. CASE b # a
      BY <1>5, <2>1, <3>3
    <3> QED
      BY <3>2, <3>3
  <2>2. ASSUME NEW b \in Members, NEW n \in Epochs, collected[b][n] # None
        PROVE  Begins(collected[b][n], replica'[b])
    <3>1. collected[b][n] \in Log
      BY <2>2 DEF IInv, TypeOK, Root
    <3> QED
      BY <2>1, <2>2, <3>1 DEF IInv, Signed
  <2>3. ASSUME NEW p \in partials PROVE Begins(p.root, replica'[p.by])
    BY <2>1 DEF IInv, Signed, TypeOK
  <2> QED
    BY <1>4, <2>2, <2>3 DEF Signed
<1>8. Durable'
  <2>1. ASSUME ~missed PROVE Kept(replica'[a])
    <3>1. Kept(replica[a])
      BY <2>1 DEF IInv, Durable
    <3>2. Len(log) = Len(disk) /\ next = disk[Len(replica[a]) + 1].entry
      BY <1>1, <2>1 DEF IInv, Persisted, next
    <3> QED
      BY <1>1, <1>3, <1>5, <3>1, <3>2 DEF Kept
  <2>2. ASSUME ~missed, NEW b \in Members PROVE Kept(replica'[b])
    BY <1>5, <2>1, <2>2 DEF IInv, Durable
  <2> QED
    BY <1>4, <2>2 DEF IInv, Durable, KeptBy, Kept
<1> QED
  BY <1>4, <1>6, <1>7, <1>8
    DEF IInv, Served, Persisted, Pins, Remembers, Noted

\* What is collected begins the replica.
LEMMA CollectStep ==
  ASSUME IInv, NEW a \in Members, NEW n \in Epochs, Collect(a, n),
         UNCHANGED << logVars, storeVars >>
  PROVE  IInv'
<1> DEFINE size == Len(snapshot[n])
           root == SubSeq(replica[a], 1, size)
<1>1. snapshot[n] \in Log /\ replica[a] \in Log
  BY DEF Collect, IInv, TypeOK, Root
<1>2. size \in Nat /\ size <= Len(replica[a]) /\ root = snapshot[n]
  BY <1>1 DEF Collect, CrossCheck, Log
<1>3. collected' = [ collected EXCEPT ![a] = [ collected[a] EXCEPT ![n] = snapshot[n] ] ]
  BY DEF Collect, CrossCheck
<1>4. Begins(snapshot[n], replica[a])
  <2>1. \A i \in 1 .. size : root[i] = replica[a][i]
    BY <1>1, <1>2 DEF Log
  <2> QED
    BY <1>2, <2>1 DEF Begins
<1>5. UNCHANGED << log, disk, hooked, serving, acked, missed, crashes, snapshot,
                   replica, partials, phase, state, blob, pinned >>
  BY DEF Collect, logVars, storeVars
<1>6. TypeOK'
  <2>1. collected' \in [ Members -> [ Epochs -> Root ] ]
    BY <1>1, <1>3 DEF IInv, TypeOK, Root
  <2> QED
    BY <1>5, <2>1 DEF IInv, TypeOK
<1>7. Signed'
  <2>1. ASSUME NEW b \in Members, NEW m \in Epochs, collected'[b][m] # None
        PROVE  Begins(collected'[b][m], replica[b])
    <3>1. CASE b = a /\ m = n
      BY <1>3, <1>4, <3>1 DEF IInv, TypeOK
    <3>2. CASE ~(b = a /\ m = n)
      <4>1. collected'[b][m] = collected[b][m]
        BY <1>3, <3>2 DEF IInv, TypeOK
      <4> QED
        BY <2>1, <4>1 DEF IInv, Signed
    <3> QED
      BY <3>1, <3>2
  <2> QED
    BY <1>5, <2>1 DEF IInv, Signed
<1> QED
  BY <1>5, <1>6, <1>7
    DEF IInv, Served, Persisted, Durable, KeptBy, Kept, Pins, Remembers, Noted

\* Only what was collected is signed.
LEMMA SignStep ==
  ASSUME IInv, NEW a \in Members, NEW n \in Epochs, NEW r, r # None,
         Sign(a, n, r), UNCHANGED << logVars, storeVars >>
  PROVE  IInv'
<1>1. r \in Log /\ Begins(r, replica[a])
  BY DEF Sign, IInv, TypeOK, Root, Signed
<1>2. partials' = partials \cup { [ by |-> a, epoch |-> n, root |-> r ] }
  BY DEF Sign
<1>3. UNCHANGED << log, disk, hooked, serving, acked, missed, crashes, snapshot,
                   replica, collected, phase, state, blob, pinned >>
  BY DEF Sign, logVars, storeVars
<1>4. TypeOK'
  BY <1>1, <1>2, <1>3 DEF IInv, TypeOK
<1>5. Signed'
  BY <1>1, <1>2, <1>3 DEF IInv, Signed
<1> QED
  BY <1>3, <1>4, <1>5
    DEF IInv, Served, Persisted, Durable, KeptBy, Kept, Pins, Remembers, Noted

LEMMA AnchorStep ==
  ASSUME IInv, AnchorNext, UNCHANGED << logVars, storeVars >>
  PROVE  IInv'
<1>1. ASSUME NEW n \in Epochs, CloseEpoch(n) PROVE IInv'
  <2>1. UNCHANGED << log, disk, hooked, serving, acked, missed, crashes, replica,
                     collected, partials, phase, state, blob, pinned >>
    BY <1>1 DEF CloseEpoch, logVars, storeVars
  <2>2. TypeOK'
    BY <1>1, <2>1 DEF CloseEpoch, IInv, TypeOK, Root
  <2> QED
    BY <2>1, <2>2 DEF IInv, Served, Persisted, Signed, Durable, KeptBy, Kept, Pins,
                      Remembers, Noted
<1>2. ASSUME NEW a \in Members, NEW n \in Epochs,
             ProducePartialSig(a, n) \/ \E c \in Members : RequestPartialSig(c, a, n)
      PROVE  IInv'
  BY <1>2, SignStep DEF ProducePartialSig, RequestPartialSig
<1>3. ASSUME NEW a \in Members, AnchorRestarts(a) PROVE IInv'
  <2>1. UNCHANGED << log, disk, hooked, serving, acked, missed, crashes, snapshot,
                     replica, partials, phase, state, blob, pinned >>
    BY <1>3 DEF AnchorRestarts, logVars, storeVars
  <2>2. TypeOK'
    BY <1>3, <2>1 DEF AnchorRestarts, NoRoots, IInv, TypeOK, Root
  <2>3. ASSUME NEW b \in Members, NEW n \in Epochs
        PROVE  collected'[b][n] \in { None, collected[b][n] }
    BY <1>3 DEF AnchorRestarts, NoRoots, IInv, TypeOK
  <2>4. Signed'
    BY <2>1, <2>3 DEF IInv, Signed
  <2> QED
    BY <2>1, <2>2, <2>4
      DEF IInv, Served, Persisted, Durable, KeptBy, Kept, Pins, Remembers, Noted
<1> QED
  BY <1>1, <1>2, <1>3, SyncStep, CollectStep DEF AnchorNext

-----------------------------------------------------------------------------
(* The steps of the node's store.                                          *)

LEMMA UpdateStep ==
  ASSUME IInv, NEW c \in Certified, UpdateCheckpoint(c),
         UNCHANGED << logVars, anchorVars >>
  PROVE  IInv'
<1>1. c.epoch \in Epochs /\ c.root \in Log
  BY CertifiedIsSigned DEF IInv
<1>2. PICK p \in partials : p.root = c.root
  BY CertifiedIsSigned DEF IInv
<1>3. UNCHANGED << log, disk, hooked, serving, acked, missed, crashes, snapshot,
                   replica, collected, partials, phase, blob, pinned >>
  BY DEF UpdateCheckpoint, logVars, anchorVars
<1>4. /\ state \in Store /\ blob \in Store /\ phase = "anchored"
      /\ state.history[c.epoch] \in { None, c.root }
  BY DEF UpdateCheckpoint, IInv, TypeOK
<1>5. /\ state'.installed = [ epoch |-> c.epoch, root |-> c.root ]
      /\ state'.size = Larger(state.size, Len(c.root))
      /\ state'.history = [ state.history EXCEPT ![c.epoch] = c.root ]
      /\ state' = [ installed |-> state'.installed, size |-> state'.size,
                    history |-> state'.history ]
  BY DEF UpdateCheckpoint
<1>6. state' \in Store
  <2>1. state'.size \in Nat /\ state'.installed \in Claim
    BY <1>1, <1>4, <1>5 DEF Larger, Log, Store, Claim
  <2>2. state'.history \in [ Epochs -> Root ]
    BY <1>1, <1>4, <1>5 DEF Store, Root
  <2> QED
    BY <1>5, <2>1, <2>2 DEF Store
<1>7. TypeOK'
  BY <1>3, <1>6 DEF IInv, TypeOK
<1>8. Durable'
  <2>1. ASSUME ~missed PROVE KeptBy(state')
    <3>1. p.by \in Members /\ p.root \in Log /\ replica[p.by] \in Log
      BY DEF IInv, TypeOK
    <3>2. Begins(p.root, replica[p.by]) /\ Kept(replica[p.by])
      BY <2>1, <3>1 DEF IInv, Signed, Durable
    <3>3. Kept(c.root)
      <4>1. Len(p.root) \in Nat /\ Len(replica[p.by]) \in Nat /\ Len(disk) \in Nat
        BY <3>1 DEF IInv, TypeOK, Log
      <4> QED
        BY <1>2, <3>2, <4>1 DEF Begins, Kept
    <3>4. KeptBy(state)
      BY <2>1 DEF IInv, Durable
    <3> QED
      BY <1>5, <3>3, <3>4 DEF KeptBy, Kept, Larger
  <2> QED
    BY <1>3, <2>1 DEF IInv, Durable, KeptBy, Kept
<1>9. Pins'
  <2>1. Noted(state)'
    BY <1>1, <1>4, <1>5 DEF Noted, Store
  <2>2. Remembers(state)'
    <3>1. ASSUME NEW q \in pinned PROVE state'.history[q.epoch] = q.root
      <4>1. state.history[q.epoch] = q.root /\ q.root # None /\ q.epoch \in Epochs
        BY <1>4 DEF IInv, TypeOK, Claim, Pins, Remembers
      <4> QED
        BY <1>4, <1>5, <4>1 DEF Store
    <3> QED
      BY <1>3, <3>1 DEF Remembers
  <2> QED
    BY <1>3, <2>1, <2>2 DEF IInv, Pins, Remembers, Noted
<1> QED
  BY <1>3, <1>7, <1>8, <1>9 DEF IInv, Served, Persisted, Signed

LEMMA ObserveStep ==
  ASSUME IInv, ObserveLogSize, UNCHANGED << logVars, anchorVars >>
  PROVE  IInv'
<1>1. UNCHANGED << log, disk, hooked, serving, acked, missed, crashes, snapshot,
                   replica, collected, partials, phase, blob, pinned >>
  BY DEF ObserveLogSize, logVars, anchorVars
<1>2. /\ state \in Store /\ Len(log) \in Nat /\ Len(disk) \in Nat
      /\ serving = "idle" /\ phase = "anchored"
  BY DEF ObserveLogSize, Readable, IInv, TypeOK, Log
<1>3. state' = [ state EXCEPT !.size = Len(log) ]
  BY DEF ObserveLogSize
<1>4. /\ state' \in Store /\ state'.size = Len(log)
      /\ state'.installed = state.installed /\ state'.history = state.history
  BY <1>2, <1>3 DEF Store
<1>5. TypeOK'
  BY <1>1, <1>4 DEF IInv, TypeOK
<1>6. Durable'
  <2>1. ASSUME ~missed PROVE Len(log) = Len(disk)
    BY <1>2, <2>1 DEF IInv, Persisted
  <2> QED
    BY <1>1, <1>2, <1>4, <2>1 DEF IInv, Durable, KeptBy, Kept
<1>7. Pins'
  BY <1>1, <1>4 DEF IInv, Pins, Remembers, Noted
<1> QED
  BY <1>1, <1>5, <1>6, <1>7 DEF IInv, Served, Persisted, Signed

LEMMA SaveStep ==
  ASSUME IInv, Save, UNCHANGED << logVars, anchorVars >>
  PROVE  IInv'
<1>1. UNCHANGED << log, disk, hooked, serving, acked, missed, crashes, snapshot,
                   replica, collected, partials, phase, state >>
  BY DEF Save, logVars, anchorVars
<1>2. blob' = state /\ state \in Store /\ phase = "anchored"
  BY DEF Save, Captured, IInv, TypeOK
<1>3. ASSUME NEW q \in pinned'
      PROVE  q \in Claim /\ q.root # None /\ state.history[q.epoch] = q.root
  <2>1. CASE q \in pinned
    BY <1>2, <2>1 DEF IInv, TypeOK, Pins, Remembers
  <2>2. CASE q \notin pinned
    <3>1. PICK n \in Epochs : /\ state.history[n] # None
                              /\ q = [ epoch |-> n, root |-> state.history[n] ]
      BY <1>3, <2>2 DEF Save
    <3>2. state.history[n] \in Log
      BY <1>2, <3>1 DEF Store, Root
    <3> QED
      BY <3>1, <3>2 DEF Claim
  <2> QED
    BY <2>1, <2>2
<1>4. TypeOK'
  BY <1>1, <1>2, <1>3 DEF IInv, TypeOK
<1>5. Pins'
  BY <1>1, <1>2, <1>3 DEF IInv, Pins, Remembers, Noted
<1>6. Durable'
  BY <1>1, <1>2 DEF IInv, Durable, KeptBy, Kept
<1> QED
  BY <1>1, <1>4, <1>5, <1>6 DEF IInv, Served, Persisted, Signed

\* A new store knows nothing, which is true enough.
LEMMA EmptyIsStore ==
  Empty \in Store /\ Empty.installed = None /\ Empty.size = 0 /\ Noted(Empty)
BY DEF Empty, NoRoots, Store, Root, Noted

LEMMA StoreStep ==
  ASSUME IInv, StoreNext, UNCHANGED << logVars, anchorVars >>
  PROVE  IInv'
<1>1. CASE Load
  BY <1>1 DEF Load, IInv, TypeOK, Served, Persisted, Signed, Durable, KeptBy, Kept,
              Pins, Remembers, Noted, logVars, anchorVars
<1>2. CASE LoadGenesisAnchors
  BY <1>2 DEF LoadGenesisAnchors, IInv, TypeOK, Served, Persisted, Signed, Durable,
              KeptBy, Kept, Pins, Remembers, Noted, logVars, anchorVars
<1>3. CASE StoreRestart
  <2>1. Len(disk) \in Nat
    BY DEF IInv, TypeOK
  <2> QED
    BY <1>3, <2>1, EmptyIsStore
      DEF StoreRestart, IInv, TypeOK, Served, Persisted, Signed, Durable, KeptBy, Kept,
          Pins, Remembers, Noted, logVars, anchorVars
<1> QED
  BY <1>1, <1>2, <1>3, UpdateStep, ObserveStep, SaveStep DEF StoreNext

-----------------------------------------------------------------------------
(* The theorems.                                                           *)

LEMMA Initially == Init => IInv
<1> SUFFICES ASSUME Init PROVE IInv
  OBVIOUS
<1> USE DEF Init, LogInit, AnchorInit, StoreInit
<1>1. TypeOK
  <2>1. log \in Log /\ disk \in Seq(Acknowledged)
    BY DEF Log
  <2>2. snapshot \in [ Epochs -> Root ]
    BY DEF NoRoots, Root
  <2>3. /\ replica \in [ Members -> Log ]
        /\ collected \in [ Members -> [ Epochs -> Root ] ]
    BY DEF NoRoots, Root, Log
  <2>4. state \in Store /\ blob \in Store
    BY EmptyIsStore
  <2> QED
    BY <2>1, <2>2, <2>3, <2>4 DEF TypeOK
<1>2. Served /\ Persisted /\ Signed
  BY DEF Served, Persisted, Signed, NoRoots
<1>3. Durable
  BY EmptyIsStore DEF Durable, KeptBy, Kept
<1>4. Pins
  BY EmptyIsStore DEF Pins, Remembers
<1> QED
  BY <1>1, <1>2, <1>3, <1>4 DEF IInv

LEMMA Inductive == IInv /\ [Next]_vars => IInv'
<1> SUFFICES ASSUME IInv, [Next]_vars PROVE IInv'
  OBVIOUS
<1>1. CASE UNCHANGED vars
  BY <1>1 DEF vars, logVars, anchorVars, storeVars, IInv, TypeOK, Served, Persisted,
              Signed, Durable, KeptBy, Kept, Pins, Remembers, Noted
<1>2. CASE Next
  BY <1>2, LogStep, AnchorStep, StoreStep DEF Next
<1> QED
  BY <1>1, <1>2

\* The strengthening all the properties below follow from.
THEOREM Invariance == Spec => []IInv
BY Initially, Inductive, PTL DEF Spec

\* Every variable keeps its type.
THEOREM TypeCorrect == Spec => []TypeOK
<1>1. IInv => TypeOK
  BY DEF IInv
<1> QED
  BY <1>1, Invariance, PTL

\* What the append hook persisted before the answer is there after any crash
\* (log.py:387-391).
THEOREM AckedEntriesSurvive == Spec => []AckedSurvives
<1>1. IInv => AckedSurvives
  <2> SUFFICES ASSUME IInv, ~missed, NEW a \in acked
               PROVE  /\ \E i \in DOMAIN disk : disk[i] = a
                      /\ a.index < Len(log) /\ log[a.index + 1] = a.entry
    BY DEF AckedSurvives
  <2>1. PICK i \in 1 .. Len(disk) : disk[i] = a
    BY DEF IInv, Persisted
  <2>2. DOMAIN disk = 1 .. Len(disk) /\ Len(disk) \in Nat /\ Len(log) \in Nat
    BY DEF IInv, TypeOK, Log
  <2>3. log[i] = a.entry /\ a.index = i - 1 /\ Len(disk) <= Len(log)
    BY <2>1, <2>2 DEF IInv, Persisted
  <2> QED
    BY <2>1, <2>2, <2>3
<1> QED
  BY <1>1, Invariance, PTL

\* Any two checkpoints that verify are of one history, for any threshold of more
\* than half of the anchors (anchor.py:102-107).
THEOREM CheckpointsNeverSplit == Spec => []CheckpointsAgree
<1>1. IInv => CheckpointsAgree
  <2> SUFFICES ASSUME IInv, NEW c \in Certified, NEW d \in Certified
               PROVE  IsPrefix(c.root, d.root) \/ IsPrefix(d.root, c.root)
    BY DEF CheckpointsAgree
  <2>1. PICK p \in partials, q \in partials :
          p.by = q.by /\ p.root = c.root /\ q.root = d.root
    BY QuorumsShareAnAnchor DEF IInv
  <2>2. p.root \in Log /\ q.root \in Log /\ replica[p.by] \in Log
    BY DEF IInv, TypeOK
  <2>3. Begins(p.root, replica[p.by]) /\ Begins(q.root, replica[p.by])
    BY <2>1 DEF IInv, Signed
  <2> QED
    BY <2>1, <2>2, <2>3, PrefixesOfOne
<1> QED
  BY <1>1, Invariance, PTL

\* With a hook that keeps up, crashes of either side lose nothing a node trusts,
\* and its rollback counter never refuses the log server (store.py:150-155).
THEOREM TrustIsKept == Spec => []NothingTrustedIsLost
<1>1. IInv => NothingTrustedIsLost
  <2> SUFFICES ASSUME IInv, ~missed, serving = "idle"
               PROVE  /\ state.installed # None => IsPrefix(state.installed.root, log)
                      /\ state.size <= Len(log)
    BY DEF NothingTrustedIsLost, Readable
  <2>1. /\ Len(log) = Len(disk) /\ Len(disk) \in Nat /\ KeptBy(state)
        /\ \A i \in 1 .. Len(disk) : log[i] = disk[i].entry
    BY DEF IInv, TypeOK, Persisted, Durable
  <2>2. ASSUME state.installed # None PROVE IsPrefix(state.installed.root, log)
    <3>1. state.installed.root \in Log /\ log \in Log
      BY <2>2 DEF IInv, TypeOK, Store, Claim
    <3>2. Begins(state.installed.root, log)
      BY <2>1, <2>2, <3>1 DEF KeptBy, Kept, Begins, Log
    <3>3. Begins(log, log)
      BY <3>1 DEF Begins, Log
    <3> QED
      BY <3>1, <3>2 DEF Begins, IsPrefix, Log
  <2> QED
    BY <2>1, <2>2 DEF KeptBy
<1> QED
  BY <1>1, Invariance, PTL

\* What a node saved for an epoch binds it in every later life (store.py:167-171).
THEOREM SavedHistoryBinds == Spec => NeverContradictsItself
<1>1. IInv /\ [Next]_vars =>
        [ state'.installed \notin { None, state.installed } =>
            \A p \in pinned :
              p.epoch = state'.installed.epoch => p.root = state'.installed.root ]_vars
  <2> SUFFICES ASSUME IInv, [Next]_vars, NEW p \in pinned,
                      state'.installed \notin { None, state.installed },
                      p.epoch = state'.installed.epoch
               PROVE  p.root = state'.installed.root
    OBVIOUS
  <2>1. IInv' /\ pinned \subseteq pinned'
    BY Inductive DEF Next, StoreNext, Load, LoadGenesisAnchors, UpdateCheckpoint,
         ObserveLogSize, Save, StoreRestart, storeVars, vars
  <2>2. state # state' /\ state'.installed # None
    OBVIOUS
  <2>3. CASE phase' # "created"
    BY <2>1, <2>2, <2>3 DEF IInv, Pins, Remembers, Noted
  <2>4. CASE phase' = "created"
    BY <2>2, <2>4, EmptyIsStore DEF Next, StoreNext, Load, LoadGenesisAnchors,
         UpdateCheckpoint, ObserveLogSize, Save, StoreRestart, storeVars, vars
  <2> QED
    BY <2>3, <2>4
<1> QED
  BY <1>1, Invariance, PTL DEF Spec, NeverContradictsItself

=============================================================================
