------------------------------ MODULE TrustLog ------------------------------
(***************************************************************************)
(* A node that runs a LogServer over a Log, and persists what it accepts   *)
(* with an append hook.  The merkle tree is in memory only: after a crash  *)
(* the program appends what it had persisted to a new Log.                 *)
(*                                                                         *)
(* dispatch() runs in the tick thread, so nobody reads the log while a     *)
(* write is between its steps; a crash may come between any two.           *)
(***************************************************************************)

EXTENDS Naturals, Sequences, SequencesExt

CONSTANTS
  Entries,      \* encoded KeyBindings, KeyRotations and Revocations
  MaxSize,      \* bound: entries in the log
  MaxCrashes    \* bound: crashes of the log server

VARIABLES
  log,       \* the entries in the native tree, whose root stands for them all
  disk,      \* what the hook persisted, each [entry, index], in order
  hooked,    \* an append hook is registered
  serving,   \* idle, persisting (the entry is in the tree) or answering
  acked,     \* history: the [entry, index] that were answered `created`
  missed,    \* history: an accepted entry was not persisted
  crashes

logVars == << log, disk, hooked, serving, acked, missed, crashes >>

LogInit ==
  /\ log = << >> /\ disk = << >>
  /\ hooked = FALSE /\ serving = "idle"
  /\ acked = {} /\ missed = FALSE
  /\ crashes = 0

-----------------------------------------------------------------------------

\* One thread drives the log server: nobody reads between the steps of a write.
Readable == serving = "idle"

\* what Log.append returned for the entry in hand
Index == Len(log) - 1

Accepted == [ entry |-> log[Len(log)], index |-> Index ]

\* Mutant: the created response is written before the hook is called.
AnswersFirst == "answering"

\* the hook runs after the append and before the created response
AfterAppend == "persisting"

\* Mutant: the last record is taken for a torn write.
ReplayedButLast == [ i \in 1 .. Len(disk) - 1 |-> disk[i].entry ]

\* Log.append for each record, in the order the hook wrote them
Replayed == [ i \in DOMAIN disk |-> disk[i].entry ]

\* a write /log/entry that dispatch() accepts
Accept(e) ==
  /\ Readable /\ Len(log) < MaxSize
  /\ log' = Append(log, e)
  /\ serving' = AfterAppend
  /\ UNCHANGED << disk, hooked, acked, missed, crashes >>

HookPersists ==
  /\ serving = "persisting" /\ hooked
  /\ disk' = Append(disk, Accepted)
  /\ serving' = "answering"
  /\ UNCHANGED << log, hooked, acked, missed, crashes >>

\* the hook raised, before or after it wrote: the trampoline reports it and
\* goes on; without a hook there is nothing to call
HookFails ==
  /\ serving = "persisting"
  /\ \/ hooked /\ disk' = Append(disk, Accepted) /\ UNCHANGED missed
     \/ missed' = TRUE /\ UNCHANGED disk
  /\ serving' = "answering"
  /\ UNCHANGED << log, hooked, acked, crashes >>

\* the native response was written and the responder claimed
Created ==
  /\ serving = "answering"
  /\ acked' = acked \cup { Accepted }
  /\ serving' = "idle"
  /\ UNCHANGED << log, disk, hooked, missed, crashes >>

\* on_append(hook), on_append(None)
OnAppend ==
  /\ Readable
  /\ hooked' = ~hooked
  /\ UNCHANGED << log, disk, serving, acked, missed, crashes >>

\* The process ends; the next one makes a new Log, replays what was persisted, and
\* then a LogServer over it.  Nothing of the node is seen in between.
Restart ==
  /\ crashes < MaxCrashes
  /\ log' = Replayed
  /\ hooked' = FALSE /\ serving' = "idle"
  /\ crashes' = crashes + 1
  /\ UNCHANGED << disk, acked, missed >>

LogNext ==
  \/ \E e \in Entries : Accept(e)
  \/ HookPersists \/ HookFails \/ Created \/ OnAppend \/ Restart

-----------------------------------------------------------------------------

\* A hook that persisted every entry it was called with (log.py:387-391) keeps
\* the server's word: an acknowledged entry is in the log, at the index the hook
\* was given, whatever crashed since.
AckedSurvives ==
  ~missed =>
    \A a \in acked :
      /\ \E i \in DOMAIN disk : disk[i] = a
      /\ a.index < Len(log) /\ log[a.index + 1] = a.entry

=============================================================================
