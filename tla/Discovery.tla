------------------------------ MODULE Discovery ------------------------------
(***************************************************************************)
(* A node that announces its address in the dht, and one that resolves it. *)
(*                                                                         *)
(* The announcer is a managed server: its owner thread serves the lookups  *)
(* its own program queued, each for as long as it takes, and then, if the  *)
(* wall clock says that it is due, publishes a record of its address.  It  *)
(* may crash and come back at another address, with whatever initial       *)
(* sequence its program passes.  The resolver's dht absorbs records in any *)
(* order, or never, and drops them when they are too old.                  *)
(*                                                                         *)
(* Time goes by in seconds: Pass is one, of every clock and every loop.    *)
(* The resolver's clock is the reference; the announcer's may be set to    *)
(* any other time.                                                         *)
(***************************************************************************)

EXTENDS Integers

CONSTANTS
  Interval,   \* seconds between two announcements (60)
  Timeout,    \* seconds resolve() gives a lookup (5)
  Lifetime,   \* seconds a record is good for
  Seqs,       \* what a program may pass to dht_initial_seq
  MaxBurst,   \* bound: lookups the program queues between two announcements
  MaxLives,   \* bound: times the announcer is started
  MaxSkew,    \* bound: seconds its wall clock is off, either way
  MaxSets,    \* bound: times it is set
  MaxTime,    \* bound: seconds
  None

ASSUME Periods ==
  /\ { Interval, Timeout, Lifetime, MaxBurst } \subseteq Nat \ { 0 }
  /\ Lifetime >= Interval + MaxBurst * Timeout

Announcements == [ seq : Nat, life : Nat, timestamp : Int ]

ASSUME SequencesAreNumbers == Seqs \subseteq Nat

ASSUME NoneIsNoValue == None \notin Int /\ None \notin Announcements

VARIABLES
  now,
  skew,       \* seconds by which the announcer's wall clock is ahead
  ahead,      \* history: the most it was ahead
  sets,       \* history: how often it was set
  up,         \* its owner thread runs
  life,       \* its address: it has another one each time it is started
  started,    \* when it was
  seq,        \* the sequence of its last announcement, or its initial one
  regressed,  \* history: it was started with less than it had announced
  last,       \* last_announce by its wall clock; None for 0
  queued,     \* lookups its program waits for
  spent,      \* seconds the first of them has taken
  burst,      \* history: lookups queued since the last announcement
  records,    \* what was ever announced
  store,      \* the record the resolver's dht has, or None
  looking,    \* seconds its lookup has taken, or None
  answer      \* what it resolved last, or None

clock == << skew, ahead, sets >>
node ==
  << up, life, started, seq, regressed, last, queued, spent, burst, records >>
resolver == << store, looking, answer >>

vars == << now, clock, node, resolver >>

Init ==
  /\ now = 0 /\ skew = 0 /\ ahead = 0 /\ sets = 0
  /\ up = FALSE /\ life = 0 /\ started = 0 /\ seq = 0 /\ regressed = FALSE
  /\ last = None /\ queued = 0 /\ spent = 0 /\ burst = 0 /\ records = {}
  /\ store = None /\ looking = None /\ answer = None

-----------------------------------------------------------------------------
(* Parts of the actions.  A "Mutant" is a plausible slip in the operator   *)
(* after it and is used by no action.                                      *)

Record(s, l, t) == [ seq |-> s, life |-> l, timestamp |-> t ]

Fresh(r, t) == t - r.timestamp <= Lifetime

\* _now_secs: time.time(), which whoever sets the clock moves either way
Wall(t) == t + skew

\* Mutant: the timer is not armed again.
DueOnce(t) == last = None

\* now - last_announce >= 60
Due(t) == last = None \/ Wall(t) - last >= Interval

\* Mutant: the owner attaches its dht with the default.
Unpassed(s) == 0

\* what dht_initial_seq stored is what Dht.attach gets
Attached(s) == s

\* Mutant: the address resolved last is remembered.
Remembered == IF answer # None THEN answer ELSE store

\* dht.lookup_result, first of the local store
LookupResult == store

-----------------------------------------------------------------------------
(* The announcer.                                                          *)

\* serve: build, attach, bootstrap; the first announcement is due at once.  The
\* program passes the initial sequence s, or leaves the default 0: no method of
\* the managed server tells it what was announced before.
Start(s) ==
  /\ ~up /\ life < MaxLives
  /\ up' = TRUE /\ life' = life + 1 /\ started' = now
  /\ seq' = Attached(s)
  /\ regressed' = (regressed \/ s < seq)
  /\ last' = None /\ queued' = 0 /\ spent' = 0 /\ burst' = 0
  /\ UNCHANGED << now, clock, records, resolver >>

\* the process ends, or shutdown
Crash ==
  /\ up
  /\ up' = FALSE
  /\ UNCHANGED << now, clock, life, started, seq, regressed, last, queued, spent,
                  burst, records, resolver >>

\* its program awaits resolve() of some node
Resolve ==
  /\ up /\ burst < MaxBurst
  /\ queued' = queued + 1 /\ burst' = burst + 1
  /\ UNCHANGED << now, clock, up, life, started, seq, regressed, last, spent,
                  records, resolver >>

\* an administrator or a time service sets the announcer's clock
SetClock(k) ==
  /\ sets < MaxSets
  /\ sets' = sets + 1
  /\ skew' = k
  /\ ahead' = IF k > ahead THEN k ELSE ahead
  /\ UNCHANGED << now, node, resolver >>

\* A second of the lookup that is pumped: it goes on, or finds a record or its
\* deadline and the next one is taken.
PumpSecond ==
  \/ queued = 0 /\ UNCHANGED << queued, spent >>
  \/ queued > 0 /\ spent + 1 < Timeout /\ spent' = spent + 1 /\ UNCHANGED queued
  \/ queued > 0 /\ spent' = 0 /\ queued' = queued - 1

\* The loop comes to its timer only when the command queue is empty.
AnnounceIfDue ==
  IF queued' = 0 /\ Due(now')
  THEN /\ seq' = seq + 1
       /\ records' = records \cup { Record(seq + 1, life, Wall(now')) }
       /\ last' = Wall(now')
       /\ burst' = 0
  ELSE UNCHANGED << seq, records, last, burst >>

OwnerSecond ==
  /\ IF up THEN PumpSecond /\ AnnounceIfDue
           ELSE UNCHANGED << seq, records, last, burst, queued, spent >>
  /\ UNCHANGED << up, life, started, regressed >>

-----------------------------------------------------------------------------
(* The resolver.                                                           *)

\* A record reaches its dht, asked for or not; the one it has gives way to a
\* higher sequence only.
Absorb(r) ==
  /\ Fresh(r, now)
  /\ store # None => r.seq > store.seq
  /\ store' = r
  /\ UNCHANGED << now, clock, node, looking, answer >>

\* resolve() of the announcer: at once, if its dht has a record
Ask ==
  /\ looking = None
  /\ IF LookupResult # None
     THEN answer' = LookupResult /\ UNCHANGED looking
     ELSE looking' = 0 /\ UNCHANGED answer
  /\ UNCHANGED << now, clock, node, store >>

\* the pump finds the record
Found ==
  /\ looking # None /\ LookupResult # None
  /\ answer' = LookupResult /\ looking' = None
  /\ UNCHANGED << now, clock, node, store >>

\* dht.tick drops what is too old; a lookup comes closer to its deadline, where
\* resolve raises IdentityNotFound
ResolverSecond ==
  /\ store' = IF store # None /\ ~Fresh(store, now') THEN None ELSE store
  /\ looking' = IF looking = None \/ looking + 1 = Timeout THEN None ELSE looking + 1
  /\ UNCHANGED answer

-----------------------------------------------------------------------------

Pass ==
  /\ now < MaxTime
  /\ now' = now + 1
  /\ OwnerSecond /\ ResolverSecond
  /\ UNCHANGED clock

Next ==
  \/ (\E s \in Seqs : Start(s)) \/ Crash \/ Resolve
  \/ \E k \in -MaxSkew .. MaxSkew : SetClock(k)
  \/ \E r \in records : Absorb(r)
  \/ Ask \/ Found
  \/ Pass

Spec == Init /\ [][Next]_vars

-----------------------------------------------------------------------------

\* the announcer's clock is right, and always was
Steady == sets = 0

\* "re-announce this service address periodically" (server.py:936): while the
\* announcer runs, a record of its address is good, although the owner thread
\* that announces is blocked in lookups; unless its clock was ever set.
RecordStaysLive ==
  up /\ Steady /\ now > started + MaxBurst * Timeout =>
    \E r \in records : r.life = life /\ Fresh(r, now)

\* Wherever a node has moved, a resolver is not led to where it was before for
\* longer than a record is good for, and its clock was ahead of the resolver's,
\* however it was told and whatever it asked, and whichever initial sequence the
\* node passed: resolve() answers from its own store first (runtime.py:83-85).
StaleForALifetime ==
  now > started + Lifetime + ahead /\ LookupResult # None =>
    LookupResult.life = life

\* What "pass the last announced seq from a previous run as initial_seq"
\* (dht.py:169-170) is for: a node that was never started with less than it had
\* announced outbids its records of before, so a resolver that was led to where it
\* moved is never led back, whatever is delayed and whatever expires; unless its
\* clock was ever set.  A program that left the default, or crashed before it had
\* noted its last sequence, is excepted, as `regressed`.
NeverBack ==
  [][ answer # None /\ Steady /\ ~regressed => answer'.life >= answer.life ]_vars

=============================================================================
