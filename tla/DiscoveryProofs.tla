--------------------------- MODULE DiscoveryProofs ---------------------------
(***************************************************************************)
(* Proofs about Discovery, for every period, timeout and lifetime that     *)
(* Periods allows, any number of starts with any initial sequences, any    *)
(* setting of the announcer's clock and any length of time.                *)
(***************************************************************************)

EXTENDS Discovery, TLAPS

-----------------------------------------------------------------------------
(* The inductive invariant, part by part.                                  *)

Typed ==
  /\ now \in Nat /\ skew \in Int /\ ahead \in Nat /\ sets \in Nat
  /\ up \in BOOLEAN /\ regressed \in BOOLEAN
  /\ life \in Nat /\ started \in Nat /\ seq \in Nat
  /\ last \in Int \cup { None }
  /\ queued \in Nat /\ spent \in Nat /\ burst \in Nat
  /\ records \in SUBSET Announcements
  /\ store \in records \cup { None }
  /\ looking \in Nat \cup { None }
  /\ answer \in records \cup { None }

\* A clock that was never set is right, and ahead is what it was ahead at most.
Clocked == skew <= ahead /\ (Steady => skew = 0 /\ ahead = 0)

\* What was announced: no record is from further in the future than the clock was
\* ahead, and one of an earlier life is older than the present one but for that.
Dated ==
  /\ started <= now
  /\ \A r \in records :
       /\ r.life <= life /\ r.timestamp <= now + ahead
       /\ r.life < life => r.timestamp <= started + ahead
       /\ ~regressed => r.seq <= seq

\* A higher sequence was announced in the same or a later life, and later.
Ordered ==
  ~regressed =>
    \A q, r \in records : q.seq <= r.seq =>
      /\ q.life <= r.life
      /\ Steady => q.timestamp <= r.timestamp

\* The time the lookups since the last announcement may have taken so far.
Taken == (burst - queued) * Timeout + spent

\* The owner thread is late for its timer by no more than the lookups took.
OnTime ==
  up =>
    /\ queued <= burst /\ burst <= MaxBurst
    /\ IF queued = 0 THEN spent = 0 ELSE spent < Timeout
    /\ last = None => now - started <= Taken
    /\ last # None => Record(seq, life, last) \in records
    /\ last # None /\ Steady => now - last < Interval + Taken

\* The resolver's dht has no record that is too old.
Kept == store # None => Fresh(store, now)

\* What the resolver has is no older than what it answered; when it has nothing,
\* all that is no newer has expired.
Ahead ==
  Steady /\ ~regressed /\ answer # None =>
    IF store # None THEN answer.seq <= store.seq
    ELSE \A r \in records : r.seq <= answer.seq => ~Fresh(r, now)

IInv == Typed /\ Clocked /\ Dated /\ Ordered /\ OnTime /\ Kept /\ Ahead

-----------------------------------------------------------------------------
(* The operators of the model.                                             *)

LEMMA RecordFields ==
  ASSUME NEW s \in Nat, NEW l \in Nat, NEW t \in Int
  PROVE  /\ Record(s, l, t) \in Announcements
         /\ Record(s, l, t).seq = s
         /\ Record(s, l, t).life = l
         /\ Record(s, l, t).timestamp = t
BY DEF Record, Announcements

LEMMA AnnouncementFields ==
  ASSUME NEW r \in Announcements
  PROVE  r.seq \in Nat /\ r.life \in Nat /\ r.timestamp \in Int
BY DEF Announcements

\* The time of one more lookup, and of more lookups.
LEMMA Multiples ==
  ASSUME NEW m \in Nat, NEW n \in Nat
  PROVE  /\ n * Timeout \in Nat
         /\ (n + 1) * Timeout = n * Timeout + Timeout
         /\ m <= n => m * Timeout <= n * Timeout
<1>1. Timeout \in Nat
  BY Periods
<1>2. n * Timeout \in Nat /\ (n + 1) * Timeout = n * Timeout + Timeout
  BY <1>1
<1>3. ASSUME m <= n PROVE m * Timeout <= n * Timeout
  <2>1. n - m \in Nat /\ (n - m) * Timeout \in Nat
    BY <1>1, <1>3
  <2>2. n * Timeout = m * Timeout + (n - m) * Timeout
    BY <1>1
  <2> QED
    BY <1>1, <2>1, <2>2
<1> QED
  BY <1>2, <1>3

\* A delay of one second more is within a bound that grew by one.
LEMMA OneMore ==
  ASSUME NEW n \in Nat, NEW a \in Int, NEW i \in Nat, NEW t \in Nat, NEW u \in Nat,
         n - a < i + t,
         (n + 1) - a < i \/ u >= t + 1
  PROVE  (n + 1) - a < i + u
OBVIOUS

\* A second of the announcer either publishes the next record of its life, or
\* leaves all that it announced alone: then it is down, or in a lookup, or the
\* announcement is not due.
Announces ==
  /\ up /\ queued' = 0
  /\ seq' = seq + 1
  /\ records' = records \cup { Record(seq + 1, life, Wall(now')) }
  /\ last' = Wall(now')
  /\ burst' = 0

Quiet ==
  /\ UNCHANGED << seq, records, last, burst >>
  /\ up /\ queued' = 0 => ~Due(now')

LEMMA PassCases ==
  ASSUME Pass
  PROVE  /\ now' = now + 1
         /\ UNCHANGED << skew, ahead, sets, up, life, started, regressed, answer >>
         /\ IF up THEN PumpSecond ELSE UNCHANGED << queued, spent >>
         /\ Announces \/ Quiet
BY DEF Pass, OwnerSecond, ResolverSecond, AnnounceIfDue, Announces, Quiet, clock

-----------------------------------------------------------------------------
(* Each part of the invariant is kept by every step.                       *)

\* The steps other than Pass, Start and Resolve leave the announcer as it is,
\* or stop it.
LEMMA OthersKeepNode ==
  ASSUME Typed,
         \/ Crash \/ \E k \in -MaxSkew .. MaxSkew : SetClock(k)
         \/ \E r \in records : Absorb(r)
         \/ Ask \/ Found \/ UNCHANGED vars
  PROVE  /\ UNCHANGED << now, life, started, seq, regressed, last, queued, spent,
                         burst, records >>
         /\ ahead' \in Nat /\ ahead' >= ahead
         /\ Steady' => Steady
         /\ up' = up \/ ~up'
<1>1. ASSUME NEW k \in -MaxSkew .. MaxSkew, SetClock(k)
      PROVE  /\ UNCHANGED node /\ UNCHANGED now
             /\ ahead' \in Nat /\ ahead' >= ahead /\ ~Steady'
  BY <1>1 DEF SetClock, Typed, Steady
<1>2. CASE Crash \/ (\E r \in records : Absorb(r)) \/ Ask \/ Found \/ UNCHANGED vars
  BY <1>2 DEF Crash, Absorb, Ask, Found, vars, node, clock, Typed, Steady
<1> QED
  BY <1>1, <1>2 DEF node

LEMMA TypedNext == Typed /\ [Next]_vars => Typed'
<1> SUFFICES ASSUME Typed, [Next]_vars PROVE Typed'
  OBVIOUS
<1> USE DEF Typed
<1>1. ASSUME NEW s \in Seqs, Start(s) PROVE Typed'
  BY <1>1, SequencesAreNumbers DEF Start, Attached, resolver, clock
<1>2. CASE Resolve
  BY <1>2 DEF Resolve, resolver, clock
<1>8. CASE Crash
  BY <1>8 DEF Crash, resolver, clock
<1>7. ASSUME NEW k \in -MaxSkew .. MaxSkew, SetClock(k) PROVE Typed'
  BY <1>7 DEF SetClock, node, resolver
<1>3. CASE \E r \in records : Absorb(r)
  BY <1>3 DEF Absorb, node, clock
<1>4. CASE Ask \/ Found
  BY <1>4 DEF Ask, Found, LookupResult, node, clock
<1>5. CASE Pass
  <2>1. /\ now' \in Nat
        /\ UNCHANGED << skew, ahead, sets, up, life, started, regressed, answer >>
    BY <1>5, PassCases
  <2>2. queued' \in Nat /\ spent' \in Nat
    BY <1>5, PassCases DEF PumpSecond
  <2>3. /\ seq' \in Nat /\ burst' \in Nat /\ last' \in Int \cup { None }
        /\ records' \in SUBSET Announcements
        /\ records \subseteq records'
    <3>1. CASE Announces
      <4>1. Wall(now') \in Int
        BY <2>1 DEF Wall
      <4>2. Record(seq + 1, life, Wall(now')) \in Announcements
        BY <4>1, RecordFields
      <4> QED
        BY <3>1, <4>1, <4>2 DEF Announces
    <3>2. CASE Quiet
      BY <3>2 DEF Quiet
    <3> QED
      BY <1>5, <3>1, <3>2, PassCases
  <2>4. store' \in { store, None } /\ looking' \in Nat \cup { None }
    BY <1>5 DEF Pass, ResolverSecond
  <2> QED
    BY <2>1, <2>2, <2>3, <2>4
<1>6. CASE UNCHANGED vars
  BY <1>6 DEF vars, node, resolver, clock
<1> QED
  BY <1>1, <1>2, <1>3, <1>4, <1>5, <1>6, <1>7, <1>8 DEF Next

LEMMA ClockedNext == Typed /\ Clocked /\ [Next]_vars => Clocked'
<1> SUFFICES ASSUME Typed, Clocked, [Next]_vars PROVE Clocked'
  OBVIOUS
<1>1. ASSUME NEW k \in -MaxSkew .. MaxSkew, SetClock(k) PROVE Clocked'
  BY <1>1 DEF SetClock, Typed, Clocked, Steady
<1>2. CASE \/ (\E s \in Seqs : Start(s)) \/ Crash \/ Resolve
           \/ \E r \in records : Absorb(r)
           \/ Ask \/ Found \/ Pass \/ UNCHANGED vars
  <2>1. UNCHANGED clock
    BY <1>2 DEF Start, Crash, Resolve, Absorb, Ask, Found, Pass, vars
  <2> QED
    BY <2>1 DEF clock, Clocked, Steady
<1> QED
  BY <1>1, <1>2 DEF Next

LEMMA DatedNext == Typed /\ Clocked /\ Dated /\ [Next]_vars => Dated'
<1> SUFFICES ASSUME Typed, Clocked, Dated, [Next]_vars PROVE Dated'
  OBVIOUS
<1>0. \A r \in records : r.seq \in Nat /\ r.life \in Nat /\ r.timestamp \in Int
  BY AnnouncementFields DEF Typed
<1>1. ASSUME NEW s \in Seqs, Start(s) PROVE Dated'
  <2>1. /\ life' = life + 1 /\ started' = now /\ seq' = s /\ s \in Nat
        /\ UNCHANGED << now, ahead, records >>
    BY <1>1, SequencesAreNumbers DEF Start, Attached, clock
  <2>2. ~regressed' => ~regressed /\ seq <= s
    <3>1. regressed' = (regressed \/ s < seq)
      BY <1>1 DEF Start
    <3>2. ~(s < seq) => seq <= s
      BY <2>1 DEF Typed
    <3> QED
      BY <3>1, <3>2
  <2> QED
    BY <1>0, <2>1, <2>2 DEF Typed, Dated
<1>2. CASE Resolve
  BY <1>2 DEF Resolve, Dated, clock
<1>3. CASE Pass
  <2>1. now' = now + 1 /\ UNCHANGED << life, started, regressed, skew, ahead >>
    BY <1>3, PassCases
  <2>2. CASE Announces
    <3>1. Wall(now') \in Int /\ Wall(now') <= now' + ahead'
      BY <2>1 DEF Wall, Typed, Clocked
    <3>2. ASSUME NEW r \in records'
          PROVE  /\ r.life <= life' /\ r.timestamp <= now' + ahead'
                 /\ r.life < life' => r.timestamp <= started' + ahead'
                 /\ ~regressed' => r.seq <= seq'
      <4>1. CASE r \in records
        BY <1>0, <2>1, <2>2, <4>1 DEF Announces, Typed, Dated
      <4>2. CASE r = Record(seq + 1, life, Wall(now'))
        BY <2>1, <2>2, <3>1, <4>2, RecordFields DEF Announces, Typed
      <4> QED
        BY <2>2, <4>1, <4>2 DEF Announces
    <3> QED
      BY <2>1, <3>2 DEF Dated, Typed
  <2>3. CASE Quiet
    BY <1>0, <2>1, <2>3 DEF Quiet, Dated, Typed
  <2> QED
    BY <1>3, <2>2, <2>3, PassCases
<1>4. CASE \/ Crash \/ \E k \in -MaxSkew .. MaxSkew : SetClock(k)
           \/ \E r \in records : Absorb(r)
           \/ Ask \/ Found \/ UNCHANGED vars
  <2>1. /\ UNCHANGED << now, life, started, seq, regressed, records >>
        /\ ahead' \in Nat /\ ahead' >= ahead
    BY <1>4, OthersKeepNode
  <2> QED
    BY <1>0, <2>1 DEF Dated, Typed
<1> QED
  BY <1>1, <1>2, <1>3, <1>4 DEF Next

LEMMA OrderedNext == Typed /\ Clocked /\ Dated /\ Ordered /\ [Next]_vars => Ordered'
<1> SUFFICES ASSUME Typed, Clocked, Dated, Ordered, [Next]_vars, ~regressed'
             PROVE  Ordered'
  BY DEF Ordered
<1>0. \A r \in records : r.seq \in Nat /\ r.life \in Nat /\ r.timestamp \in Int
  BY AnnouncementFields DEF Typed
<1>1. ASSUME records' = records, Steady' => Steady, ~regressed
      PROVE  Ordered'
  BY <1>1 DEF Ordered
<1>2. CASE (\E s \in Seqs : Start(s)) \/ Resolve
  BY <1>1, <1>2 DEF Start, Resolve, clock, Steady
<1>3. CASE Pass
  <2>1. /\ now' = now + 1 /\ skew' = skew /\ sets' = sets
        /\ regressed' = regressed /\ ~regressed
    BY <1>3, PassCases
  <2>2. ASSUME Announces,
               NEW q \in records', NEW r \in records', q.seq <= r.seq
        PROVE  q.life <= r.life /\ (Steady' => q.timestamp <= r.timestamp)
    <3> DEFINE new == Record(seq + 1, life, Wall(now'))
    <3>1. /\ new.seq = seq + 1 /\ new.life = life
          /\ new.timestamp \in Int /\ (Steady => new.timestamp = now')
      <4>1. Wall(now') \in Int /\ (Steady => Wall(now') = now')
        BY <2>1 DEF Wall, Typed, Clocked
      <4>2. seq + 1 \in Nat /\ life \in Nat
        BY DEF Typed
      <4> QED
        BY <4>1, <4>2, RecordFields
    <3>2. records' = records \cup { new } /\ (Steady' <=> Steady)
      BY <2>1, <2>2 DEF Announces, Steady
    <3> HIDE DEF new
    <3>3. CASE q \in records /\ r \in records
      BY <2>1, <2>2, <3>2, <3>3 DEF Ordered
    <3>4. CASE q \in records /\ r = new
      <4>1. /\ q.life <= life /\ q.seq \in Nat /\ q.timestamp \in Int
            /\ q.timestamp <= now + ahead
        BY <1>0, <3>4 DEF Dated
      <4>2. Steady => q.timestamp <= now
        BY <4>1 DEF Clocked, Typed
      <4> QED
        BY <2>1, <3>1, <3>2, <3>4, <4>1, <4>2 DEF Typed
    <3>5. CASE q = new /\ r \in records
      BY <1>0, <2>1, <2>2, <3>1, <3>5 DEF Dated, Typed
    <3>6. CASE q = new /\ r = new
      BY <3>1, <3>6 DEF Typed
    <3> QED
      BY <3>2, <3>3, <3>4, <3>5, <3>6
  <2>3. CASE Announces
    BY <2>2, <2>3 DEF Ordered
  <2>4. CASE Quiet
    BY <1>1, <2>1, <2>4 DEF Quiet, Steady
  <2> QED
    BY <1>3, <2>3, <2>4, PassCases
<1>4. CASE \/ Crash \/ \E k \in -MaxSkew .. MaxSkew : SetClock(k)
           \/ \E r \in records : Absorb(r)
           \/ Ask \/ Found \/ UNCHANGED vars
  BY <1>1, <1>4, OthersKeepNode
<1> QED
  BY <1>1, <1>2, <1>3, <1>4 DEF Next

\* A second that ends in a lookup is one the lookups took.
LEMMA PumpTakes ==
  ASSUME Typed, OnTime, up, PumpSecond, burst' = burst
  PROVE  /\ queued' \in Nat /\ spent' \in Nat /\ queued' <= burst
         /\ IF queued' = 0 THEN spent' = 0 ELSE spent' < Timeout
         /\ Taken \in Nat /\ Taken' \in Nat
         /\ queued > 0 => Taken' >= Taken + 1
<1>1. /\ queued \in Nat /\ spent \in Nat /\ burst \in Nat /\ queued <= burst
      /\ IF queued = 0 THEN spent = 0 ELSE spent < Timeout
      /\ Timeout \in Nat \ { 0 }
  BY Periods DEF Typed, OnTime
<1>2. burst - queued \in Nat /\ (burst - queued) * Timeout \in Nat
  BY <1>1, Multiples
<1>3. CASE queued = 0 /\ UNCHANGED << queued, spent >>
  BY <1>1, <1>2, <1>3 DEF Taken
<1>4. CASE queued > 0 /\ spent + 1 < Timeout /\ spent' = spent + 1
           /\ queued' = queued
  BY <1>1, <1>2, <1>4 DEF Taken
<1>5. CASE queued > 0 /\ spent' = 0 /\ queued' = queued - 1
  <2>1. burst - queued' = (burst - queued) + 1 /\ queued' \in Nat
    BY <1>1, <1>5
  <2>2. (burst - queued') * Timeout = (burst - queued) * Timeout + Timeout
    BY <1>2, <2>1, Multiples
  <2> QED
    BY <1>1, <1>2, <1>5, <2>1, <2>2 DEF Taken
<1> QED
  BY <1>3, <1>4, <1>5 DEF PumpSecond

LEMMA OnTimeNext == Typed /\ Clocked /\ OnTime /\ [Next]_vars => OnTime'
<1> SUFFICES ASSUME Typed, Clocked, OnTime, [Next]_vars, up' PROVE OnTime'
  BY DEF OnTime
<1>p. /\ Interval \in Nat \ { 0 } /\ Timeout \in Nat \ { 0 }
      /\ MaxBurst \in Nat \ { 0 }
  BY Periods
<1>1. ASSUME NEW s \in Seqs, Start(s) PROVE OnTime'
  <2>1. /\ last' = None /\ queued' = 0 /\ spent' = 0 /\ burst' = 0
        /\ now' = now /\ started' = now
    BY <1>1 DEF Start
  <2>2. Taken' = 0
    BY <1>p, <2>1 DEF Taken
  <2> QED
    BY <1>p, <2>1, <2>2 DEF OnTime, Typed
<1>2. CASE Resolve
  <2>1. /\ up /\ burst < MaxBurst
        /\ queued' = queued + 1 /\ burst' = burst + 1
        /\ UNCHANGED << now, sets, life, started, seq, last, spent, records >>
    BY <1>2 DEF Resolve, clock
  <2>2. burst' - queued' = burst - queued
    BY <2>1 DEF Typed
  <2>3. Taken' = Taken
    BY <2>1, <2>2 DEF Taken
  <2> QED
    BY <1>p, <2>1, <2>3 DEF OnTime, Typed, Steady
<1>3. CASE Pass
  <2>1. /\ up /\ PumpSecond /\ now' = now + 1
        /\ UNCHANGED << skew, sets, up, life, started >>
    BY <1>3, PassCases
  <2>2. CASE Announces
    <3>1. /\ queued' = 0 /\ burst' = 0 /\ seq' = seq + 1
          /\ last' = now' + skew /\ (Steady' => skew = 0)
          /\ Record(seq + 1, life, last') \in records'
      <4>1. Wall(now') = now' + skew
        BY <2>1 DEF Wall
      <4>2. Steady' => skew = 0
        BY <2>1 DEF Clocked, Steady
      <4> QED
        BY <2>2, <4>1, <4>2 DEF Announces
    <3>2. spent' = 0
      BY <2>1, <3>1 DEF PumpSecond, OnTime
    <3>3. Taken' = 0
      BY <1>p, <3>1, <3>2 DEF Taken
    <3>4. last' # None
      BY <2>1, <3>1, NoneIsNoValue DEF Typed
    <3>5. Record(seq', life', last') \in records'
      BY <2>1, <3>1
    <3> QED
      BY <1>p, <2>1, <3>1, <3>2, <3>3, <3>4, <3>5 DEF OnTime, Typed
  <2>3. CASE Quiet
    <3>1. UNCHANGED << seq, records, last, burst >>
          /\ (queued' = 0 => ~Due(now'))
      BY <2>1, <2>3 DEF Quiet
    <3>2. /\ queued' \in Nat /\ spent' \in Nat /\ queued' <= burst
          /\ IF queued' = 0 THEN spent' = 0 ELSE spent' < Timeout
          /\ Taken \in Nat /\ Taken' \in Nat
          /\ queued > 0 => Taken' >= Taken + 1
      BY <2>1, <3>1, PumpTakes
    <3>3. queued' # 0 => queued > 0
      BY <2>1 DEF PumpSecond, Typed
    <3>4. queued' # 0 => Taken' >= Taken + 1
      BY <3>2, <3>3
    <3>5. last' = None => now' - started' <= Taken'
      <4> SUFFICES ASSUME last = None PROVE now' - started <= Taken'
        BY <2>1, <3>1
      <4>1. Taken' >= Taken + 1
        BY <3>1, <3>4 DEF Due
      <4>2. now - started <= Taken
        BY <2>1 DEF OnTime
      <4>3. now \in Nat /\ started \in Nat
        BY DEF Typed
      <4> QED
        BY <2>1, <3>2, <4>1, <4>2, <4>3
    <3>6. last' # None /\ Steady' => now' - last' < Interval + Taken'
      <4> SUFFICES ASSUME last # None, Steady
                   PROVE  now' - last < Interval + Taken'
        BY <2>1, <3>1 DEF Steady
      <4>1. /\ now \in Nat /\ last \in Int /\ Interval \in Nat
            /\ now - last < Interval + Taken
        BY <1>p, <2>1 DEF OnTime, Typed
      <4>2. queued' = 0 => (now + 1) - last < Interval
        <5>1. Wall(now') = now' + skew /\ skew = 0
          BY <2>1 DEF Wall, Clocked
        <5>2. queued' = 0 => ~(Wall(now') - last >= Interval)
          BY <3>1 DEF Due
        <5> QED
          BY <2>1, <4>1, <5>1, <5>2
      <4>3. (now + 1) - last < Interval + Taken'
        BY <3>2, <3>4, <4>1, <4>2, OneMore
      <4> QED
        BY <2>1, <4>3
    <3>7. last' # None => Record(seq', life', last') \in records'
      BY <2>1, <3>1 DEF OnTime
    <3> QED
      BY <2>1, <3>1, <3>2, <3>5, <3>6, <3>7 DEF OnTime
  <2> QED
    BY <1>3, <2>2, <2>3, PassCases
<1>4. CASE \/ Crash \/ \E k \in -MaxSkew .. MaxSkew : SetClock(k)
           \/ \E r \in records : Absorb(r)
           \/ Ask \/ Found \/ UNCHANGED vars
  <2>1. up /\ (Steady' => Steady)
    BY <1>4, OthersKeepNode
  <2>2. UNCHANGED << now, life, started, seq, last, queued, spent, burst, records >>
    BY <1>4, OthersKeepNode
  <2>3. Taken' = Taken
    BY <2>2 DEF Taken
  <2> QED
    BY <2>1, <2>2, <2>3 DEF OnTime
<1> QED
  BY <1>1, <1>2, <1>3, <1>4 DEF Next

LEMMA KeptNext == Typed /\ Kept /\ [Next]_vars => Kept'
<1> SUFFICES ASSUME Typed, Kept, [Next]_vars, store' # None
             PROVE  now' - store'.timestamp <= Lifetime
  BY DEF Kept, Fresh
<1>1. CASE \/ (\E s \in Seqs : Start(s)) \/ Crash \/ Resolve
           \/ \E k \in -MaxSkew .. MaxSkew : SetClock(k)
           \/ Ask \/ Found \/ UNCHANGED vars
  BY <1>1
  DEF Start, Crash, Resolve, SetClock, Ask, Found, vars, resolver, node, Kept,
      Fresh
<1>2. CASE \E r \in records : Absorb(r)
  BY <1>2 DEF Absorb, Fresh
<1>3. CASE Pass
  BY <1>3 DEF Pass, ResolverSecond, Fresh
<1> QED
  BY <1>1, <1>2, <1>3 DEF Next

LEMMA AheadNext ==
  Typed /\ Dated /\ Ordered /\ Ahead /\ [Next]_vars => Ahead'
<1> SUFFICES ASSUME Typed, Dated, Ordered, Ahead, [Next]_vars,
                    Steady', ~regressed', answer' # None
             PROVE  IF store' # None THEN answer'.seq <= store'.seq
                    ELSE \A r \in records' :
                           r.seq <= answer'.seq => ~Fresh(r, now')
  BY DEF Ahead, Fresh
<1>0. \A r \in records : r.seq \in Nat /\ r.life \in Nat /\ r.timestamp \in Int
  BY AnnouncementFields DEF Typed
<1>b. Steady /\ ~regressed
  <2>1. ASSUME NEW s \in Seqs, Start(s) PROVE Steady /\ ~regressed
    BY <2>1 DEF Start, clock, Steady
  <2>2. ASSUME NEW k \in -MaxSkew .. MaxSkew, SetClock(k) PROVE FALSE
    BY <2>2 DEF SetClock, Typed, Steady
  <2>3. CASE \/ Crash \/ Resolve \/ (\E r \in records : Absorb(r))
             \/ Ask \/ Found \/ Pass \/ UNCHANGED vars
    BY <2>3, PassCases
    DEF Crash, Resolve, Absorb, Ask, Found, vars, node, clock, Steady
  <2> QED
    BY <2>1, <2>2, <2>3 DEF Next
<1>l. Lifetime \in Nat
  BY Periods
<1>1. CASE \/ (\E s \in Seqs : Start(s)) \/ Crash \/ Resolve
           \/ (\E k \in -MaxSkew .. MaxSkew : SetClock(k)) \/ UNCHANGED vars
  <2>1. UNCHANGED << now, records, store, answer >>
    BY <1>1 DEF Start, Crash, Resolve, SetClock, vars, resolver, node
  <2> QED
    BY <1>b, <2>1 DEF Ahead
<1>2. ASSUME NEW r \in records, Absorb(r)
      PROVE  store' # None /\ answer'.seq <= store'.seq
  <2>1. /\ store' = r /\ answer' = answer /\ Fresh(r, now)
        /\ store # None => store.seq < r.seq
    BY <1>2 DEF Absorb
  <2>2. r # None /\ answer \in records
    BY <2>1, NoneIsNoValue DEF Typed
  <2>3. CASE store = None
    BY <1>0, <1>b, <2>1, <2>2, <2>3 DEF Ahead
  <2>4. CASE store # None
    <3>1. store \in records /\ answer.seq <= store.seq
      BY <1>b, <2>1, <2>4 DEF Ahead, Typed
    <3> QED
      BY <1>0, <2>1, <2>2, <2>4, <3>1
  <2> QED
    BY <2>3, <2>4
<1>3. CASE Ask \/ Found
  <2>1. /\ UNCHANGED << now, records, store >>
        /\ answer' = answer \/ (store # None /\ answer' = store)
    BY <1>3 DEF Ask, Found, LookupResult, node
  <2> QED
    BY <1>0, <1>b, <2>1 DEF Ahead, Typed
<1>4. CASE Pass
  <2>1. now' = now + 1 /\ answer' = answer /\ skew' = skew
    BY <1>4, PassCases
  <2>2. store' = IF store # None /\ ~Fresh(store, now') THEN None ELSE store
    BY <1>4 DEF Pass, ResolverSecond
  <2>3. answer \in records /\ answer.seq \in Nat /\ answer.seq <= seq
    BY <1>0, <1>b, <2>1 DEF Typed, Dated
  <2>4. ASSUME NEW r \in records', r.seq <= answer.seq PROVE r \in records
    <3>1. CASE Announces
      <4>1. Wall(now') \in Int
        BY <2>1 DEF Wall, Typed
      <4>3. seq + 1 \in Nat /\ life \in Nat
        BY DEF Typed
      <4>2. Record(seq + 1, life, Wall(now')).seq = seq + 1
        BY <4>1, <4>3, RecordFields
      <4> QED
        BY <2>3, <2>4, <3>1, <4>2 DEF Announces, Typed
    <3>2. CASE Quiet
      BY <3>2 DEF Quiet
    <3> QED
      BY <1>4, <3>1, <3>2, PassCases
  <2>5. CASE store' # None
    BY <1>b, <2>1, <2>2, <2>5 DEF Ahead
  <2>6. ASSUME store' = None, NEW r \in records', r.seq <= answer.seq
        PROVE  ~Fresh(r, now')
    <3>1. r \in records /\ r.seq \in Nat /\ r.timestamp \in Int
      BY <1>0, <2>4, <2>6
    <3>2. CASE store = None
      <4>1. ~(now - r.timestamp <= Lifetime)
        BY <1>b, <2>1, <2>6, <3>1, <3>2 DEF Ahead, Fresh
      <4> QED
        BY <1>l, <2>1, <3>1, <4>1 DEF Fresh, Typed
    <3>3. CASE store # None
      <4>1. /\ store \in records /\ answer.seq <= store.seq
            /\ ~(now' - store.timestamp <= Lifetime)
        BY <1>b, <2>1, <2>2, <2>6, <3>3 DEF Ahead, Typed, Fresh
      <4>2. store.seq \in Nat /\ store.timestamp \in Int /\ r.seq <= store.seq
        BY <1>0, <2>3, <2>6, <3>1, <4>1
      <4>3. r.timestamp <= store.timestamp
        BY <1>b, <3>1, <4>1, <4>2 DEF Ordered
      <4> QED
        BY <1>l, <2>1, <3>1, <4>1, <4>2, <4>3 DEF Fresh, Typed
    <3> QED
      BY <3>2, <3>3
  <2> QED
    BY <2>1, <2>5, <2>6
<1> QED
  BY <1>1, <1>2, <1>3, <1>4 DEF Next

-----------------------------------------------------------------------------
(* The theorems.                                                           *)

\* IInv holds in every reachable state.
THEOREM Invariance == Spec => []IInv
<1>1. Init => IInv
  <2> SUFFICES ASSUME Init PROVE IInv
    OBVIOUS
  <2>1. Typed
    <3>1. up \in BOOLEAN /\ regressed \in BOOLEAN
      BY DEF Init
    <3> QED
      BY <3>1 DEF Init, Typed
  <2>2. Clocked /\ Dated /\ Ordered /\ OnTime /\ Kept /\ Ahead
    BY DEF Init, Clocked, Steady, Dated, Ordered, OnTime, Kept, Ahead
  <2> QED
    BY <2>1, <2>2 DEF IInv
<1>2. IInv /\ [Next]_vars => IInv'
  BY TypedNext, ClockedNext, DatedNext, OrderedNext, OnTimeNext, KeptNext, AheadNext
  DEF IInv
<1> QED
  BY <1>1, <1>2, PTL DEF Spec

\* While the announcer runs, its address can be found, although its owner thread
\* serves every queued lookup before it comes to its timer: a record outlives an
\* interval and the lookups that fit in it.
THEOREM RecordsStayLive == Spec => []RecordStaysLive
<1>1. IInv => RecordStaysLive
  <2> SUFFICES ASSUME IInv, up, Steady, now > started + MaxBurst * Timeout
               PROVE  \E r \in records : r.life = life /\ Fresh(r, now)
    BY DEF RecordStaysLive
  <2>1. /\ Typed /\ queued <= burst /\ burst <= MaxBurst
        /\ IF queued = 0 THEN spent = 0 ELSE spent < Timeout
    BY DEF IInv, OnTime
  <2>2. /\ Interval \in Nat /\ Timeout \in Nat \ { 0 } /\ MaxBurst \in Nat
        /\ Lifetime \in Nat /\ Lifetime >= Interval + MaxBurst * Timeout
    BY Periods
  <2>3. Taken <= MaxBurst * Timeout /\ Taken \in Nat /\ MaxBurst * Timeout \in Nat
    <3>1. /\ burst - queued \in Nat /\ burst - queued <= MaxBurst
          /\ spent \in Nat /\ (burst - queued) * Timeout \in Nat
          /\ MaxBurst * Timeout \in Nat
      BY <2>1, <2>2, Multiples DEF Typed
    <3>2. CASE queued = 0
      BY <2>1, <2>2, <3>1, <3>2, Multiples DEF Taken
    <3>3. CASE queued # 0
      <4>1. burst - queued + 1 \in Nat /\ burst - queued + 1 <= MaxBurst
        BY <2>1, <2>2, <3>3 DEF Typed
      <4>2. (burst - queued + 1) * Timeout <= MaxBurst * Timeout
        BY <2>2, <4>1, Multiples
      <4>3. (burst - queued + 1) * Timeout = (burst - queued) * Timeout + Timeout
        BY <3>1, Multiples
      <4> QED
        BY <2>1, <2>2, <3>1, <3>3, <4>2, <4>3 DEF Taken
    <3> QED
      BY <3>2, <3>3
  <2>4. last # None
    BY <2>1, <2>2, <2>3 DEF IInv, OnTime, Typed
  <2>5. last \in Int /\ now - last < Interval + Taken
    BY <2>1, <2>4 DEF IInv, OnTime, Typed
  <2>6. now - last <= Lifetime
    BY <2>1, <2>2, <2>3, <2>5 DEF Typed
  <2>7. Record(seq, life, last) \in records
    BY <2>4 DEF IInv, OnTime
  <2>8. /\ Record(seq, life, last).life = life
        /\ Record(seq, life, last).timestamp = last
    BY <2>1, <2>5, RecordFields DEF Typed
  <2> QED
    BY <2>6, <2>7, <2>8 DEF Fresh
<1> QED
  BY <1>1, Invariance, PTL

\* A lifetime after a node came back at another address nobody is led to the old
\* one, whatever is delayed and whatever initial sequence the node was given; if
\* its clock was ahead of the resolver's, as much later.
THEOREM StaleIsForALifetime == Spec => []StaleForALifetime
<1>1. IInv => StaleForALifetime
  <2> SUFFICES ASSUME IInv, now > started + Lifetime + ahead, store # None
               PROVE  store.life = life
    BY DEF StaleForALifetime, LookupResult
  <2>1. /\ store \in records /\ store.life \in Nat /\ store.timestamp \in Int
        /\ now - store.timestamp <= Lifetime
    BY AnnouncementFields DEF IInv, Typed, Kept, Fresh
  <2>2. Lifetime \in Nat
    BY Periods
  <2> QED
    BY <2>1, <2>2 DEF IInv, Typed, Dated
<1> QED
  BY <1>1, Invariance, PTL

\* A resolver is never led back to where a node was before, whatever expires and
\* in whatever order records arrive, as long as the node's clock was never set and
\* it was never started with less than the last sequence it had announced.
THEOREM NeverLedBack == Spec => NeverBack
<1>1. IInv /\ [Next]_vars
        => [ answer # None /\ Steady /\ ~regressed => answer'.life >= answer.life ]_vars
  <2> SUFFICES ASSUME IInv, Next, answer # None, Steady, ~regressed
               PROVE  answer'.life >= answer.life
    OBVIOUS
  <2>1. answer \in records /\ answer.life \in Nat
    BY AnnouncementFields DEF IInv, Typed
  <2>2. answer' = answer \/ (store # None /\ answer' = store)
    BY DEF Next, Start, Crash, Resolve, SetClock, Absorb, Ask, Found, Pass,
           ResolverSecond, LookupResult, resolver
  <2>3. ASSUME store # None PROVE answer.life <= store.life /\ store.life \in Nat
    <3>1. store \in records /\ store.life \in Nat /\ answer.seq <= store.seq
      BY <2>3, AnnouncementFields DEF IInv, Typed, Ahead
    <3> QED
      BY <2>1, <3>1 DEF IInv, Ordered
  <2> QED
    BY <2>1, <2>2, <2>3
<1> QED
  BY <1>1, Invariance, PTL DEF Spec, NeverBack

=============================================================================
