--------------------------- MODULE DeliveryProofs ---------------------------
(***************************************************************************)
(* Proofs about Delivery, for any intervals, any cap of the backoff and    *)
(* any even range of the clock that is more than twice the longest wait    *)
(* and a stall.                                                            *)
(***************************************************************************)
EXTENDS Delivery, FiniteSetTheorems, TLAPS

-----------------------------------------------------------------------------
(* The invariant *)

Clock == 0..(ClockRange - 1)

TypeOK ==
  /\ now \in Clock /\ nextAttempt \in Clock /\ nextBeat \in Clock
  /\ pairingStarted \in Clock /\ lastUpdate \in Clock
  /\ failures \in 0..FailuresCounted
  /\ denied \in BOOLEAN /\ paired \in BOOLEAN /\ queued \in BOOLEAN
  /\ pouring \in BOOLEAN /\ updated \in BOOLEAN /\ urgent \in BOOLEAN
  /\ last \in Answers
  /\ since \in Nat /\ beat \in Nat
  /\ lag \in 0..MaxLag

\* nextAttempt lies wait after the last exchange
Waits(wait) ==
  /\ (now - nextAttempt) % ClockRange = (since - wait) % ClockRange
  /\ wait <= Longest \/ wait <= since
  /\ last = "transient" /\ ~urgent => wait = Delay(failures)
  /\ last = "pending" /\ ~urgent => wait = Cadence
  /\ last \in NoWait => wait <= since

\* The next attempt lies as far from the last exchange as its answer calls for,
\* unless something urgent came up, and then it is due.
AttemptTells == ~denied => \E wait \in Nat : Waits(wait)

\* The next heartbeat is a heartbeat's interval after the last, and is not missed
\* in a turn of the loop.
BeatTells ==
  ~denied => /\ (now - nextBeat) % ClockRange = (beat - HeartbeatMs) % ClockRange
             /\ beat < HeartbeatMs + lag

\* With events queued the device has waited no longer than the wait it was given;
\* with none, or with no wait to keep, no longer than since the last heartbeat,
\* which would have queued one.
Tries == ~denied => since < Longest + lag /\ (~queued \/ last \in NoWait => since <= beat)

\* A failure counts, so the device is not healthy after one.
FailureCounts == last = "transient" => failures > 0

IInv == TypeOK /\ AttemptTells /\ BeatTells /\ Tries /\ FailureCounts
-----------------------------------------------------------------------------
(* The clock and the delays *)

\* The intervals fit half the clock.
LEMMA Intervals ==
  /\ RetryInterval \in Nat /\ MaxRetry \in Nat /\ FastPoll \in Nat /\ HeartbeatMs \in Nat \ {0}
  /\ MaxLag \in Nat /\ FailuresCounted \in Nat \ {0} /\ Longest \in Nat
  /\ FastPoll <= Longest /\ HeartbeatMs <= Longest /\ MaxRetry <= Longest
  /\ ClockRange \in Nat \ {0} /\ 2 * (Longest + MaxLag) < ClockRange
  /\ ClockRange \div 2 \in Nat /\ ClockRange = 2 * (ClockRange \div 2)
BY DeliveryAssumption DEF Longest

\* A span read modulo the clock's range
LEMMA Wrapped ==
  ASSUME NEW x \in Int, -ClockRange <= x, x < ClockRange
  PROVE  x % ClockRange = IF x >= 0 THEN x ELSE x + ClockRange
BY Intervals

LEMMA WrappedTwice ==
  ASSUME NEW x \in Int, -(2 * ClockRange) <= x, x < ClockRange
  PROVE  x % ClockRange = IF x >= 0 THEN x ELSE IF x >= -ClockRange THEN x + ClockRange ELSE x + 2 * ClockRange
BY Intervals

LEMMA ClockDifference ==
  ASSUME NEW a \in Clock, NEW b \in Clock
  PROVE  (a - b) % ClockRange = IF a >= b THEN a - b ELSE a - b + ClockRange
BY Intervals DEF Clock

\* A step of the clock lengthens a span by one.
LEMMA SpanGrows ==
  ASSUME NEW a \in Clock, NEW b \in Clock, NEW x \in Int, -ClockRange <= x, x + 1 < ClockRange,
         (a - b) % ClockRange = x % ClockRange
  PROVE  /\ (a + 1) % ClockRange \in Clock
         /\ (((a + 1) % ClockRange) - b) % ClockRange = (x + 1) % ClockRange
<1> DEFINE next == (a + 1) % ClockRange
<1>1. next \in Clock /\ next = IF a + 1 = ClockRange THEN 0 ELSE a + 1
  BY Intervals DEF Clock
<1> HIDE DEF next
<1>2. (next - b) % ClockRange = IF next >= b THEN next - b ELSE next - b + ClockRange
  BY <1>1, ClockDifference
<1>3. (a - b) % ClockRange = IF a >= b THEN a - b ELSE a - b + ClockRange
  BY ClockDifference
<1>4. /\ x % ClockRange = IF x >= 0 THEN x ELSE x + ClockRange
      /\ (x + 1) % ClockRange = IF x + 1 >= 0 THEN x + 1 ELSE x + 1 + ClockRange
  BY Wrapped, Intervals
<1>5. (next - b) % ClockRange = (x + 1) % ClockRange
  BY <1>1, <1>2, <1>3, <1>4, Intervals DEF Clock
<1>. QED  BY <1>1, <1>5 DEF next

\* The time of an exchange stays where it was while the clock ticks.
LEMMA MomentStays ==
  ASSUME NEW a \in Clock, NEW b \in Clock, NEW x \in Nat, x + 1 < ClockRange
  PROVE  (((a + 1) % ClockRange) - (x + 1) - b) % ClockRange = (a - x - b) % ClockRange
<1> DEFINE next == (a + 1) % ClockRange
<1>1. next = IF a + 1 = ClockRange THEN 0 ELSE a + 1
  BY Intervals DEF Clock
<1> HIDE DEF next
<1>2. CASE a + 1 = ClockRange
  <2>1. next = 0 /\ a = ClockRange - 1
    BY <1>1, <1>2, Intervals DEF Clock
  <2> DEFINE apart == 0 - (x + 1) - b
  <2>2. apart \in Int /\ -(2 * ClockRange) <= apart /\ apart < 0 /\ a - x - b = apart + ClockRange
    BY <2>1, Intervals DEF Clock
  <2> HIDE DEF apart
  <2>3. apart % ClockRange = (apart + ClockRange) % ClockRange
    BY <2>2, WrappedTwice, Intervals
  <2>. QED  BY <2>1, <2>2, <2>3 DEF apart, next
<1>3. CASE a + 1 # ClockRange
  <2>1. next - (x + 1) - b = a - x - b
    BY <1>1, <1>3, Intervals DEF Clock
  <2>. QED  BY <2>1 DEF next
<1>. QED  BY <1>2, <1>3

\* A deadline set lies as far ahead as it was set.
LEMMA DeadlineSet ==
  ASSUME NEW a \in Clock, NEW d \in Nat, d < ClockRange
  PROVE  (a + d) % ClockRange \in Clock /\ (a - ((a + d) % ClockRange)) % ClockRange = (0 - d) % ClockRange
<1> DEFINE set == (a + d) % ClockRange
<1>1. set \in Clock /\ set = IF a + d >= ClockRange THEN a + d - ClockRange ELSE a + d
  BY Intervals DEF Clock
<1> HIDE DEF set
<1>2. (a - set) % ClockRange = IF a >= set THEN a - set ELSE a - set + ClockRange
  BY <1>1, ClockDifference
<1>3. (0 - d) % ClockRange = IF d = 0 THEN 0 ELSE ClockRange - d
  BY Wrapped, Intervals
<1>4. (a - set) % ClockRange = (0 - d) % ClockRange
  BY <1>1, <1>2, <1>3, Intervals DEF Clock
<1>. QED  BY <1>1, <1>4 DEF set

\* A deadline less than half the range away is due once its time has come.
LEMMA DueMeansReached ==
  ASSUME NEW deadline \in Clock, NEW x \in Int, 2 * x < ClockRange, -ClockRange <= 2 * x,
         (now - deadline) % ClockRange = x % ClockRange
  PROVE  Due(deadline) <=> x >= 0
<1>1. x % ClockRange = IF x >= 0 THEN x ELSE x + ClockRange
  BY Wrapped, Intervals
<1>. QED  BY <1>1, Intervals DEF Due

\* The backoff's delay is a number: a power of two counts the subsets of a set.
LEMMA DelayIsCapped ==
  ASSUME NEW n \in Nat \ {0}
  PROVE  Delay(n) \in Nat /\ Delay(n) <= MaxRetry
<1>1. IsFiniteSet(1..(n - 1)) /\ Cardinality(1..(n - 1)) = n - 1
  BY FS_Interval
<1>2. IsFiniteSet(SUBSET (1..(n - 1))) /\ Cardinality(SUBSET (1..(n - 1))) = 2^(n - 1)
  BY <1>1, FS_SUBSET
<1>3. 2^(n - 1) \in Nat
  BY <1>2, FS_CardinalityType
<1> DEFINE doublings == 2^(n - 1)
<1> HIDE DEF doublings
<1>4. RetryInterval * doublings \in Nat
  BY <1>3, Intervals DEF doublings
<1>. QED  BY <1>4, Intervals DEF Delay, doublings

-----------------------------------------------------------------------------
(* The invariant is inductive *)

LEMMA InitIInv == Init => IInv
<1>. SUFFICES ASSUME Init PROVE IInv
  OBVIOUS
<1>1. 0 \in Clock /\ HeartbeatMs \in Clock /\ 0 \in 0..MaxLag /\ 0 \in 0..FailuresCounted
  BY Intervals DEF Clock
<1>2. TypeOK
  BY <1>1 DEF Init, TypeOK, Answers
<1>3. Waits(0)
  BY Intervals DEF Init, Waits, NoWait
<1>4. (0 - HeartbeatMs) % ClockRange = (0 - HeartbeatMs) % ClockRange
  OBVIOUS
<1>. QED  BY <1>2, <1>3, <1>4, Intervals DEF Init, IInv, AttemptTells, BeatTells, Tries, FailureCounts

LEMMA Types ==
  ASSUME IInv
  PROVE  /\ now \in Clock /\ nextAttempt \in Clock /\ nextBeat \in Clock
         /\ pairingStarted \in Clock /\ lastUpdate \in Clock
         /\ failures \in Nat /\ failures <= FailuresCounted
         /\ denied \in BOOLEAN /\ paired \in BOOLEAN /\ queued \in BOOLEAN
         /\ pouring \in BOOLEAN /\ updated \in BOOLEAN /\ urgent \in BOOLEAN
         /\ last \in Answers /\ since \in Nat /\ beat \in Nat
         /\ lag \in Nat /\ lag <= MaxLag
BY Intervals DEF IInv, TypeOK

\* After an exchange the device waits what the answer calls for.
LEMMA ExchangeKeeps ==
  ASSUME IInv, NEW q \in BOOLEAN, NEW answer \in Answers, Exchange(q, answer), now' = now, ~denied,
         NEW stalled \in Nat, lag' = stalled, NEW beaten \in Nat, beat' = beaten
  PROVE  /\ nextAttempt' \in Clock /\ failures' \in 0..FailuresCounted /\ pairingStarted' \in Clock
         /\ denied' \in BOOLEAN /\ paired' \in BOOLEAN /\ queued' \in BOOLEAN
         /\ last' = answer /\ urgent' = FALSE /\ since' = 0
         /\ AttemptTells' /\ Tries' /\ FailureCounts'
<1>1. last' = answer /\ urgent' = FALSE /\ since' = 0 /\ denied' = (answer = "denied")
  BY DEF Exchange
<1>2. /\ failures' \in 0..FailuresCounted
      /\ answer = "transient" => failures' \in Nat \ {0}
  BY Types, Intervals DEF Exchange
<1>3. pairingStarted' \in Clock
  BY Types DEF Exchange, Anchor
<1>4. paired' \in BOOLEAN
  BY Types DEF Exchange
<1>5. queued' \in BOOLEAN
  BY DEF Exchange
<1>6. Tries'
  <2>1. 0 < Longest + stalled
    BY Intervals
  <2>. QED  BY <1>1, <2>1 DEF Tries
<1>7. FailureCounts'
  BY <1>1, <1>2 DEF FailureCounts
<1>8. ASSUME NEW d \in Nat, d <= Longest, nextAttempt' = After(d),
             answer = "transient" => d = Delay(failures'),
             answer = "pending" => d = Cadence',
             answer \in NoWait => d = 0
      PROVE  nextAttempt' \in Clock /\ Waits(d)'
  <2>1. d < ClockRange
    BY <1>8, Intervals
  <2>2. nextAttempt' \in Clock /\ (now - nextAttempt') % ClockRange = (0 - d) % ClockRange
    BY <1>8, <2>1, Types, DeadlineSet DEF After
  <2>. QED  BY <1>1, <1>8, <2>2 DEF Waits
<1>9. nextAttempt' \in Clock /\ AttemptTells'
  <2>1. CASE answer \in {"accepted", "rejected", "allowed"}
    <3>1. nextAttempt' = now
      BY <2>1 DEF Exchange
    <3>2. now = After(0)
      BY Types, Intervals DEF After, Clock
    <3>. QED  BY <1>8, <2>1, <3>1, <3>2, Types, Intervals DEF AttemptTells, NoWait
  <2>2. CASE answer = "transient"
    <3>1. nextAttempt' = After(Delay(failures'))
      BY <2>2 DEF Exchange
    <3>2. Delay(failures') \in Nat /\ Delay(failures') <= Longest
      BY <1>2, <2>2, DelayIsCapped, Intervals
    <3>. QED  BY <1>8, <2>2, <3>1, <3>2 DEF AttemptTells, NoWait
  <2>3. CASE answer = "pending"
    <3>1. nextAttempt' = After(PendingInterval(pairingStarted'))
      BY <2>3 DEF Exchange
    <3>2. PendingInterval(pairingStarted') = Cadence'
      <4>1. now - pairingStarted' = now' - since' - pairingStarted'
        BY <1>1, <1>3, Types DEF Clock
      <4>. QED  BY <4>1 DEF PendingInterval, Cadence, Elapsed
    <3>3. Cadence' \in Nat /\ Cadence' <= Longest
      BY Intervals DEF Cadence
    <3>. QED  BY <1>8, <2>3, <3>1, <3>2, <3>3 DEF AttemptTells, NoWait
  <2>4. CASE answer = "denied"
    <3>1. nextAttempt' = nextAttempt
      BY <2>4 DEF Exchange
    <3>. QED  BY <1>1, <2>4, <3>1, Types DEF AttemptTells
  <2>. QED  BY <2>1, <2>2, <2>3, <2>4 DEF Answers
<1>10. denied' \in BOOLEAN
  BY <1>1
<1>. QED  BY <1>1, <1>2, <1>3, <1>4, <1>5, <1>6, <1>7, <1>9, <1>10

\* A turn of the loop with no heartbeat due comes within the heartbeat's interval.
LEMMA BeatInTime ==
  ASSUME IInv, ~denied
  PROVE  BeatDue <=> beat >= HeartbeatMs
<1>1. (now - nextBeat) % ClockRange = (beat - HeartbeatMs) % ClockRange /\ beat < HeartbeatMs + lag
  BY DEF IInv, BeatTells
<1>2. /\ beat - HeartbeatMs \in Int /\ 2 * (beat - HeartbeatMs) < ClockRange
      /\ -ClockRange <= 2 * (beat - HeartbeatMs)
  BY <1>1, Types, Intervals
<1>3. Due(nextBeat) <=> beat - HeartbeatMs >= 0
  BY <1>1, <1>2, Types, DueMeansReached
<1>. QED  BY <1>3, Types, Intervals DEF BeatDue

LEMMA BeatsKeeps ==
  ASSUME IInv, ~denied, Beats, now' = now, lag' = 0
  PROVE  nextBeat' \in Clock /\ beat' = (IF BeatDue THEN 0 ELSE beat) /\ BeatTells'
<1>1. CASE BeatDue
  <2>1. nextBeat' = After(HeartbeatMs) /\ beat' = 0
    BY <1>1 DEF Beats
  <2>2. nextBeat' \in Clock /\ (now - nextBeat') % ClockRange = (0 - HeartbeatMs) % ClockRange
    BY <2>1, Types, Intervals, DeadlineSet DEF After
  <2>3. 0 < HeartbeatMs + 0
    BY Intervals
  <2>. QED  BY <1>1, <2>1, <2>2, <2>3 DEF BeatTells
<1>2. CASE ~BeatDue
  <2>1. nextBeat' = nextBeat /\ beat' = beat
    BY <1>2 DEF Beats
  <2>2. beat < HeartbeatMs + 0
    BY <1>2, BeatInTime, Types, Intervals
  <2>3. (now - nextBeat) % ClockRange = (beat - HeartbeatMs) % ClockRange
    BY DEF IInv, BeatTells
  <2>. QED  BY <1>2, <2>1, <2>2, <2>3, Types DEF BeatTells
<1>. QED  BY <1>1, <1>2

\* The next attempt is due exactly when the wait it was given is over.
LEMMA AttemptDue ==
  ASSUME IInv, ~denied, NEW wait \in Nat, Waits(wait)
  PROVE  Due(nextAttempt) <=> since >= wait
<1>1. since < Longest + lag
  BY DEF IInv, Tries
<1>2. /\ since - wait \in Int /\ 2 * (since - wait) < ClockRange /\ -ClockRange <= 2 * (since - wait)
  BY <1>1, Types, Intervals DEF Waits
<1>3. Due(nextAttempt) <=> since - wait >= 0
  BY <1>2, Types, DueMeansReached DEF Waits
<1>. QED  BY <1>3, Types

\* While it is not due the device is within the longest wait.
LEMMA NotDueWaits ==
  ASSUME IInv, ~denied, ~Due(nextAttempt)
  PROVE  since < Longest
<1>1. PICK wait \in Nat : Waits(wait)
  BY DEF IInv, AttemptTells
<1>2. ~(since >= wait)
  BY <1>1, AttemptDue
<1>. QED  BY <1>1, <1>2, Types, Intervals DEF Waits

LEMMA SendsKeeps ==
  ASSUME IInv, NEW answer \in Answers, LoopSends(answer)
  PROVE  IInv'
<1> DEFINE q == queued \/ BeatDue
<1>1. /\ ~denied /\ lag' = 0 /\ now' = now /\ Beats /\ Collect /\ Exchange(q, answer)
  BY DEF LoopSends
<1>2. q \in BOOLEAN
  OBVIOUS
<1>3. /\ nextBeat' \in Clock /\ beat' = (IF BeatDue THEN 0 ELSE beat) /\ BeatTells'
  BY <1>1, BeatsKeeps
<1>4. (IF BeatDue THEN 0 ELSE beat) \in Nat
  BY Types
<1>5. /\ nextAttempt' \in Clock /\ failures' \in 0..FailuresCounted /\ pairingStarted' \in Clock
      /\ denied' \in BOOLEAN /\ paired' \in BOOLEAN /\ queued' \in BOOLEAN
      /\ last' = answer /\ urgent' = FALSE /\ since' = 0
      /\ AttemptTells' /\ Tries' /\ FailureCounts'
  <2>. HIDE DEF q
  <2>. QED  BY <1>1, <1>2, <1>3, <1>4, ExchangeKeeps
<1>6. pouring' \in BOOLEAN /\ updated' \in BOOLEAN /\ lastUpdate' \in Clock
  BY <1>1, Types DEF Collect, updates
<1>7. TypeOK'
  <2>1. now' \in Clock /\ beat' \in Nat /\ lag' \in 0..MaxLag /\ last' \in Answers
    BY <1>1, <1>3, <1>4, <1>5, Types, Intervals
  <2>2. since' \in Nat /\ urgent' \in BOOLEAN
    BY <1>5
  <2>. QED  BY <1>3, <1>5, <1>6, <2>1, <2>2 DEF TypeOK
<1>. QED  BY <1>3, <1>5, <1>7 DEF IInv

LEMMA WaitsKeeps ==
  ASSUME IInv, LoopWaits
  PROVE  IInv'
<1> DEFINE q == queued \/ BeatDue
<1>1. /\ ~denied /\ lag' = 0 /\ now' = now /\ Beats /\ ~(Due(nextAttempt) /\ q) /\ queued' = q
      /\ nextAttempt' = nextAttempt /\ failures' = failures /\ pairingStarted' = pairingStarted
      /\ denied' = denied /\ paired' = paired /\ last' = last /\ urgent' = urgent /\ since' = since
      /\ pouring' = pouring /\ updated' = updated /\ lastUpdate' = lastUpdate
  BY DEF LoopWaits, timing, updates, truth
<1>2. /\ nextBeat' \in Clock /\ beat' = (IF BeatDue THEN 0 ELSE beat) /\ BeatTells'
  BY <1>1, BeatsKeeps
<1>3. TypeOK'
  <2>1. queued' \in BOOLEAN /\ beat' \in Nat /\ lag' \in 0..MaxLag
    BY <1>1, <1>2, Types, Intervals
  <2>. QED  BY <1>1, <1>2, <2>1 DEF IInv, TypeOK
<1>4. AttemptTells'
  <2>1. Cadence' = Cadence
    BY <1>1 DEF Cadence
  <2>. QED  BY <1>1, <2>1 DEF IInv, AttemptTells, Waits
<1>5. Tries'
  <2>1. ASSUME ~q PROVE since <= beat /\ since < Longest
    <3>1. since <= beat /\ beat < HeartbeatMs
      <4>1. ~queued /\ ~BeatDue
        BY <2>1
      <4>2. ~(beat >= HeartbeatMs)
        BY <1>1, <4>1, BeatInTime
      <4>3. since <= beat
        BY <1>1, <4>1 DEF IInv, Tries
      <4>. QED  BY <4>2, <4>3, Types, Intervals
    <3>. QED  BY <3>1, Types, Intervals
  <2>2. ASSUME q PROVE since < Longest
    BY <1>1, <2>2, NotDueWaits
  <2>3. last \in NoWait => ~q
    <3>1. PICK wait \in Nat : Waits(wait)
      BY <1>1 DEF IInv, AttemptTells
    <3>2. last \in NoWait => Due(nextAttempt)
      BY <1>1, <3>1, AttemptDue, Types DEF Waits
    <3>. QED  BY <1>1, <3>2
  <2>5. ~queued' \/ last' \in NoWait => since' <= beat'
    BY <1>1, <1>2, <2>1, <2>3
  <2>4. since' < Longest + lag'
    BY <1>1, <2>1, <2>2, Intervals
  <2>. QED  BY <2>4, <2>5 DEF Tries
<1>6. FailureCounts'
  BY <1>1 DEF IInv, FailureCounts
<1>. QED  BY <1>2, <1>3, <1>4, <1>5, <1>6 DEF IInv

\* The clock ticks.
LEMMA PassKeeps ==
  ASSUME IInv, Pass
  PROVE  IInv'
<1>1. /\ lag < MaxLag /\ lag' = lag + 1 /\ now' = (now + 1) % ClockRange
      /\ since' = (IF denied THEN 0 ELSE since + 1) /\ beat' = (IF denied THEN 0 ELSE beat + 1)
      /\ nextAttempt' = nextAttempt /\ failures' = failures /\ pairingStarted' = pairingStarted
      /\ denied' = denied /\ paired' = paired /\ last' = last /\ urgent' = urgent
      /\ pouring' = pouring /\ updated' = updated /\ lastUpdate' = lastUpdate
      /\ nextBeat' = nextBeat /\ queued' = queued
  BY DEF Pass, timing, updates
<1>2. now' \in Clock
  BY <1>1, Types, Intervals DEF Clock
<1>3. TypeOK'
  <2>1. since' \in Nat /\ beat' \in Nat /\ lag' \in 0..MaxLag
    BY <1>1, Types, Intervals
  <2>. QED  BY <1>1, <1>2, <2>1 DEF IInv, TypeOK
<1>4. AttemptTells'
  <2>. SUFFICES ASSUME ~denied PROVE \E wait \in Nat : Waits(wait)'
    BY <1>1 DEF AttemptTells
  <2>1. PICK wait \in Nat : Waits(wait)
    BY DEF IInv, AttemptTells
  <2>2. since < Longest + lag
    BY DEF IInv, Tries
  <2>3. /\ since - wait \in Int /\ -ClockRange <= since - wait /\ (since - wait) + 1 < ClockRange
        /\ (since - wait) + 1 = (since + 1) - wait
    BY <1>1, <2>1, <2>2, Types, Intervals DEF Waits
  <2>4. (now' - nextAttempt) % ClockRange = ((since + 1) - wait) % ClockRange
    BY <1>1, <2>1, <2>3, Types, SpanGrows DEF Waits
  <2>5. wait <= Longest \/ wait <= since + 1
    BY <2>1, Types DEF Waits
  <2>6. Cadence' = Cadence
    <3>1. since + 1 < ClockRange
      BY <1>1, <2>2, Types, Intervals
    <3>. QED  BY <1>1, <3>1, MomentStays, Types DEF Cadence
  <2>7. last \in NoWait => wait <= since + 1
    BY <2>1, Types DEF Waits
  <2>. QED  BY <1>1, <2>1, <2>4, <2>5, <2>6, <2>7 DEF Waits
<1>5. BeatTells'
  <2>. SUFFICES ASSUME ~denied
                PROVE  /\ (now' - nextBeat) % ClockRange = ((beat + 1) - HeartbeatMs) % ClockRange
                       /\ beat + 1 < HeartbeatMs + (lag + 1)
    BY <1>1 DEF BeatTells
  <2>1. (now - nextBeat) % ClockRange = (beat - HeartbeatMs) % ClockRange /\ beat < HeartbeatMs + lag
    BY DEF IInv, BeatTells
  <2>2. /\ beat - HeartbeatMs \in Int /\ -ClockRange <= beat - HeartbeatMs
        /\ (beat - HeartbeatMs) + 1 < ClockRange
        /\ (beat - HeartbeatMs) + 1 = (beat + 1) - HeartbeatMs
        /\ beat + 1 < HeartbeatMs + (lag + 1)
    BY <1>1, <2>1, Types, Intervals
  <2>. QED  BY <1>1, <2>1, <2>2, Types, SpanGrows
<1>6. Tries'
  <2>. SUFFICES ASSUME ~denied
                PROVE  /\ since + 1 < Longest + (lag + 1)
                       /\ ~queued \/ last \in NoWait => since + 1 <= beat + 1
    BY <1>1 DEF Tries
  <2>. QED  BY Types, Intervals DEF IInv, Tries
<1>7. FailureCounts'
  BY <1>1 DEF IInv, FailureCounts
<1>. QED  BY <1>3, <1>4, <1>5, <1>6, <1>7 DEF IInv

LEMMA NextIInv == IInv /\ [Next]_vars => IInv'
<1>. SUFFICES ASSUME IInv, [Next]_vars PROVE IInv'
  OBVIOUS
<1>1. CASE \E answer \in Answers : LoopSends(answer)
  BY <1>1, SendsKeeps
<1>2. CASE LoopWaits
  BY <1>2, WaitsKeeps
<1>3. CASE LoopDenied
  <2>1. TypeOK'
    BY <1>3, Types, Intervals DEF LoopDenied, timing, updates, truth, TypeOK
  <2>. QED  BY <1>3, <2>1 DEF LoopDenied, timing, truth, IInv, AttemptTells, BeatTells, Tries, FailureCounts
<1>4. ASSUME NEW answer \in Answers, TokenAsk(answer) PROVE IInv'
  <2>1. /\ ~denied /\ now' = now /\ lag' = lag /\ beat' = beat /\ nextBeat' = nextBeat
        /\ pouring' = pouring /\ updated' = updated /\ lastUpdate' = lastUpdate
        /\ Exchange(TRUE, answer)
    BY <1>4 DEF TokenAsk, updates
  <2>2. /\ nextAttempt' \in Clock /\ failures' \in 0..FailuresCounted /\ pairingStarted' \in Clock
        /\ denied' \in BOOLEAN /\ paired' \in BOOLEAN /\ queued' \in BOOLEAN
        /\ last' = answer /\ urgent' = FALSE /\ since' = 0
        /\ AttemptTells' /\ Tries' /\ FailureCounts'
    BY <2>1, Types, ExchangeKeeps
  <2>3. TypeOK'
    BY <2>1, <2>2 DEF IInv, TypeOK
  <2>4. BeatTells'
    BY <2>1 DEF IInv, BeatTells
  <2>. QED  BY <2>2, <2>3, <2>4 DEF IInv
<1>5. CASE QueueUrgent
  <2>1. /\ queued' = TRUE /\ nextAttempt' = now /\ urgent' = TRUE
        /\ now' = now /\ failures' = failures /\ last' = last /\ since' = since /\ denied' = denied
        /\ beat' = beat /\ lag' = lag /\ nextBeat' = nextBeat
        /\ UNCHANGED <<pairingStarted, paired, updates>>
    BY <1>5 DEF QueueUrgent
  <2>2. TypeOK'
    BY <2>1 DEF IInv, TypeOK, updates
  <2>3. AttemptTells'
    <3>1. (now - now) % ClockRange = (since - since) % ClockRange
      BY Types DEF Clock
    <3>2. PICK wait \in Nat : wait = since
      BY Types
    <3>3. Waits(wait)'
      BY <2>1, <3>1, <3>2 DEF Waits
    <3>. QED  BY <3>3 DEF AttemptTells
  <2>4. BeatTells' /\ Tries' /\ FailureCounts'
    BY <2>1 DEF IInv, BeatTells, Tries, FailureCounts
  <2>. QED  BY <2>2, <2>3, <2>4 DEF IInv
<1>6. CASE QueueQuiet
  <2>1. TypeOK'
    BY <1>6 DEF QueueQuiet, timing, updates, truth, IInv, TypeOK
  <2>. QED  BY <1>6, <2>1
         DEF QueueQuiet, timing, truth, IInv, AttemptTells, Waits, Cadence, BeatTells, Tries, FailureCounts
<1>7. CASE PourToggles
  <2>1. TypeOK'
    <3>1. pouring' \in BOOLEAN /\ updated' \in BOOLEAN
      BY <1>7 DEF PourToggles
    <3>2. lastUpdate' \in Clock
      BY <1>7, Intervals DEF PourToggles, Clock
    <3>. QED  BY <1>7, <3>1, <3>2 DEF PourToggles, timing, truth, IInv, TypeOK
  <2>. QED  BY <1>7, <2>1
         DEF PourToggles, timing, truth, IInv, AttemptTells, Waits, Cadence, BeatTells, Tries, FailureCounts
<1>8. CASE Pass
  BY <1>8, PassKeeps
<1>9. CASE UNCHANGED vars
  BY <1>9 DEF vars, timing, truth, updates, IInv, TypeOK, AttemptTells, Waits, Cadence, BeatTells, Tries, FailureCounts
<1>. QED  BY <1>1, <1>2, <1>3, <1>4, <1>5, <1>6, <1>7, <1>8, <1>9 DEF Next

\* The inductive invariant holds in every state of the schedule.
THEOREM Invariant == Spec => []IInv
BY InitIInv, NextIInv, PTL DEF Spec

-----------------------------------------------------------------------------
(* What the invariant shows *)

\* Every variable of the schedule has its type, in every state.
THEOREM TypeCorrect == Spec => []TypeOK
<1>1. IInv => TypeOK
  BY DEF IInv
<1>. QED  BY <1>1, Invariant, PTL

\* A device that was not denied is never silent for longer than the longest wait
\* and a stall, wherever the clock wraps.
THEOREM NeverStarvesHolds == Spec => []NeverStarves
<1>1. IInv => NeverStarves
  BY Types, Intervals DEF IInv, Tries, NeverStarves
<1>. QED  BY <1>1, Invariant, PTL

\* After an answer that calls for no wait the server hears from the device again
\* within a heartbeat's interval, a stall aside.
THEOREM HeartbeatBoundsLatencyHolds == Spec => []HeartbeatBoundsLatency
<1>1. IInv => HeartbeatBoundsLatency
  BY Types, Intervals DEF IInv, BeatTells, Tries, HeartbeatBoundsLatency
<1>. QED  BY <1>1, Invariant, PTL

\* The loop sends only what is due: a queue whose time has come, or the updates of
\* a healthy device's pour.
LEMMA LoopSendsWhenDue ==
  ASSUME IInv, Next, sent' = "loop"
  PROVE  ~denied /\ (UpdateDue \/ Due(nextAttempt))
<1>1. PICK answer \in Answers : LoopSends(answer)
  <2>1. ~LoopWaits /\ ~LoopDenied /\ ~QueueUrgent /\ ~QueueQuiet /\ ~PourToggles /\ ~Pass
    BY DEF LoopWaits, LoopDenied, QueueUrgent, QueueQuiet, PourToggles, Pass
  <2>2. ~(\E answer \in Answers : TokenAsk(answer))
    BY DEF TokenAsk
  <2>. QED  BY <2>1, <2>2 DEF Next
<1>. QED  BY <1>1 DEF LoopSends

\* After a failure the loop waits out the delay it calls for, unless something
\* urgent came up, wherever the clock wraps.
THEOREM BackoffHonouredHolds == Spec => BackoffHonoured
<1> DEFINE Truly == sent' = "loop" /\ last = "transient" /\ ~urgent => since >= Delay(failures)
<1>1. IInv /\ [Next]_vars => [Truly]_vars
  <2>1. SUFFICES ASSUME IInv, Next, sent' = "loop", last = "transient", ~urgent
                 PROVE  since >= Delay(failures)
    BY DEF vars
  <2>2. ~denied /\ (UpdateDue \/ Due(nextAttempt))
    BY <2>1, LoopSendsWhenDue
  <2>3. ~UpdateDue
    BY <2>1, Types DEF IInv, FailureCounts, UpdateDue, Healthy
  <2>4. PICK wait \in Nat : Waits(wait)
    BY <2>1, <2>2 DEF IInv, AttemptTells
  <2>5. wait = Delay(failures)
    BY <2>1, <2>4 DEF Waits
  <2>. QED  BY <2>1, <2>2, <2>3, <2>4, <2>5, AttemptDue
<1>2. Spec => [][Truly]_vars
  BY <1>1, Invariant, PTL DEF Spec
<1>. QED  BY <1>2 DEF BackoffHonoured

\* While pairing is pending the loop polls at the fast cadence within the
\* window and at the heartbeat's interval after it, and no faster, unless something
\* urgent came up or a pour has updates to send.
THEOREM PairingPacedHolds == Spec => PairingPaced
<1> DEFINE Truly == sent' = "loop" /\ last = "pending" /\ ~urgent /\ ~UpdateDue => since >= Cadence
<1>1. IInv /\ [Next]_vars => [Truly]_vars
  <2>1. SUFFICES ASSUME IInv, Next, sent' = "loop", last = "pending", ~urgent, ~UpdateDue
                 PROVE  since >= Cadence
    BY DEF vars
  <2>2. ~denied /\ Due(nextAttempt)
    BY <2>1, LoopSendsWhenDue
  <2>3. PICK wait \in Nat : Waits(wait)
    BY <2>1, <2>2 DEF IInv, AttemptTells
  <2>4. wait = Cadence
    BY <2>1, <2>3 DEF Waits
  <2>5. since >= wait
    BY <2>1, <2>2, <2>3, AttemptDue
  <2>. QED  BY <2>1, <2>3, <2>4, <2>5
<1>2. Spec => [][Truly]_vars
  BY <1>1, Invariant, PTL DEF Spec
<1>. QED  BY <1>2 DEF PairingPaced
=============================================================================
