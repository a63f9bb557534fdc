----------------------------- MODULE MeterProofs -----------------------------
(***************************************************************************)
(* Proofs about Meter, for any timeouts, any width of the clock and any    *)
(* number of edges, and about the tick series of its pours, for any        *)
(* resolution and any buffer.                                              *)
(***************************************************************************)
EXTENDS PourSeries, FiniteSetTheorems, WellFoundedInduction, TLAPS

-----------------------------------------------------------------------------
(* The clock *)

Clock == 0..(ClockRange - 1)

LEMMA ClockIsPositive == ClockRange \in Nat \ {0}
BY MeterAssumption

\* A step of the clock, and the time between two of its readings
LEMMA ClockStep ==
  ASSUME NEW a \in Clock
  PROVE  (a + 1) % ClockRange = IF a + 1 = ClockRange THEN 0 ELSE a + 1
BY ClockIsPositive DEF Clock

LEMMA ClockDifference ==
  ASSUME NEW a \in Clock, NEW b \in Clock
  PROVE  (a - b) % ClockRange = IF a >= b THEN a - b ELSE a - b + ClockRange
BY ClockIsPositive DEF Clock

\* A span that fits the clock and gets no wider than it is measured as it grows.
LEMMA SpanGrows ==
  ASSUME NEW a \in Clock, NEW b \in Clock, NEW span \in Nat,
         (a - b) % ClockRange = span, span + 1 < ClockRange
  PROVE  (((a + 1) % ClockRange) - b) % ClockRange = span + 1
<1>1. (a + 1) % ClockRange \in Clock
  BY ClockStep, ClockIsPositive DEF Clock
<1>2. span = IF a >= b THEN a - b ELSE a - b + ClockRange
  BY ClockDifference
<1> DEFINE next == (a + 1) % ClockRange
<1> HIDE DEF next
<1>3. (next - b) % ClockRange = IF next >= b THEN next - b ELSE next - b + ClockRange
  BY <1>1, ClockDifference DEF next
<1>4. CASE a + 1 = ClockRange
  <2>1. next = 0
    BY <1>4, ClockStep DEF next
  <2>2. (next - b) % ClockRange = span + 1
    BY <1>2, <1>3, <1>4, <2>1, ClockIsPositive DEF Clock
  <2>. QED  BY <2>2 DEF next
<1>5. CASE a + 1 # ClockRange
  <2>1. next = a + 1
    BY <1>5, ClockStep DEF next
  <2>2. (next - b) % ClockRange = span + 1
    BY <1>2, <1>3, <1>5, <2>1, ClockIsPositive DEF Clock
  <2>. QED  BY <2>2 DEF next
<1>. QED  BY <1>4, <1>5

-----------------------------------------------------------------------------
(* The inductive invariant *)

\* The pour's clocks tell the true times: that of the last tick always, that of
\* the first where a cutoff bounds it.
ClocksTell ==
  pouring => /\ Elapsed(lastTick) = quiet
             /\ quiet < IdleTimeout + lag
             /\ MaxDuration # 0 => Elapsed(start) = age /\ age < MaxDuration + lag

\* A pour that starts is as old as its first tick.
AgeStartsAtZero == ~pouring => age = 0

\* A pour has been silent for no longer than it has run.
QuietWithinAge == pouring => quiet <= age

\* Ticks are in hand only inside loop().
InHand == ~looping => taken = 0

IInv == TypeOK /\ InHand /\ TicksConserved /\ TotalCountsAll /\ ClocksTell /\ AgeStartsAtZero /\ QuietWithinAge

LEMMA InitIInv == Init => IInv
<1>. SUFFICES ASSUME Init PROVE IInv
  OBVIOUS
<1>1. TypeOK
  <2>1. 0 \in 0..(ClockRange - 1) /\ 0 \in 0..MaxLag
    BY ClockIsPositive, MeterAssumption
  <2>. QED  BY <2>1 DEF Init, TypeOK, NoRecord
<1>. QED  BY <1>1 DEF Init, IInv, InHand, TicksConserved, TotalCountsAll, ClocksTell, AgeStartsAtZero, QuietWithinAge

LEMMA FinishKeeps ==
  ASSUME TypeOK, NEW ticks \in Nat, NEW first \in Clock, NEW last \in Clock, Finish(ticks, first, last)
  PROVE  /\ pouring' = FALSE /\ session' = 0 /\ start' \in Clock /\ lastTick' \in Clock
         /\ age' = 0 /\ quiet' = 0
         /\ record' \in [ticks : Nat, duration : Nat]
         /\ told' \in Nat /\ lost' \in Nat /\ told' + lost' = told + lost + ticks
<1>1. Lasted(first, last) \in Nat
  BY ClockDifference, ClockIsPositive DEF Lasted, Clock
<1>2. told \in Nat /\ lost \in Nat
  BY DEF TypeOK
<1>3. NoRecord \in [ticks : Nat, duration : Nat]
  BY DEF NoRecord
<1>. QED  BY <1>1, <1>2, <1>3 DEF Finish

LEMMA Sums ==
  ASSUME TypeOK
  PROVE  /\ isr \in Nat /\ taken \in Nat /\ session \in Nat /\ told \in Nat /\ lost \in Nat
         /\ edges \in Nat /\ total \in Nat /\ forgotten \in Nat
BY DEF TypeOK

LEMMA NextIInv == IInv /\ [Next]_vars => IInv'
<1>. SUFFICES ASSUME IInv, [Next]_vars PROVE IInv'
  OBVIOUS
<1>. USE DEF IInv
<1>1. CASE GpioIntr
  <2>1. TypeOK'
    BY <1>1 DEF TypeOK, GpioIntr, session_vars
  <2>2. InHand' /\ TicksConserved' /\ TotalCountsAll'
    BY <1>1 DEF TypeOK, GpioIntr, session_vars, InHand, TicksConserved, TotalCountsAll
  <2>3. ClocksTell' /\ AgeStartsAtZero' /\ QuietWithinAge'
    BY <1>1 DEF GpioIntr, session_vars, ClocksTell, AgeStartsAtZero, QuietWithinAge, Elapsed
  <2>. QED  BY <2>1, <2>2, <2>3
<1>2. CASE LoopTake
  <2>1. TypeOK'
    BY <1>2 DEF TypeOK, LoopTake, session_vars
  <2>2. InHand' /\ TicksConserved' /\ TotalCountsAll'
    BY <1>2 DEF TypeOK, LoopTake, session_vars, InHand, TicksConserved, TotalCountsAll
  <2>3. ClocksTell' /\ AgeStartsAtZero' /\ QuietWithinAge'
    BY <1>2 DEF LoopTake, session_vars, ClocksTell, AgeStartsAtZero, QuietWithinAge, Elapsed
  <2>. QED  BY <2>1, <2>2, <2>3
<1>3. CASE LoopRest
  <2> DEFINE flow  == taken > 0
             first == IF flow /\ ~pouring THEN now ELSE start
             last  == IF flow THEN now ELSE lastTick
             ticks == session + taken
  <2>1. /\ ticks \in Nat /\ first \in Clock /\ last \in Clock
        /\ total \in Nat /\ taken \in Nat /\ session \in Nat
    BY DEF TypeOK, Clock
  <2>2. /\ looping' = FALSE /\ taken' = 0 /\ lag' = 0 /\ total' = total + taken
        /\ now' = now /\ isr' = isr /\ edges' = edges /\ forgotten' = forgotten
    BY <1>3 DEF LoopRest
  <2>3. CASE (pouring \/ flow) /\ Over(first, last)
    <3>1. Finish(ticks, first, last)
      BY <1>3, <2>3 DEF LoopRest
    <3>2. /\ pouring' = FALSE /\ session' = 0 /\ start' \in Clock /\ lastTick' \in Clock
          /\ age' = 0 /\ quiet' = 0 /\ record' \in [ticks : Nat, duration : Nat]
          /\ told' \in Nat /\ lost' \in Nat /\ told' + lost' = told + lost + ticks
      BY <2>1, <3>1, FinishKeeps
    <3>3. TypeOK'
      <4>1. looping' \in BOOLEAN /\ pouring' \in BOOLEAN
        BY <2>2, <3>2
      <4>. QED  BY <4>1, <2>1, <2>2, <3>2, MeterAssumption DEF TypeOK, Clock
    <3>4. InHand' /\ TicksConserved' /\ TotalCountsAll'
      BY <2>1, <2>2, <3>2, Sums DEF InHand, TicksConserved, TotalCountsAll
    <3>. QED  BY <3>2, <3>3, <3>4 DEF ClocksTell, AgeStartsAtZero, QuietWithinAge
  <2>4. CASE ~((pouring \/ flow) /\ Over(first, last))
    <3>1. /\ pouring' = (pouring \/ flow) /\ session' = ticks
          /\ start' = first /\ lastTick' = last
          /\ age' = age /\ quiet' = IF flow THEN 0 ELSE quiet
          /\ record' = NoRecord /\ told' = told /\ lost' = lost
      BY <1>3, <2>4 DEF LoopRest
    <3>2. TypeOK'
      <4>1. looping' \in BOOLEAN /\ pouring' \in BOOLEAN
        BY <2>2, <3>1 DEF TypeOK
      <4>2. age' \in Nat /\ quiet' \in Nat /\ record' \in [ticks : Nat, duration : Nat]
        BY <3>1 DEF TypeOK, NoRecord
      <4>. QED  BY <4>1, <4>2, <2>1, <2>2, <3>1, MeterAssumption DEF TypeOK, Clock
    <3>3. InHand' /\ TicksConserved' /\ TotalCountsAll'
      BY <2>1, <2>2, <3>1, Sums DEF InHand, TicksConserved, TotalCountsAll
    <3>4. ClocksTell'
      <4>1. SUFFICES ASSUME pouring \/ flow
                     PROVE  /\ (now - last) % ClockRange = quiet' /\ quiet' < IdleTimeout + 0
                            /\ MaxDuration # 0 => (now - first) % ClockRange = age /\ age < MaxDuration + 0
        BY <2>2, <3>1 DEF ClocksTell, Elapsed
      <4>2. /\ (now - last) % ClockRange < IdleTimeout
            /\ MaxDuration # 0 => (now - first) % ClockRange < MaxDuration
        <5>1. ~Over(first, last)
          BY <2>4, <4>1
        <5>2. (now - last) % ClockRange \in Nat /\ (now - first) % ClockRange \in Nat
          BY <2>1, ClockDifference, ClockIsPositive DEF TypeOK, Clock
        <5>. QED  BY <5>1, <5>2, MeterAssumption DEF Over, Elapsed
      <4>3. now \in Clock /\ (now - now) % ClockRange = 0
        BY ClockDifference, ClockIsPositive DEF TypeOK, Clock
      <4>4. (now - last) % ClockRange = quiet'
        <5>1. CASE flow
          BY <3>1, <4>3, <5>1
        <5>2. CASE ~flow
          BY <3>1, <4>1, <5>2 DEF ClocksTell, Elapsed
        <5>. QED  BY <5>1, <5>2
      <4>5. MaxDuration # 0 => (now - first) % ClockRange = age
        <5>1. CASE pouring
          BY <5>1 DEF ClocksTell, Elapsed
        <5>2. CASE ~pouring
          BY <4>1, <4>3, <5>2 DEF AgeStartsAtZero
        <5>. QED  BY <5>1, <5>2
      <4>6. IdleTimeout + 0 = IdleTimeout /\ MaxDuration + 0 = MaxDuration
        BY MeterAssumption
      <4>. QED  BY <4>2, <4>4, <4>5, <4>6
    <3>5. AgeStartsAtZero'
      BY <3>1 DEF AgeStartsAtZero
    <3>6. QuietWithinAge'
      <4>1. age \in Nat /\ age' = age
        BY <3>1 DEF TypeOK
      <4>2. CASE flow
        BY <3>1, <4>1, <4>2 DEF QuietWithinAge
      <4>3. CASE ~flow
        BY <3>1, <4>1, <4>3 DEF QuietWithinAge
      <4>. QED  BY <4>2, <4>3
    <3>. QED  BY <3>2, <3>3, <3>4, <3>5, <3>6
  <2>. QED  BY <2>3, <2>4
<1>4. CASE EndPour
  <2>1. /\ now' = now /\ isr' = isr /\ looping' = looping /\ taken' = taken /\ total' = total
        /\ edges' = edges /\ forgotten' = forgotten /\ lag' = lag
        /\ Finish(session, start, lastTick)
    BY <1>4 DEF EndPour
  <2>2. /\ pouring' = FALSE /\ session' = 0 /\ start' \in Clock /\ lastTick' \in Clock
        /\ age' = 0 /\ quiet' = 0 /\ record' \in [ticks : Nat, duration : Nat]
        /\ told' \in Nat /\ lost' \in Nat /\ told' + lost' = told + lost + session
    BY <2>1, FinishKeeps DEF TypeOK, Clock
  <2>3. TypeOK'
    <3>1. looping' \in BOOLEAN /\ pouring' \in BOOLEAN
      BY <2>1, <2>2 DEF TypeOK
    <3>. QED  BY <3>1, <2>1, <2>2 DEF TypeOK, Clock
  <2>4. InHand' /\ TicksConserved' /\ TotalCountsAll'
    BY <2>1, <2>2, Sums DEF InHand, TicksConserved, TotalCountsAll
  <2>. QED  BY <2>2, <2>3, <2>4 DEF ClocksTell, AgeStartsAtZero, QuietWithinAge
<1>5. CASE ResetTotal
  <2>1. TypeOK'
    BY <1>5 DEF TypeOK, ResetTotal, session_vars
  <2>2. InHand' /\ TicksConserved' /\ TotalCountsAll'
    BY <1>5 DEF TypeOK, ResetTotal, session_vars, InHand, TicksConserved, TotalCountsAll
  <2>3. ClocksTell' /\ AgeStartsAtZero' /\ QuietWithinAge'
    BY <1>5 DEF ResetTotal, session_vars, ClocksTell, AgeStartsAtZero, QuietWithinAge, Elapsed
  <2>. QED  BY <2>1, <2>2, <2>3
<1>6. CASE Pass
  <2>1. /\ lag < MaxLag /\ lag' = lag + 1
        /\ now' = (now + 1) % ClockRange
        /\ age' = IF pouring THEN age + 1 ELSE 0
        /\ quiet' = IF pouring THEN quiet + 1 ELSE 0
        /\ record' = NoRecord /\ pouring' = pouring /\ session' = session
        /\ start' = start /\ lastTick' = lastTick
        /\ UNCHANGED <<isr, looping, taken, total, edges, told, lost, forgotten>>
    BY <1>6 DEF Pass
  <2>2. now \in Clock /\ now' \in Clock /\ start \in Clock /\ lastTick \in Clock
    BY <2>1, ClockStep, ClockIsPositive DEF TypeOK, Clock
  <2>3. TypeOK'
    BY <2>1, <2>2, MeterAssumption DEF TypeOK, Clock, NoRecord
  <2>4. InHand' /\ TicksConserved' /\ TotalCountsAll'
    BY <2>1 DEF TypeOK, InHand, TicksConserved, TotalCountsAll
  <2>5. AgeStartsAtZero' /\ QuietWithinAge'
    BY <2>1 DEF AgeStartsAtZero, QuietWithinAge, TypeOK
  <2>6. ClocksTell'
    <3>1. SUFFICES ASSUME pouring
                   PROVE  /\ (now' - lastTick) % ClockRange = quiet + 1
                          /\ quiet + 1 < IdleTimeout + (lag + 1)
                          /\ MaxDuration # 0 => /\ (now' - start) % ClockRange = age + 1
                                                 /\ age + 1 < MaxDuration + (lag + 1)
      BY <2>1 DEF ClocksTell, Elapsed
    <3>2. /\ (now - lastTick) % ClockRange = quiet /\ quiet < IdleTimeout + lag
          /\ MaxDuration # 0 => (now - start) % ClockRange = age /\ age < MaxDuration + lag
      BY <3>1 DEF ClocksTell, Elapsed
    <3>3. age \in Nat /\ quiet \in Nat /\ lag \in Nat
      BY DEF TypeOK
    <3>4. quiet + 1 < ClockRange /\ (MaxDuration # 0 => age + 1 < ClockRange)
      BY <2>1, <3>2, <3>3, MeterAssumption
    <3>5. (now' - lastTick) % ClockRange = quiet + 1
      BY <2>1, <2>2, <3>2, <3>3, <3>4, SpanGrows
    <3>6. MaxDuration # 0 => (now' - start) % ClockRange = age + 1
      BY <2>1, <2>2, <3>2, <3>3, <3>4, SpanGrows
    <3>. QED  BY <3>2, <3>3, <3>5, <3>6, MeterAssumption
  <2>. QED  BY <2>3, <2>4, <2>5, <2>6
<1>7. CASE UNCHANGED vars
  BY <1>7 DEF vars, session_vars, TypeOK, InHand, TicksConserved, TotalCountsAll, ClocksTell, AgeStartsAtZero, QuietWithinAge, Elapsed
<1>. QED  BY <1>1, <1>2, <1>3, <1>4, <1>5, <1>6, <1>7 DEF Next

\* The inductive invariant holds in every state of the meter.
THEOREM Invariant == Spec => []IInv
BY InitIInv, NextIInv, PTL DEF Spec

-----------------------------------------------------------------------------
(* What the invariant shows *)

\* Every variable of the meter has its type, in every state.
THEOREM TypeCorrect == Spec => []TypeOK
<1>1. IInv => TypeOK
  BY DEF IInv
<1>. QED  BY <1>1, Invariant, PTL

\* However the interrupt handler interleaves with the loop, every edge is in
\* exactly one place: with the handler, in the loop's hand, in the pour, or in a
\* pour that is over.
THEOREM TicksConservedHolds == Spec => []TicksConserved
<1>1. IInv => TicksConserved
  BY DEF IInv
<1>. QED  BY <1>1, Invariant, PTL

\* The lifetime total counts every edge the loop has seen since its last reset.
THEOREM TotalCountsAllHolds == Spec => []TotalCountsAll
<1>1. IInv => TotalCountsAll
  BY DEF IInv
<1>. QED  BY <1>1, Invariant, PTL

\* A pour ends in time wherever the clock wraps.
THEOREM PourBoundedHolds == Spec => []PourBounded
<1>1. IInv => PourBounded
  <2>1. SUFFICES ASSUME IInv, pouring
                 PROVE  /\ quiet <= IdleTimeout + MaxLag
                        /\ MaxDuration # 0 => age <= MaxDuration + MaxLag
    BY DEF PourBounded
  <2>2. /\ quiet < IdleTimeout + lag
        /\ MaxDuration # 0 => age < MaxDuration + lag
    BY <2>1 DEF IInv, ClocksTell
  <2>3. lag <= MaxLag /\ lag \in Nat /\ age \in Nat /\ quiet \in Nat
    BY <2>1, MeterAssumption DEF IInv, TypeOK
  <2>. QED  BY <2>2, <2>3, MeterAssumption
<1>. QED  BY <1>1, Invariant, PTL

\* The loop never ends a pour that was neither silent nor too long, though its
\* clock wraps: one drink stays one pour.
THEOREM EndsOnlyWhenOverHolds == Spec => EndsOnlyWhenOver
<1> DEFINE Truly == looping /\ ~looping' /\ pouring /\ ~pouring' =>
                      \/ taken = 0 /\ quiet >= IdleTimeout
                      \/ MaxDuration # 0 /\ age >= MaxDuration
<1>1. IInv /\ [Next]_vars => [Truly]_vars
  <2>1. SUFFICES ASSUME IInv, Next, looping, ~looping', pouring, ~pouring'
                 PROVE  \/ taken = 0 /\ quiet >= IdleTimeout
                        \/ MaxDuration # 0 /\ age >= MaxDuration
    BY DEF vars
  <2>2. LoopRest
    BY <2>1 DEF Next, GpioIntr, LoopTake, EndPour, ResetTotal, Pass, session_vars
  <2>3. Over(start, IF taken > 0 THEN now ELSE lastTick)
    BY <2>1, <2>2 DEF LoopRest
  <2>4. /\ Elapsed(lastTick) = quiet
        /\ MaxDuration # 0 => Elapsed(start) = age
    BY <2>1 DEF IInv, ClocksTell
  <2>5. taken \in Nat /\ now \in Clock
    BY <2>1 DEF IInv, TypeOK, Clock
  <2>6. Elapsed(now) = 0
    BY <2>5, ClockDifference DEF Elapsed, Clock
  <2>7. ~(Elapsed(now) >= IdleTimeout)
    BY <2>6, MeterAssumption
  <2>8. CASE taken > 0
    BY <2>3, <2>4, <2>7, <2>8 DEF Over
  <2>9. CASE taken = 0
    <3>1. Over(start, lastTick)
      BY <2>3, <2>9
    <3>. QED  BY <2>4, <2>9, <3>1 DEF Over
  <2>. QED  BY <2>5, <2>8, <2>9
<1>2. Spec => [][Truly]_vars
  BY <1>1, Invariant, PTL DEF Spec
<1>. QED  BY <1>2 DEF EndsOnlyWhenOver

\* Two spans that end now differ by the span between their starts.
LEMMA SpanBetween ==
  ASSUME NEW a \in Clock, NEW first \in Clock, NEW last \in Clock,
         NEW long \in Nat, NEW short \in Nat, short <= long,
         (a - first) % ClockRange = long, (a - last) % ClockRange = short
  PROVE  (last - first) % ClockRange = long - short
<1>1. /\ short = IF a >= last THEN a - last ELSE a - last + ClockRange
      /\ long = IF a >= first THEN a - first ELSE a - first + ClockRange
      /\ (last - first) % ClockRange = IF last >= first THEN last - first ELSE last - first + ClockRange
  BY ClockDifference
<1>. QED  BY <1>1, ClockIsPositive DEF Clock

\* What is reported is all of the pour, which lasted to its last tick, if a cutoff
\* keeps it shorter than the clock's range.
LEMMA Reported ==
  ASSUME MaxDuration # 0, IInv, LoopRest \/ EndPour, record' # NoRecord
  PROVE  /\ pouring /\ record'.ticks = session + taken
         /\ record'.duration = IF taken > 0 THEN age ELSE age - quiet
<1>1. /\ now \in Clock /\ start \in Clock /\ lastTick \in Clock
      /\ taken \in Nat /\ session \in Nat /\ age \in Nat /\ quiet \in Nat
  BY DEF IInv, TypeOK, Clock
<1>2. (now - now) % ClockRange = 0
  BY <1>1, ClockDifference DEF Clock
<1>3. pouring => /\ (now - lastTick) % ClockRange = quiet /\ (now - start) % ClockRange = age
                 /\ quiet <= age
  BY DEF IInv, ClocksTell, QuietWithinAge, Elapsed
<1>4. pouring => (lastTick - start) % ClockRange = age - quiet
  <2> SUFFICES ASSUME pouring PROVE (lastTick - start) % ClockRange = age - quiet
    OBVIOUS
  <2>1. (now - lastTick) % ClockRange = quiet /\ (now - start) % ClockRange = age /\ quiet <= age
    BY <1>3
  <2>. QED  BY <1>1, <2>1, SpanBetween
<1>5. CASE EndPour
  <2>1. pouring /\ ~looping /\ record' = [ticks |-> session, duration |-> Lasted(start, lastTick)]
    BY <1>5 DEF EndPour, Finish
  <2>2. taken = 0
    BY <2>1 DEF IInv, InHand
  <2>. QED  BY <1>1, <1>4, <2>1, <2>2 DEF Lasted
<1>6. CASE LoopRest
  <2> DEFINE flow  == taken > 0
             first == IF flow /\ ~pouring THEN now ELSE start
             last  == IF flow THEN now ELSE lastTick
  <2>1. /\ pouring \/ flow
        /\ Over(first, last)
        /\ record' = [ticks |-> session + taken, duration |-> Lasted(first, last)]
    BY <1>6 DEF LoopRest, Finish
  <2>2. pouring
    <3>1. SUFFICES ASSUME ~pouring PROVE FALSE
      OBVIOUS
    <3>2. Over(now, now)
      BY <2>1, <3>1
    <3>. QED  BY <1>2, <3>2, MeterAssumption DEF Over, Elapsed
  <2>3. record'.ticks = session + taken /\ record'.duration = (last - start) % ClockRange
    BY <2>1, <2>2 DEF Lasted
  <2>. QED  BY <1>3, <1>4, <2>2, <2>3
<1>. QED  BY <1>5, <1>6

\* Where a cutoff keeps pours shorter than the clock's range, a reported pour lasted
\* exactly from its first tick to its last, whoever ended it and wherever the clock
\* wrapped meanwhile.  Without one, a meter that never falls silent outruns the clock.
THEOREM RecordTellsTheTruthHolds == MaxDuration # 0 => (Spec => RecordTellsTheTruth)
<1> SUFFICES ASSUME MaxDuration # 0 PROVE Spec => RecordTellsTheTruth
  OBVIOUS
<1> DEFINE Truly == record' # NoRecord /\ record' # record =>
                      record'.duration = IF taken > 0 THEN age ELSE age - quiet
<1>1. IInv /\ [Next]_vars => [Truly]_vars
  <2>1. SUFFICES ASSUME IInv, Next, record' # NoRecord, record' # record
                 PROVE  record'.duration = IF taken > 0 THEN age ELSE age - quiet
    BY DEF vars
  <2>2. LoopRest \/ EndPour
    BY <2>1 DEF Next, GpioIntr, LoopTake, ResetTotal, Pass
  <2>. QED  BY <2>1, <2>2, Reported
<1>2. Spec => [][Truly]_vars
  BY <1>1, Invariant, PTL DEF Spec
<1>. QED  BY <1>2 DEF RecordTellsTheTruth

-----------------------------------------------------------------------------
(* Sums.  The induction goes over sets of numbers, with the fact that < is  *)
(* well-founded.                                                           *)

Below == {p \in Nat \X Nat : p[1] < p[2]}

LEMMA BelowWellFounded == IsWellFoundedOn(Below, Nat)
<1>1. OpToRel(<, Nat) = Below
  BY DEF OpToRel, Below
<1>. QED  BY <1>1, NatLessThanWellFounded, Zenon

\* A set that has 0, and the successor of each of its numbers, has every number.
LEMMA SetInduction ==
  ASSUME NEW S \in SUBSET Nat, 0 \in S, \A n \in S : n + 1 \in S
  PROVE  S = Nat
<1> DEFINE T == Nat \ S
<1>1. SUFFICES ASSUME T # {} PROVE FALSE
  OBVIOUS
<1>2. PICK x \in T : \A y \in T : <<y, x>> \notin Below
  BY <1>1, BelowWellFounded, WFMin, Zenon
<1>3. x # 0 /\ x - 1 \in Nat
  OBVIOUS
<1>4. <<x - 1, x>> \in Below
  BY <1>3 DEF Below
<1>5. x - 1 \in S
  BY <1>2, <1>3, <1>4
<1>. QED  BY <1>3, <1>5

\* The greatest number of a set that has k and nothing above
LEMMA GreatestIs ==
  ASSUME NEW k \in Nat, NEW s \in SUBSET (1..k), k \in s
  PROVE  Max(s) = k
<1> DEFINE Greatest(x) == x \in s /\ \A y \in s : x >= y
<1>1. Greatest(k)
  OBVIOUS
<1>2. ASSUME NEW x, Greatest(x) PROVE x = k
  <2>1. x \in 1..k /\ x >= k
    BY <1>2
  <2>. QED  BY <2>1
<1>3. Max(s) = CHOOSE x : Greatest(x)
  BY DEF Max
<1>. HIDE DEF Greatest
<1>. QED  BY <1>1, <1>2, <1>3

\* The cells of a bar chart of f over S
Cells(f, S) == {p \in S \X Nat : p[2] \in 1..f[p[1]]}

LEMMA CellsGrow ==
  ASSUME NEW f, NEW S, NEW x, x \notin S, f[x] \in Nat, IsFiniteSet(Cells(f, S))
  PROVE  /\ IsFiniteSet(Cells(f, S \cup {x}))
         /\ Cardinality(Cells(f, S \cup {x})) = Cardinality(Cells(f, S)) + f[x]
<1> DEFINE new == {x} \X (1..f[x])
           number == [j \in 1..f[x] |-> <<x, j>>]
<1>1. number \in Bijection(1..f[x], new)
  <2>1. number \in [1..f[x] -> new]
    OBVIOUS
  <2>2. \A i, j \in 1..f[x] : number[i] = number[j] => i = j
    OBVIOUS
  <2>3. \A p \in new : \E j \in 1..f[x] : number[j] = p
    OBVIOUS
  <2>. HIDE DEF number, new
  <2>. QED  BY <2>1, <2>2, <2>3 DEF Bijection, Injection, IsInjective, Surjection
<1>2. IsFiniteSet(1..f[x]) /\ Cardinality(1..f[x]) = f[x]
  BY FS_Interval
<1>3. IsFiniteSet(new) /\ Cardinality(new) = f[x]
  BY <1>1, <1>2, FS_Bijection DEF ExistsBijection
<1>4. Cells(f, S \cup {x}) = Cells(f, S) \cup new
  BY DEF Cells
<1>5. Cells(f, S) \cap new = {}
  BY DEF Cells
<1>6. Cardinality(Cells(f, S)) \in Nat
  BY FS_CardinalityType
<1>. HIDE DEF new
<1>7. Cardinality({}) = 0
  BY FS_EmptySet
<1>8. /\ IsFiniteSet(Cells(f, S) \cup new)
      /\ Cardinality(Cells(f, S) \cup new)
           = Cardinality(Cells(f, S)) + Cardinality(new) - Cardinality(Cells(f, S) \cap new)
  BY <1>3, FS_Union, Zenon
<1>9. Cardinality(Cells(f, S) \cup new) = Cardinality(Cells(f, S)) + f[x] - 0
  BY <1>3, <1>5, <1>7, <1>8
<1>10. /\ IsFiniteSet(Cells(f, S \cup {x}))
       /\ Cardinality(Cells(f, S \cup {x})) = Cardinality(Cells(f, S) \cup new)
  BY <1>4, <1>8, Zenon
<1>. QED  BY <1>6, <1>9, <1>10

LEMMA CellsFinite ==
  ASSUME NEW n \in Nat, NEW f \in [1..n -> Nat], NEW S \in SUBSET (1..n)
  PROVE  IsFiniteSet(Cells(f, S)) /\ Cardinality(Cells(f, S)) \in Nat
<1> DEFINE D == {k \in Nat : k <= n => IsFiniteSet(Cells(f, 1..k))}
<1>1. 0 \in D
  <2>1. Cells(f, 1..0) = {}
    BY DEF Cells
  <2>. QED  BY <2>1, FS_EmptySet
<1>2. ASSUME NEW k \in D PROVE k + 1 \in D
  <2>1. SUFFICES ASSUME k + 1 <= n PROVE IsFiniteSet(Cells(f, 1..(k + 1)))
    OBVIOUS
  <2>2. 1..(k + 1) = 1..k \cup {k + 1} /\ k + 1 \notin 1..k /\ f[k + 1] \in Nat
    BY <2>1
  <2>3. IsFiniteSet(Cells(f, 1..k))
    BY <2>1
  <2>4. IsFiniteSet(Cells(f, 1..k \cup {k + 1}))
    BY <2>2, <2>3, CellsGrow
  <2>. QED  BY <2>2, <2>4
<1>3. D = Nat
  <2>. HIDE DEF D
  <2>1. D \in SUBSET Nat
    BY DEF D
  <2>. QED  BY <1>1, <1>2, <2>1, SetInduction
<1>4. IsFiniteSet(Cells(f, 1..n))
  BY <1>3
<1>5. Cells(f, S) \in SUBSET Cells(f, 1..n)
  BY DEF Cells
<1>. QED  BY <1>4, <1>5, FS_Subset, FS_CardinalityType

\* g sums f over any set of indices.
SumsUp(g, f, S) ==
  g = [s \in SUBSET S |-> IF s = {} THEN 0 ELSE f[CHOOSE x \in s : TRUE] + g[s \ {CHOOSE x \in s : TRUE}]]

LEMMA SumUnfolds ==
  ASSUME NEW f, NEW S, DOMAIN f = S
  PROVE  SumFunction(f) = (CHOOSE g : SumsUp(g, f, S))[S]
BY DEF SumFunction, SumFunctionOnSet, FoldFunctionOnSet, MapThenFoldSet, SumsUp

\* A sum is the number of cells.
LEMMA SumCounts ==
  ASSUME NEW n \in Nat, NEW f \in [1..n -> Nat]
  PROVE  SumFunction(f) = Cardinality(Cells(f, 1..n))
<1> DEFINE S == 1..n
           c == [s \in SUBSET S |-> Cardinality(Cells(f, s))]
<1>1. SumsUp(c, f, S)
  <2>1. ASSUME NEW s \in SUBSET S
        PROVE  c[s] = IF s = {} THEN 0 ELSE f[CHOOSE x \in s : TRUE] + c[s \ {CHOOSE x \in s : TRUE}]
    <3>1. CASE s = {}
      <4>1. Cells(f, {}) = {}
        BY DEF Cells
      <4>. QED  BY <3>1, <4>1, FS_EmptySet
    <3>2. CASE s # {}
      <4> DEFINE x == CHOOSE x \in s : TRUE
      <4>1. x \in s
        BY <3>2
      <4>. HIDE DEF x
      <4>2. s \ {x} \in SUBSET (1..n) /\ s = (s \ {x}) \cup {x} /\ x \notin s \ {x} /\ f[x] \in Nat
        BY <4>1
      <4>3. IsFiniteSet(Cells(f, s \ {x})) /\ Cardinality(Cells(f, s \ {x})) \in Nat
        BY <4>2, CellsFinite
      <4>4. Cardinality(Cells(f, s)) = Cardinality(Cells(f, s \ {x})) + f[x]
        BY <4>2, <4>3, CellsGrow
      <4>5. c[s] = f[x] + c[s \ {x}]
        BY <4>2, <4>3, <4>4
      <4>. QED  BY <3>2, <4>5 DEF x
    <3>. QED  BY <3>1, <3>2
  <2>2. c = [s \in SUBSET S |-> c[s]]
    OBVIOUS
  <2>. HIDE DEF c
  <2>. QED  BY <2>1, <2>2 DEF SumsUp
<1> DEFINE g == CHOOSE g : SumsUp(g, f, S)
<1>2. SumsUp(g, f, S)
  BY <1>1
<1>3. SumFunction(f) = g[S]
  BY SumUnfolds
<1>9. IsFiniteSet(S)
  BY FS_Interval
<1>. HIDE DEF g, c, S
<1> DEFINE D == {k \in Nat : \A s \in SUBSET S : Cardinality(s) = k => g[s] = c[s]}
<1>4. 0 \in D
  <2>1. ASSUME NEW s \in SUBSET S, Cardinality(s) = 0 PROVE g[s] = c[s]
    <3>1. s = {}
      BY <1>9, <2>1, FS_Subset, FS_EmptySet
    <3>. QED  BY <1>1, <1>2, <3>1 DEF SumsUp
  <2>. QED  BY <2>1
<1>5. ASSUME NEW k \in D PROVE k + 1 \in D
  <2>1. ASSUME NEW s \in SUBSET S, Cardinality(s) = k + 1 PROVE g[s] = c[s]
    <3> DEFINE x == CHOOSE x \in s : TRUE
    <3>1. IsFiniteSet(s)
      BY <1>9, FS_Subset
    <3>2. s # {}
      <4>1. Cardinality({}) = 0
        BY FS_EmptySet
      <4>2. k + 1 # 0
        OBVIOUS
      <4>. QED  BY <2>1, <4>1, <4>2
    <3>3. x \in s
      BY <3>2
    <3>4. g[s] = f[x] + g[s \ {x}] /\ c[s] = f[x] + c[s \ {x}]
      BY <1>1, <1>2, <3>2 DEF SumsUp
    <3>. HIDE DEF x
    <3>5. Cardinality(s \ {x}) = k
      <4>1. Cardinality(s \ {x}) = Cardinality(s) - 1
        BY <3>1, <3>3, FS_RemoveElement, Zenon
      <4>. QED  BY <2>1, <4>1
    <3>6. s \ {x} \in SUBSET S
      OBVIOUS
    <3>. QED  BY <3>4, <3>5, <3>6
  <2>. QED  BY <2>1
<1>6. D = Nat
  <2>. HIDE DEF D
  <2>1. D \in SUBSET Nat
    BY DEF D
  <2>. QED  BY <1>4, <1>5, <2>1, SetInduction
<1>7. Cardinality(S) \in Nat
  BY <1>9, FS_CardinalityType
<1>8. g[S] = c[S]
  BY <1>6, <1>7
<1>. QED  BY <1>3, <1>8 DEF c, S

\* A sum with one more summand
LEMMA SumGrows ==
  ASSUME NEW n \in Nat, NEW f \in [1..(n + 1) -> Nat], NEW h \in [1..n -> Nat],
         \A i \in 1..n : h[i] = f[i]
  PROVE  SumFunction(f) = SumFunction(h) + f[n + 1] /\ SumFunction(h) \in Nat
<1>1. SumFunction(f) = Cardinality(Cells(f, 1..(n + 1)))
  BY SumCounts
<1>2. SumFunction(h) = Cardinality(Cells(h, 1..n))
  BY SumCounts
<1>3. Cells(h, 1..n) = Cells(f, 1..n)
  BY DEF Cells
<1>4. 1..n \in SUBSET (1..(n + 1)) /\ n + 1 \notin 1..n /\ f[n + 1] \in Nat
  OBVIOUS
<1>5. 1..(n + 1) = (1..n) \cup {n + 1}
  OBVIOUS
<1>6. IsFiniteSet(Cells(f, 1..n)) /\ Cardinality(Cells(f, 1..n)) \in Nat
  BY <1>4, CellsFinite
<1>7. Cardinality(Cells(f, (1..n) \cup {n + 1})) = Cardinality(Cells(f, 1..n)) + f[n + 1]
  BY <1>4, <1>6, CellsGrow
<1>8. Cardinality(Cells(f, 1..(n + 1))) = Cardinality(Cells(f, (1..n) \cup {n + 1}))
  BY <1>5, Zenon
<1>9. Cardinality(Cells(h, 1..n)) = Cardinality(Cells(f, 1..n))
  BY <1>3, Zenon
<1>. QED  BY <1>1, <1>2, <1>6, <1>7, <1>8, <1>9

-----------------------------------------------------------------------------
(* Buckets *)

Bucket == [offset : Nat, ticks : Nat]

\* What is in the buckets b
Amount(b) == SumFunction([i \in DOMAIN b |-> b[i].ticks])

LEMMA BucketsAre ==
  ASSUME NEW b \in Seq(Bucket)
  PROVE  /\ Len(b) \in Nat /\ DOMAIN b = 1..Len(b)
         /\ \A i \in DOMAIN b : b[i] \in Bucket /\ b[i].offset \in Nat /\ b[i].ticks \in Nat
<1>1. Len(b) \in Nat /\ DOMAIN b = 1..Len(b) /\ \A i \in DOMAIN b : b[i] \in Bucket
  OBVIOUS
<1>2. \A e \in Bucket : e.offset \in Nat /\ e.ticks \in Nat
  BY DEF Bucket
<1>. QED  BY <1>1, <1>2

LEMMA NothingAmounts == Amount(<<>>) = 0
<1> DEFINE f == [i \in DOMAIN <<>> |-> <<>>[i].ticks]
<1>1. f \in [1..0 -> Nat]
  OBVIOUS
<1>2. Cells(f, 1..0) = {}
  BY DEF Cells
<1>3. SumFunction(f) = Cardinality({})
  <2>. HIDE DEF f
  <2>1. SumFunction(f) = Cardinality(Cells(f, 1..0))
    BY <1>1, SumCounts
  <2>. QED  BY <1>2, <2>1, Zenon
<1>. QED  BY <1>3, FS_EmptySet DEF Amount

LEMMA OneMoreBucket ==
  ASSUME NEW n \in Nat, NEW b \in Seq(Bucket), NEW r \in Seq(Bucket), Len(b) = n, Len(r) = n + 1,
         \A i \in 1..n : r[i].ticks = b[i].ticks
  PROVE  Amount(r) = Amount(b) + r[n + 1].ticks /\ Amount(b) \in Nat
<1> DEFINE f == [i \in DOMAIN r |-> r[i].ticks]
           h == [i \in DOMAIN b |-> b[i].ticks]
<1>1. DOMAIN r = 1..(n + 1) /\ DOMAIN b = 1..n
  OBVIOUS
<1>2. f \in [1..(n + 1) -> Nat] /\ h \in [1..n -> Nat]
  BY <1>1, BucketsAre
<1>3. \A i \in 1..n : h[i] = f[i]
  BY <1>1
<1>4. f[n + 1] = r[n + 1].ticks
  BY <1>1
<1>5. Amount(r) = SumFunction(f) /\ Amount(b) = SumFunction(h)
  BY DEF Amount
<1>. HIDE DEF f, h
<1>6. SumFunction(f) = SumFunction(h) + f[n + 1] /\ SumFunction(h) \in Nat
  BY <1>2, <1>3, SumGrows
<1>. QED  BY <1>4, <1>5, <1>6

LEMMA AmountType ==
  ASSUME NEW b \in Seq(Bucket)
  PROVE  Amount(b) \in Nat
<1> DEFINE r == Append(b, [offset |-> 0, ticks |-> 0])
<1>1. r \in Seq(Bucket) /\ Len(r) = Len(b) + 1 /\ \A i \in 1..Len(b) : r[i].ticks = b[i].ticks
  BY DEF Bucket
<1>. HIDE DEF r
<1>. QED  BY <1>1, OneMoreBucket

\* The first m buckets
Prefix(b, m) == [i \in 1..m |-> b[i]]

\* More ticks in the last bucket
LEMMA MoreInLast ==
  ASSUME NEW b \in Seq(Bucket), b # <<>>, NEW t \in Nat, NEW r \in Seq(Bucket), Len(r) = Len(b),
         \A i \in 1..(Len(b) - 1) : r[i].ticks = b[i].ticks,
         r[Len(b)].ticks = b[Len(b)].ticks + t
  PROVE  Amount(r) = Amount(b) + t
<1> DEFINE n == Len(b) - 1
           p == Prefix(b, n)
<1>1. n \in Nat /\ Len(b) = n + 1
  OBVIOUS
<1>2. p \in Seq(Bucket) /\ Len(p) = n /\ \A i \in 1..n : p[i] = b[i]
  BY <1>1 DEF Prefix
<1>. HIDE DEF n, p
<1>3. \A i \in 1..n : r[i].ticks = p[i].ticks
  BY <1>2 DEF n
<1>4. Amount(b) = Amount(p) + b[n + 1].ticks /\ Amount(p) \in Nat
  BY <1>1, <1>2, OneMoreBucket
<1>5. Amount(r) = Amount(p) + r[n + 1].ticks
  BY <1>1, <1>2, <1>3, OneMoreBucket
<1>6. r[n + 1].ticks = b[n + 1].ticks + t /\ b[n + 1].ticks \in Nat
  BY <1>1, BucketsAre
<1>. QED  BY <1>4, <1>5, <1>6

\* A time brought down to the resolution
LEMMA SnapAligned ==
  ASSUME NEW t \in Nat, NEW w \in Nat \ {0}
  PROVE  Snap(t, w) \in Nat /\ Snap(t, w) <= t /\ Snap(t, w) % w = 0
BY DEF Snap

LEMMA SnapMonotone ==
  ASSUME NEW a \in Nat, NEW b \in Nat, a <= b, NEW w \in Nat \ {0}
  PROVE  Snap(a, w) <= Snap(b, w)
BY DEF Snap

LEMMA SnapKeeps ==
  ASSUME NEW a \in Nat, NEW w \in Nat \ {0}, a % w = 0
  PROVE  Snap(a, w) = a
BY DEF Snap

-----------------------------------------------------------------------------
(* One more bucket *)

\* Offsets are multiples of w, and increase.
Aligned(b, w) ==
  \A i \in DOMAIN b : b[i].offset % w = 0 /\ (i > 1 => b[i - 1].offset < b[i].offset)

\* The bucket e comes no earlier than the last of b.
NotBelow(b, e) == b # <<>> => Last(b).offset <= e.offset

\* r is b with the bucket e.
Merged(w, b, e, r) ==
  /\ r \in Seq(Bucket) /\ r # <<>> /\ Aligned(r, w)
  /\ r[Len(r)].offset = e.offset
  /\ Len(r) = IF b # <<>> /\ Last(b).offset = e.offset THEN Len(b) ELSE Len(b) + 1
  /\ Amount(r) = Amount(b) + e.ticks
  /\ \A i \in DOMAIN r : \/ r[i].offset = e.offset
                         \/ i \in DOMAIN b /\ r[i].offset = b[i].offset

LEMMA MergeKeeps ==
  ASSUME NEW w \in Nat \ {0}, NEW b \in Seq(Bucket), Aligned(b, w), NEW e \in Bucket, e.offset % w = 0,
         NotBelow(b, e), NEW r, r = Merge(b, e)
  PROVE  Merged(w, b, e, r)
<1>0. b # <<>> => Last(b).offset <= e.offset
  BY DEF NotBelow
<1>3. e.offset \in Nat /\ e.ticks \in Nat
  BY DEF Bucket
<1>1. CASE b # <<>> /\ Last(b).offset = e.offset
  <2> DEFINE n == Len(b)
  <2>0. n \in Nat \ {0} /\ DOMAIN b = 1..n /\ b[n].offset = e.offset
    BY <1>1 DEF Last
  <2>1. r = [b EXCEPT ![n].ticks = @ + e.ticks]
    BY <1>1 DEF Merge
  <2>2. DOMAIN r = 1..n /\ \A i \in 1..n : r[i] = IF i = n THEN [b[n] EXCEPT !.ticks = @ + e.ticks] ELSE b[i]
    BY <2>0, <2>1
  <2>3. [b[n] EXCEPT !.ticks = @ + e.ticks] \in Bucket
    <3>0. b[n] \in Bucket
      BY <2>0, BucketsAre
    <3>1. PICK o \in Nat, t \in Nat : b[n] = [offset |-> o, ticks |-> t]
      BY <3>0 DEF Bucket
    <3>2. [b[n] EXCEPT !.ticks = @ + e.ticks] = [offset |-> o, ticks |-> t + e.ticks]
      BY <3>1
    <3>. QED  BY <1>3, <3>2 DEF Bucket
  <2>4. \A i \in 1..n : r[i] \in Bucket /\ r[i].offset = b[i].offset
    <3>1. [b[n] EXCEPT !.ticks = @ + e.ticks].offset = b[n].offset
      BY <2>0, BucketsAre DEF Bucket
    <3>. QED  BY <2>0, <2>2, <2>3, <3>1, BucketsAre
  <2>5. r = [i \in 1..n |-> r[i]]
    BY <2>1, <2>0
  <2>6. r \in Seq(Bucket) /\ Len(r) = n
    BY <2>0, <2>2, <2>4, <2>5
  <2>7. Aligned(r, w)
    BY <2>0, <2>2, <2>4 DEF Aligned
  <2>8. Amount(r) = Amount(b) + e.ticks
    <3>1. \A i \in 1..(n - 1) : r[i].ticks = b[i].ticks
      BY <2>0, <2>2
    <3>2. r[n].ticks = b[n].ticks + e.ticks
      <4>1. [b[n] EXCEPT !.ticks = @ + e.ticks].ticks = b[n].ticks + e.ticks
        BY <2>0, BucketsAre DEF Bucket
      <4>2. n \in 1..n
        BY <2>0
      <4>3. r[n] = [b[n] EXCEPT !.ticks = @ + e.ticks]
        BY <2>2, <4>2
      <4>. QED  BY <4>1, <4>3, Zenon
    <3>. QED  BY <1>1, <1>3, <2>6, <3>1, <3>2, MoreInLast
  <2>. QED  BY <1>1, <2>0, <2>2, <2>4, <2>6, <2>7, <2>8 DEF Merged
<1>2. CASE ~(b # <<>> /\ Last(b).offset = e.offset)
  <2> DEFINE n == Len(b)
  <2>0. n \in Nat /\ DOMAIN b = 1..n /\ (n > 0 => b[n].offset < e.offset)
    <3>1. b # <<>> => b[n].offset \in Nat /\ Last(b) = b[n]
      BY BucketsAre DEF Last
    <3>. QED  BY <1>0, <1>2, <1>3, <3>1
  <2>1. r = Append(b, e)
    BY <1>2 DEF Merge
  <2>2. r \in Seq(Bucket) /\ Len(r) = n + 1 /\ r[n + 1] = e /\ \A i \in 1..n : r[i] = b[i]
    BY <2>1
  <2>3. Aligned(r, w)
    <3>1. ASSUME NEW i \in 1..n
          PROVE  r[i].offset % w = 0 /\ (i > 1 => r[i - 1].offset < r[i].offset)
      <4>1. b[i].offset % w = 0 /\ (i > 1 => b[i - 1].offset < b[i].offset)
        BY <2>0 DEF Aligned
      <4>2. i > 1 => i - 1 \in 1..n
        BY <2>0
      <4>. QED  BY <2>2, <4>1, <4>2
    <3>2. n + 1 > 1 => r[n].offset < r[n + 1].offset
      BY <2>0, <2>2
    <3>. QED  BY <2>0, <2>2, <3>1, <3>2 DEF Aligned
  <2>4. Amount(r) = Amount(b) + e.ticks
    BY <2>0, <2>2, OneMoreBucket
  <2>. QED  BY <1>2, <2>0, <2>2, <2>3, <2>4 DEF Merged
<1>. QED  BY <1>1, <1>2

-----------------------------------------------------------------------------
(* Coarsening *)

\* The bucket e at the coarser resolution w
Rounded(e, w) == [e EXCEPT !.offset = Snap(@, w)]

\* g merges any set of the buckets b, in order.
Merges(g, b, w, n) ==
  g = [s \in SUBSET (1..n) |->
         IF s = {} THEN <<>> ELSE Merge(g[s \ {Max(s)}], Rounded(b[Max(s)], w))]

LEMMA CoarsenedUnfolds ==
  ASSUME NEW s, NEW w, NEW n, DOMAIN Pairs(s) = 1..n
  PROVE  Coarsened(s, w) = (CHOOSE g : Merges(g, Pairs(s), w, n))[1..n]
BY DEF Coarsened, FoldLeft, MapThenFoldSet, Merges, Rounded

LEMMA MergesExist ==
  ASSUME NEW b, NEW w, NEW n \in Nat
  PROVE  \E g : Merges(g, b, w, n)
<1> DEFINE S == {k \in Nat : \E g : Merges(g, b, w, k)}
<1>1. 0 \in S
  <2> DEFINE g == [s \in SUBSET (1..0) |-> <<>>]
  <2>1. \A s \in SUBSET (1..0) : s = {}
    OBVIOUS
  <2>2. Merges(g, b, w, 0)
    BY <2>1 DEF Merges
  <2>. QED  BY <2>2
<1>2. ASSUME NEW k \in S PROVE k + 1 \in S
  <2>1. PICK g : Merges(g, b, w, k)
    OBVIOUS
  <2> DEFINE h == [s \in SUBSET (1..(k + 1)) |->
                     IF k + 1 \in s THEN Merge(g[s \ {k + 1}], Rounded(b[k + 1], w)) ELSE g[s]]
  <2>2. ASSUME NEW s \in SUBSET (1..(k + 1))
        PROVE  h[s] = IF s = {} THEN <<>> ELSE Merge(h[s \ {Max(s)}], Rounded(b[Max(s)], w))
    <3>1. CASE k + 1 \in s
      <4>1. Max(s) = k + 1
        BY <3>1, GreatestIs
      <4>2. s \ {k + 1} \in SUBSET (1..(k + 1)) /\ k + 1 \notin s \ {k + 1}
        OBVIOUS
      <4>3. h[s \ {k + 1}] = g[s \ {k + 1}]
        BY <4>2
      <4>4. h[s] = Merge(g[s \ {k + 1}], Rounded(b[k + 1], w))
        BY <3>1
      <4>. HIDE DEF h
      <4>. QED  BY <3>1, <4>1, <4>3, <4>4
    <3>2. CASE k + 1 \notin s
      <4>1. s \in SUBSET (1..k)
        BY <3>2
      <4>2. h[s] = g[s]
        BY <3>2
      <4>3. g[s] = IF s = {} THEN <<>> ELSE Merge(g[s \ {Max(s)}], Rounded(b[Max(s)], w))
        BY <2>1, <4>1 DEF Merges
      <4>4. h[s \ {Max(s)}] = g[s \ {Max(s)}]
        BY <3>2
      <4>. HIDE DEF h
      <4>. QED  BY <4>2, <4>3, <4>4
    <3>. QED  BY <3>1, <3>2
  <2>3. Merges(h, b, w, k + 1)
    <3>1. h = [s \in SUBSET (1..(k + 1)) |-> h[s]]
      OBVIOUS
    <3>. HIDE DEF h
    <3>. QED  BY <2>2, <3>1 DEF Merges
  <2>. QED  BY <2>3
<1>3. S = Nat
  <2>. HIDE DEF S
  <2>1. S \in SUBSET Nat
    BY DEF S
  <2>. QED  BY <1>1, <1>2, <2>1, SetInduction
<1>. QED  BY <1>3

\* Coarsening is done bucket by bucket.
LEMMA CoarsenedInSteps ==
  ASSUME NEW s, NEW w, NEW n \in Nat, DOMAIN Pairs(s) = 1..n
  PROVE  \E h : /\ h[0] = <<>> /\ h[n] = Coarsened(s, w)
                /\ \A k \in 0..(n - 1) : h[k + 1] = Merge(h[k], Rounded(Pairs(s)[k + 1], w))
<1> DEFINE b == Pairs(s)
           g == CHOOSE g : Merges(g, b, w, n)
           h == [k \in 0..n |-> g[1..k]]
<1>1. Merges(g, b, w, n)
  BY MergesExist
<1>2. Coarsened(s, w) = g[1..n]
  BY CoarsenedUnfolds
<1>. HIDE DEF g, b
<1>3. h[0] = <<>>
  <2>1. 1..0 = {} /\ h[0] = g[1..0]
    OBVIOUS
  <2>2. {} \in SUBSET (1..n)
    OBVIOUS
  <2>3. g[{}] = <<>>
    BY <1>1, <2>2 DEF Merges
  <2>. QED  BY <2>1, <2>3
<1>4. ASSUME NEW k \in 0..(n - 1) PROVE h[k + 1] = Merge(h[k], Rounded(b[k + 1], w))
  <2> DEFINE up == 1..(k + 1)
  <2>0. k \in Nat /\ k + 1 \in Nat /\ k + 1 <= n
    OBVIOUS
  <2>1. k + 1 \in up /\ up \in SUBSET (1..n) /\ up \in SUBSET (1..(k + 1))
    <3>1. \A i \in up : i \in 1..n
      BY <2>0
    <3>2. k + 1 \in up
      BY <2>0
    <3>. HIDE DEF up
    <3>3. up \in SUBSET (1..(k + 1))
      BY DEF up
    <3>. QED  BY <3>1, <3>2, <3>3
  <2>2. Max(up) = k + 1
    BY <2>0, <2>1, GreatestIs
  <2>3. up \ {k + 1} = 1..k
    BY <2>0
  <2>4. h[k + 1] = g[up] /\ h[k] = g[1..k]
    BY <2>0
  <2>. HIDE DEF up, h
  <2>5. g[up] = Merge(g[up \ {Max(up)}], Rounded(b[Max(up)], w))
    BY <1>1, <2>1 DEF Merges
  <2>. QED  BY <2>2, <2>3, <2>4, <2>5
<1>5. h[n] = Coarsened(s, w)
  BY <1>2
<1>. HIDE DEF h
<1>. QED  BY <1>3, <1>4, <1>5 DEF b

\* The first buckets
LEMMA PrefixIs ==
  ASSUME NEW s \in Seq(Bucket), NEW j \in 0..Len(s)
  PROVE  /\ Prefix(s, j) \in Seq(Bucket) /\ Len(Prefix(s, j)) = j
         /\ \A i \in 1..j : Prefix(s, j)[i] = s[i]
BY DEF Prefix

\* ... and one more
LEMMA PrefixGrows ==
  ASSUME NEW s \in Seq(Bucket), NEW j \in Nat, j < Len(s)
  PROVE  Amount(Prefix(s, j + 1)) = Amount(Prefix(s, j)) + s[j + 1].ticks
<1> DEFINE b == Prefix(s, j)
           r == Prefix(s, j + 1)
<1>1. j \in 0..Len(s) /\ j + 1 \in 0..Len(s)
  OBVIOUS
<1>2. b \in Seq(Bucket) /\ Len(b) = j /\ \A i \in 1..j : b[i] = s[i]
  BY <1>1, PrefixIs
<1>3. r \in Seq(Bucket) /\ Len(r) = j + 1 /\ \A i \in 1..(j + 1) : r[i] = s[i]
  BY <1>1, PrefixIs
<1>. HIDE DEF b, r
<1>4. \A i \in 1..j : r[i].ticks = b[i].ticks
  BY <1>2, <1>3
<1>5. r[j + 1] = s[j + 1]
  BY <1>3
<1>6. Amount(r) = Amount(b) + r[j + 1].ticks
  BY <1>2, <1>3, <1>4, OneMoreBucket
<1>. QED  BY <1>5, <1>6 DEF b, r

\* What a pair, rounded to the new resolution, holds
LEMMA PairIs ==
  ASSUME NEW s \in Seq(Bucket), NEW w \in Nat \ {0}, NEW k \in 1..((Len(s) + 1) \div 2),
         NEW e, e = Rounded(Pairs(s)[k], w)
  PROVE  /\ 2 * k - 1 \in 1..Len(s) /\ e \in Bucket
         /\ e.offset = Snap(s[2 * k - 1].offset, w) /\ e.offset % w = 0
         /\ e.offset <= s[2 * k - 1].offset
         /\ e.ticks = IF 2 * k > Len(s) THEN s[2 * k - 1].ticks
                      ELSE s[2 * k - 1].ticks + s[2 * k].ticks
<1> DEFINE p == Pairs(s)[k]
<1>1. Len(s) \in Nat /\ k \in Nat /\ 2 * k - 1 \in 1..Len(s) /\ (2 * k > Len(s) \/ 2 * k \in 1..Len(s))
  OBVIOUS
<1>2. /\ s[2 * k - 1] \in Bucket /\ s[2 * k - 1].offset \in Nat /\ s[2 * k - 1].ticks \in Nat
      /\ 2 * k <= Len(s) => s[2 * k].ticks \in Nat
  BY <1>1, BucketsAre
<1>3. p = IF 2 * k > Len(s) THEN s[2 * k - 1]
          ELSE [offset |-> s[2 * k - 1].offset, ticks |-> s[2 * k - 1].ticks + s[2 * k].ticks]
  BY DEF Pairs
<1>4. p \in Bucket /\ p.offset = s[2 * k - 1].offset
      /\ p.ticks = IF 2 * k > Len(s) THEN s[2 * k - 1].ticks ELSE s[2 * k - 1].ticks + s[2 * k].ticks
  <2>1. CASE 2 * k > Len(s)
    BY <1>2, <1>3, <2>1
  <2>2. CASE ~(2 * k > Len(s))
    <3>1. p = [offset |-> s[2 * k - 1].offset, ticks |-> s[2 * k - 1].ticks + s[2 * k].ticks]
      BY <1>3, <2>2
    <3>2. s[2 * k - 1].ticks + s[2 * k].ticks \in Nat
      <4>1. 2 * k <= Len(s)
        BY <1>1, <2>2
      <4>2. s[2 * k - 1].ticks \in Nat /\ s[2 * k].ticks \in Nat
        BY <1>2, <4>1
      <4>3. \A x, y \in Nat : x + y \in Nat
        OBVIOUS
      <4>. QED  BY <4>2, <4>3, Zenon
    <3>. QED  BY <1>2, <2>2, <3>1, <3>2 DEF Bucket
  <2>. QED  BY <2>1, <2>2
<1>. HIDE DEF p
<1>5. e = [p EXCEPT !.offset = Snap(@, w)]
  BY DEF Rounded, p
<1>6. e.offset = Snap(p.offset, w) /\ e.ticks = p.ticks
  BY <1>4, <1>5 DEF Bucket
<1>7. Snap(p.offset, w) \in Nat /\ Snap(p.offset, w) <= p.offset /\ Snap(p.offset, w) % w = 0
  BY <1>2, <1>4, SnapAligned
<1>8. e \in Bucket
  <2>1. PICK o \in Nat, t \in Nat : p = [offset |-> o, ticks |-> t]
    BY <1>4 DEF Bucket
  <2>2. e = [offset |-> Snap(o, w), ticks |-> t]
    BY <1>5, <2>1
  <2>. QED  BY <1>7, <2>1, <2>2 DEF Bucket
<1>. QED  BY <1>1, <1>4, <1>6, <1>7, <1>8

LEMMA CoarsenKeeps ==
  ASSUME NEW s \in Seq(Bucket), NEW v \in Nat \ {0}, Aligned(s, v), NEW w \in Nat \ {0},
         NEW r, r = Coarsened(s, w)
  PROVE  /\ r \in Seq(Bucket) /\ Aligned(r, w)
         /\ 2 * Len(r) <= Len(s) + 1
         /\ Amount(r) = Amount(s)
         /\ \A i \in DOMAIN r : \E j \in DOMAIN s : r[i].offset <= s[j].offset
<1> DEFINE n == Len(s)
           m == (n + 1) \div 2
<1>1. n \in Nat /\ m \in Nat /\ DOMAIN s = 1..n /\ 2 * m <= n + 1 /\ n <= 2 * m
  OBVIOUS
<1>2. DOMAIN Pairs(s) = 1..m
  BY DEF Pairs
<1>3. PICK h : /\ h[0] = <<>> /\ h[m] = Coarsened(s, w)
               /\ \A k \in 0..(m - 1) : h[k + 1] = Merge(h[k], Rounded(Pairs(s)[k + 1], w))
  BY <1>1, <1>2, CoarsenedInSteps
<1>. HIDE DEF n, m
<1> DEFINE upto(k) == IF 2 * k <= n THEN 2 * k ELSE n
           Done(k) ==
             /\ h[k] \in Seq(Bucket) /\ Aligned(h[k], w) /\ Len(h[k]) <= k
             /\ h[k] # <<>> => k > 0 /\ Last(h[k]).offset <= Snap(s[2 * k - 1].offset, w)
             /\ Amount(h[k]) = Amount(Prefix(s, upto(k)))
             /\ \A i \in DOMAIN h[k] : \E j \in DOMAIN s : h[k][i].offset <= s[j].offset
           D == {k \in Nat : k <= m => Done(k)}
<1>4. 0 \in D
  <2>0. <<>> \in Seq(Bucket) /\ Len(<<>>) = 0
    OBVIOUS
  <2>1. Prefix(s, 0) = <<>> /\ upto(0) = 0
    BY <1>1 DEF Prefix
  <2>2. Aligned(<<>>, w)
    BY DEF Aligned
  <2>3. Done(0)
    BY <1>3, <2>0, <2>1, <2>2
  <2>. HIDE DEF Done
  <2>. QED  BY <2>3
<1>5. ASSUME NEW k \in D PROVE k + 1 \in D
  <2>1. SUFFICES ASSUME k + 1 <= m PROVE Done(k + 1)
    OBVIOUS
  <2>12. k \in Nat /\ (k <= m => Done(k))
    OBVIOUS
  <2>. HIDE DEF D, Done, upto
  <2>2. /\ k \in Nat /\ k \in 0..(m - 1) /\ k + 1 \in 1..m /\ 2 * k + 1 <= n
        /\ 2 * (k + 1) - 1 = 2 * k + 1 /\ 2 * (k + 1) = 2 * k + 2
    BY <1>1, <2>1, <2>12
  <2>13. Done(k)
    BY <1>1, <2>1, <2>12
  <2> DEFINE b == h[k]
             t == h[k + 1]
             e == Rounded(Pairs(s)[k + 1], w)
  <2>3. t = Merge(b, e)
    BY <1>3, <2>2
  <2>4. /\ e \in Bucket /\ e.offset = Snap(s[2 * k + 1].offset, w) /\ e.offset % w = 0
        /\ e.offset <= s[2 * k + 1].offset
        /\ e.ticks = IF 2 * k + 2 > n THEN s[2 * k + 1].ticks ELSE s[2 * k + 1].ticks + s[2 * k + 2].ticks
    <3>. HIDE DEF e
    <3>2. k + 1 \in 1..((Len(s) + 1) \div 2)
      BY <2>2 DEF n, m
    <3>. QED  BY <2>2, <3>2, PairIs DEF e, n
  <2>. HIDE DEF b, t, e
  <2>5. b \in Seq(Bucket) /\ Aligned(b, w) /\ Len(b) <= k /\ Len(b) \in Nat
    BY <2>13, BucketsAre DEF b, Done
  <2>6. b # <<>> => Last(b).offset <= e.offset
    <3>1. SUFFICES ASSUME b # <<>> PROVE Last(b).offset <= e.offset
      OBVIOUS
    <3>2. k > 0 /\ Last(b).offset <= Snap(s[2 * k - 1].offset, w)
      BY <2>13, <3>1 DEF b, Done
    <3>3. 2 * k - 1 \in 1..n /\ 2 * k \in 1..n /\ 2 * k + 1 \in 1..n
      BY <1>1, <2>2, <3>2
    <3>4. s[2 * k - 1].offset \in Nat /\ s[2 * k].offset \in Nat /\ s[2 * k + 1].offset \in Nat
      BY <1>1, <3>3, BucketsAre
    <3>5. s[2 * k - 1].offset < s[2 * k].offset /\ s[2 * k].offset < s[2 * k + 1].offset
      <4>1. 2 * k > 1 /\ 2 * k + 1 > 1 /\ (2 * k + 1) - 1 = 2 * k
        BY <2>2, <3>2
      <4>2. /\ (2 * k) - 1 = 2 * k - 1 /\ s[2 * k - 1].offset < s[2 * k].offset
        BY <1>1, <3>3, <4>1 DEF Aligned
      <4>3. s[(2 * k + 1) - 1].offset < s[2 * k + 1].offset
        BY <1>1, <3>3, <4>1 DEF Aligned
      <4>. QED  BY <4>1, <4>2, <4>3
    <3>6. Snap(s[2 * k - 1].offset, w) <= Snap(s[2 * k + 1].offset, w)
      <4>1. s[2 * k - 1].offset <= s[2 * k + 1].offset
        BY <3>4, <3>5
      <4>. QED  BY <3>4, <4>1, SnapMonotone, Zenon
    <3>7. Snap(s[2 * k - 1].offset, w) \in Nat /\ Snap(s[2 * k + 1].offset, w) \in Nat
      BY <3>4, SnapAligned
    <3>8. Last(b).offset \in Nat
      BY <2>5, <3>1, BucketsAre DEF Last
    <3>. QED  BY <2>4, <3>2, <3>6, <3>7, <3>8
  <2>7. /\ t \in Seq(Bucket) /\ t # <<>> /\ Aligned(t, w)
        /\ t[Len(t)].offset = e.offset
        /\ Len(t) = IF b # <<>> /\ Last(b).offset = e.offset THEN Len(b) ELSE Len(b) + 1
        /\ Amount(t) = Amount(b) + e.ticks
        /\ \A i \in DOMAIN t : \/ t[i].offset = e.offset
                               \/ i \in DOMAIN b /\ t[i].offset = b[i].offset
    <3>1. NotBelow(b, e)
      BY <2>6 DEF NotBelow
    <3>2. Merged(w, b, e, t)
      BY <2>3, <2>4, <2>5, <3>1, MergeKeeps
    <3>. QED  BY <3>2 DEF Merged
  <2>8. Len(t) <= k + 1
    BY <2>2, <2>5, <2>7
  <2>9. Last(t).offset <= Snap(s[2 * (k + 1) - 1].offset, w)
    <3>1. 2 * (k + 1) - 1 = 2 * k + 1 /\ Last(t) = t[Len(t)]
      BY <2>2 DEF Last
    <3>2. e.offset \in Nat
      BY <2>4 DEF Bucket
    <3>. QED  BY <2>4, <2>7, <3>1, <3>2
  <2>10. Amount(t) = Amount(Prefix(s, upto(k + 1)))
    <3>1. Amount(b) = Amount(Prefix(s, 2 * k))
      BY <1>1, <2>2, <2>13 DEF b, Done, upto
    <3>2. Amount(Prefix(s, 2 * k + 1)) = Amount(Prefix(s, 2 * k)) + s[2 * k + 1].ticks
      <4>1. 2 * k \in Nat /\ 2 * k < Len(s)
        BY <1>1, <2>2 DEF n
      <4>. QED  BY <4>1, PrefixGrows
    <3>3. CASE 2 * k + 2 > n
      <4>1. upto(k + 1) = 2 * k + 1
        BY <1>1, <2>2, <3>3 DEF upto
      <4>. QED  BY <2>4, <2>7, <3>1, <3>2, <3>3, <4>1
    <3>4. CASE ~(2 * k + 2 > n)
      <4>1. upto(k + 1) = 2 * k + 2
        BY <1>1, <2>2, <3>4 DEF upto
      <4>2. 2 * k + 1 \in Nat /\ 2 * k + 1 < Len(s) /\ (2 * k + 1) + 1 = 2 * k + 2
        BY <1>1, <2>2, <3>4 DEF n
      <4>3. Amount(Prefix(s, 2 * k + 2)) = Amount(Prefix(s, 2 * k + 1)) + s[2 * k + 2].ticks
        BY <4>2, PrefixGrows
      <4>4. 2 * k + 1 \in 1..n /\ 2 * k + 2 \in 1..n /\ 2 * k \in 0..n
        BY <1>1, <2>2, <3>4
      <4>5. s[2 * k + 1].ticks \in Nat /\ s[2 * k + 2].ticks \in Nat
        BY <1>1, <4>4, BucketsAre
      <4>6. Amount(Prefix(s, 2 * k)) \in Nat
        BY <4>4, PrefixIs, AmountType DEF n
      <4>7. e.ticks = s[2 * k + 1].ticks + s[2 * k + 2].ticks
        BY <2>4, <3>4
      <4>. QED  BY <2>7, <3>1, <3>2, <4>1, <4>3, <4>5, <4>6, <4>7
    <3>. QED  BY <3>3, <3>4
  <2>11. ASSUME NEW i \in DOMAIN t PROVE \E j \in DOMAIN s : t[i].offset <= s[j].offset
    <3>1. CASE t[i].offset = e.offset
      <4>1. 2 * k + 1 \in DOMAIN s
        BY <1>1, <2>2
      <4>. QED  BY <2>4, <3>1, <4>1
    <3>2. CASE i \in DOMAIN b /\ t[i].offset = b[i].offset
      <4>1. \E j \in DOMAIN s : b[i].offset <= s[j].offset
        BY <2>13, <3>2 DEF b, Done
      <4>. QED  BY <3>2, <4>1
    <3>. QED  BY <2>7, <3>1, <3>2
  <2>. QED  BY <2>2, <2>7, <2>8, <2>9, <2>10, <2>11 DEF t, Done
<1>6. D = Nat
  <2>. HIDE DEF D
  <2>1. D \in SUBSET Nat
    BY DEF D
  <2>. QED  BY <1>4, <1>5, <2>1, SetInduction
<1>7. Done(m) /\ h[m] = r
  <2>1. m \in D
    BY <1>1, <1>6
  <2>2. Done(m)
    BY <1>1, <2>1
  <2>. QED  BY <1>3, <2>2
<1>8. Prefix(s, upto(m)) = s
  <2>1. upto(m) = n
    BY <1>1
  <2>2. s = [i \in 1..n |-> s[i]]
    BY <1>1
  <2>. QED  BY <2>1, <2>2 DEF Prefix
<1>9. Len(r) \in Nat
  BY <1>7, BucketsAre
<1>. QED  BY <1>1, <1>7, <1>8, <1>9 DEF n

-----------------------------------------------------------------------------
(* The invariant of the series *)

\* Every bucket comes no later than t.
Within(ts, t) == \A i \in DOMAIN ts.buckets : ts.buckets[i].offset <= t

\* What a series is at all times
Proper(ts) ==
  /\ ts \in [buckets : Seq(Bucket), resolution : Nat]
  /\ ts.resolution = 0 => ts.buckets = <<>>
  /\ ts.resolution # 0 => Aligned(ts.buckets, ts.resolution)
  /\ Len(ts.buckets) <= Capacity

\* The series of the pour in flight has its ticks, none after the last that came.
SeriesIInv ==
  /\ IInv
  /\ ~pouring => session = 0
  /\ configured \in Nat /\ Proper(series) /\ Proper(sent)
  /\ series.resolution = 0 <=> configured = 0
  /\ pouring /\ configured # 0 => TicksOf(series) = session /\ Within(series, age - quiet)
  /\ RecordCarriesSeries

LEMMA FreshIs ==
  ASSUME NEW w \in Nat
  PROVE  /\ Proper(Fresh(w)) /\ Fresh(w).resolution = w /\ TicksOf(Fresh(w)) = 0
         /\ \A t : Within(Fresh(w), t)
<1>1. Fresh(w).buckets = <<>> /\ Fresh(w).resolution = w
  BY DEF Fresh
<1>2. <<>> \in Seq(Bucket) /\ Len(<<>>) = 0
  OBVIOUS
<1>3. Fresh(w) \in [buckets : Seq(Bucket), resolution : Nat]
  BY <1>2 DEF Fresh
<1>4. TicksOf(Fresh(w)) = 0
  BY <1>1, NothingAmounts DEF TicksOf, Amount
<1>. QED  BY <1>1, <1>2, <1>3, <1>4, CapacityAssumption DEF Proper, Aligned, Within

\* What add does to a series that records
LEMMA AddedKeeps ==
  ASSUME NEW ts, Proper(ts), ts.resolution # 0, NEW t \in Nat, NEW n \in Nat, Within(ts, t),
         NEW r, r = Added(ts, t, n)
  PROVE  Proper(r) /\ r.resolution # 0 /\ Within(r, t) /\ TicksOf(r) = TicksOf(ts) + n
<1> DEFINE w == ts.resolution
           b == ts.buckets
<1>1. /\ w \in Nat \ {0} /\ b \in Seq(Bucket) /\ Aligned(b, w) /\ Len(b) <= Capacity
      /\ Len(b) \in Nat /\ DOMAIN b = 1..Len(b)
  BY BucketsAre DEF Proper
<1>2. \A i \in DOMAIN b : b[i].offset \in Nat /\ b[i].offset <= t
  BY <1>1, BucketsAre DEF Within
<1>3. TicksOf(ts) = Amount(b) /\ TicksOf(r) = Amount(r.buckets)
  BY DEF TicksOf, Amount
<1>4. ASSUME NEW v \in Nat \ {0}, NEW c \in Seq(Bucket), Aligned(c, v),
             \A i \in DOMAIN c : c[i].offset <= t,
             NEW e, e = [offset |-> Snap(t, v), ticks |-> n], NEW m, m = Merge(c, e)
      PROVE  Merged(v, c, e, m) /\ e.offset <= t /\ e.ticks = n /\ e.offset = Snap(t, v)
  <2>1. Snap(t, v) \in Nat /\ Snap(t, v) <= t /\ Snap(t, v) % v = 0
    BY SnapAligned
  <2>2. e \in Bucket /\ e.offset = Snap(t, v) /\ e.ticks = n
    BY <1>4, <2>1 DEF Bucket
  <2>3. NotBelow(c, e)
    <3>1. SUFFICES ASSUME c # <<>> PROVE Last(c).offset <= e.offset
      BY DEF NotBelow
    <3>2. Len(c) \in DOMAIN c /\ Last(c) = c[Len(c)]
      BY <3>1 DEF Last
    <3>3. c[Len(c)].offset \in Nat /\ c[Len(c)].offset % v = 0 /\ c[Len(c)].offset <= t
      BY <1>4, <3>2, BucketsAre DEF Aligned
    <3>4. Snap(c[Len(c)].offset, v) = c[Len(c)].offset
      BY <3>3, SnapKeeps
    <3>5. Snap(c[Len(c)].offset, v) <= Snap(t, v)
      BY <3>3, SnapMonotone
    <3>. QED  BY <2>2, <3>2, <3>4, <3>5
  <2>4. Merged(v, c, e, m)
    BY <1>4, <2>1, <2>2, <2>3, MergeKeeps
  <2>. QED  BY <2>1, <2>2, <2>4
<1>5. CASE Fits(ts, t)
  <2> DEFINE e == [offset |-> Snap(t, w), ticks |-> n]
             m == Merge(b, e)
  <2>1. Merged(w, b, e, m) /\ e.offset <= t /\ e.ticks = n /\ e.offset = Snap(t, w)
    BY <1>1, <1>2, <1>4
  <2>2. r = [ts EXCEPT !.buckets = m]
    BY <1>5 DEF Added
  <2>3. r = [buckets |-> m, resolution |-> w]
    BY <2>2 DEF Proper
  <2>4. Len(b) < Capacity \/ Last(b).offset = e.offset
    BY <1>5, <2>1 DEF Fits
  <2>. HIDE DEF e, m
  <2>5. Len(m) <= Capacity
    <3>1. Len(b) < Capacity \/ b # <<>>
      BY <1>1, <2>4, CapacityAssumption
    <3>. QED  BY <1>1, <2>1, <2>4, <3>1, CapacityAssumption DEF Merged
  <2>6. m \in Seq(Bucket) /\ Aligned(m, w) /\ Amount(m) = Amount(b) + n
    BY <2>1 DEF Merged
  <2>7. \A i \in DOMAIN m : m[i].offset <= t
    BY <1>2, <2>1 DEF Merged
  <2>. QED  BY <1>1, <1>3, <2>3, <2>5, <2>6, <2>7 DEF Proper, Within
<1>6. CASE ~Fits(ts, t)
  <2> DEFINE v == 2 * w
             c == Coarsened(b, v)
             e == [offset |-> Snap(t, v), ticks |-> n]
             m == Merge(c, e)
  <2>1. v \in Nat \ {0}
    BY <1>1
  <2>2. r = [buckets |-> m, resolution |-> v]
    BY <1>6 DEF Added
  <2>. HIDE DEF v
  <2>3. /\ c \in Seq(Bucket) /\ Aligned(c, v)
        /\ 2 * Len(c) <= Len(b) + 1
        /\ Amount(c) = Amount(b)
        /\ \A i \in DOMAIN c : \E j \in DOMAIN b : c[i].offset <= b[j].offset
    BY <1>1, <2>1, CoarsenKeeps
  <2>. HIDE DEF c
  <2>4. \A i \in DOMAIN c : c[i].offset \in Nat /\ c[i].offset <= t
    BY <1>2, <2>3, BucketsAre
  <2>5. Merged(v, c, e, m) /\ e.offset <= t /\ e.ticks = n
    BY <1>4, <2>1, <2>3, <2>4
  <2>. HIDE DEF e, m
  <2>6. Len(m) <= Capacity
    <3>1. Len(c) \in Nat /\ Len(m) <= Len(c) + 1
      BY <2>3, <2>5, BucketsAre DEF Merged
    <3>2. Len(m) \in Nat
      BY <2>5, BucketsAre DEF Merged
    <3>. QED  BY <1>1, <2>3, <3>1, <3>2, CapacityAssumption
  <2>7. m \in Seq(Bucket) /\ Aligned(m, v) /\ Amount(m) = Amount(c) + n
    BY <2>5 DEF Merged
  <2>8. \A i \in DOMAIN m : m[i].offset <= t
    BY <2>4, <2>5 DEF Merged
  <2>. QED  BY <1>3, <2>1, <2>2, <2>3, <2>6, <2>7, <2>8 DEF Proper, Within
<1>. QED  BY <1>5, <1>6

LEMMA InitSeriesIInv == SeriesInit => SeriesIInv
<1>. SUFFICES ASSUME SeriesInit PROVE SeriesIInv
  OBVIOUS
<1>1. IInv /\ ~pouring /\ session = 0 /\ record = NoRecord
  BY InitIInv DEF SeriesInit, Init
<1>2. configured \in Nat
  BY ResolutionsAssumption DEF SeriesInit
<1>3. Proper(series) /\ Proper(sent) /\ (series.resolution = 0 <=> configured = 0)
  BY <1>2, FreshIs DEF SeriesInit
<1>. QED  BY <1>1, <1>2, <1>3 DEF SeriesIInv, RecordCarriesSeries

\* The series once the rest of loop() has fed it
LEMMA FedKeeps ==
  ASSUME MaxDuration # 0, SeriesIInv
  PROVE  /\ Proper(Fed) /\ (Fed.resolution = 0 <=> configured = 0)
         /\ configured # 0 /\ (pouring \/ taken > 0) =>
              /\ TicksOf(Fed) = session + taken
              /\ Within(Fed, IF taken > 0 THEN age ELSE age - quiet)
<1>1. /\ taken \in Nat /\ session \in Nat /\ age \in Nat /\ quiet \in Nat
      /\ pouring => quiet <= age
      /\ ~pouring => session = 0 /\ age = 0
  BY DEF SeriesIInv, IInv, TypeOK, QuietWithinAge, AgeStartsAtZero
<1>2. /\ configured \in Nat /\ Proper(series) /\ (series.resolution = 0 <=> configured = 0)
      /\ pouring /\ configured # 0 => TicksOf(series) = session /\ Within(series, age - quiet)
  BY DEF SeriesIInv
<1>3. CASE taken = 0
  <2>1. Fed = series
    BY <1>3 DEF Fed
  <2>. QED  BY <1>1, <1>2, <1>3, <2>1
<1>4. CASE taken > 0
  <2> DEFINE base == IF pouring THEN series ELSE Fresh(configured)
             time == IF pouring THEN Elapsed(start) ELSE 0
  <2>1. time = age
    BY <1>1 DEF SeriesIInv, IInv, ClocksTell
  <2>2. Fed = Added(base, time, taken)
    BY <1>4 DEF Fed
  <2>3. /\ Proper(base) /\ (base.resolution = 0 <=> configured = 0)
        /\ configured # 0 => TicksOf(base) = session /\ Within(base, age)
    <3>1. CASE pouring
      <4>1. base = series
        BY <3>1
      <4>2. ASSUME configured # 0 PROVE Within(series, age)
        <5>1. Within(series, age - quiet)
          BY <1>2, <3>1, <4>2
        <5>2. series.buckets \in Seq(Bucket)
          BY <1>2 DEF Proper
        <5>. QED  BY <1>1, <5>1, <5>2, BucketsAre DEF Within
      <4>. QED  BY <1>2, <3>1, <4>1, <4>2
    <3>2. CASE ~pouring
      BY <1>1, <1>2, <3>2, FreshIs
    <3>. QED  BY <3>1, <3>2
  <2>. HIDE DEF base, time
  <2>4. CASE configured = 0
    <3>1. Fed = base
      BY <2>2, <2>3, <2>4 DEF Added
    <3>. QED  BY <2>3, <2>4, <3>1
  <2>5. CASE configured # 0
    <3>1. base.resolution # 0 /\ Within(base, age) /\ Fed = Added(base, age, taken)
      BY <2>1, <2>2, <2>3, <2>5
    <3>2. Proper(Fed) /\ Fed.resolution # 0 /\ Within(Fed, age) /\ TicksOf(Fed) = TicksOf(base) + taken
      <4>1. Proper(base)
        BY <2>3
      <4>2. Proper(Fed) /\ Fed.resolution # 0 /\ Within(Fed, age)
        BY <1>1, <3>1, <4>1, AddedKeeps
      <4>3. TicksOf(Fed) = TicksOf(base) + taken
        BY <1>1, <3>1, <4>1, AddedKeeps
      <4>. QED  BY <4>2, <4>3
    <3>. QED  BY <1>4, <2>3, <2>5, <3>2
  <2>. QED  BY <2>4, <2>5
<1>. QED  BY <1>1, <1>3, <1>4

\* A pour that ends with the series ts hands it to its record.
LEMMA FinishedSeries ==
  ASSUME MaxDuration # 0, SeriesIInv, IInv', LoopRest \/ EndPour, UNCHANGED configured,
         NEW ts, FinishSeries(ts, session + taken),
         pouring' = FALSE, session' = 0,
         session + taken < MinPourTicks => record' = NoRecord,
         Proper(ts),
         configured # 0 => /\ TicksOf(ts) = session + taken
                           /\ Within(ts, IF taken > 0 THEN age ELSE age - quiet)
  PROVE  SeriesIInv'
<1>1. configured \in Nat
  BY DEF SeriesIInv
<1>2. series' = Fresh(configured) /\ sent' = IF session + taken < MinPourTicks THEN Fresh(configured) ELSE ts
  BY DEF FinishSeries, Handed
<1>3. Proper(series') /\ (series'.resolution = 0 <=> configured' = 0) /\ Proper(sent')
  BY <1>1, <1>2, FreshIs
<1>4. RecordCarriesSeries'
  <2>1. SUFFICES ASSUME record' # NoRecord, configured # 0
                 PROVE  /\ TicksOf(sent') = record'.ticks
                        /\ \A i \in DOMAIN sent'.buckets : sent'.buckets[i].offset <= record'.duration
    BY DEF RecordCarriesSeries
  <2>2. record'.ticks = session + taken /\ record'.duration = IF taken > 0 THEN age ELSE age - quiet
    BY <2>1, Reported DEF SeriesIInv
  <2>3. sent' = ts
    BY <1>2, <2>1
  <2>. QED  BY <2>1, <2>2, <2>3 DEF Within
<1>. QED  BY <1>1, <1>3, <1>4 DEF SeriesIInv, Proper, TicksOf, Within

LEMMA RestOfLoopKeeps == ASSUME MaxDuration # 0, SeriesIInv, IInv', RestOfLoop PROVE SeriesIInv'
<1>1. /\ taken \in Nat /\ session \in Nat /\ age \in Nat /\ quiet \in Nat
      /\ pouring \in BOOLEAN /\ configured \in Nat
      /\ ~pouring => session = 0
  BY DEF SeriesIInv, IInv, TypeOK
<1>2. LoopRest /\ configured' = configured
  BY DEF RestOfLoop
<1> DEFINE over == (pouring \/ taken > 0)
                   /\ Over(IF taken > 0 /\ ~pouring THEN now ELSE start, IF taken > 0 THEN now ELSE lastTick)
<1>3. CASE ~over
  <2>1. /\ pouring' = (pouring \/ taken > 0) /\ session' = session + taken
        /\ age' = age /\ quiet' = (IF taken > 0 THEN 0 ELSE quiet) /\ record' = NoRecord
    BY <1>2, <1>3 DEF LoopRest
  <2>7. taken = 0 <=> ~(taken > 0)
    BY <1>1
  <2>8. pouring' <=> pouring \/ taken > 0
    BY <2>1
  <2>2. series' = Fed /\ sent' = Fresh(configured)
    <3>1. pouring' \/ (~pouring /\ taken = 0)
      BY <2>7, <2>8
    <3>. QED  BY <3>1 DEF RestOfLoop
  <2>3. Proper(sent')
    BY <1>1, <2>2, FreshIs
  <2>4. pouring' /\ configured # 0 => TicksOf(series') = session' /\ Within(series', age' - quiet')
    <3>1. SUFFICES ASSUME pouring', configured # 0
                   PROVE  TicksOf(series') = session' /\ Within(series', age' - quiet')
      OBVIOUS
    <3>2. TicksOf(Fed) = session + taken /\ Within(Fed, IF taken > 0 THEN age ELSE age - quiet)
      BY <2>1, <3>1, FedKeeps
    <3>3. age' - quiet' = IF taken > 0 THEN age ELSE age - quiet
      BY <1>1, <2>1
    <3>. QED  BY <2>1, <2>2, <3>2, <3>3
  <2>5. Proper(series') /\ (series'.resolution = 0 <=> configured' = 0)
    BY <1>2, <2>2, FedKeeps
  <2>6. ~pouring' => session' = 0
    <3>1. SUFFICES ASSUME ~pouring' PROVE session' = 0
      OBVIOUS
    <3>2. ~pouring /\ taken = 0
      BY <2>7, <2>8, <3>1
    <3>. QED  BY <1>1, <2>1, <3>2
  <2>. QED  BY <1>1, <1>2, <2>1, <2>3, <2>4, <2>5, <2>6
            DEF SeriesIInv, RecordCarriesSeries, Proper, TicksOf, Within
<1>4. CASE over
  <2>1. /\ pouring' = FALSE /\ session' = 0
        /\ session + taken < MinPourTicks => record' = NoRecord
    BY <1>2, <1>4 DEF LoopRest, Finish
  <2>2. FinishSeries(Fed, session + taken)
    <3>1. ~(pouring' \/ (~pouring /\ taken = 0))
      BY <1>1, <1>4, <2>1
    <3>. QED  BY <3>1 DEF RestOfLoop
  <2>3. /\ Proper(Fed)
        /\ configured # 0 => /\ TicksOf(Fed) = session + taken
                             /\ Within(Fed, IF taken > 0 THEN age ELSE age - quiet)
    BY <1>4, FedKeeps
  <2> DEFINE ts == Fed
  <2>. HIDE DEF ts
  <2>4. FinishSeries(ts, session + taken)
    BY <2>2 DEF ts
  <2>5. /\ Proper(ts)
        /\ configured # 0 => /\ TicksOf(ts) = session + taken
                             /\ Within(ts, IF taken > 0 THEN age ELSE age - quiet)
    BY <2>3 DEF ts
  <2>. QED  BY <1>2, <2>1, <2>4, <2>5, FinishedSeries
<1>. QED  BY <1>3, <1>4

LEMMA EndNowKeeps == ASSUME MaxDuration # 0, SeriesIInv, IInv', EndNow PROVE SeriesIInv'
<1>1. /\ EndPour /\ pouring /\ configured' = configured /\ FinishSeries(series, session)
      /\ pouring' = FALSE /\ session' = 0
      /\ session < MinPourTicks => record' = NoRecord
  BY DEF EndNow, EndPour, Finish
<1>2. taken = 0 /\ session \in Nat
  BY DEF EndNow, EndPour, SeriesIInv, IInv, InHand, TypeOK
<1>3. session + taken = session
  BY <1>2
<1>4. /\ Proper(series)
      /\ configured # 0 => TicksOf(series) = session /\ Within(series, age - quiet)
  BY <1>1 DEF SeriesIInv
<1>5. /\ FinishSeries(series, session + taken)
      /\ session + taken < MinPourTicks => record' = NoRecord
      /\ configured # 0 => /\ TicksOf(series) = session + taken
                           /\ Within(series, IF taken > 0 THEN age ELSE age - quiet)
  BY <1>1, <1>2, <1>3, <1>4
<1>. QED  BY <1>1, <1>4, <1>5, FinishedSeries

LEMMA ElsewhereKeeps == ASSUME SeriesIInv, IInv', Elsewhere PROVE SeriesIInv'
<1>1. /\ configured' = configured /\ series' = series /\ pouring' = pouring /\ session' = session
      /\ sent' = IF record' = NoRecord THEN Fresh(configured) ELSE sent
      /\ record' = record \/ record' = NoRecord
      /\ pouring => age' - quiet' = age - quiet
  <2>1. /\ pouring' = pouring /\ session' = session /\ (record' = record \/ record' = NoRecord)
        /\ (age' = age /\ quiet' = quiet) \/ (pouring => age' = age + 1 /\ quiet' = quiet + 1)
    BY DEF Elsewhere, GpioIntr, LoopTake, ResetTotal, Pass, session_vars
  <2>2. age \in Nat /\ quiet \in Nat
    BY DEF SeriesIInv, IInv, TypeOK
  <2>3. pouring => age' - quiet' = age - quiet
    BY <2>1, <2>2
  <2>. QED  BY <2>1, <2>3 DEF Elsewhere
<1>2. Proper(sent')
  BY <1>1, FreshIs DEF SeriesIInv
<1>3. RecordCarriesSeries'
  <2>1. SUFFICES ASSUME record' # NoRecord, configured # 0
                 PROVE  /\ TicksOf(sent') = record'.ticks
                        /\ \A i \in DOMAIN sent'.buckets : sent'.buckets[i].offset <= record'.duration
    BY <1>1 DEF RecordCarriesSeries
  <2>2. record' = record /\ sent' = sent
    BY <1>1, <2>1
  <2>. QED  BY <2>1, <2>2 DEF SeriesIInv, RecordCarriesSeries
<1>. QED  BY <1>1, <1>2, <1>3 DEF SeriesIInv, Proper, TicksOf, Within

\* A step of the meter and its series is a step of the meter.
LEMMA SeriesStep == [SeriesNext]_<<vars, series_vars>> => [Next]_vars
BY DEF SeriesNext, RestOfLoop, EndNow, Elsewhere, Next

LEMMA NextSeriesIInv == MaxDuration # 0 /\ SeriesIInv /\ [SeriesNext]_<<vars, series_vars>> => SeriesIInv'
<1>1. SUFFICES ASSUME MaxDuration # 0, SeriesIInv, [SeriesNext]_<<vars, series_vars>>
               PROVE  SeriesIInv'
  OBVIOUS
<1>2. IInv'
  BY <1>1, SeriesStep, NextIInv DEF SeriesIInv
<1>3. CASE UNCHANGED <<vars, series_vars>>
  BY <1>1, <1>2, <1>3
     DEF vars, session_vars, series_vars, SeriesIInv, RecordCarriesSeries, Proper, TicksOf, Within
<1>. QED  BY <1>1, <1>2, <1>3, RestOfLoopKeeps, EndNowKeeps, ElsewhereKeeps DEF SeriesNext

-----------------------------------------------------------------------------
(* What the invariant of the series shows *)

\* The meter with its series behaves as the meter: what is proved of Spec holds of
\* SeriesSpec.
THEOREM SeriesImplementsMeter == SeriesSpec => Spec
<1>1. SeriesInit => Init
  BY DEF SeriesInit
<1>. QED  BY <1>1, SeriesStep, PTL DEF SeriesSpec, Spec

\* Where a cutoff keeps pours shorter than the clock's range, the series of the pour
\* in flight has its ticks, whatever was merged and coarsened.
THEOREM SeriesInvariant == MaxDuration # 0 => (SeriesSpec => []SeriesIInv)
<1> SUFFICES ASSUME MaxDuration # 0 PROVE SeriesSpec => []SeriesIInv
  OBVIOUS
<1>1. SeriesIInv /\ [SeriesNext]_<<vars, series_vars>> => SeriesIInv'
  BY NextSeriesIInv
<1>. QED  BY <1>1, InitSeriesIInv, PTL DEF SeriesSpec

\* Every tick of a reported pour is in the series of its record, none after the
\* last, however long and sparse the pour was and however often the buffer filled up.
THEOREM RecordCarriesSeriesHolds == MaxDuration # 0 => (SeriesSpec => []RecordCarriesSeries)
<1> SUFFICES ASSUME MaxDuration # 0 PROVE SeriesSpec => []RecordCarriesSeries
  OBVIOUS
<1>1. SeriesIInv => RecordCarriesSeries
  BY DEF SeriesIInv
<1>. QED  BY <1>1, SeriesInvariant, PTL

\* The buckets of a series are aligned to its resolution, in order and apart, and
\* never more than the buffer has room for.
THEOREM OffsetsAlignedHolds == MaxDuration # 0 => (SeriesSpec => []OffsetsAligned)
<1> SUFFICES ASSUME MaxDuration # 0 PROVE SeriesSpec => []OffsetsAligned
  OBVIOUS
<1>1. ASSUME NEW ts, Proper(ts)
      PROVE  /\ Len(ts.buckets) <= Capacity
             /\ \A i \in DOMAIN ts.buckets :
                  /\ ts.buckets[i].offset % ts.resolution = 0
                  /\ i > 1 => ts.buckets[i - 1].offset < ts.buckets[i].offset
  BY <1>1 DEF Proper, Aligned
<1>2. SeriesIInv => OffsetsAligned
  BY <1>1 DEF SeriesIInv, OffsetsAligned
<1>. QED  BY <1>2, SeriesInvariant, PTL
=============================================================================
