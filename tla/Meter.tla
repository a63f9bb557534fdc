------------------------------- MODULE Meter -------------------------------
(***************************************************************************)
(* One flow meter: the interrupt handler that counts edges, the loop that  *)
(* takes the count and the pour session it feeds (kegboard_meter.cpp,     *)
(* pour_session.cpp).  The only true concurrency of the firmware is here:  *)
(* gpio_intr runs between any two instructions of the loop, except those   *)
(* under the InterruptLock.  So a turn of loop() is two actions, the take  *)
(* and the rest; GpioIntr comes anywhere.  Clocks wrap (2^32 in the code,  *)
(* ClockRange here).  True times are kept beside them, for the properties. *)
(***************************************************************************)
EXTENDS Integers

CONSTANTS
  IdleTimeout,    \* idle_timeout_ms
  MinPourTicks,   \* min_pour_ticks
  MaxDuration,    \* max_duration_ms; 0 is no cutoff
  ClockRange,     \* millis() counts modulo this
  MaxLag,         \* longest time between two turns of loop()
  MaxEdges        \* bound: edges the meter sees

ASSUME MeterAssumption ==
  /\ IdleTimeout \in Nat \ {0} /\ MinPourTicks \in Nat /\ MaxDuration \in Nat
  /\ MaxEdges \in Nat /\ MaxLag \in Nat \ {0} /\ ClockRange \in Nat
  /\ IdleTimeout + MaxLag < ClockRange /\ MaxDuration + MaxLag < ClockRange

VARIABLES
  now,         \* millis()
  isr,         \* isr_ticks_
  looping,     \* loop() has taken the ticks and not yet acted on them
  taken,       \* the local `ticks` of loop()
  pouring, session, start, lastTick, total,   \* PourSession's fields
  record,      \* the PourRecord the last handler reported, or NoRecord
  edges,       \* checking only: edges counted since boot
  told, lost,  \* checking only: ticks in reported pours, in discarded ones
  forgotten,   \* checking only: ticks that reset_total took off the total
  age, quiet,  \* checking only: true time since the pour's first and last tick
  lag          \* checking only: true time since the last turn of loop()

session_vars == <<pouring, session, start, lastTick, age, quiet>>
vars == <<now, isr, looping, taken, session_vars, total, record, edges, told, lost, forgotten, lag>>

NoRecord == [ticks |-> 0, duration |-> 0]

Elapsed(since) == (now - since) % ClockRange

Init ==
  /\ now = 0 /\ isr = 0 /\ looping = FALSE /\ taken = 0
  /\ pouring = FALSE /\ session = 0 /\ start = 0 /\ lastTick = 0 /\ total = 0
  /\ record = NoRecord
  /\ edges = 0 /\ told = 0 /\ lost = 0 /\ forgotten = 0
  /\ age = 0 /\ quiet = 0 /\ lag = 0

\* An edge that passes the debounce filter; a ringing one changes nothing.
GpioIntr ==
  /\ edges < MaxEdges
  /\ edges' = edges + 1
  /\ isr' = isr + 1
  /\ UNCHANGED <<now, looping, taken, session_vars, total, record, told, lost, forgotten, lag>>

\* take_isr_ticks_, under the InterruptLock.  Mutant: without it, an edge may come
\* between the read and the reset.
LoopTake_Unlocked ==
  /\ ~looping /\ looping' = TRUE
  /\ taken' = isr
  /\ isr' = 0
  /\ edges' \in {edges, IF edges < MaxEdges THEN edges + 1 ELSE edges}
  /\ UNCHANGED <<now, session_vars, total, record, told, lost, forgotten, lag>>

LoopTake ==
  /\ ~looping /\ looping' = TRUE
  /\ taken' = isr
  /\ isr' = 0
  /\ UNCHANGED <<now, session_vars, total, record, edges, told, lost, forgotten, lag>>

\* How long a pour from tick to tick lasted.  Mutant: until
\* it is found over.
Lasted_UntilNoticed(first, last) == Elapsed(first)

Lasted(first, last) == (last - first) % ClockRange

\* finish_ of a pour of `ticks` whose last tick came at `last`: below the
\* threshold it is dropped, else reported; it lasted until the last tick.
Finish(ticks, first, last) ==
  /\ pouring' = FALSE /\ session' = 0 /\ start' = first /\ lastTick' = last
  /\ age' = 0 /\ quiet' = 0
  /\ IF ticks < MinPourTicks
     THEN record' = NoRecord /\ lost' = lost + ticks /\ UNCHANGED told
     ELSE /\ record' = [ticks |-> ticks, duration |-> Lasted(first, last)]
          /\ told' = told + ticks /\ UNCHANGED lost

\* PourSession::poll's test.  Mutants: clocks are compared as they are; silence is
\* counted from the first tick.
Over_Unsigned(first, last) == now >= last + IdleTimeout \/ (MaxDuration # 0 /\ now >= first + MaxDuration)
Over_SinceStart(first, last) ==
  Elapsed(first) >= IdleTimeout \/ (MaxDuration # 0 /\ Elapsed(first) >= MaxDuration)

Over(first, last) ==
  Elapsed(last) >= IdleTimeout \/ (MaxDuration # 0 /\ Elapsed(first) >= MaxDuration)

\* The rest of loop(): add_ticks, then poll.  The first ticks after idle start a
\* pour.
LoopRest ==
  LET flow  == taken > 0
      first == IF flow /\ ~pouring THEN now ELSE start
      last  == IF flow THEN now ELSE lastTick
      ticks == session + taken
  IN /\ looping /\ looping' = FALSE
     /\ taken' = 0 /\ lag' = 0
     /\ total' = total + taken
     /\ IF (pouring \/ flow) /\ Over(first, last)
        THEN Finish(ticks, first, last)
        ELSE /\ pouring' = (pouring \/ flow) /\ session' = ticks
             /\ start' = first /\ lastTick' = last
             /\ age' = age /\ quiet' = IF flow THEN 0 ELSE quiet
             /\ record' = NoRecord /\ UNCHANGED <<told, lost>>
     /\ UNCHANGED <<now, isr, edges, forgotten>>

\* end_pour, by the auth engine or a YAML action: the main loop is not in loop(),
\* and ticks still with the ISR stay there for the next pour.
EndPour ==
  /\ ~looping /\ pouring
  /\ Finish(session, start, lastTick)
  /\ UNCHANGED <<now, isr, looping, taken, total, edges, forgotten, lag>>

\* reset_total.  Mutant: it drops the edges still with the ISR as well.
ResetTotal_DropsEdges ==
  /\ ~looping
  /\ total' = 0 /\ isr' = 0
  /\ forgotten' = forgotten + total
  /\ UNCHANGED <<now, looping, taken, session_vars, record, edges, told, lost, lag>>

ResetTotal ==
  /\ ~looping
  /\ total' = 0
  /\ forgotten' = forgotten + total
  /\ UNCHANGED <<now, isr, looping, taken, session_vars, record, edges, told, lost, lag>>

\* A millisecond goes by; the main loop is never longer than MaxLag away.
Pass ==
  /\ lag < MaxLag /\ lag' = lag + 1
  /\ now' = (now + 1) % ClockRange
  /\ age' = IF pouring THEN age + 1 ELSE 0
  /\ quiet' = IF pouring THEN quiet + 1 ELSE 0
  /\ record' = NoRecord
  /\ UNCHANGED <<isr, looping, taken, pouring, session, start, lastTick, total, edges, told, lost, forgotten>>

Next == GpioIntr \/ LoopTake \/ LoopRest \/ EndPour \/ ResetTotal \/ Pass

Spec == Init /\ [][Next]_vars

-----------------------------------------------------------------------------
(* Properties *)

\* Every variable has its type; ticks are in hand only inside loop().
TypeOK ==
  /\ now \in 0..(ClockRange - 1) /\ start \in 0..(ClockRange - 1) /\ lastTick \in 0..(ClockRange - 1)
  /\ isr \in Nat /\ taken \in Nat /\ session \in Nat /\ total \in Nat
  /\ looping \in BOOLEAN /\ pouring \in BOOLEAN
  /\ record \in [ticks : Nat, duration : Nat]
  /\ edges \in Nat /\ told \in Nat /\ lost \in Nat /\ forgotten \in Nat
  /\ age \in Nat /\ quiet \in Nat /\ lag \in 0..MaxLag

\* No edge is lost between the interrupt handler, the loop, the pour in flight
\* and the pours that ended, and none counts twice, whenever the interrupt comes.
TicksConserved == edges = isr + taken + session + told + lost

\* The lifetime total has every tick the loop has seen but those reset away; a
\* forced end or a discarded drip does not take any back.
TotalCountsAll == total + forgotten + isr + taken = edges

\* A pour is over in time, wherever the clock wraps: silence never outlasts the
\* idle timeout, nor a free-running meter the cutoff, by more than a stall.
PourBounded ==
  pouring => /\ quiet <= IdleTimeout + MaxLag
             /\ MaxDuration # 0 => age <= MaxDuration + MaxLag

\* loop() ends a pour only if the meter really was silent for the idle timeout or
\* really ran for the cutoff: no wrap of the clock splits a drink in two.
EndsOnlyWhenOver ==
  [][looping /\ ~looping' /\ pouring /\ ~pouring' =>
       \/ taken = 0 /\ quiet >= IdleTimeout
       \/ MaxDuration # 0 /\ age >= MaxDuration]_vars

\* A reported pour lasted from its first tick to its last, not to the moment the
\* loop noticed its end.
RecordTellsTheTruth ==
  [][record' # NoRecord /\ record' # record =>
       record'.duration = IF taken > 0 THEN age ELSE age - quiet]_vars
=============================================================================
