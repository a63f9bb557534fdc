----------------------------- MODULE PourSeries -----------------------------
(***************************************************************************)
(* A meter with the tick series its pour session keeps: PourSession owns a *)
(* TickSeries, resets it when a pour begins and when one is over, adds to  *)
(* it whatever a turn of loop() takes from the interrupt handler, and      *)
(* copies it into the record of a pour that is reported.  Each action is   *)
(* Meter's, with what the same handler does to the series.                 *)
(***************************************************************************)
EXTENDS Meter, TickSeries

CONSTANT Resolutions     \* series_resolution_ms_ a meter may be configured with

ASSUME ResolutionsAssumption == Resolutions \subseteq Nat

VARIABLES
  configured,   \* series_resolution_ms_
  series,       \* series_
  sent          \* the series of the record the last handler reported

series_vars == <<configured, series, sent>>

SeriesInit ==
  /\ Init
  /\ configured \in Resolutions
  /\ series = Fresh(configured) /\ sent = Fresh(configured)

\* finish_: a pour too short to report takes its series with it.
\* Mutant: the series is emptied before the record has it.
Handed_AfterReset(ts, ticks) == Fresh(configured)

Handed(ts, ticks) == IF ticks < MinPourTicks THEN Fresh(configured) ELSE ts

\* The pour of `ticks` is over.
FinishSeries(ts, ticks) ==
  /\ series' = Fresh(configured)
  /\ sent' = Handed(ts, ticks)

\* add_ticks: the first ticks of a pour begin a new series.
Fed ==
  IF taken = 0 THEN series
  ELSE Added(IF pouring THEN series ELSE Fresh(configured),
             IF pouring THEN Elapsed(start) ELSE 0, taken)

RestOfLoop ==
  /\ LoopRest
  /\ IF pouring' \/ (~pouring /\ taken = 0)
     THEN series' = Fed /\ sent' = Fresh(configured)
     ELSE FinishSeries(Fed, session + taken)
  /\ UNCHANGED configured

EndNow == EndPour /\ FinishSeries(series, session) /\ UNCHANGED configured

Elsewhere ==
  /\ GpioIntr \/ LoopTake \/ ResetTotal \/ Pass
  /\ UNCHANGED <<configured, series>>
  /\ sent' = IF record' = NoRecord THEN Fresh(configured) ELSE sent

SeriesNext == RestOfLoop \/ EndNow \/ Elsewhere

SeriesSpec == SeriesInit /\ [][SeriesNext]_<<vars, series_vars>>

-----------------------------------------------------------------------------
(* Properties *)

\* The series of a reported pour accounts for every one of its ticks, and puts
\* none after the pour's last: however long and sparse the pour was, and however
\* often the buffer filled up.
RecordCarriesSeries ==
  record # NoRecord /\ configured # 0 =>
    /\ TicksOf(sent) = record.ticks
    /\ \A i \in DOMAIN sent.buckets : sent.buckets[i].offset <= record.duration

\* Offsets stay unique, increasing and aligned to the resolution, however sparse
\* the pour and however often it is coarsened, and never outgrow the buffer.
OffsetsAligned ==
  \A ts \in {series, sent} :
    /\ Len(ts.buckets) <= Capacity
    /\ \A i \in DOMAIN ts.buckets :
         /\ ts.buckets[i].offset % ts.resolution = 0
         /\ i > 1 => ts.buckets[i - 1].offset < ts.buckets[i].offset
=============================================================================
