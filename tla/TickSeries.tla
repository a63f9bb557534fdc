----------------------------- MODULE TickSeries -----------------------------
(***************************************************************************)
(* The bounded record of when a pour's ticks came, tick_series.cpp, as a   *)
(* value: the buckets in use and the resolution, in milliseconds, that     *)
(* they are aligned to; 0 records nothing.  A full series is coarsened:    *)
(* neighbours in the buffer are merged, whatever time lies between them,   *)
(* and the resolution doubles.                                             *)
(***************************************************************************)
EXTENDS Naturals, FiniteSets, Sequences, SequencesExt

CONSTANT Capacity      \* CAPACITY, the most buckets

ASSUME CapacityAssumption == Capacity \in Nat \ {0, 1}

\* reset
Fresh(width) == [buckets |-> <<>>, resolution |-> width]

Snap(time, width) == (time \div width) * width

\* Ticks at the time of the last bucket join it, later ones open a bucket.
Merge(s, b) ==
  IF s # <<>> /\ Last(s).offset = b.offset
  THEN [s EXCEPT ![Len(s)].ticks = @ + b.ticks]
  ELSE Append(s, b)

\* The first half of coarsen_: two by two, an odd last bucket alone.  A pair keeps
\* the earlier offset.  Mutant: the odd one is left out.
Pairs_Even(s) ==
  [i \in 1..(Len(s) \div 2) |->
     [offset |-> s[2 * i - 1].offset, ticks |-> s[2 * i - 1].ticks + s[2 * i].ticks]]

Pairs(s) ==
  [i \in 1..((Len(s) + 1) \div 2) |->
     IF 2 * i > Len(s) THEN s[2 * i - 1]
     ELSE [offset |-> s[2 * i - 1].offset, ticks |-> s[2 * i - 1].ticks + s[2 * i].ticks]]

\* ... and the second: what now shares a bucket becomes one.
\* Mutant: there is no second half.
Coarsened_ByPosition(s, width) == Pairs(s)

Coarsened(s, width) ==
  FoldLeft(LAMBDA done, b : Merge(done, [b EXCEPT !.offset = Snap(@, width)]), <<>>, Pairs(s))

\* Whether the buffer takes ticks at `time` as it is
Fits(ts, time) ==
  \/ Len(ts.buckets) < Capacity
  \/ Last(ts.buckets).offset = Snap(time, ts.resolution)

\* add: `ticks` come at `time` after the start of the pour.
Added(ts, time, ticks) ==
  LET wider == 2 * ts.resolution
      bucket(width) == [offset |-> Snap(time, width), ticks |-> ticks]
  IN CASE ts.resolution = 0 -> ts
       [] ts.resolution # 0 /\ Fits(ts, time) ->
            [ts EXCEPT !.buckets = Merge(@, bucket(ts.resolution))]
       [] ts.resolution # 0 /\ ~Fits(ts, time) ->
            [buckets |-> Merge(Coarsened(ts.buckets, wider), bucket(wider)), resolution |-> wider]

\* The ticks of the whole series
TicksOf(ts) == SumFunction([i \in DOMAIN ts.buckets |-> ts.buckets[i].ticks])
=============================================================================
