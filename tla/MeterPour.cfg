SPECIFICATION SeriesSpec
CONSTANTS
  IdleTimeout = 2
  MinPourTicks = 2
  MaxDuration = 6
  ClockRange = 10
  MaxLag = 2
  MaxEdges = 6
  Capacity = 3
  Resolutions = {0, 1}
INVARIANTS TicksConserved TotalCountsAll PourBounded RecordCarriesSeries OffsetsAligned
PROPERTIES EndsOnlyWhenOver RecordTellsTheTruth
