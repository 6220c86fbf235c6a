\* Every registered scan: two legs of up to seven bars, windows at and past every
\* limit; one instrument of up to nine bars, or as many as the defaults ask for.
SPECIFICATION Spec
CONSTANTS
  PairCases <- SomePairCases
  SeriesCases <- SomeSeriesCases
  Fits <- SomeFits
  MinAlignedN = 4
  DefaultMaxLag = 2
  Lookback = 3
  MinHistory = 2
  DefaultThreshold <- AboutThreshold
  MonthDays = 10
  OpenWeekdays = {0, 1, 2, 3, 4}
  MaxCutoff = 10
  PollRows = 8
INVARIANTS
  AlignedWindows
  EveryWindow
  BreakdownFromThePast
  StandsFor
  BucketsHold
  Episodes
  RegimesFollow
  AsDeclared
  ResampledIsReported
