\* NeverPanics is what the documentation of the kernel says.
SPECIFICATION Spec
CONSTANTS
  PairCases <- NoCases
  SeriesCases <- SingletonCases
  Fits <- SomeFits
  MinAlignedN = 4
  DefaultMaxLag = 2
  Lookback = 3
  MinHistory = 2
  DefaultThreshold <- AboutThreshold
  MonthDays = 10
  OpenWeekdays = {0, 1, 2, 3, 4}
  MaxCutoff = 10
  PollRows = 8
INVARIANTS
  NeverPanics
