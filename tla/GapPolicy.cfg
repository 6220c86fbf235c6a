\* Bars of two and four minutes, single scans and pairs.
SPECIFICATION Spec
CONSTANTS
  Horizon = 12
  DayLength = 4
  FirstWeekday = 4
  YearDays = 3
  Zones <- TwoZones
  Timeframes = {2, 4}
  Windows <- AllWindows
  Calendars <- AllCalendars
  Checked <- DetectorOpen
  LegFeeds <- OneOrTwoLegs
INVARIANTS
  NoEmptyBar
  OnBars
  SingleLegExact
  ClosedAsWritten
