\* Bars of two and four minutes, pairs.
SPECIFICATION Spec
CONSTANTS
  Horizon = 12
  DayLength = 4
  FirstWeekday = 4
  YearDays = 3
  Zones <- TwoZones
  Timeframes = {2, 4}
  Windows <- AllWindows
  Calendars <- AllCalendars
  Checked <- DetectorOpen
  LegFeeds <- TwoLegs
INVARIANTS
  KeepsData
