------------------------------ MODULE Calendar ------------------------------
(***************************************************************************)
(* engine::market_calendar: when a market is open, by the clock on its wall. *)
(* A time of day is its minute, 0 .. DayLength - 1, a weekday 0 (Monday) to 6, *)
(* a date its number, a day of the year a date modulo YearDays; a text of the  *)
(* table that does not parse is a number out of that range.                    *)
(***************************************************************************)
EXTENDS Integers, Sequences

CONSTANTS
  DayLength,     \* minutes of a day
  FirstWeekday,  \* the weekday of date 0
  YearDays,      \* dates of a year
  Zones          \* the IANA time zones by name: before and after are their UTC
                 \* offsets, changed at the UTC minute change

ASSUME CalendarAssumption ==
  /\ DayLength \in Nat \ {0} /\ FirstWeekday \in 0..6 /\ YearDays \in Nat \ {0}
  /\ {"UTC", "America/New_York"} \subseteq DOMAIN Zones
  /\ \A z \in DOMAIN Zones : Zones[z] \in [before : Int, after : Int, change : Int]

\* MarketCalendarSpec.
Weekly == [day : Int, at : Int]
Tables == [zone : STRING, open : Weekly, close : Weekly, dayStart : Int,
           breaks : SUBSET [start : Int, end : Int], yearly : SUBSET Int, dates : SUBSET Int]

Hour(h) == (h * DayLength) \div 24
Sunday == 6
Friday == 4

\* The UTC offsets of a zone (chrono_tz).
Local(zone, m) ==
  m + (IF m < Zones[zone].change THEN Zones[zone].before ELSE Zones[zone].after)

----------------------------------------------------------------------------
(* From a spec to a calendar. *)

ParsesHm(t)       == t \in 0..(DayLength - 1)
ParsesWeekly(w)   == w.day \in 0..6 /\ ParsesHm(w.at)
ParsesMonthDay(d) == d \in 0..(YearDays - 1)

\* Mutant of Accepts: a break may be empty.
AcceptsEmptyBreaks(spec) ==
  /\ spec.zone \in DOMAIN Zones
  /\ ParsesWeekly(spec.open) /\ ParsesWeekly(spec.close) /\ ParsesHm(spec.dayStart)
  /\ \A b \in spec.breaks : ParsesHm(b.start) /\ ParsesHm(b.end)
  /\ \A d \in spec.yearly : ParsesMonthDay(d)
  /\ spec.dates \subseteq Nat

\* TryFrom<MarketCalendarSpec>: every text parses, and no break is empty.
Accepts(spec) ==
  /\ spec.zone \in DOMAIN Zones
  /\ ParsesWeekly(spec.open) /\ ParsesWeekly(spec.close) /\ ParsesHm(spec.dayStart)
  /\ \A b \in spec.breaks : ParsesHm(b.start) /\ ParsesHm(b.end) /\ b.start # b.end
  /\ \A d \in spec.yearly : ParsesMonthDay(d)
  /\ spec.dates \subseteq Nat

\* A week from Sunday to Friday at one hour; Christmas and New Year, here the first
\* day of the year.
PresetTable(zone, hour, dayStart) ==
  [zone |-> zone, open |-> [day |-> Sunday, at |-> Hour(hour)],
   close |-> [day |-> Friday, at |-> Hour(hour)], dayStart |-> Hour(dayStart),
   breaks |-> {}, yearly |-> {0}, dates |-> {}]

Preset(name) ==
  IF name = "fx_new_york" THEN PresetTable("America/New_York", 17, 17)
  ELSE PresetTable("UTC", 22, 0)

----------------------------------------------------------------------------
(* MarketCalendar::is_open_at. *)

\* Mutant of TradingDate: the evening belongs to its own date.
TradingDateSame(cal, local) == local \div DayLength

TradingDate(cal, local) ==
  IF cal.dayStart = 0 THEN local \div DayLength
  ELSE (local + DayLength - cal.dayStart) \div DayLength

WeekMinutes(day, at) == day * DayLength + at

InDailySpan(t, start, end) ==
  IF start < end THEN t >= start /\ t < end ELSE t >= start \/ t < end

IsOpenAt(cal, m) ==
  LET local == Local(cal.zone, m)
      date  == TradingDate(cal, local)
      t     == local % DayLength
      now   == WeekMinutes((local \div DayLength + FirstWeekday) % 7, t)
      open  == WeekMinutes(cal.open.day, cal.open.at)
      close == WeekMinutes(cal.close.day, cal.close.at)
  IN /\ date \notin cal.dates
     /\ date % YearDays \notin cal.yearly
     /\ \A b \in cal.breaks : ~InDailySpan(t, b.start, b.end)
     /\ \/ open = close
        \/ open < close /\ now >= open /\ now < close
        \/ open > close /\ (now >= open \/ now < close)

----------------------------------------------------------------------------
(* The hours as the documentation of the table states them, on the days and weeks *)
(* around a local time. *)

From(local, start, end) == start <= local /\ local < end

\* "With a later start, the trading day named D begins at that local time on the day
\* before D and ends at it on D."
OnClosedDay(cal, local, days) ==
  \E d \in days :
    /\ d \in cal.dates \/ d % YearDays \in cal.yearly
    /\ LET start == IF cal.dayStart = 0 THEN d * DayLength ELSE (d - 1) * DayLength + cal.dayStart
       IN From(local, start, start + DayLength)

\* "A daily break whose end is before its start runs across local midnight."
OnBreak(cal, local, days) ==
  \E d \in days, b \in cal.breaks :
    From(local, d * DayLength + b.start,
         (IF b.end < b.start THEN d + 1 ELSE d) * DayLength + b.end)

\* From a weekly opening to the next weekly closing.
InWeek(cal, local, days) ==
  LET weekday(d) == (d + FirstWeekday) % 7
      closings == {d * DayLength + cal.close.at : d \in {e \in days : weekday(e) = cal.close.day}}
  IN \/ cal.open = cal.close
     \/ \E d \in days :
          LET opening == d * DayLength + cal.open.at
          IN /\ weekday(d) = cal.open.day /\ opening <= local
             /\ \A c \in closings : c <= opening \/ c > local

OpenAsWritten(cal, m) ==
  LET local == Local(cal.zone, m)
      days  == (local \div DayLength - 8)..(local \div DayLength + 8)
  IN ~OnClosedDay(cal, local, days) /\ ~OnBreak(cal, local, days) /\ InWeek(cal, local, days)
=============================================================================
