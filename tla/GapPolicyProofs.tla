--------------------------- MODULE GapPolicyProofs ---------------------------
(***************************************************************************)
(* Theorems about GapPolicy, for every set of calendars, windows, feeds    *)
(* and timeframes: the sub-ranges of a job are whole bars with data, and   *)
(* of one leg all of them; the closed minutes are those of the table.      *)
(*                                                                         *)
(* The order is that of the code: the gaps of two legs sorted and merged,  *)
(* the closed time taken out of them, what is left projected on the bars,  *)
(* the window swept into sub-ranges, those without an open minute dropped  *)
(* and the others snapped.  Each loop of the code is a fold; a lemma says  *)
(* of each which minutes its result covers.                                *)
(***************************************************************************)
EXTENDS GapPolicy, FiniteSetTheorems, TLAPS

----------------------------------------------------------------------------
(* The calendar: the hours is_open_at computes are the hours the table documents.    *)
(* Both are brought to the same local time: a day and a minute of it for closed      *)
(* dates and breaks, a week and a minute of it for the weekly hours.                 *)

DaysAround(local) == (local \div DayLength - 8)..(local \div DayLength + 8)
Weekday(d) == (d + FirstWeekday) % 7

\* A minute belongs to one day.
LEMMA DayOf ==
  ASSUME NEW D \in Nat \ {0}, NEW x \in Int
  PROVE  /\ x \div D \in Int /\ x % D \in 0..(D - 1) /\ x = (x \div D) * D + (x % D)
         /\ \A d \in Int : d * D <= x /\ x < d * D + D <=> d = x \div D
<1> DEFINE q == x \div D
           r == x % D
<1>1. q \in Int /\ r \in 0..(D - 1) /\ x = q * D + r
  OBVIOUS
<1> HIDE DEF q, r
<1>2. ASSUME NEW d \in Int, d * D <= x, x < d * D + D PROVE d = q
  <2>1. d * D < (q + 1) * D /\ q * D < (d + 1) * D
    BY <1>1, <1>2
  <2>2. d < q + 1 /\ q < d + 1
    BY <1>1, <2>1
  <2> QED BY <1>1, <2>2
<1>3. q * D <= x /\ x < q * D + D
  BY <1>1
<1> QED BY <1>1, <1>2, <1>3 DEF q, r

----------------------------------------------------------------------------
(* Closed dates. *)

LEMMA ClosedDays ==
  ASSUME NEW table, Accepts(table), table.dates \subseteq Int, NEW local \in Int
  PROVE  OnClosedDay(table, local, DaysAround(local)) <=>
           \/ TradingDate(table, local) \in table.dates
           \/ TradingDate(table, local) % YearDays \in table.yearly
<1> DEFINE s == table.dayStart
           date == TradingDate(table, local)
           start(d) == IF s = 0 THEN d * DayLength ELSE (d - 1) * DayLength + s
           q == local \div DayLength
<1>1. DayLength \in Nat \ {0} /\ s \in 0..(DayLength - 1)
  BY CalendarAssumption DEF Accepts, ParsesHm
<1>2. q \in Int /\ q * DayLength <= local /\ local < q * DayLength + DayLength
  BY <1>1, DayOf
<1>3. /\ date \in Int
      /\ \A d \in Int : From(local, start(d), start(d) + DayLength) <=> d = date
  <2>1. CASE s = 0
    <3>1. date = q
      BY <2>1 DEF TradingDate
    <3>2. \A d \in Int : d * DayLength <= local /\ local < d * DayLength + DayLength <=> d = q
      BY <1>1, DayOf
    <3> QED BY <1>2, <2>1, <3>1, <3>2 DEF From
  <2>2. CASE s # 0
    <3> DEFINE x == local + DayLength - s
    <3>1. x \in Int /\ date = x \div DayLength
      BY <1>1, <2>2 DEF TradingDate
    <3> HIDE DEF x
    <3>2. /\ x \div DayLength \in Int
          /\ \A d \in Int : d * DayLength <= x /\ x < d * DayLength + DayLength
                              <=> d = x \div DayLength
      BY <1>1, <3>1, DayOf
    <3>3. \A d \in Int : (d - 1) * DayLength = d * DayLength - DayLength /\ d * DayLength \in Int
      BY <1>1
    <3>4. ASSUME NEW d \in Int
          PROVE  From(local, start(d), start(d) + DayLength) <=>
                   d * DayLength <= x /\ x < d * DayLength + DayLength
      <4> DEFINE y == d * DayLength
      <4>1. y \in Int /\ start(d) = y - DayLength + s
        BY <2>2, <3>3
      <4> HIDE DEF y, start
      <4>2. From(local, start(d), start(d) + DayLength) <=> y <= x /\ x < y + DayLength
        BY <1>1, <4>1 DEF From, x
      <4> QED BY <4>2 DEF y
    <3> QED BY <3>1, <3>2, <3>4
  <2> QED BY <2>1, <2>2
<1>4. date \in DaysAround(local)
  <2>1. date = q \/ date = q + 1
    <3>1. From(local, start(date), start(date) + DayLength)
      BY <1>3
    <3>2. CASE s = 0
      BY <1>2, <3>2 DEF TradingDate
    <3>3. CASE s # 0
      <4>1. start(date) = date * DayLength - DayLength + s
        BY <1>1, <1>3, <3>3
      <4>2. date * DayLength - DayLength + s <= local /\ local < date * DayLength + s
        BY <1>1, <1>3, <3>1, <4>1 DEF From
      <4> HIDE DEF date, q, s
      <4>3. q * DayLength < (date + 1) * DayLength /\ date * DayLength < (q + 2) * DayLength
        <5>1. /\ (date + 1) * DayLength = date * DayLength + DayLength
              /\ (q + 2) * DayLength = q * DayLength + DayLength + DayLength
              /\ date * DayLength \in Int /\ q * DayLength \in Int
          BY <1>1, <1>2, <1>3
        <5> QED BY <1>1, <1>2, <4>2, <5>1
      <4>4. q < date + 1 /\ date < q + 2
        BY <1>1, <1>2, <1>3, <4>3
      <4> QED BY <1>2, <1>3, <4>4
    <3> QED BY <3>2, <3>3
  <2> HIDE DEF date
  <2> QED BY <1>2, <2>1 DEF DaysAround
<1>5. \A d \in DaysAround(local) : d \in Int
  BY <1>2 DEF DaysAround
<1>6. OnClosedDay(table, local, DaysAround(local)) <=>
        \E d \in DaysAround(local) :
          (d \in table.dates \/ d % YearDays \in table.yearly)
          /\ From(local, start(d), start(d) + DayLength)
  BY DEF OnClosedDay
<1> HIDE DEF date, start
<1>7. OnClosedDay(table, local, DaysAround(local)) <=>
        date \in table.dates \/ date % YearDays \in table.yearly
  BY <1>3, <1>4, <1>5, <1>6
<1> QED BY <1>7 DEF date

----------------------------------------------------------------------------
(* Breaks. *)

LEMMA BreakMinutes ==
  ASSUME NEW D \in Nat \ {0}, NEW q \in Int, NEW t \in 0..(D - 1), NEW local \in Int,
         local = q * D + t,
         NEW start \in 0..(D - 1), NEW end \in 0..(D - 1), start # end
  PROVE  InDailySpan(t, start, end) <=>
           \E d \in (q - 8)..(q + 8) :
             From(local, d * D + start, (IF end < start THEN d + 1 ELSE d) * D + end)
<1> DEFINE S(d) == From(local, d * D + start, (IF end < start THEN d + 1 ELSE d) * D + end)
<1>1. q \in (q - 8)..(q + 8) /\ q - 1 \in (q - 8)..(q + 8)
      /\ \A d \in (q - 8)..(q + 8) : d \in Int
  OBVIOUS
<1>2. CASE start < end
  <2>1. S(q) <=> start <= t /\ t < end
    BY <1>2 DEF From
  <2>2. ASSUME NEW d \in Int, S(d) PROVE d = q
    <3>1. d * D <= local /\ local < d * D + D
      BY <1>2, <2>2 DEF From
    <3>2. d * D < (q + 1) * D /\ q * D < (d + 1) * D
      BY <3>1
    <3>3. d < q + 1 /\ q < d + 1
      BY <3>2
    <3> QED BY <3>3
  <2>3. InDailySpan(t, start, end) <=> start <= t /\ t < end
    BY <1>2 DEF InDailySpan
  <2> HIDE DEF S
  <2>4. InDailySpan(t, start, end) <=> \E d \in (q - 8)..(q + 8) : S(d)
    BY <1>1, <2>1, <2>2, <2>3
  <2> QED BY <2>4 DEF S
<1>3. CASE end < start
  <2>1. (q - 1) * D = q * D - D /\ (q + 1) * D = q * D + D /\ q * D \in Int
    OBVIOUS
  <2>2. S(q) <=> t >= start
    <3>1. S(q) <=> From(local, q * D + start, (q + 1) * D + end)
      BY <1>3
    <3> QED BY <2>1, <3>1 DEF From
  <2>3. S(q - 1) <=> t < end
    <3>1. S(q - 1) <=> From(local, (q - 1) * D + start, q * D + end)
      BY <1>3
    <3> QED BY <2>1, <3>1 DEF From
  <2>4. ASSUME NEW d \in Int, S(d) PROVE d = q \/ d = q - 1
    <3>1. d * D <= local /\ local < d * D + D + D
      <4>1. (d + 1) * D = d * D + D /\ d * D \in Int
        OBVIOUS
      <4>2. From(local, d * D + start, (d + 1) * D + end)
        BY <1>3, <2>4
      <4> QED BY <4>1, <4>2 DEF From
    <3>2. d * D < (q + 1) * D /\ q * D < (d + 2) * D
      BY <3>1
    <3>3. d < q + 1 /\ q < d + 2
      BY <3>2
    <3> QED BY <3>3
  <2>5. InDailySpan(t, start, end) <=> t >= start \/ t < end
    BY <1>3 DEF InDailySpan
  <2> HIDE DEF S
  <2>6. InDailySpan(t, start, end) <=> \E d \in (q - 8)..(q + 8) : S(d)
    BY <1>1, <2>2, <2>3, <2>4, <2>5
  <2> QED BY <2>6 DEF S
<1> QED BY <1>2, <1>3

LEMMA Breaks ==
  ASSUME NEW table, Accepts(table), NEW local \in Int
  PROVE  OnBreak(table, local, DaysAround(local)) <=>
           \E b \in table.breaks : InDailySpan(local % DayLength, b.start, b.end)
<1> DEFINE q == local \div DayLength
           t == local % DayLength
<1>1. DayLength \in Nat \ {0}
  BY CalendarAssumption
<1>2. q \in Int /\ t \in 0..(DayLength - 1) /\ local = q * DayLength + t
  BY <1>1, DayOf
<1>3. DaysAround(local) = (q - 8)..(q + 8)
  BY DEF DaysAround
<1> DEFINE S(b, d) == From(local, d * DayLength + b.start,
                           (IF b.end < b.start THEN d + 1 ELSE d) * DayLength + b.end)
<1>4. OnBreak(table, local, DaysAround(local)) <=>
        \E b \in table.breaks : \E d \in (q - 8)..(q + 8) : S(b, d)
  BY <1>3 DEF OnBreak
<1> HIDE DEF q, t
<1>5. ASSUME NEW b \in table.breaks
      PROVE  InDailySpan(t, b.start, b.end) <=> \E d \in (q - 8)..(q + 8) : S(b, d)
  <2>1. b.start \in 0..(DayLength - 1) /\ b.end \in 0..(DayLength - 1) /\ b.start # b.end
    BY DEF Accepts, ParsesHm
  <2> QED BY <1>1, <1>2, <2>1, BreakMinutes
<1> HIDE DEF S
<1> QED BY <1>4, <1>5 DEF t

----------------------------------------------------------------------------
(* The week.  Minutes are counted from the start of the week of the local time; D is   *)
(* the length of a day, k a number of weeks.                                           *)

\* The days of a weekday are seven apart.
LEMMA SameWeekday ==
  ASSUME NEW q \in Int, NEW v \in 0..6
  PROVE  /\ Weekday(q) \in 0..6
         /\ \A k \in Int : Weekday(q - Weekday(q) + v + 7 * k) = v
         /\ \A d \in Int : Weekday(d) = v => \E k \in Int : d = q - Weekday(q) + v + 7 * k
<1>1. FirstWeekday \in 0..6
  BY CalendarAssumption
<1> DEFINE i == (q + FirstWeekday) \div 7
           w == Weekday(q)
<1>2. i \in Int /\ w \in 0..6 /\ q + FirstWeekday = 7 * i + w
  BY <1>1 DEF Weekday
<1> HIDE DEF i, w
<1>3. ASSUME NEW k \in Int PROVE Weekday(q - w + v + 7 * k) = v
  BY <1>1, <1>2 DEF Weekday
<1>4. ASSUME NEW d \in Int, Weekday(d) = v PROVE \E k \in Int : d = q - w + v + 7 * k
  <2> DEFINE j == (d + FirstWeekday) \div 7
  <2>1. j \in Int /\ d + FirstWeekday = 7 * j + v
    BY <1>1, <1>4 DEF Weekday
  <2> HIDE DEF j
  <2>2. d = q - w + v + 7 * (j - i) /\ j - i \in Int
    BY <1>1, <1>2, <2>1
  <2> QED BY <2>2
<1> QED BY <1>2, <1>3, <1>4 DEF w

\* Hours from o to c in weeks of T minutes, at minute n of week 0: some opening has no
\* closing between it and n.  Of the weeks around, those of KO and KC are looked at.
LEMMA WeekHours ==
  ASSUME NEW T \in Nat, NEW n \in 0..(T - 1), NEW o \in 0..(T - 1), NEW c \in 0..(T - 1), o # c,
         NEW KO \in SUBSET Int, NEW KC \in SUBSET Int,
         0 \in KO, 0 \in KC, n < o => -1 \in KO, n < c => -1 \in KC
  PROVE  (\E k \in KO : /\ o + k * T <= n
                        /\ \A l \in KC : c + l * T <= o + k * T \/ c + l * T > n)
         <=> \/ o < c /\ n >= o /\ n < c
             \/ o > c /\ (n >= o \/ n < c)
<1> DEFINE Since(k) == /\ o + k * T <= n
                       /\ \A l \in KC : c + l * T <= o + k * T \/ c + l * T > n
           Open == \/ o < c /\ n >= o /\ n < c
                   \/ o > c /\ (n >= o \/ n < c)
<1>1. /\ 0 * T = 0 /\ (-1) * T = -T /\ \A k \in Int : k * T \in Int
      /\ \A k \in Int : k >= 1 => k * T >= T
      /\ \A k \in Int : k <= -1 => k * T <= -T
  <2>1. \A k \in Int : k >= 1 => k * T >= T
    OBVIOUS
  <2>2. \A k \in Int : k <= -1 => k * T <= -T
    OBVIOUS
  <2> QED BY <2>1, <2>2
<1>2. ASSUME o < c, n >= o, n < c PROVE Since(0)
  <2> SUFFICES ASSUME NEW l \in KC PROVE c + l * T <= o \/ c + l * T > n
    BY <1>1, <1>2
  <2>1. l \in Int /\ (l = 0 \/ l >= 1 \/ l <= -1)
    OBVIOUS
  <2> QED BY <1>1, <1>2, <2>1
<1>3. ASSUME o > c, n >= o PROVE Since(0)
  <2> SUFFICES ASSUME NEW l \in KC PROVE c + l * T <= o \/ c + l * T > n
    BY <1>1, <1>3
  <2>1. l \in Int /\ (l = 0 \/ l >= 1 \/ l <= -1)
    OBVIOUS
  <2> QED BY <1>1, <1>3, <2>1
<1>4. ASSUME o > c, n < c PROVE -1 \in KO /\ Since(-1)
  <2> SUFFICES ASSUME NEW l \in KC PROVE c + l * T <= o - T \/ c + l * T > n
    BY <1>1, <1>4
  <2>1. l \in Int /\ (l = 0 \/ l >= 1 \/ l <= -1)
    OBVIOUS
  <2> QED BY <1>1, <1>4, <2>1
<1>5. ASSUME NEW k \in KO, Since(k) PROVE Open
  <2>1. k \in Int /\ k * T \in Int /\ (k = 0 \/ k >= 1 \/ k <= -1)
    BY <1>1
  <2>2. k <= 0
    BY <1>1, <1>5, <2>1
  <2>3. c <= o + k * T \/ c > n
    BY <1>1, <1>5
  <2>4. CASE o < c
    <3>1. n < c
      <4>1. k = 0 \/ k * T <= -T
        BY <1>1, <2>1, <2>2
      <4> QED BY <1>1, <2>1, <2>3, <2>4, <4>1
    <3>2. k = 0
      <4> SUFFICES ASSUME k <= -1 PROVE FALSE
        BY <2>1, <2>2
      <4>1. c - T <= o + k * T \/ c - T > n
        BY <1>1, <1>5, <3>1
      <4>2. k * T <= -T
        BY <1>1, <2>1
      <4> QED BY <2>1, <2>4, <4>1, <4>2
    <3> QED BY <1>1, <1>5, <2>4, <3>1, <3>2
  <2>5. CASE o > c
    <3> SUFFICES ASSUME c <= n, n < o PROVE FALSE
      BY <2>5
    <3>1. k * T <= -T
      BY <1>1, <1>5, <2>1, <2>2
    <3> QED BY <1>1, <2>1, <2>3, <3>1
  <2> QED BY <2>4, <2>5
<1> HIDE DEF Since
<1>6. (\E k \in KO : Since(k)) <=> Open
  <2>1. Open => \E k \in KO : Since(k)
    BY <1>2, <1>3, <1>4
  <2> QED BY <1>5, <2>1
<1> QED BY <1>6 DEF Since

LEMMA Weeks ==
  ASSUME NEW table \in Tables, Accepts(table), NEW local \in Int
  PROVE  LET now   == WeekMinutes(Weekday(local \div DayLength), local % DayLength)
             opens  == WeekMinutes(table.open.day, table.open.at)
             closes == WeekMinutes(table.close.day, table.close.at)
         IN  InWeek(table, local, DaysAround(local)) <=>
               \/ opens = closes
               \/ opens < closes /\ now >= opens /\ now < closes
               \/ opens > closes /\ (now >= opens \/ now < closes)
<1> DEFINE D == DayLength
           T == 7 * D
           q == local \div D
           t == local % D
           w == Weekday(q)
           od == table.open.day
           oa == table.open.at
           cd == table.close.day
           ca == table.close.at
           n == w * D + t
           o == od * D + oa
           c == cd * D + ca
           B == (q - w) * D
           days == (q - 8)..(q + 8)
           OD(k) == q - w + od + 7 * k
           CD(k) == q - w + cd + 7 * k
           KO == {k \in Int : OD(k) \in days}
           KC == {k \in Int : CD(k) \in days}
<1>1. D \in Nat \ {0} /\ T \in Nat
  BY CalendarAssumption
<1>2. q \in Int /\ t \in 0..(D - 1) /\ local = q * D + t
  BY <1>1, DayOf
<1>3. od \in 0..6 /\ cd \in 0..6 /\ oa \in 0..(D - 1) /\ ca \in 0..(D - 1)
  BY DEF Accepts, ParsesWeekly, ParsesHm
<1>4. w \in 0..6
  BY <1>2, <1>3, SameWeekday
<1>5. /\ \A k \in Int : Weekday(OD(k)) = od
      /\ \A d \in Int : Weekday(d) = od => \E k \in Int : d = OD(k)
  BY <1>2, <1>3, SameWeekday
<1>6. /\ \A k \in Int : Weekday(CD(k)) = cd
      /\ \A d \in Int : Weekday(d) = cd => \E k \in Int : d = CD(k)
  BY <1>2, <1>3, SameWeekday
<1>7. table.open = table.close <=> od = cd /\ oa = ca
  BY DEF Tables, Weekly
<1>8. DaysAround(local) = days /\ \A d \in days : d \in Int
  BY <1>2 DEF DaysAround
<1>9. InWeek(table, local, days) <=>
        \/ table.open = table.close
        \/ \E d \in days :
             /\ Weekday(d) = od /\ d * D + oa <= local
             /\ \A e \in days : Weekday(e) = cd => e * D + ca <= d * D + oa \/ e * D + ca > local
  <2> DEFINE closings == {e * D + ca : e \in {f \in days : Weekday(f) = cd}}
  <2>1. InWeek(table, local, days) <=>
        \/ table.open = table.close
        \/ \E d \in days :
             /\ Weekday(d) = od /\ d * D + oa <= local
             /\ \A x \in closings : x <= d * D + oa \/ x > local
    BY Zenon DEF InWeek, Weekday
  <2>2. ASSUME NEW d
        PROVE  (\A x \in closings : x <= d * D + oa \/ x > local) <=>
               (\A e \in days : Weekday(e) = cd => e * D + ca <= d * D + oa \/ e * D + ca > local)
    <3> HIDE DEF days, D, ca, oa, cd
    <3> QED OBVIOUS
  <2> HIDE DEF days, D, ca, oa, cd, od, closings
  <2> QED BY <2>1, <2>2
<1>10. /\ n \in 0..(T - 1) /\ o \in 0..(T - 1) /\ c \in 0..(T - 1) /\ B \in Int
       /\ local = B + n
  <2> HIDE DEF D, q, t, w, od, oa, cd, ca
  <2>1. \A i \in 0..6 : i * D >= 0 /\ i * D <= 6 * D
    BY <1>1
  <2>2. w * D \in Int /\ od * D \in Int /\ cd * D \in Int /\ q * D \in Int /\ B = q * D - w * D
    BY <1>1, <1>2, <1>3, <1>4
  <2> QED BY <1>1, <1>2, <1>3, <1>4, <2>1, <2>2
<1>11. \A k \in Int : OD(k) * D + oa = B + o + k * T /\ CD(k) * D + ca = B + c + k * T
  <2> HIDE DEF D, q, w, od, oa, cd, ca
  <2> SUFFICES ASSUME NEW k \in Int
               PROVE  OD(k) * D + oa = B + o + k * T /\ CD(k) * D + ca = B + c + k * T
    OBVIOUS
  <2> QED BY <1>1, <1>2, <1>3, <1>4
<1>12. /\ KO \in SUBSET Int /\ KC \in SUBSET Int /\ 0 \in KO /\ 0 \in KC
       /\ n < o => -1 \in KO
       /\ n < c => -1 \in KC
  <2> HIDE DEF D, q, t, w, od, oa, cd, ca
  <2>1. n < o => w <= od
    <3> SUFFICES ASSUME od < w PROVE o <= n
      BY <1>3, <1>4, <1>10
    <3>1. od * D + D <= w * D
      <4>1. (od + 1) * D <= w * D
        BY <1>1, <1>3, <1>4
      <4> QED BY <1>1, <1>3, <1>4, <4>1
    <3> QED BY <1>1, <1>2, <1>3, <1>4, <3>1
  <2>2. n < c => w <= cd
    <3> SUFFICES ASSUME cd < w PROVE c <= n
      BY <1>3, <1>4, <1>10
    <3>1. cd * D + D <= w * D
      <4>1. (cd + 1) * D <= w * D
        BY <1>1, <1>3, <1>4
      <4> QED BY <1>1, <1>3, <1>4, <4>1
    <3> QED BY <1>1, <1>2, <1>3, <1>4, <3>1
  <2> HIDE DEF n, o, c
  <2> QED BY <1>2, <1>3, <1>4, <2>1, <2>2
<1>13. o = c <=> table.open = table.close
  <2>1. o = c => od = cd /\ oa = ca
    <3>1. ASSUME o = c PROVE od = cd /\ oa = ca
      <4> HIDE DEF D, od, oa, cd, ca
      <4>1. o \in Int /\ o \div D = od /\ o \div D = cd
        <5>1. o \in Int /\ od * D <= o /\ o < od * D + D
          BY <1>1, <1>3
        <5>2. cd * D <= o /\ o < cd * D + D
          BY <1>1, <1>3, <3>1
        <5> HIDE DEF o, c
        <5>3. \A d \in Int : d * D <= o /\ o < d * D + D <=> d = o \div D
          BY <1>1, <5>1, DayOf
        <5> QED BY <1>3, <5>1, <5>2, <5>3
      <4> QED BY <1>1, <1>3, <3>1, <4>1
    <3> QED BY <3>1
  <2> HIDE DEF D
  <2> QED BY <1>7, <2>1
<1> HIDE DEF D, T, q, t, w, od, oa, cd, ca, n, o, c, B, days, OD, CD
<1>14. (\E d \in days :
          /\ Weekday(d) = od /\ d * D + oa <= local
          /\ \A e \in days : Weekday(e) = cd => e * D + ca <= d * D + oa \/ e * D + ca > local)
       <=> \E k \in KO : /\ o + k * T <= n
                         /\ \A l \in KC : c + l * T <= o + k * T \/ c + l * T > n
  <2> DEFINE P(x) == \A e \in days : Weekday(e) = cd => e * D + ca <= x \/ e * D + ca > local
             Q(x) == \A l \in KC : c + l * T <= x \/ c + l * T > n
  <2>1. \A k \in Int : k * T \in Int
    BY <1>1
  <2>2. ASSUME NEW k \in Int PROVE P(B + o + k * T) <=> Q(o + k * T)
    <3>1. ASSUME NEW l \in Int
          PROVE  CD(l) * D + ca <= B + o + k * T \/ CD(l) * D + ca > local <=>
                 c + l * T <= o + k * T \/ c + l * T > n
      BY <1>10, <1>11, <2>1
    <3>2. P(B + o + k * T) =>
            \A l \in KC : CD(l) * D + ca <= B + o + k * T \/ CD(l) * D + ca > local
      BY <1>6
    <3>3. (\A l \in KC : CD(l) * D + ca <= B + o + k * T \/ CD(l) * D + ca > local) =>
            P(B + o + k * T)
      BY <1>6, <1>8
    <3> HIDE DEF P
    <3> QED BY <3>1, <3>2, <3>3
  <2>3. ASSUME NEW k \in Int PROVE OD(k) * D + oa <= local <=> o + k * T <= n
    BY <1>10, <1>11, <2>1
  <2>4. (\E d \in days : Weekday(d) = od /\ d * D + oa <= local /\ P(d * D + oa)) <=>
        \E k \in KO : OD(k) * D + oa <= local /\ P(OD(k) * D + oa)
    <3> HIDE DEF P
    <3> QED BY <1>5, <1>8
  <2> HIDE DEF P, Q
  <2>5. (\E k \in KO : OD(k) * D + oa <= local /\ P(OD(k) * D + oa)) <=>
        \E k \in KO : o + k * T <= n /\ Q(o + k * T)
    BY <1>11, <2>2, <2>3
  <2> QED BY <2>4, <2>5 DEF P, Q
<1>15. CASE o # c
  <2> HIDE DEF KO, KC
  <2>1. (\E k \in KO : /\ o + k * T <= n
                       /\ \A l \in KC : c + l * T <= o + k * T \/ c + l * T > n)
         <=> \/ o < c /\ n >= o /\ n < c
             \/ o > c /\ (n >= o \/ n < c)
    BY <1>1, <1>10, <1>12, <1>15, WeekHours
  <2>2. InWeek(table, local, days) <=>
               \/ o = c
               \/ o < c /\ n >= o /\ n < c
               \/ o > c /\ (n >= o \/ n < c)
    BY <1>9, <1>13, <1>14, <1>15, <2>1, Zenon
  <2> QED BY <1>8, <2>2 DEF D, T, q, t, w, od, oa, cd, ca, n, o, c, WeekMinutes
<1>16. CASE o = c
  <2>1. InWeek(table, local, days)
    BY <1>9, <1>13, <1>16
  <2> QED BY <1>8, <1>16, <2>1 DEF D, od, oa, cd, ca, o, c, WeekMinutes
<1> QED BY <1>15, <1>16

----------------------------------------------------------------------------

\* is_open_at answers what the table says, for every accepted table and every minute.
THEOREM OpenIsAsWritten ==
  \A table \in Tables : Accepts(table) => \A m \in Int : IsOpenAt(table, m) <=> OpenAsWritten(table, m)
<1> SUFFICES ASSUME NEW table \in Tables, Accepts(table), NEW m \in Int
             PROVE  IsOpenAt(table, m) <=> OpenAsWritten(table, m)
  OBVIOUS
<1> DEFINE local == Local(table.zone, m)
<1>1. local \in Int
  <2>1. table.zone \in DOMAIN Zones
    BY DEF Accepts
  <2>2. Zones[table.zone] \in [before : Int, after : Int, change : Int]
    BY <2>1, CalendarAssumption
  <2> QED BY <2>2 DEF Local
<1>2. table.dates \subseteq Int
  BY DEF Tables
<1> DEFINE date  == TradingDate(table, local)
           t     == local % DayLength
           now   == WeekMinutes(Weekday(local \div DayLength), t)
           opens  == WeekMinutes(table.open.day, table.open.at)
           closes == WeekMinutes(table.close.day, table.close.at)
           hours == \/ opens = closes
                    \/ opens < closes /\ now >= opens /\ now < closes
                    \/ opens > closes /\ (now >= opens \/ now < closes)
<1>3. IsOpenAt(table, m) <=>
        /\ date \notin table.dates /\ date % YearDays \notin table.yearly
        /\ \A b \in table.breaks : ~InDailySpan(t, b.start, b.end)
        /\ hours
  BY DEF IsOpenAt, Weekday
<1>4. OpenAsWritten(table, m) <=>
        /\ ~OnClosedDay(table, local, DaysAround(local)) /\ ~OnBreak(table, local, DaysAround(local))
        /\ InWeek(table, local, DaysAround(local))
  BY DEF OpenAsWritten, DaysAround
<1> HIDE DEF local
<1>5. OnClosedDay(table, local, DaysAround(local)) <=>
        date \in table.dates \/ date % YearDays \in table.yearly
  BY <1>1, <1>2, ClosedDays
<1>6. OnBreak(table, local, DaysAround(local)) <=>
        \E b \in table.breaks : InDailySpan(t, b.start, b.end)
  BY <1>1, Breaks
<1>7. InWeek(table, local, DaysAround(local)) <=> hours
  BY <1>1, Weeks
<1> HIDE DEF hours, date, t
<1> QED BY <1>3, <1>4, <1>5, <1>6, <1>7

----------------------------------------------------------------------------
(* The sub-ranges. *)

Merging  == INSTANCE Induction WITH Op <- Merge, Base <- <<>>
Sweeping == INSTANCE Induction WITH Op <- Sweep, Base <- [ranges |-> <<>>, cursor |-> window.from]
Opening  == INSTANCE Induction WITH Op <- KeepOpen, Base <- <<>>
Aligning == INSTANCE Induction WITH Op <- KeepAligned, Base <- <<>>

Gaps  == [from : Int, to : Int, whole : BOOLEAN]
Spans == [from : Int, to : Int]

----------------------------------------------------------------------------
(* Sorting. *)

LEMMA LessOrders ==
  /\ \A a \in Gaps : ~Less(a, a)
  /\ \A a, b, c \in Gaps : Less(a, b) /\ Less(b, c) => Less(a, c)
  /\ \A a, b \in Gaps : a # b => Less(a, b) \/ Less(b, a)
<1>1. \A a, b \in Gaps : a.from = b.from /\ a.to = b.to /\ a.whole = b.whole => a = b
  BY DEF Gaps
<1>2. \A a \in Gaps : a.from \in Int /\ a.to \in Int /\ a.whole \in BOOLEAN
  BY DEF Gaps
<1> QED BY <1>1, <1>2 DEF Less

Rank(S, s) == Cardinality({t \in S : Less(t, s)})

LEMMA RankGrows ==
  ASSUME NEW S \in SUBSET Gaps, IsFiniteSet(S), NEW a \in S, NEW b \in S, Less(a, b)
  PROVE  /\ Rank(S, a) \in Nat /\ Rank(S, b) \in Nat
         /\ Rank(S, a) < Rank(S, b)
<1> DEFINE A == {t \in S : Less(t, a)}
           B == {t \in S : Less(t, b)}
<1>1. a \in Gaps /\ b \in Gaps /\ \A t \in S : t \in Gaps
  OBVIOUS
<1>2. A \in SUBSET B
  BY <1>1, LessOrders
<1>3. a \in B /\ a \notin A
  BY <1>1, LessOrders
<1>4. IsFiniteSet(B) /\ IsFiniteSet(A)
  BY FS_Subset
<1> HIDE DEF A, B
<1>5. Cardinality(A) \in Nat /\ Cardinality(B) \in Nat
  BY <1>4, FS_CardinalityType
<1>6. Cardinality(A) <= Cardinality(B) /\ Cardinality(A) # Cardinality(B)
  BY <1>2, <1>3, <1>4, FS_Subset
<1>7. Cardinality(A) < Cardinality(B)
  BY <1>5, <1>6
<1>8. Rank(S, a) = Cardinality(A) /\ Rank(S, b) = Cardinality(B)
  BY DEF Rank, A, B
<1> QED BY <1>5, <1>7, <1>8

LEMMA RankBounds ==
  ASSUME NEW S \in SUBSET Gaps, IsFiniteSet(S), NEW a \in S
  PROVE  Rank(S, a) \in 0..(Cardinality(S) - 1)
<1> DEFINE A == {t \in S : Less(t, a)}
<1>1. a \in Gaps
  OBVIOUS
<1>2. A \in SUBSET S /\ a \notin A
  BY <1>1, LessOrders
<1> HIDE DEF A
<1>3. IsFiniteSet(A)
  BY <1>2, FS_Subset
<1>4. Cardinality(A) \in Nat /\ Cardinality(S) \in Nat
  BY <1>3, FS_CardinalityType
<1>5. Cardinality(A) <= Cardinality(S) /\ Cardinality(A) # Cardinality(S)
  BY <1>2, <1>3, FS_Subset
<1>6. Rank(S, a) = Cardinality(A)
  BY DEF Rank, A
<1> QED BY <1>4, <1>5, <1>6

\* s holds the gaps of S once each, in order.
Lists(s, S) ==
  /\ DOMAIN s = 1..Cardinality(S) /\ Cardinality(S) \in Nat
  /\ s \in Seq(S)
  /\ \A x \in S : \E i \in DOMAIN s : s[i] = x
  /\ \A i, j \in DOMAIN s : i < j => Less(s[i], s[j])

LEMMA SortedLists ==
  ASSUME NEW S \in SUBSET Gaps, IsFiniteSet(S)
  PROVE  Lists(Sorted(S), S)
<1> DEFINE n == Cardinality(S)
           f == [x \in S |-> Rank(S, x)]
<1>1. n \in Nat
  BY FS_CardinalityType
<1>2. \A x, y \in S : x # y => Less(x, y) \/ Less(y, x)
  BY LessOrders
<1>3. \A x, y \in S : x # y => Rank(S, x) # Rank(S, y)
  <2> SUFFICES ASSUME NEW x \in S, NEW y \in S, x # y PROVE Rank(S, x) # Rank(S, y)
    OBVIOUS
  <2>1. CASE Less(x, y)
    BY <2>1, RankGrows
  <2>2. CASE Less(y, x)
    BY <2>2, RankGrows
  <2> QED BY <1>2, <2>1, <2>2
<1>4. f \in [S -> 0..(n - 1)]
  BY RankBounds
<1>5. f \in Injection(S, 0..(n - 1))
  BY <1>3, <1>4 DEF Injection, IsInjective
<1>6. IsFiniteSet(0..(n - 1)) /\ Cardinality(0..(n - 1)) = n
  <2>1. PICK last \in Int : last = n - 1
    BY <1>1
  <2>2. IsFiniteSet(0..last) /\ Cardinality(0..last) = IF 0 > last THEN 0 ELSE last - 0 + 1
    BY FS_Interval
  <2>3. Cardinality(0..last) = n
    BY <1>1, <2>1, <2>2
  <2> QED BY <2>1, <2>2, <2>3
<1>7. f \in Surjection(S, 0..(n - 1))
  <2> HIDE DEF f
  <2> QED BY <1>5, <1>6, FS_Injection, Zenon
<1>8. \A k \in 0..(n - 1) : \E x \in S : Rank(S, x) = k
  BY <1>7 DEF Surjection
<1> DEFINE at(k) == CHOOSE x \in S : Rank(S, x) = k - 1
<1>9. Sorted(S) = [k \in 1..n |-> at(k)]
  BY DEF Sorted, Rank
<1>10. ASSUME NEW k \in 1..n PROVE at(k) \in S /\ Rank(S, at(k)) = k - 1
  <2>1. k - 1 \in 0..(n - 1)
    BY <1>1
  <2>2. \E x \in S : Rank(S, x) = k - 1
    BY <1>8, <2>1
  <2> QED BY <2>2
<1> HIDE DEF n, at
<1>11. /\ DOMAIN Sorted(S) = 1..n
       /\ \A k \in 1..n : Sorted(S)[k] \in S /\ Rank(S, Sorted(S)[k]) = k - 1
       /\ Sorted(S) \in Seq(S)
  <2>1. Sorted(S) \in [1..n -> S]
    BY <1>9, <1>10
  <2> QED BY <1>1, <1>9, <1>10, <2>1
<1>12. \A x \in S : \E i \in 1..n : Sorted(S)[i] = x
  <2> SUFFICES ASSUME NEW x \in S PROVE \E i \in 1..n : Sorted(S)[i] = x
    OBVIOUS
  <2> DEFINE k == Rank(S, x) + 1
  <2>1. k \in 1..n /\ k - 1 = Rank(S, x)
    <3>1. Rank(S, x) \in 0..(n - 1)
      BY RankBounds DEF n
    <3> QED BY <1>1, <3>1
  <2>2. Sorted(S)[k] \in S /\ Rank(S, Sorted(S)[k]) = Rank(S, x)
    BY <1>11, <2>1
  <2> HIDE DEF k
  <2>3. Sorted(S)[k] = x
    BY <1>3, <2>2
  <2> QED BY <2>1, <2>3
<1>13. ASSUME NEW i \in 1..n, NEW j \in 1..n, i < j PROVE Less(Sorted(S)[i], Sorted(S)[j])
  <2> DEFINE x == Sorted(S)[i]
             y == Sorted(S)[j]
  <2>1. x \in S /\ y \in S /\ Rank(S, x) = i - 1 /\ Rank(S, y) = j - 1
    BY <1>11
  <2> HIDE DEF x, y
  <2>2. x # y
    BY <1>1, <1>13, <2>1
  <2>3. ~Less(y, x)
    <3> SUFFICES ASSUME Less(y, x) PROVE FALSE
      OBVIOUS
    <3>1. Rank(S, y) < Rank(S, x)
      BY <2>1, RankGrows
    <3> QED BY <1>13, <2>1, <3>1
  <2>4. Less(x, y)
    BY <1>2, <2>1, <2>2, <2>3
  <2> QED BY <2>4 DEF x, y
<1> QED BY <1>1, <1>11, <1>12, <1>13 DEF Lists, n

----------------------------------------------------------------------------
(* Runs of minutes. *)

LEMMA FiniteImage ==
  ASSUME NEW S, IsFiniteSet(S), NEW f, DOMAIN f = S
  PROVE  IsFiniteSet({f[x] : x \in S})
<1> DEFINE T == {f[x] : x \in S}
           g == [x \in S |-> f[x]]
<1>1. g \in Surjection(S, T)
  BY DEF Surjection
<1> HIDE DEF g
<1>2. IsFiniteSet(T)
  BY <1>1, FS_Surjection
<1> QED BY <1>2

LEMMA RunsAreFinite ==
  ASSUME NEW S, IsFiniteSet(S)
  PROVE  IsFiniteSet(Runs(S))
<1> DEFINE f == [p \in S \X S |-> Span(p[1], p[2] + 1)]
           T == {f[p] : p \in S \X S}
<1>1. IsFiniteSet(S \X S)
  BY FS_Product
<1>2. DOMAIN f = S \X S
  OBVIOUS
<1>3. IsFiniteSet(T)
  <2> HIDE DEF f
  <2> QED BY <1>1, <1>2, FiniteImage
<1>4. \A a, b \in S : Span(a, b + 1) \in T
  <2> TAKE a \in S, b \in S
  <2>1. <<a, b>> \in S \X S /\ f[<<a, b>>] = Span(a, b + 1)
    OBVIOUS
  <2> HIDE DEF f
  <2> QED BY <2>1
<1>5. Runs(S) \in SUBSET T
  BY <1>4 DEF Runs
<1> HIDE DEF T
<1> QED BY <1>3, <1>5, FS_Subset

\* A run is a span of minutes of the set.
LEMMA RunsInside ==
  ASSUME NEW S \in SUBSET Nat, NEW r \in Runs(S)
  PROVE  r \in Spans /\ r.from \in S /\ r.from < r.to /\ Inside(r) \subseteq S
<1>1. PICK a \in S, b \in S : r = Span(a, b + 1)
  BY DEF Runs
<1>2. a \in Nat /\ b \in Nat
  OBVIOUS
<1>3. r.from = a /\ r.to = b + 1 /\ r \in Spans
  BY <1>1, <1>2 DEF Span, Spans
<1> QED BY <1>3 DEF Runs

\* Every minute of the set is in one of its runs.
LEMMA RunsCover ==
  ASSUME NEW K \in Nat, NEW S \in SUBSET (0..K), NEW m \in S
  PROVE  \E r \in Runs(S) : m \in Inside(r)
<1>0. m \in 0..K /\ m \in Nat /\ m <= K /\ \A x \in S : x \in 0..K
  OBVIOUS
<1> DEFINE B == {k \in Nat : m - k - 1 \notin S}
           A == {k \in Nat : m + k + 1 \notin S}
<1>1. m \in B /\ K \in A
  BY <1>0
<1>2. PICK b \in B : \A k \in B : b <= k
  <2>1. B \in SUBSET Nat /\ B # {}
    BY <1>1
  <2> HIDE DEF B
  <2> QED BY <2>1, Merging!LeastNat
<1>3. PICK a \in A : \A k \in A : a <= k
  <2>1. A \in SUBSET Nat /\ A # {}
    BY <1>1
  <2> HIDE DEF A
  <2> QED BY <2>1, Merging!LeastNat
<1>4. b \in Nat /\ a \in Nat /\ m - b - 1 \notin S /\ m + a + 1 \notin S
  OBVIOUS
<1>5. ASSUME NEW x \in (m - b)..(m + a) PROVE x \in S
  <2>1. CASE x = m
    BY <2>1
  <2>2. CASE x < m
    <3> DEFINE k == m - x - 1
    <3>1. k \in Nat /\ ~(b <= k) /\ m - k - 1 = x
      BY <1>0, <1>4, <2>2
    <3>2. k \notin B
      BY <1>2, <3>1
    <3> QED BY <3>1, <3>2
  <2>3. CASE x > m
    <3> DEFINE k == x - m - 1
    <3>1. k \in Nat /\ ~(a <= k) /\ m + k + 1 = x
      BY <1>0, <1>4, <2>3
    <3>2. k \notin A
      BY <1>3, <3>1
    <3> QED BY <3>1, <3>2
  <2> QED BY <1>0, <1>4, <2>1, <2>2, <2>3
<1> DEFINE r == Span(m - b, m + a + 1)
<1>6. r.from = m - b /\ r.to = m + a + 1
  BY DEF Span
<1>7. m - b \in S /\ m + a \in S
  BY <1>0, <1>4, <1>5
<1>8. Inside(r) = (m - b)..(m + a)
  BY <1>0, <1>4, <1>6 DEF Inside
<1>9. r \in Runs(S)
  <2>1. r \in {Span(x, y + 1) : x \in S, y \in S}
    BY <1>7
  <2>2. r.from < r.to /\ Inside(r) \subseteq S /\ r.from - 1 \notin S /\ r.to \notin S
    BY <1>0, <1>4, <1>5, <1>6, <1>8
  <2> HIDE DEF r
  <2> QED BY <2>1, <2>2 DEF Runs
<1>10. m \in Inside(r)
  BY <1>0, <1>4, <1>8
<1> QED BY <1>9, <1>10

----------------------------------------------------------------------------
(* The gaps of a leg. *)

Proper == {g \in Gaps : g.from \in Nat /\ g.from < g.to}

RequestOK ==
  /\ legs \in LegFeeds /\ window \in Windows /\ policy \in Policies /\ tf \in Timeframes
  /\ open \in SUBSET Minutes

LEMMA RequestFacts ==
  ASSUME RequestOK
  PROVE  /\ Horizon \in Nat /\ Horizon > 0
         /\ DayLength \in Nat \ {0} /\ tf \in Nat \ {0} /\ DayLength % tf = 0
         /\ window \in Spans /\ window.from \in Nat /\ window.to \in Nat
         /\ window.from < window.to /\ window.to <= Horizon
         /\ legs \in Seq(Feeds) /\ Len(legs) \in {1, 2}
         /\ \A i \in DOMAIN legs : /\ legs[i] \in Feeds
                                   /\ legs[i].missing \subseteq Days
                                   /\ legs[i].holes \subseteq Minutes
         /\ \A m \in open : m \in 0..(Horizon - 1)
<1>1. window \in [from : Nat, to : Nat] /\ window.from < window.to /\ window.to <= Horizon
  BY GapPolicyAssumption DEF RequestOK
<1>2. Horizon \in Nat /\ tf \in Nat \ {0} /\ DayLength % tf = 0 /\ DayLength \in Nat \ {0}
  BY GapPolicyAssumption, CalendarAssumption DEF RequestOK
<1>3. window \in Spans /\ window.from \in Nat /\ window.to \in Nat
  BY <1>1 DEF Spans
<1>4. legs \in Seq(Feeds) /\ Len(legs) \in {1, 2}
  BY GapPolicyAssumption DEF RequestOK
<1>5. \A i \in DOMAIN legs : legs[i] \in Feeds
  BY <1>4
<1>6. \A i \in DOMAIN legs : legs[i].missing \subseteq Days /\ legs[i].holes \subseteq Minutes
  BY <1>5 DEF Feeds
<1>7. \A m \in open : m \in 0..(Horizon - 1)
  BY DEF RequestOK, Minutes
<1> QED BY <1>1, <1>2, <1>3, <1>4, <1>5, <1>6, <1>7

\* The sets Detect sorts.
LostDays(feed) ==
  {Gap(Span(d * DayLength, (d + 1) * DayLength), TRUE) :
     d \in {e \in feed.missing : \E m \in Inside(window) : Day(m) = e /\ m \in Checked}}
LostMinutes(feed) ==
  {Gap(Span(m, m + 1), FALSE) :
     m \in {n \in Inside(window) \cap feed.holes \cap Checked : Day(n) \notin feed.missing}}

LEMMA DayFacts ==
  ASSUME RequestOK, NEW m \in Nat
  PROVE  /\ Day(m) \in Nat
         /\ m \in (Day(m) * DayLength)..((Day(m) + 1) * DayLength - 1)
         /\ \A d \in Int : m \in (d * DayLength)..((d + 1) * DayLength - 1) => d = Day(m)
<1>1. DayLength \in Nat \ {0}
  BY RequestFacts
<1> QED BY <1>1 DEF Day

LEMMA GapFields ==
  \A r, whole : /\ Gap(r, whole).from = r.from /\ Gap(r, whole).to = r.to
                /\ Gap(r, whole).whole = whole
BY DEF Gap

LEMMA SpanFields == \A a, b : Span(a, b).from = a /\ Span(a, b).to = b
BY DEF Span

LEMMA GapInside ==
  ASSUME NEW r, NEW whole PROVE Inside(Gap(r, whole)) = Inside(r)
BY DEF Gap, Inside

LEMMA LostDaysFacts ==
  ASSUME RequestOK, NEW feed \in Feeds
  PROVE  /\ IsFiniteSet(LostDays(feed)) /\ LostDays(feed) \subseteq Proper
         /\ \A g \in LostDays(feed) :
              /\ g.whole
              /\ \A m \in Inside(g) : m \in Minutes /\ Day(m) \in feed.missing
              /\ \E d \in Days : g.from = d * DayLength /\ g.to = (d + 1) * DayLength
<1> DEFINE D == {e \in feed.missing : \E m \in Inside(window) : Day(m) = e /\ m \in Checked}
           f == [d \in D |-> Gap(Span(d * DayLength, (d + 1) * DayLength), TRUE)]
<1>0. DayLength \in Nat \ {0} /\ Horizon \in Nat /\ feed.missing \subseteq Days
  BY RequestFacts DEF Feeds
<1>1. \A d \in Days : d \in Nat /\ d * DayLength \in Nat
                      /\ (d + 1) * DayLength = d * DayLength + DayLength
                      /\ (d + 1) * DayLength <= Horizon
  BY <1>0 DEF Days
<1>2. IsFiniteSet(Days)
  <2>1. Horizon \div DayLength - 1 \in Int
    BY <1>0
  <2> QED BY <2>1, FS_Interval DEF Days
<1>3. IsFiniteSet(D)
  BY <1>0, <1>2, FS_Subset
<1>4. LostDays(feed) = {f[d] : d \in D}
  BY DEF LostDays
<1>5. IsFiniteSet(LostDays(feed))
  <2>1. DOMAIN f = D
    OBVIOUS
  <2> HIDE DEF f, D
  <2> QED BY <1>3, <1>4, <2>1, FiniteImage
<1>6. ASSUME NEW g \in LostDays(feed)
      PROVE  /\ g \in Proper /\ g.whole
             /\ \A m \in Inside(g) : m \in Minutes /\ Day(m) \in feed.missing
             /\ \E d \in Days : g.from = d * DayLength /\ g.to = (d + 1) * DayLength
  <2>1. PICK d \in feed.missing : g = Gap(Span(d * DayLength, (d + 1) * DayLength), TRUE)
    BY DEF LostDays
  <2>2. d \in Days /\ d \in Nat /\ d * DayLength \in Nat
        /\ (d + 1) * DayLength = d * DayLength + DayLength /\ (d + 1) * DayLength <= Horizon
    BY <1>0, <1>1
  <2>3. g.from = d * DayLength /\ g.to = (d + 1) * DayLength /\ g.whole
    BY <2>1 DEF Gap, Span
  <2>4. g \in Proper
    <3>1. g = [from |-> d * DayLength, to |-> (d + 1) * DayLength, whole |-> TRUE]
      BY <2>1 DEF Gap, Span
    <3>2. (d + 1) * DayLength \in Int /\ d * DayLength < (d + 1) * DayLength
      BY <1>0, <2>2
    <3>3. g \in Gaps
      BY <2>2, <3>1, <3>2 DEF Gaps
    <3> QED BY <2>2, <2>3, <3>2, <3>3 DEF Proper
  <2>5. ASSUME NEW m \in Inside(g) PROVE m \in Minutes /\ Day(m) \in feed.missing
    <3>1. m \in (d * DayLength)..((d + 1) * DayLength - 1)
      BY <2>3 DEF Inside
    <3>2. m \in Nat /\ m < Horizon
      BY <1>0, <2>2, <3>1
    <3>3. Day(m) = d
      BY <2>2, <3>1, <3>2, DayFacts
    <3> QED BY <1>0, <3>2, <3>3 DEF Minutes
  <2> QED BY <2>2, <2>3, <2>4, <2>5
<1> QED BY <1>5, <1>6

LEMMA LostMinutesFacts ==
  ASSUME RequestOK, NEW feed \in Feeds
  PROVE  /\ IsFiniteSet(LostMinutes(feed)) /\ LostMinutes(feed) \subseteq Proper
         /\ \A g \in LostMinutes(feed) :
              ~g.whole /\ \A m \in Inside(g) : m \in Minutes /\ m \in feed.holes
<1> DEFINE D == {n \in Inside(window) \cap feed.holes \cap Checked : Day(n) \notin feed.missing}
           f == [m \in D |-> Gap(Span(m, m + 1), FALSE)]
<1>0. Horizon \in Nat /\ feed.holes \subseteq Minutes
  BY RequestFacts DEF Feeds
<1>1. IsFiniteSet(Minutes)
  <2>1. Horizon - 1 \in Int
    BY <1>0
  <2> QED BY <2>1, FS_Interval DEF Minutes
<1>2. D \in SUBSET Minutes
  BY <1>0
<1>3. IsFiniteSet(D)
  BY <1>1, <1>2, FS_Subset
<1>4. LostMinutes(feed) = {f[m] : m \in D}
  BY DEF LostMinutes
<1>5. IsFiniteSet(LostMinutes(feed))
  <2>1. DOMAIN f = D
    OBVIOUS
  <2> HIDE DEF f, D
  <2> QED BY <1>3, <1>4, <2>1, FiniteImage
<1>6. ASSUME NEW g \in LostMinutes(feed)
      PROVE  /\ g \in Proper /\ ~g.whole
             /\ \A m \in Inside(g) : m \in Minutes /\ m \in feed.holes
  <2>1. PICK m \in feed.holes : g = Gap(Span(m, m + 1), FALSE)
    BY DEF LostMinutes
  <2>2. m \in Nat /\ m \in Minutes
    BY <1>0 DEF Minutes
  <2>3. g = [from |-> m, to |-> m + 1, whole |-> FALSE]
    BY <2>1 DEF Gap, Span
  <2>4. g \in Proper /\ ~g.whole
    BY <2>2, <2>3 DEF Proper, Gaps
  <2>5. Inside(g) = {m}
    BY <2>2, <2>3 DEF Inside
  <2> QED BY <2>2, <2>4, <2>5
<1> QED BY <1>5, <1>6

\* What the detector reports of one leg.
LEMMA Detected ==
  ASSUME RequestOK, NEW feed \in Feeds
  PROVE  /\ Lists(Detect(feed), LostDays(feed) \cup LostMinutes(feed))
         /\ Detect(feed) \in Seq(Proper)
         /\ IsFiniteSet(LostDays(feed) \cup LostMinutes(feed))
         /\ LostDays(feed) \cup LostMinutes(feed) \subseteq Proper
<1> DEFINE S == LostDays(feed) \cup LostMinutes(feed)
<1>1. IsFiniteSet(S) /\ S \subseteq Proper
  BY LostDaysFacts, LostMinutesFacts, FS_Union
<1>2. Detect(feed) = Sorted(S)
  BY DEF Detect, LostDays, LostMinutes
<1>3. S \in SUBSET Gaps
  BY <1>1 DEF Proper
<1> HIDE DEF S
<1>4. Lists(Detect(feed), S)
  BY <1>1, <1>2, <1>3, SortedLists
<1>5. Detect(feed) \in Seq(Proper)
  BY <1>1, <1>4 DEF Lists
<1> QED BY <1>1, <1>4, <1>5 DEF S

\* The detector misses no minute of the window that it checks.
LEMMA DetectCovers ==
  ASSUME RequestOK, NEW feed \in Feeds, NEW m \in Inside(window) \cap Checked,
         m \in feed.holes \/ Day(m) \in feed.missing
  PROVE  m \in Covered(Detect(feed))
<1>0. m \in Nat
  BY RequestFacts DEF Inside
<1>1. \E g \in LostDays(feed) \cup LostMinutes(feed) : m \in Inside(g)
  <2>1. CASE Day(m) \in feed.missing
    <3> DEFINE g == Gap(Span(Day(m) * DayLength, (Day(m) + 1) * DayLength), TRUE)
    <3>1. g \in LostDays(feed)
      BY <2>1 DEF LostDays
    <3>2. m \in Inside(g)
      BY <1>0, DayFacts DEF Inside, Gap, Span
    <3> QED BY <3>1, <3>2
  <2>2. CASE m \in feed.holes /\ Day(m) \notin feed.missing
    <3> DEFINE g == Gap(Span(m, m + 1), FALSE)
    <3>1. g \in LostMinutes(feed)
      BY <2>2 DEF LostMinutes
    <3>2. m \in Inside(g)
      BY <1>0 DEF Inside, Gap, Span
    <3> QED BY <3>1, <3>2
  <2> QED BY <2>1, <2>2
<1>2. \A g \in LostDays(feed) \cup LostMinutes(feed) :
        \E i \in DOMAIN Detect(feed) : Detect(feed)[i] = g
  BY Detected DEF Lists
<1> QED BY <1>1, <1>2 DEF Covered

----------------------------------------------------------------------------
(* The joint manifest of two legs. *)

LEMMA AppendFacts ==
  ASSUME NEW T, NEW v \in Seq(T), NEW x \in T
  PROVE  LET w == Append(v, x)
         IN  /\ w \in Seq(T) /\ w # <<>> /\ Len(w) = Len(v) + 1 /\ w[Len(w)] = x
             /\ Len(w) \in DOMAIN w
             /\ \A i \in DOMAIN v : i \in DOMAIN w /\ w[i] = v[i]
             /\ \A i \in DOMAIN w : i \in DOMAIN v \/ i = Len(w)
<1> DEFINE w == Append(v, x)
<1>1. w \in Seq(T) /\ Len(w) = Len(v) + 1 /\ w[Len(v) + 1] = x /\ Len(v) \in Nat
  OBVIOUS
<1>2. \A i \in 1..Len(v) : w[i] = v[i]
  OBVIOUS
<1>3. DOMAIN w = 1..(Len(v) + 1) /\ DOMAIN v = 1..Len(v)
  OBVIOUS
<1> HIDE DEF w
<1>4. w # <<>>
  BY <1>1
<1>5. Len(w) \in DOMAIN w /\ \A i \in DOMAIN v : i \in DOMAIN w
  BY <1>1, <1>3
<1>6. \A i \in DOMAIN w : i \in DOMAIN v \/ i = Len(w)
  BY <1>1, <1>3
<1>7. w[Len(w)] = x
  BY <1>1
<1> QED BY <1>1, <1>2, <1>3, <1>4, <1>5, <1>6, <1>7 DEF w

LEMMA MergeStep ==
  ASSUME NEW v \in Seq(Proper), NEW x \in Proper,
         v # <<>> => v[Len(v)].from <= x.from
  PROVE  /\ Merge(v, x) \in Seq(Proper) /\ Merge(v, x) # <<>>
         /\ Merge(v, x)[Len(Merge(v, x))].from <= x.from
         /\ Covered(Merge(v, x)) = Covered(v) \cup Inside(x)
<1>0. x \in Gaps /\ x.from \in Nat /\ x.to \in Int /\ x.from < x.to /\ x.whole \in BOOLEAN
  BY DEF Proper, Gaps
<1>1. CASE v # <<>> /\ x.from <= Last(v).to
  <2> DEFINE l == v[Len(v)]
             to == IF x.to > l.to THEN x.to ELSE l.to
             g == Gap(Span(l.from, to), l.whole \/ x.whole)
             w == [v EXCEPT ![Len(v)] = g]
  <2>1. Last(v) = l
    BY DEF Last
  <2>2. Len(v) \in DOMAIN v /\ Len(v) \in Nat \ {0} /\ l \in Proper
    BY <1>1
  <2>3. l.from \in Nat /\ l.to \in Int /\ l.from < l.to /\ l.whole \in BOOLEAN
    BY <2>2 DEF Proper, Gaps
  <2>4. to \in Int /\ l.from < to
    BY <1>0, <2>3
  <2>5. g = [from |-> l.from, to |-> to, whole |-> l.whole \/ x.whole]
    BY DEF Gap, Span
  <2>6. g \in Proper
    <3> DEFINE b == l.whole \/ x.whole
    <3>1. b \in BOOLEAN
      OBVIOUS
    <3> HIDE DEF to, l, b
    <3>2. g \in Gaps
      <4>1. [from |-> l.from, to |-> to, whole |-> b] \in Gaps
        BY <2>3, <2>4, <3>1 DEF Gaps
      <4> QED BY <2>5, <4>1 DEF b
    <3> QED BY <2>3, <2>4, <2>5, <3>2 DEF Proper
  <2>7. Inside(g) = Inside(l) \cup Inside(x)
    <3>1. g.from = l.from /\ g.to = to
      BY <2>5
    <3>2. l.from <= x.from /\ x.from <= l.to
      BY <1>1, <2>1
    <3>3. to \in Int /\ x.to <= to /\ l.to <= to /\ (to = x.to \/ to = l.to)
      BY <1>0, <2>3, <2>4
    <3> HIDE DEF g, to, l
    <3>4. Inside(g) = l.from..(to - 1) /\ Inside(l) = l.from..(l.to - 1)
          /\ Inside(x) = x.from..(x.to - 1)
      BY <3>1 DEF Inside
    <3>5. l.from..(to - 1) = (l.from..(l.to - 1)) \cup (x.from..(x.to - 1))
      BY <1>0, <2>3, <3>2, <3>3
    <3> QED BY <3>4, <3>5
  <2>8. Merge(v, x) = w
    BY <1>1, <2>1 DEF Merge
  <2> HIDE DEF g
  <2>9. w \in Seq(Proper) /\ Len(w) = Len(v) /\ w[Len(v)] = g /\ DOMAIN w = DOMAIN v
        /\ \A i \in DOMAIN v : i # Len(v) => w[i] = v[i]
    BY <2>2, <2>6
  <2>10. g.from = l.from
    BY <2>5
  <2>11. Covered(w) = Covered(v) \cup Inside(x)
    <3>1. ASSUME NEW m \in Covered(w) PROVE m \in Covered(v) \cup Inside(x)
      <4>1. PICK i \in DOMAIN w : m \in Inside(w[i])
        BY DEF Covered
      <4>2. CASE i = Len(v)
        BY <2>2, <2>7, <2>9, <4>1, <4>2 DEF Covered
      <4>3. CASE i # Len(v)
        BY <2>9, <4>1, <4>3 DEF Covered
      <4> QED BY <4>2, <4>3
    <3>2. ASSUME NEW m \in Covered(v) PROVE m \in Covered(w)
      <4>1. PICK i \in DOMAIN v : m \in Inside(v[i])
        BY DEF Covered
      <4>2. CASE i = Len(v)
        BY <2>2, <2>7, <2>9, <4>1, <4>2 DEF Covered
      <4>3. CASE i # Len(v)
        BY <2>9, <4>1, <4>3 DEF Covered
      <4> QED BY <4>2, <4>3
    <3>3. ASSUME NEW m \in Inside(x) PROVE m \in Covered(w)
      BY <2>2, <2>7, <2>9 DEF Covered
    <3> QED BY <3>1, <3>2, <3>3
  <2> HIDE DEF w
  <2>12. w # <<>>
    BY <2>2, <2>9
  <2> QED BY <1>1, <2>8, <2>9, <2>10, <2>11, <2>12
<1>2. CASE ~(v # <<>> /\ x.from <= Last(v).to)
  <2> DEFINE w == Append(v, x)
  <2>1. Merge(v, x) = w
    BY <1>2 DEF Merge
  <2>2. /\ w \in Seq(Proper) /\ w # <<>> /\ Len(w) = Len(v) + 1 /\ w[Len(w)] = x
        /\ Len(w) \in DOMAIN w
        /\ \A i \in DOMAIN v : i \in DOMAIN w /\ w[i] = v[i]
        /\ \A i \in DOMAIN w : i \in DOMAIN v \/ i = Len(w)
    BY AppendFacts
  <2>3. Covered(w) = Covered(v) \cup Inside(x)
    <3> HIDE DEF w
    <3>1. ASSUME NEW m \in Covered(w) PROVE m \in Covered(v) \cup Inside(x)
      BY <2>2 DEF Covered
    <3>2. ASSUME NEW m \in Covered(v) PROVE m \in Covered(w)
      BY <2>2 DEF Covered
    <3>3. ASSUME NEW m \in Inside(x) PROVE m \in Covered(w)
      BY <2>2 DEF Covered
    <3> QED BY <3>1, <3>2, <3>3
  <2> HIDE DEF w
  <2> QED BY <1>0, <2>1, <2>2, <2>3
<1> QED BY <1>1, <1>2

\* What Merge has made of the first i spans.
MergedTo(s, i) ==
  {v \in Seq(Proper) : /\ Covered(v) = UNION {Inside(s[j]) : j \in 1..i}
                       /\ v # <<>> => i > 0 /\ v[Len(v)].from <= s[i].from}

LEMMA MergeCovers ==
  ASSUME NEW n \in Nat, NEW s \in Seq(Proper), Len(s) = n,
         \A i, j \in 1..n : i < j => s[i].from <= s[j].from
  PROVE  /\ FoldLeft(Merge, <<>>, s) \in Seq(Proper)
         /\ Covered(FoldLeft(Merge, <<>>, s)) = UNION {Inside(s[j]) : j \in 1..n}
<1> DEFINE W == [i \in 0..n |-> MergedTo(s, i)]
<1>1. <<>> \in MergedTo(s, 0)
  BY DEF MergedTo, Covered
<1>2. ASSUME NEW i \in 1..n, NEW v \in MergedTo(s, i - 1) PROVE Merge(v, s[i]) \in MergedTo(s, i)
  <2>1. v \in Seq(Proper) /\ s[i] \in Proper
    BY DEF MergedTo
  <2>2. v # <<>> => v[Len(v)].from <= s[i].from
    <3> SUFFICES ASSUME v # <<>> PROVE v[Len(v)].from <= s[i].from
      OBVIOUS
    <3>1. i - 1 > 0 /\ v[Len(v)].from <= s[i - 1].from /\ Len(v) \in DOMAIN v
      BY DEF MergedTo
    <3>2. i - 1 \in 1..n /\ i - 1 < i
      BY <3>1
    <3>3. s[i - 1].from <= s[i].from
      BY <3>2
    <3>4. v[Len(v)] \in Proper /\ s[i - 1] \in Proper
      BY <2>1, <3>1, <3>2
    <3>5. v[Len(v)].from \in Nat /\ s[i - 1].from \in Nat /\ s[i].from \in Nat
      BY <2>1, <3>4 DEF Proper
    <3> QED BY <3>1, <3>3, <3>5
  <2> DEFINE w == Merge(v, s[i])
  <2>3. /\ w \in Seq(Proper) /\ w # <<>>
        /\ w[Len(w)].from <= s[i].from
        /\ Covered(w) = Covered(v) \cup Inside(s[i])
    BY <2>1, <2>2, MergeStep
  <2>4. UNION {Inside(s[j]) : j \in 1..i}
           = (UNION {Inside(s[j]) : j \in 1..(i - 1)}) \cup Inside(s[i])
    <3>1. 1..i = 1..(i - 1) \cup {i}
      OBVIOUS
    <3> QED BY <3>1
  <2>5. Covered(w) = UNION {Inside(s[j]) : j \in 1..i}
    BY <2>3, <2>4 DEF MergedTo
  <2> HIDE DEF w
  <2>6. w \in MergedTo(s, i)
    BY <2>3, <2>5 DEF MergedTo
  <2> QED BY <2>6 DEF w
<1>3. Merging!Keeps(W, n, s)
  <2>1. <<>> \in W[0]
    BY <1>1
  <2>2. \A i \in 1..n : \A v \in W[i - 1] : Merge(v, s[i]) \in W[i]
    <3> TAKE i \in 1..n
    <3>1. i \in 0..n /\ i - 1 \in 0..n
      OBVIOUS
    <3>2. W[i] = MergedTo(s, i) /\ W[i - 1] = MergedTo(s, i - 1)
      BY <3>1
    <3> QED BY <1>2, <3>2
  <2> HIDE DEF W
  <2> QED BY <2>1, <2>2 DEF Merging!Keeps
<1>4. DOMAIN s = 1..n
  OBVIOUS
<1>5. Merging!Fold(s) \in W[n]
  <2> HIDE DEF W
  <2> QED BY <1>3, <1>4, Merging!FoldInvariant
<1>6. Merging!Fold(s) = FoldLeft(Merge, <<>>, s)
  BY Zenon DEF Merging!Fold, Merging!MapThenFoldSet, Merging!Top,
               FoldLeft, MapThenFoldSet, Max
<1>7. FoldLeft(Merge, <<>>, s) \in MergedTo(s, n)
  BY <1>5, <1>6
<1> QED BY <1>7 DEF MergedTo

----------------------------------------------------------------------------
(* Closed time and bars. *)

LEMMA ProperFields ==
  ASSUME NEW g \in Proper
  PROVE  g.from \in Nat /\ g.to \in Int /\ g.from < g.to /\ g.whole \in BOOLEAN
BY DEF Proper, Gaps

LEMMA GapIsProper ==
  ASSUME NEW r \in Spans, r.from \in Nat, r.from < r.to, NEW whole \in BOOLEAN
  PROVE  Gap(r, whole) \in Proper
BY DEF Gap, Proper, Gaps, Spans

\* The gaps the runs of a set make under a reason.
RunGaps(S, whole) == {Gap(r, whole) : r \in Runs(S)}

\* The gaps of G are inside S and leave nothing of it out.
Covering(G, S, whole) ==
  /\ IsFiniteSet(G) /\ G \subseteq Proper
  /\ \A g \in G : g.whole = whole /\ g.from \in S /\ Inside(g) \subseteq S
  /\ \A m \in S : \E g \in G : m \in Inside(g)

LEMMA RunGapsFacts ==
  ASSUME NEW K \in Nat, NEW S \in SUBSET (0..K), NEW whole \in BOOLEAN
  PROVE  Covering(RunGaps(S, whole), S, whole)
<1> USE DEF Covering
<1> DEFINE f == [r \in Runs(S) |-> Gap(r, whole)]
<1>0. S \in SUBSET Nat
  OBVIOUS
<1>1. IsFiniteSet(S)
  <2>1. IsFiniteSet(0..K)
    BY FS_Interval
  <2> QED BY <2>1, FS_Subset
<1>2. IsFiniteSet(Runs(S))
  BY <1>1, RunsAreFinite
<1>3. RunGaps(S, whole) = {f[r] : r \in Runs(S)}
  BY DEF RunGaps
<1>4. DOMAIN f = Runs(S)
  OBVIOUS
<1>5. IsFiniteSet(RunGaps(S, whole))
  <2> HIDE DEF f
  <2> QED BY <1>2, <1>3, <1>4, FiniteImage
<1>6. ASSUME NEW g \in RunGaps(S, whole)
      PROVE  g \in Proper /\ g.whole = whole /\ g.from \in S /\ Inside(g) \subseteq S
  <2>1. PICK r \in Runs(S) : g = Gap(r, whole)
    BY DEF RunGaps
  <2>2. r \in Spans /\ r.from \in S /\ r.from < r.to /\ Inside(r) \subseteq S
    BY <1>0, RunsInside
  <2>3. r.from \in Nat
    BY <1>0, <2>2
  <2>4. g \in Proper
    BY <2>1, <2>2, <2>3, GapIsProper
  <2>5. g.whole = whole /\ g.from = r.from /\ Inside(g) = Inside(r)
    BY <2>1, GapFields, GapInside
  <2> QED BY <2>2, <2>4, <2>5
<1>7. ASSUME NEW m \in S PROVE \E g \in RunGaps(S, whole) : m \in Inside(g)
  <2>1. PICK r \in Runs(S) : m \in Inside(r)
    BY RunsCover
  <2>2. Gap(r, whole) \in RunGaps(S, whole) /\ m \in Inside(Gap(r, whole))
    BY <2>1, GapInside DEF RunGaps
  <2> QED BY <2>2
<1> QED BY <1>5, <1>6, <1>7

OpenSet(man) == UNION {RunGaps(Inside(man[i]) \cap open, man[i].whole) : i \in DOMAIN man}

LEMMA OpenSetFacts ==
  ASSUME RequestOK, NEW man \in Seq(Proper)
  PROVE  /\ IsFiniteSet(OpenSet(man)) /\ OpenSet(man) \subseteq Proper
         /\ \A g \in OpenSet(man) :
              \E i \in DOMAIN man : /\ g.whole = man[i].whole
                                    /\ g.from \in Inside(man[i]) \cap open
                                    /\ Inside(g) \subseteq Inside(man[i]) \cap open
         /\ \A m \in Covered(man) \cap open : \E g \in OpenSet(man) : m \in Inside(g)
<1> DEFINE R(i) == RunGaps(Inside(man[i]) \cap open, man[i].whole)
           f == [i \in DOMAIN man |-> R(i)]
<1>1. Horizon \in Nat /\ \A m \in open : m \in 0..Horizon
  BY RequestFacts
<1>2. ASSUME NEW i \in DOMAIN man
      PROVE  /\ IsFiniteSet(R(i)) /\ R(i) \subseteq Proper
             /\ \A g \in R(i) : /\ g.whole = man[i].whole
                                /\ g.from \in Inside(man[i]) \cap open
                                /\ Inside(g) \subseteq Inside(man[i]) \cap open
             /\ \A m \in Inside(man[i]) \cap open : \E g \in R(i) : m \in Inside(g)
  <2>1. Inside(man[i]) \cap open \in SUBSET (0..Horizon)
    BY <1>1
  <2>2. man[i].whole \in BOOLEAN
    BY ProperFields
  <2> DEFINE S == Inside(man[i]) \cap open
             w == man[i].whole
  <2>3. R(i) = RunGaps(S, w)
    OBVIOUS
  <2>4. \A m \in Inside(man[i]) \cap open : m \in S
    OBVIOUS
  <2> HIDE DEF S, w, R
  <2>5. /\ IsFiniteSet(R(i)) /\ R(i) \subseteq Proper
        /\ \A g \in R(i) : g.whole = w /\ g.from \in S /\ Inside(g) \subseteq S
        /\ \A m \in S : \E g \in R(i) : m \in Inside(g)
    <3>1. S \in SUBSET (0..Horizon) /\ w \in BOOLEAN
      BY <2>1, <2>2 DEF S, w
    <3>2. Covering(RunGaps(S, w), S, w)
      BY <1>1, <3>1, RunGapsFacts, Zenon
    <3> QED BY <2>3, <3>2 DEF Covering
  <2> QED BY <2>5 DEF S, w
<1>3. OpenSet(man) = UNION {f[i] : i \in DOMAIN man}
  BY DEF OpenSet
<1>4. IsFiniteSet({f[i] : i \in DOMAIN man})
  <2>1. DOMAIN man = 1..Len(man) /\ Len(man) \in Nat
    OBVIOUS
  <2>2. IsFiniteSet(DOMAIN man)
    BY <2>1, FS_Interval
  <2>3. DOMAIN f = DOMAIN man
    OBVIOUS
  <2> HIDE DEF f
  <2> QED BY <2>2, <2>3, FiniteImage
<1>5. \A T \in {f[i] : i \in DOMAIN man} : IsFiniteSet(T)
  <2> HIDE DEF R
  <2> QED BY <1>2
<1>6. IsFiniteSet(OpenSet(man))
  <2> HIDE DEF f
  <2> QED BY <1>3, <1>4, <1>5, FS_UNION
<1>7. \A g \in OpenSet(man) : \E i \in DOMAIN man : g \in R(i)
  BY DEF OpenSet
<1>8. \A i \in DOMAIN man : \A g \in R(i) : g \in OpenSet(man)
  BY DEF OpenSet
<1> HIDE DEF R, f
<1>9. ASSUME NEW m \in Covered(man) \cap open PROVE \E g \in OpenSet(man) : m \in Inside(g)
  <2>1. PICK i \in DOMAIN man : m \in Inside(man[i])
    BY DEF Covered
  <2>2. PICK g \in R(i) : m \in Inside(g)
    BY <1>2, <2>1
  <2> QED BY <1>8, <2>2
<1>10. ASSUME NEW g \in OpenSet(man)
       PROVE  /\ g \in Proper
              /\ \E i \in DOMAIN man : /\ g.whole = man[i].whole
                                       /\ g.from \in Inside(man[i]) \cap open
                                       /\ Inside(g) \subseteq Inside(man[i]) \cap open
  BY <1>2, <1>7
<1> QED BY <1>6, <1>9, <1>10

LEMMA ListedCovers ==
  ASSUME NEW S \in SUBSET Proper, NEW s, Lists(s, S)
  PROVE  /\ s \in Seq(Proper)
         /\ \A m : m \in Covered(s) <=> \E g \in S : m \in Inside(g)
         /\ \A i, j \in DOMAIN s : i < j => s[i].from <= s[j].from
         /\ (s = <<>>) <=> (S = {})
<1>1. s \in Seq(S) /\ \A x \in S : \E i \in DOMAIN s : s[i] = x
  BY DEF Lists
<1>2. s \in Seq(Proper)
  BY <1>1
<1>3. \A i \in DOMAIN s : s[i] \in S
  BY <1>1
<1>4. \A m : m \in Covered(s) <=> \E g \in S : m \in Inside(g)
  BY <1>1, <1>3 DEF Covered
<1>5. ASSUME NEW i \in DOMAIN s, NEW j \in DOMAIN s, i < j PROVE s[i].from <= s[j].from
  <2>1. Less(s[i], s[j])
    BY <1>5 DEF Lists
  <2>2. s[i].from \in Nat /\ s[j].from \in Nat
    BY <1>3, ProperFields
  <2> QED BY <2>1, <2>2 DEF Less
<1>6. (s = <<>>) <=> (S = {})
  <2>1. S # {} => DOMAIN s # {}
    BY <1>1
  <2>2. S = {} => DOMAIN s = {}
    BY <1>3
  <2>3. DOMAIN s = {} <=> s = <<>>
    BY <1>1
  <2> QED BY <2>1, <2>2, <2>3
<1> QED BY <1>2, <1>4, <1>5, <1>6

\* without_closed_time keeps the open minutes of the gaps and no others.
LEMMA WithoutClosedFacts ==
  ASSUME RequestOK, NEW man \in Seq(Proper)
  PROVE  /\ Lists(WithoutClosedTime(man), OpenSet(man))
         /\ WithoutClosedTime(man) \in Seq(Proper)
         /\ Covered(WithoutClosedTime(man)) = Covered(man) \cap open
<1>1. WithoutClosedTime(man) = Sorted(OpenSet(man))
  BY DEF WithoutClosedTime, OpenSet, RunGaps
<1>2. IsFiniteSet(OpenSet(man)) /\ OpenSet(man) \in SUBSET Proper
  BY OpenSetFacts
<1>3. OpenSet(man) \in SUBSET Gaps
  BY <1>2 DEF Proper
<1>4. Lists(WithoutClosedTime(man), OpenSet(man))
  BY <1>1, <1>2, <1>3, SortedLists
<1>5. ASSUME NEW m \in Covered(WithoutClosedTime(man)) PROVE m \in Covered(man) \cap open
  <2>1. PICK g \in OpenSet(man) : m \in Inside(g)
    BY <1>2, <1>4, ListedCovers
  <2>2. PICK i \in DOMAIN man : Inside(g) \subseteq Inside(man[i]) \cap open
    BY OpenSetFacts
  <2> QED BY <2>1, <2>2 DEF Covered
<1>6. ASSUME NEW m \in Covered(man) \cap open PROVE m \in Covered(WithoutClosedTime(man))
  <2>1. \E g \in OpenSet(man) : m \in Inside(g)
    BY OpenSetFacts
  <2> QED BY <1>2, <1>4, <2>1, ListedCovers
<1> QED BY <1>2, <1>4, <1>5, <1>6, ListedCovers

\* The bars Project takes for gaps, and the gaps it sorts.
Emptied(man) ==
  {b \in Bars : /\ \E i \in DOMAIN man : ~man[i].whole /\ BarOf(b) \cap Inside(man[i]) # {}
                /\ NoOpenData(b, Covered(man))}
ProjectSet(man) ==
  {man[i] : i \in {k \in DOMAIN man : man[k].whole}}
  \cup RunGaps(UNION {BarOf(b) : b \in Emptied(man)}, FALSE)

LEMMA ProjectSorts ==
  ASSUME NEW man \in Seq(Proper)
  PROVE  Project(man) = Sorted(ProjectSet(man))
<1> DEFINE intraday == {s \in Range(man) : ~s.whole}
           empty == {b \in Bars : /\ \E s \in intraday : BarOf(b) \cap Inside(s) # {}
                                  /\ NoOpenData(b, Covered(man))}
<1>1. empty = Emptied(man)
  BY DEF Emptied, Range
<1>2. {s \in Range(man) : s.whole} = {man[i] : i \in {k \in DOMAIN man : man[k].whole}}
  BY DEF Range
<1>3. Project(man) = Sorted({s \in Range(man) : s.whole}
                            \cup {Gap(r, FALSE) : r \in Runs(UNION {BarOf(b) : b \in empty})})
  BY DEF Project
<1> HIDE DEF empty
<1> QED BY <1>1, <1>2, <1>3 DEF ProjectSet, RunGaps

LEMMA ProjectSetFacts ==
  ASSUME RequestOK, NEW man \in Seq(Proper)
  PROVE  /\ IsFiniteSet(ProjectSet(man)) /\ ProjectSet(man) \subseteq Proper
         /\ \A g \in ProjectSet(man) :
              \/ g.whole /\ \E i \in DOMAIN man : g = man[i]
              \/ ~g.whole /\ Emptied(man) # {}
         /\ \A g \in ProjectSet(man) :
              ~g.whole => \A m \in Inside(g) : \E b \in Emptied(man) : m \in BarOf(b)
         /\ \A i \in DOMAIN man : man[i].whole => man[i] \in ProjectSet(man)
         /\ \A b \in Emptied(man) : \A m \in BarOf(b) : \E g \in ProjectSet(man) : m \in Inside(g)
<1> DEFINE S == UNION {BarOf(b) : b \in Emptied(man)}
           D == {k \in DOMAIN man : man[k].whole}
           A == {man[i] : i \in D}
           B == RunGaps(S, FALSE)
           f == [i \in D |-> man[i]]
           K == Horizon + tf
<1>1. Horizon \in Nat /\ tf \in Nat \ {0} /\ K \in Nat
  BY RequestFacts
<1>2. S \in SUBSET (0..K)
  <2> SUFFICES ASSUME NEW b \in Emptied(man), NEW m \in BarOf(b) PROVE m \in 0..K
    OBVIOUS
  <2>1. b \in 0..(Horizon - 1)
    BY DEF Emptied, Bars, Minutes
  <2> QED BY <1>1, <2>1 DEF BarOf
<1>3. IsFiniteSet(A)
  <2>1. DOMAIN man = 1..Len(man) /\ Len(man) \in Nat
    OBVIOUS
  <2>2. IsFiniteSet(DOMAIN man)
    BY <2>1, FS_Interval
  <2>3. IsFiniteSet(D)
    BY <2>2, FS_Subset
  <2>4. A = {f[i] : i \in D} /\ DOMAIN f = D
    OBVIOUS
  <2> HIDE DEF f, D, A
  <2> QED BY <2>3, <2>4, FiniteImage
<1>4. A \subseteq Proper /\ \A g \in A : g.whole /\ \E i \in DOMAIN man : g = man[i]
  OBVIOUS
<1>5. FALSE \in BOOLEAN
  OBVIOUS
<1>6. /\ IsFiniteSet(B) /\ B \subseteq Proper
      /\ \A g \in B : g.whole = FALSE /\ g.from \in S /\ Inside(g) \subseteq S
      /\ \A m \in S : \E g \in B : m \in Inside(g)
  <2> HIDE DEF S, K
  <2>1. Covering(RunGaps(S, FALSE), S, FALSE)
    BY <1>1, <1>2, <1>5, RunGapsFacts, Zenon
  <2> QED BY <2>1 DEF Covering
<1>7. ProjectSet(man) = A \cup B
  BY DEF ProjectSet
<1>8. IsFiniteSet(A \cup B)
  <2> HIDE DEF A, B
  <2> QED BY <1>3, <1>6, FS_Union
<1>9. \A m \in S : \E b \in Emptied(man) : m \in BarOf(b)
  OBVIOUS
<1>10. \A b \in Emptied(man) : \A m \in BarOf(b) : m \in S
  OBVIOUS
<1>11. \A i \in DOMAIN man : man[i].whole => man[i] \in A
  OBVIOUS
<1> HIDE DEF A, B, S
<1>12. \A g \in B : ~g.whole /\ Emptied(man) # {}
  BY <1>6, <1>9
<1>13. \A g \in B : \A m \in Inside(g) : \E b \in Emptied(man) : m \in BarOf(b)
  BY <1>6, <1>9
<1>14. \A b \in Emptied(man) : \A m \in BarOf(b) : \E g \in B : m \in Inside(g)
  BY <1>6, <1>10
<1> QED BY <1>4, <1>6, <1>7, <1>8, <1>11, <1>12, <1>13, <1>14

\* project_onto_timeframe lists those gaps.
LEMMA ProjectFacts ==
  ASSUME RequestOK, NEW man \in Seq(Proper)
  PROVE  Lists(Project(man), ProjectSet(man)) /\ ProjectSet(man) \in SUBSET Proper
<1>1. IsFiniteSet(ProjectSet(man)) /\ ProjectSet(man) \in SUBSET Proper
  BY ProjectSetFacts
<1>2. ProjectSet(man) \in SUBSET Gaps
  BY <1>1 DEF Proper
<1> QED BY <1>1, <1>2, ProjectSorts, SortedLists

\* The gaps of a manifest after closed time and projection, in the order of their start.
LEMMA EffectiveFacts ==
  ASSUME RequestOK, gaps \in Seq(Proper)
  PROVE  /\ Lists(Effective, ProjectSet(WithoutClosedTime(gaps)))
         /\ ProjectSet(WithoutClosedTime(gaps)) \in SUBSET Proper
         /\ Effective \in Seq(Proper)
         /\ \A i, j \in DOMAIN Effective : i < j => Effective[i].from <= Effective[j].from
<1>1. WithoutClosedTime(gaps) \in Seq(Proper)
  BY WithoutClosedFacts
<1>2. /\ Lists(Effective, ProjectSet(WithoutClosedTime(gaps)))
      /\ ProjectSet(WithoutClosedTime(gaps)) \in SUBSET Proper
  BY <1>1, ProjectFacts DEF Effective
<1> QED BY <1>2, ListedCovers

\* A bar of which every open minute is in a gap touches an effective gap at each of
\* them that is in a whole-day gap, and everywhere otherwise.
LEMMA EmptyBarsAreGaps ==
  ASSUME RequestOK, gaps \in Seq(Proper), NEW b \in Bars,
         BarOf(b) \cap open # {}, BarOf(b) \cap open \subseteq Covered(gaps)
  PROVE  \E m \in BarOf(b) : m \in Covered(Effective)
<1> DEFINE man == WithoutClosedTime(gaps)
<1>1. man \in Seq(Proper) /\ Covered(man) = Covered(gaps) \cap open
  BY WithoutClosedFacts
<1>2. PICK m \in BarOf(b) : m \in open /\ m \in Covered(man)
  BY <1>1
<1>3. /\ Lists(Effective, ProjectSet(man)) /\ ProjectSet(man) \in SUBSET Proper
  BY EffectiveFacts
<1>4. NoOpenData(b, Covered(man))
  BY <1>1 DEF NoOpenData
<1> HIDE DEF man
<1>5. PICK i \in DOMAIN man : m \in Inside(man[i])
  BY <1>2 DEF Covered
<1>6. \E g \in ProjectSet(man) : m \in Inside(g)
  <2>1. CASE man[i].whole
    BY <1>1, <1>5, <2>1, ProjectSetFacts
  <2>2. CASE ~man[i].whole
    <3>1. BarOf(b) \cap Inside(man[i]) # {}
      BY <1>2, <1>5
    <3>2. b \in Emptied(man)
      BY <1>4, <1>5, <2>2, <3>1 DEF Emptied
    <3> QED BY <1>1, <1>2, <3>2, ProjectSetFacts
  <2> QED BY <2>1, <2>2
<1>7. m \in Covered(Effective)
  BY <1>3, <1>6, ListedCovers
<1> QED BY <1>2, <1>7

----------------------------------------------------------------------------
(* Sub-ranges. *)

WindowSpans == {r \in Spans : window.from <= r.from /\ r.from < r.to /\ r.to <= window.to}
Accs == [ranges : Seq(WindowSpans), cursor : window.from..window.to]

Ascends(ranges) == \A k, l \in DOMAIN ranges : k < l => ranges[k].to <= ranges[l].from

\* x .. y - 1 holds no minute of the first i gaps.
Clear(s, i, x, y) == \A j \in 1..i : y <= s[j].from \/ s[j].to <= x

\* What the sweep has made of the first i of n gaps: its sub-ranges end before the
\* cursor and before every gap to come, and hold no minute of a gap; the gaps seen end
\* before the cursor; and what holds no minute of them is in a sub-range or after the
\* cursor.
Behind(a) == \A k \in DOMAIN a.ranges : a.ranges[k].to <= a.cursor
Ahead(s, n, i, a) ==
  \A k \in DOMAIN a.ranges : \A j \in 1..n : i < j => a.ranges[k].to <= s[j].from
Avoids(s, i, a) ==
  \A k \in DOMAIN a.ranges : Clear(s, i, a.ranges[k].from, a.ranges[k].to)
Passed(s, i, a) ==
  \A j \in 1..i : s[j].to <= a.cursor \/ window.to <= s[j].from \/ window.to <= a.cursor
Finds(s, i, a) ==
  \A x, y \in window.from..window.to : x < y /\ Clear(s, i, x, y) =>
    \/ \E k \in DOMAIN a.ranges : a.ranges[k].from <= x /\ y <= a.ranges[k].to
    \/ a.cursor <= x
SweptTo(s, n, i) ==
  {a \in Accs : /\ Ascends(a.ranges) /\ Behind(a) /\ Ahead(s, n, i, a) /\ Avoids(s, i, a)
                /\ Passed(s, i, a) /\ Finds(s, i, a)}

\* n gaps by their start.
ByStart(s, n) ==
  /\ n \in Nat /\ s \in Seq(Proper) /\ Len(s) = n
  /\ \A i, j \in 1..n : i < j => s[i].from <= s[j].from

LEMMA WindowFields ==
  ASSUME RequestOK
  PROVE  window.from \in Nat /\ window.to \in Nat /\ window.from < window.to
BY RequestFacts

LEMMA SpanInWindow ==
  ASSUME NEW x \in Int, NEW y \in Int, window.from <= x, x < y, y <= window.to
  PROVE  Span(x, y) \in WindowSpans /\ Span(x, y).from = x /\ Span(x, y).to = y
BY DEF Span, WindowSpans, Spans

LEMMA ByStartFields ==
  ASSUME NEW n, NEW s, ByStart(s, n), NEW j \in 1..n
  PROVE  s[j].from \in Nat /\ s[j].to \in Int /\ s[j].from < s[j].to
<1>1. s[j] \in Proper
  BY DEF ByStart
<1> QED BY <1>1, ProperFields

\* A gap outside the window changes nothing.
LEMMA SweepOutside ==
  ASSUME RequestOK, NEW n, NEW s, ByStart(s, n), NEW i \in 1..n, NEW a \in SweptTo(s, n, i - 1),
         s[i].to <= window.from \/ s[i].from >= window.to
  PROVE  a \in SweptTo(s, n, i)
<1>0. n \in Nat /\ i \in Nat /\ i - 1 \in Nat /\ 1..i = 1..(i - 1) \cup {i} /\ i - 1 < i
  BY DEF ByStart
<1>1. /\ a \in Accs /\ Ascends(a.ranges) /\ Behind(a)
      /\ Ahead(s, n, i - 1, a) /\ Avoids(s, i - 1, a) /\ Passed(s, i - 1, a) /\ Finds(s, i - 1, a)
  BY DEF SweptTo
<1>2. a.ranges \in Seq(WindowSpans) /\ a.cursor \in window.from..window.to
  BY <1>1 DEF Accs
<1>3. window.from \in Nat /\ window.to \in Nat /\ a.cursor \in Nat /\ window.from <= a.cursor
  BY <1>2, WindowFields
<1>4. s[i].from \in Nat /\ s[i].to \in Int
  BY ByStartFields
<1>5. Ahead(s, n, i, a)
  BY <1>0, <1>1 DEF Ahead
<1>6. ASSUME NEW k \in DOMAIN a.ranges PROVE Clear(s, i, a.ranges[k].from, a.ranges[k].to)
  <2>1. a.ranges[k] \in WindowSpans
    BY <1>2
  <2>2. /\ a.ranges[k].from \in Int /\ a.ranges[k].to \in Int
        /\ window.from <= a.ranges[k].from /\ a.ranges[k].to <= window.to
    BY <2>1 DEF WindowSpans, Spans
  <2>3. Clear(s, i - 1, a.ranges[k].from, a.ranges[k].to)
    BY <1>1 DEF Avoids
  <2>4. a.ranges[k].to <= s[i].from \/ s[i].to <= a.ranges[k].from
    BY <1>3, <1>4, <2>2
  <2> QED BY <1>0, <2>3, <2>4 DEF Clear
<1>7. Passed(s, i, a)
  <2>1. s[i].to <= a.cursor \/ window.to <= s[i].from
    BY <1>3, <1>4
  <2> QED BY <1>0, <1>1, <2>1 DEF Passed
<1>8. Finds(s, i, a)
  <2>1. \A x, y : Clear(s, i, x, y) => Clear(s, i - 1, x, y)
    BY <1>0 DEF Clear
  <2> QED BY <1>1, <2>1 DEF Finds
<1> QED BY <1>1, <1>5, <1>6, <1>7, <1>8 DEF SweptTo, Avoids

\* A gap that meets the window closes a sub-range before it, and the cursor passes it.
LEMMA SweepInside ==
  ASSUME RequestOK, NEW n, NEW s, ByStart(s, n), NEW i \in 1..n, NEW a \in SweptTo(s, n, i - 1),
         window.from < s[i].to, s[i].from < window.to
  PROVE  Sweep(a, s[i]) \in SweptTo(s, n, i)
<1> DEFINE x == s[i]
           from == LaterOf(x.from, window.from)
           to == EarlierOf(x.to, window.to)
           c == LaterOf(a.cursor, to)
           new == Span(a.cursor, from)
           rs == IF from > a.cursor THEN Append(a.ranges, new) ELSE a.ranges
           b == [ranges |-> rs, cursor |-> c]
<1>0. n \in Nat /\ i \in Nat /\ i - 1 \in Nat /\ 1..i = 1..(i - 1) \cup {i} /\ i - 1 < i
  BY DEF ByStart
<1>1. /\ a \in Accs /\ Ascends(a.ranges) /\ Behind(a)
      /\ Ahead(s, n, i - 1, a) /\ Avoids(s, i - 1, a) /\ Passed(s, i - 1, a) /\ Finds(s, i - 1, a)
  BY DEF SweptTo
<1>2. a.ranges \in Seq(WindowSpans) /\ a.cursor \in window.from..window.to
  BY <1>1 DEF Accs
<1>3. /\ window.from \in Nat /\ window.to \in Nat /\ a.cursor \in Nat
      /\ window.from <= a.cursor /\ a.cursor <= window.to
  BY <1>2, WindowFields
<1>4. x.from \in Nat /\ x.to \in Int /\ x.from < x.to
  BY ByStartFields
<1>5. ~(x.to <= window.from \/ x.from >= window.to)
  BY <1>3, <1>4
<1>6. Sweep(a, x) = b
  BY <1>5 DEF Sweep
<1>7. from \in Nat /\ to \in Int /\ c \in window.from..window.to /\ a.cursor <= c /\ to <= c
  BY <1>3, <1>4 DEF LaterOf, EarlierOf
<1>8. from > a.cursor => from = x.from
  BY <1>3, <1>4 DEF LaterOf
<1>9. \A k \in DOMAIN a.ranges :
        /\ a.ranges[k].from \in Int /\ a.ranges[k].to \in Int
        /\ a.ranges[k].to <= a.cursor /\ a.ranges[k].to <= x.from
        /\ Clear(s, i - 1, a.ranges[k].from, a.ranges[k].to)
  <2> TAKE k \in DOMAIN a.ranges
  <2>1. a.ranges[k] \in WindowSpans
    BY <1>2
  <2>2. a.ranges[k].from \in Int /\ a.ranges[k].to \in Int
    BY <2>1 DEF WindowSpans, Spans
  <2> QED BY <1>0, <1>1, <2>2 DEF Behind, Ahead, Avoids
\* The sub-range closed before the gap.
<1>10. ASSUME from > a.cursor
       PROVE  /\ new \in WindowSpans /\ new.from = a.cursor /\ new.to = x.from
              /\ Clear(s, i, new.from, new.to)
  <2>1. new \in WindowSpans /\ new.from = a.cursor /\ new.to = x.from
    BY <1>3, <1>4, <1>5, <1>7, <1>8, <1>10, SpanInWindow
  <2>2. ASSUME NEW j \in 1..(i - 1) PROVE new.to <= s[j].from \/ s[j].to <= new.from
    <3>1. j \in 1..n
      BY <1>0
    <3>2. s[j].from \in Nat /\ s[j].to \in Int
      BY <3>1, ByStartFields
    <3>3. s[j].to <= a.cursor \/ window.to <= s[j].from \/ window.to <= a.cursor
      BY <1>1 DEF Passed
    <3> HIDE DEF new
    <3> QED BY <1>3, <1>4, <1>5, <1>8, <1>10, <2>1, <3>2, <3>3
  <2>3. new.to <= x.from
    BY <1>4, <2>1
  <2> HIDE DEF new
  <2> QED BY <1>0, <2>1, <2>2, <2>3 DEF Clear
\* What the sub-ranges are now.
<1>11. /\ rs \in Seq(WindowSpans)
       /\ \A k \in DOMAIN rs : \/ k \in DOMAIN a.ranges /\ rs[k] = a.ranges[k]
                               \/ from > a.cursor /\ rs[k] = new /\ k = Len(a.ranges) + 1
       /\ \A k \in DOMAIN a.ranges : k \in DOMAIN rs /\ rs[k] = a.ranges[k]
       /\ from > a.cursor => \E k \in DOMAIN rs : rs[k] = new
  <2>1. CASE from > a.cursor
    <3> DEFINE w == Append(a.ranges, new)
    <3>1. new \in WindowSpans /\ rs = w
      BY <1>10, <2>1
    <3> HIDE DEF new
    <3>2. /\ w \in Seq(WindowSpans) /\ Len(w) = Len(a.ranges) + 1 /\ w[Len(w)] = new
          /\ Len(w) \in DOMAIN w
          /\ \A k \in DOMAIN a.ranges : k \in DOMAIN w /\ w[k] = a.ranges[k]
          /\ \A k \in DOMAIN w : k \in DOMAIN a.ranges \/ k = Len(w)
      BY <1>2, <3>1, AppendFacts
    <3> HIDE DEF w, rs
    <3> QED BY <2>1, <3>1, <3>2
  <2>2. CASE ~(from > a.cursor)
    BY <1>2, <2>2
  <2> QED BY <2>1, <2>2
<1>12. DOMAIN a.ranges = 1..Len(a.ranges) /\ Len(a.ranges) \in Nat
  BY <1>2
<1>13. b.ranges = rs /\ b.cursor = c
  OBVIOUS
<1>14. b \in Accs
  <2> HIDE DEF rs, c
  <2> QED BY <1>7, <1>11 DEF Accs
<1> HIDE DEF new, rs, from, to, c, b, x
<1>15. Ascends(rs)
  <2> SUFFICES ASSUME NEW k \in DOMAIN rs, NEW l \in DOMAIN rs, k < l PROVE rs[k].to <= rs[l].from
    BY DEF Ascends
  <2>1. CASE k \in DOMAIN a.ranges /\ l \in DOMAIN a.ranges
    BY <1>1, <1>11, <2>1 DEF Ascends
  <2>2. CASE k \in DOMAIN a.ranges /\ l \notin DOMAIN a.ranges
    BY <1>9, <1>10, <1>11, <2>2
  <2>3. CASE k \notin DOMAIN a.ranges
    BY <1>11, <1>12, <2>3
  <2> QED BY <2>1, <2>2, <2>3
<1>16. Behind(b)
  <2> SUFFICES ASSUME NEW k \in DOMAIN rs PROVE rs[k].to <= c
    BY <1>13 DEF Behind
  <2>1. c \in Nat
    BY <1>3, <1>7
  <2>2. CASE k \in DOMAIN a.ranges
    BY <1>3, <1>7, <1>9, <1>11, <2>1, <2>2
  <2>3. CASE from > a.cursor /\ rs[k] = new
    <3>1. new.to = x.from /\ new.to <= window.to
      BY <1>10, <2>3 DEF WindowSpans
    <3>2. new.to <= to
      BY <1>3, <1>4, <3>1 DEF to, EarlierOf
    <3> QED BY <1>4, <1>7, <2>1, <2>3, <3>1, <3>2
  <2> QED BY <1>11, <2>2, <2>3
<1>17. Ahead(s, n, i, b)
  <2> SUFFICES ASSUME NEW k \in DOMAIN rs, NEW j \in 1..n, i < j PROVE rs[k].to <= s[j].from
    BY <1>13 DEF Ahead
  <2>1. CASE k \in DOMAIN a.ranges
    <3>1. i - 1 < j
      BY <1>0
    <3> QED BY <1>1, <1>11, <2>1, <3>1 DEF Ahead
  <2>2. CASE from > a.cursor /\ rs[k] = new
    <3>1. s[i].from <= s[j].from
      BY DEF ByStart
    <3> QED BY <1>10, <2>2, <3>1 DEF x
  <2> QED BY <1>11, <2>1, <2>2
<1>18. Avoids(s, i, b)
  <2> SUFFICES ASSUME NEW k \in DOMAIN rs PROVE Clear(s, i, rs[k].from, rs[k].to)
    BY <1>13 DEF Avoids
  <2>1. CASE k \in DOMAIN a.ranges
    <3>1. rs[k] = a.ranges[k] /\ Clear(s, i - 1, rs[k].from, rs[k].to) /\ rs[k].to <= x.from
      BY <1>9, <1>11, <2>1
    <3> QED BY <1>0, <3>1 DEF Clear, x
  <2>2. CASE from > a.cursor /\ rs[k] = new
    BY <1>10, <2>2
  <2> QED BY <1>11, <2>1, <2>2
<1>19. Passed(s, i, b)
  <2> SUFFICES ASSUME NEW j \in 1..i
               PROVE  s[j].to <= c \/ window.to <= s[j].from \/ window.to <= c
    BY <1>13 DEF Passed
  <2>1. c \in Nat /\ j \in 1..n
    BY <1>0, <1>3, <1>7
  <2>2. s[j].from \in Nat /\ s[j].to \in Int
    BY <2>1, ByStartFields
  <2>3. CASE j = i
    <3>1. x.to <= to \/ window.to <= to
      BY <1>3, <1>4 DEF to, EarlierOf
    <3> QED BY <1>3, <1>4, <1>7, <2>1, <2>3, <3>1 DEF x
  <2>4. CASE j \in 1..(i - 1)
    <3>1. s[j].to <= a.cursor \/ window.to <= s[j].from \/ window.to <= a.cursor
      BY <1>1, <2>4 DEF Passed
    <3> QED BY <1>3, <1>7, <2>1, <2>2, <3>1
  <2> QED BY <1>0, <2>3, <2>4
<1>20. Finds(s, i, b)
  <2> SUFFICES ASSUME NEW p \in window.from..window.to, NEW q \in window.from..window.to,
                      p < q, Clear(s, i, p, q)
               PROVE  \/ \E k \in DOMAIN rs : rs[k].from <= p /\ q <= rs[k].to
                      \/ c <= p
    BY <1>13 DEF Finds
  <2>0. p \in Nat /\ q \in Nat /\ window.from <= p /\ c \in Nat
    BY <1>3, <1>7
  <2>1. Clear(s, i - 1, p, q)
    BY <1>0 DEF Clear
  <2>2. q <= x.from \/ x.to <= p
    BY <1>0 DEF Clear, x
  <2>3. CASE \E k \in DOMAIN a.ranges : a.ranges[k].from <= p /\ q <= a.ranges[k].to
    BY <1>11, <2>3
  <2>4. CASE a.cursor <= p /\ q <= x.from
    <3>1. from = x.from /\ from > a.cursor
      BY <1>3, <1>4, <2>0, <2>4 DEF from, LaterOf
    <3>2. PICK k \in DOMAIN rs : rs[k] = new
      BY <1>11, <3>1
    <3>3. new.from <= p /\ q <= new.to
      BY <1>10, <2>4, <3>1
    <3> QED BY <3>2, <3>3
  <2>5. CASE a.cursor <= p /\ x.to <= p
    <3>1. to <= p
      BY <1>3, <1>4, <2>0, <2>5 DEF to, EarlierOf
    <3>2. c <= p
      BY <2>5, <3>1 DEF c, LaterOf
    <3> QED BY <3>2
  <2>6. \/ \E k \in DOMAIN a.ranges : a.ranges[k].from <= p /\ q <= a.ranges[k].to
        \/ a.cursor <= p
    BY <1>1, <2>1 DEF Finds
  <2> QED BY <2>2, <2>3, <2>4, <2>5, <2>6
<1>21. b \in SweptTo(s, n, i)
  BY <1>13, <1>14, <1>15, <1>16, <1>17, <1>18, <1>19, <1>20 DEF SweptTo
<1> QED BY <1>6, <1>21 DEF x

\* The whole sweep.
LEMMA SweepDone ==
  ASSUME RequestOK, NEW n, NEW s, ByStart(s, n)
  PROVE  FoldLeft(Sweep, [ranges |-> <<>>, cursor |-> window.from], s) \in SweptTo(s, n, n)
<1> DEFINE base == [ranges |-> <<>>, cursor |-> window.from]
           W == [i \in 0..n |-> SweptTo(s, n, i)]
<1>0. n \in Nat /\ s \in Seq(Proper) /\ DOMAIN s = 1..n
  BY DEF ByStart
<1>1. window.from \in Nat /\ window.to \in Nat /\ window.from < window.to
  BY WindowFields
<1>2. base \in SweptTo(s, n, 0)
  <2>1. base.ranges = <<>> /\ base.cursor = window.from /\ DOMAIN base.ranges = {}
    OBVIOUS
  <2>2. base \in Accs
    BY <1>1 DEF Accs
  <2> HIDE DEF base
  <2>3. /\ Ascends(base.ranges) /\ Behind(base) /\ Ahead(s, n, 0, base) /\ Avoids(s, 0, base)
        /\ Passed(s, 0, base) /\ Finds(s, 0, base)
    BY <1>1, <2>1 DEF Ascends, Behind, Ahead, Avoids, Passed, Finds
  <2> QED BY <2>2, <2>3 DEF SweptTo
<1>3. ASSUME NEW i \in 1..n, NEW a \in SweptTo(s, n, i - 1) PROVE Sweep(a, s[i]) \in SweptTo(s, n, i)
  <2>1. s[i].from \in Nat /\ s[i].to \in Int
    BY ByStartFields
  <2>2. CASE s[i].to <= window.from \/ s[i].from >= window.to
    <3>1. Sweep(a, s[i]) = a
      BY <2>2 DEF Sweep
    <3> QED BY <2>2, <3>1, SweepOutside
  <2>3. CASE window.from < s[i].to /\ s[i].from < window.to
    BY <2>3, SweepInside
  <2> QED BY <1>1, <2>1, <2>2, <2>3
<1>4. Sweeping!Keeps(W, n, s)
  <2>1. base \in W[0]
    BY <1>0, <1>2
  <2>2. \A i \in 1..n : \A v \in W[i - 1] : Sweep(v, s[i]) \in W[i]
    <3> TAKE i \in 1..n
    <3>1. i \in 0..n /\ i - 1 \in 0..n
      BY <1>0
    <3>2. W[i] = SweptTo(s, n, i) /\ W[i - 1] = SweptTo(s, n, i - 1)
      BY <3>1
    <3> HIDE DEF W
    <3> QED BY <1>3, <3>2
  <2> HIDE DEF W
  <2> QED BY <2>1, <2>2 DEF Sweeping!Keeps
<1>5. Sweeping!Fold(s) \in W[n]
  <2> HIDE DEF W
  <2> QED BY <1>0, <1>4, Sweeping!FoldInvariant
<1>6. Sweeping!Fold(s) = FoldLeft(Sweep, base, s)
  BY Zenon DEF Sweeping!Fold, Sweeping!MapThenFoldSet, Sweeping!Top,
               FoldLeft, MapThenFoldSet, Max
<1>7. W[n] = SweptTo(s, n, n)
  BY <1>0
<1> QED BY <1>5, <1>6, <1>7

\* What dispatch makes of n gaps by their start: sub-ranges of the window, in order,
\* that hold no minute of a gap; and whatever stretch of the window holds none is in one.
Parts(s, n, p) ==
  /\ p \in Seq(WindowSpans) /\ Ascends(p)
  /\ \A k \in DOMAIN p : Clear(s, n, p[k].from, p[k].to)
  /\ \A x, y \in window.from..window.to : x < y /\ Clear(s, n, x, y) =>
       \E k \in DOMAIN p : p[k].from <= x /\ y <= p[k].to

LEMMA PartitionParts ==
  ASSUME RequestOK, NEW n, NEW s, ByStart(s, n)
  PROVE  Parts(s, n, Partition(s))
<1> DEFINE a == FoldLeft(Sweep, [ranges |-> <<>>, cursor |-> window.from], s)
           p == Partition(s)
<1>0. window.from \in Nat /\ window.to \in Nat /\ window.from < window.to /\ window \in Spans
  BY RequestFacts
<1>1. window \in WindowSpans
  BY <1>0 DEF WindowSpans
<1>2. CASE s = <<>>
  <2>1. p = <<window>> /\ n = 0
    BY <1>2 DEF Partition, ByStart
  <2>2. p \in Seq(WindowSpans) /\ DOMAIN p = {1} /\ p[1] = window
    BY <1>1, <2>1
  <2> HIDE DEF p
  <2>3. Ascends(p)
    BY <2>2 DEF Ascends
  <2>4. \A x, y : Clear(s, n, x, y)
    BY <2>1 DEF Clear
  <2> QED BY <2>2, <2>3, <2>4 DEF Parts, p
<1>3. CASE s # <<>>
  <2>1. a \in SweptTo(s, n, n)
    BY SweepDone
  <2>2. p = IF a.cursor < window.to THEN Append(a.ranges, Span(a.cursor, window.to)) ELSE a.ranges
    BY <1>3 DEF Partition
  <2> HIDE DEF a, p
  <2>3. /\ a.ranges \in Seq(WindowSpans) /\ a.cursor \in window.from..window.to
        /\ Ascends(a.ranges) /\ Behind(a) /\ Avoids(s, n, a) /\ Passed(s, n, a) /\ Finds(s, n, a)
    BY <2>1 DEF SweptTo, Accs
  <2>4. CASE a.cursor < window.to
    <3> DEFINE r == Span(a.cursor, window.to)
               w == Append(a.ranges, r)
    <3>1. r \in WindowSpans /\ r.from = a.cursor /\ r.to = window.to
      BY <1>0, <2>3, <2>4, SpanInWindow
    <3>2. p = w
      BY <2>2, <2>4
    <3> HIDE DEF r
    <3>3. /\ w \in Seq(WindowSpans) /\ Len(w) = Len(a.ranges) + 1 /\ w[Len(w)] = r
          /\ Len(w) \in DOMAIN w
          /\ \A k \in DOMAIN a.ranges : k \in DOMAIN w /\ w[k] = a.ranges[k]
          /\ \A k \in DOMAIN w : k \in DOMAIN a.ranges \/ k = Len(w)
      BY <2>3, <3>1, AppendFacts
    <3> HIDE DEF w
    <3>4. DOMAIN a.ranges = 1..Len(a.ranges) /\ DOMAIN w = 1..Len(w) /\ Len(a.ranges) \in Nat
      BY <2>3, <3>3
    <3>5. Ascends(w)
      <4> SUFFICES ASSUME NEW k \in DOMAIN w, NEW l \in DOMAIN w, k < l PROVE w[k].to <= w[l].from
        BY DEF Ascends
      <4>1. k \in DOMAIN a.ranges
        BY <3>3, <3>4
      <4>2. CASE l \in DOMAIN a.ranges
        BY <2>3, <3>3, <4>1, <4>2 DEF Ascends
      <4>3. CASE l = Len(w)
        BY <2>3, <3>1, <3>3, <4>1, <4>3 DEF Behind
      <4> QED BY <3>3, <4>2, <4>3
    <3>6. Clear(s, n, r.from, r.to)
      <4> SUFFICES ASSUME NEW j \in 1..n PROVE window.to <= s[j].from \/ s[j].to <= a.cursor
        BY <3>1 DEF Clear
      <4>1. s[j].to <= a.cursor \/ window.to <= s[j].from \/ window.to <= a.cursor
        BY <2>3 DEF Passed
      <4> QED BY <1>0, <2>3, <2>4, <4>1
    <3>7. \A k \in DOMAIN w : Clear(s, n, w[k].from, w[k].to)
      BY <2>3, <3>3, <3>6 DEF Avoids
    <3>8. ASSUME NEW x \in window.from..window.to, NEW y \in window.from..window.to,
                 x < y, Clear(s, n, x, y)
          PROVE  \E k \in DOMAIN w : w[k].from <= x /\ y <= w[k].to
      <4>1. \/ \E k \in DOMAIN a.ranges : a.ranges[k].from <= x /\ y <= a.ranges[k].to
            \/ a.cursor <= x
        BY <2>3, <3>8 DEF Finds
      <4>2. CASE \E k \in DOMAIN a.ranges : a.ranges[k].from <= x /\ y <= a.ranges[k].to
        BY <3>3, <4>2
      <4>3. CASE a.cursor <= x
        <5>1. r.from <= x /\ y <= r.to
          BY <1>0, <3>1, <4>3
        <5> QED BY <3>3, <5>1
      <4> QED BY <4>1, <4>2, <4>3
    <3>9. Parts(s, n, w)
      BY <3>3, <3>5, <3>7, <3>8 DEF Parts
    <3> QED BY <3>2, <3>9 DEF p
  <2>5. CASE ~(a.cursor < window.to)
    <3>1. p = a.ranges
      BY <2>2, <2>5
    <3>2. ASSUME NEW x \in window.from..window.to, NEW y \in window.from..window.to,
                 x < y, Clear(s, n, x, y)
          PROVE  \E k \in DOMAIN a.ranges : a.ranges[k].from <= x /\ y <= a.ranges[k].to
      <4>1. ~(a.cursor <= x)
        BY <1>0, <2>3, <2>5, <3>2
      <4> QED BY <2>3, <3>2, <4>1 DEF Finds
    <3>3. Parts(s, n, a.ranges)
      BY <2>3, <3>2 DEF Parts, Avoids
    <3> QED BY <3>1, <3>3 DEF p
  <2> QED BY <2>4, <2>5
<1> QED BY <1>2, <1>3

----------------------------------------------------------------------------
(* Closed sub-ranges, and bars. *)

LEMMA AlignFacts ==
  ASSUME RequestOK, NEW t \in Nat
  PROVE  /\ AlignUp(t) \in Int /\ AlignUp(t) % tf = 0 /\ t <= AlignUp(t)
         /\ AlignDown(t) \in Int /\ AlignDown(t) % tf = 0 /\ AlignDown(t) <= t
         /\ \A x \in Int : x % tf = 0 => /\ t <= x => AlignUp(t) <= x
                                         /\ x <= t => x <= AlignDown(t)
<1> DEFINE q == (t + tf - 1) \div tf
<1>1. tf \in Nat \ {0}
  BY RequestFacts
<1>2. q \in Int /\ q * tf \in Int /\ t <= q * tf /\ q * tf < t + tf
  BY <1>1
<1>3. AlignUp(t) = q * tf
  BY DEF AlignUp
<1> HIDE DEF q
<1>4. \A k \in Int : (k * tf) % tf = 0
  BY <1>1
<1>5. (q - 1) * tf = q * tf - tf
  BY <1>1, <1>2
<1>6. AlignDown(t) = IF q * tf = t THEN q * tf ELSE (q - 1) * tf
  BY <1>3, <1>5 DEF AlignDown
<1>7. ASSUME NEW x \in Int, x % tf = 0
      PROVE  (t <= x => q * tf <= x) /\ (x <= t => x <= AlignDown(t))
  <2> DEFINE k == x \div tf
  <2>1. k \in Int /\ x = k * tf
    BY <1>1, <1>7
  <2> HIDE DEF k
  <2>2. ASSUME t <= x PROVE q * tf <= x
    <3>1. (q - 1) * tf < k * tf
      BY <1>1, <1>2, <1>5, <2>1, <2>2
    <3>2. q - 1 < k
      BY <1>1, <1>2, <2>1, <3>1
    <3>3. q <= k
      BY <1>2, <2>1, <3>2
    <3> QED BY <1>1, <1>2, <2>1, <3>3
  <2>3. ASSUME x <= t PROVE x <= AlignDown(t)
    <3>1. CASE q * tf = t
      BY <1>6, <2>3, <3>1
    <3>2. CASE q * tf # t
      <4>1. k * tf < q * tf
        BY <1>1, <1>2, <2>1, <2>3, <3>2
      <4>2. k < q
        BY <1>1, <1>2, <2>1, <4>1
      <4>3. k <= q - 1
        BY <1>2, <2>1, <4>2
      <4>4. k * tf <= (q - 1) * tf
        BY <1>1, <1>2, <2>1, <4>3
      <4> QED BY <1>6, <2>1, <3>2, <4>4
    <3> QED BY <3>1, <3>2
  <2> QED BY <2>2, <2>3
<1>8. q - 1 \in Int /\ (q - 1) * tf \in Int
  BY <1>1, <1>2, <1>5
<1>9. AlignDown(t) \in Int /\ AlignDown(t) % tf = 0 /\ AlignDown(t) <= t
  <2>1. CASE q * tf = t
    BY <1>2, <1>4, <1>6, <2>1
  <2>2. CASE q * tf # t
    BY <1>1, <1>2, <1>4, <1>5, <1>6, <1>8, <2>2
  <2> QED BY <2>1, <2>2
<1>10. (q * tf) % tf = 0
  BY <1>2, <1>4
<1> QED BY <1>2, <1>3, <1>7, <1>9, <1>10

LEMMA AppendAscends ==
  ASSUME RequestOK, NEW v \in Seq(WindowSpans), Ascends(v), NEW t \in WindowSpans,
         \A k \in DOMAIN v : v[k].to <= t.from
  PROVE  LET w == Append(v, t)
         IN  /\ w \in Seq(WindowSpans) /\ Ascends(w)
             /\ \A k \in DOMAIN v : k \in DOMAIN w /\ w[k] = v[k]
             /\ \A k \in DOMAIN w : k \in DOMAIN v \/ w[k] = t
             /\ \E k \in DOMAIN w : w[k] = t
             /\ \A k \in DOMAIN w : (k \in DOMAIN v /\ w[k] = v[k]) \/ w[k] = t
<1> DEFINE w == Append(v, t)
<1>1. /\ w \in Seq(WindowSpans) /\ Len(w) = Len(v) + 1 /\ w[Len(w)] = t
      /\ Len(w) \in DOMAIN w
      /\ \A k \in DOMAIN v : k \in DOMAIN w /\ w[k] = v[k]
      /\ \A k \in DOMAIN w : k \in DOMAIN v \/ k = Len(w)
  BY AppendFacts
<1> HIDE DEF w
<1>2. DOMAIN v = 1..Len(v) /\ DOMAIN w = 1..Len(w) /\ Len(v) \in Nat
  BY <1>1
<1>3. ASSUME NEW k \in DOMAIN w, NEW l \in DOMAIN w, k < l PROVE w[k].to <= w[l].from
  <2>1. k \in DOMAIN v
    BY <1>1, <1>2, <1>3
  <2>2. CASE l \in DOMAIN v
    BY <1>1, <1>3, <2>1, <2>2 DEF Ascends
  <2>3. CASE l = Len(w)
    BY <1>1, <2>1, <2>3
  <2> QED BY <1>1, <2>2, <2>3
<1>4. Ascends(w)
  BY <1>3 DEF Ascends
<1> QED BY <1>1, <1>4 DEF w

WindowSpanFields ==
  \A r \in WindowSpans : /\ r.from \in Nat /\ r.to \in Nat /\ window.from <= r.from
                         /\ r.from < r.to /\ r.to <= window.to

LEMMA SpansInWindow == ASSUME RequestOK PROVE WindowSpanFields
<1>1. \A r \in WindowSpans : r.from \in Int /\ r.to \in Int /\ window.from <= r.from
                             /\ r.from < r.to /\ r.to <= window.to
  BY DEF WindowSpans, Spans
<1> QED BY <1>1, WindowFields DEF WindowSpanFields

\* What KeepOpen, and what KeepAligned, has made of the first i sub-ranges.
Held(s, i, v) == \A k \in DOMAIN v : \E j \in 1..i : s[j].from <= v[k].from /\ v[k].to <= s[j].to
ToCome(s, i, v) == \A k \in DOMAIN v : \A j \in DOMAIN s : i < j => v[k].to <= s[j].from

OpenTo(s, i) ==
  {v \in Seq(WindowSpans) :
     /\ Ascends(v) /\ Held(s, i, v) /\ ToCome(s, i, v)
     /\ \A j \in 1..i : Inside(s[j]) \cap open # {} => \E k \in DOMAIN v : v[k] = s[j]}

Aligned(v) == \A k \in DOMAIN v : v[k].from % tf = 0 /\ v[k].to % tf = 0
AlignedTo(s, i) ==
  {v \in Seq(WindowSpans) :
     /\ Ascends(v) /\ Held(s, i, v) /\ ToCome(s, i, v) /\ Aligned(v)
     /\ \A j \in 1..i : \A x, y \in Int :
          /\ x < y /\ x % tf = 0 /\ y % tf = 0
          /\ s[j].from <= x /\ y <= s[j].to
          => \E k \in DOMAIN v : v[k].from <= x /\ y <= v[k].to}

LEMMA LaterSpans ==
  ASSUME RequestOK, NEW s \in Seq(WindowSpans), Ascends(s), NEW i \in DOMAIN s,
         NEW t \in WindowSpans, s[i].from <= t.from, t.to <= s[i].to,
         NEW v \in Seq(WindowSpans), ToCome(s, i - 1, v), Held(s, i - 1, v)
  PROVE  /\ \A k \in DOMAIN v : v[k].to <= t.from
         /\ \A w : (\A k \in DOMAIN w : (k \in DOMAIN v /\ w[k] = v[k]) \/ w[k] = t)
                   => Held(s, i, w) /\ ToCome(s, i, w)
<1>1. i \in Nat /\ i - 1 < i /\ 1..i = 1..(i - 1) \cup {i} /\ DOMAIN s \subseteq Nat
  OBVIOUS
<1>2. \A r \in WindowSpans : r.from \in Nat /\ r.to \in Nat
  BY SpansInWindow DEF WindowSpanFields
<1>3. s[i] \in WindowSpans /\ \A j \in DOMAIN s : s[j] \in WindowSpans
  OBVIOUS
<1>4. \A k \in DOMAIN v : v[k] \in WindowSpans
  OBVIOUS
<1>5. ASSUME NEW k \in DOMAIN v PROVE v[k].to <= t.from
  <2>1. v[k].to <= s[i].from
    BY <1>1 DEF ToCome
  <2> QED BY <1>2, <1>3, <1>4, <2>1
<1>6. ASSUME NEW w, \A k \in DOMAIN w : (k \in DOMAIN v /\ w[k] = v[k]) \/ w[k] = t
      PROVE  Held(s, i, w) /\ ToCome(s, i, w)
  <2>1. ASSUME NEW k \in DOMAIN w
        PROVE  \E j \in 1..i : s[j].from <= w[k].from /\ w[k].to <= s[j].to
    <3>1. CASE k \in DOMAIN v /\ w[k] = v[k]
      <4>1. PICK j \in 1..(i - 1) : s[j].from <= v[k].from /\ v[k].to <= s[j].to
        BY <3>1 DEF Held
      <4> QED BY <1>1, <3>1, <4>1
    <3>2. CASE w[k] = t
      BY <1>1, <3>2
    <3> QED BY <1>6, <3>1, <3>2
  <2>2. ASSUME NEW k \in DOMAIN w, NEW j \in DOMAIN s, i < j PROVE w[k].to <= s[j].from
    <3>1. CASE k \in DOMAIN v /\ w[k] = v[k]
      <4>1. i - 1 < j
        BY <1>1, <2>2
      <4> QED BY <3>1, <4>1 DEF ToCome
    <3>2. CASE w[k] = t
      <4>1. s[i].to <= s[j].from
        BY <2>2 DEF Ascends
      <4> QED BY <1>2, <1>3, <3>2, <4>1
    <3> QED BY <1>6, <3>1, <3>2
  <2> QED BY <2>1, <2>2 DEF Held, ToCome
<1> QED BY <1>5, <1>6

LEMMA LaterNothing ==
  ASSUME NEW s, NEW i \in Nat \ {0}, NEW v, ToCome(s, i - 1, v), Held(s, i - 1, v), DOMAIN s \subseteq Nat
  PROVE  Held(s, i, v) /\ ToCome(s, i, v)
<1>1. 1..(i - 1) \subseteq 1..i /\ \A j \in DOMAIN s : i < j => i - 1 < j
  OBVIOUS
<1> QED BY <1>1 DEF Held, ToCome

LEMMA KeepOpenStep ==
  ASSUME RequestOK, NEW s \in Seq(WindowSpans), Ascends(s), NEW i \in DOMAIN s,
         NEW v \in OpenTo(s, i - 1)
  PROVE  KeepOpen(v, s[i]) \in OpenTo(s, i)
<1> DEFINE t == s[i]
           w == KeepOpen(v, t)
<1>0. i \in Nat \ {0} /\ 1..i = 1..(i - 1) \cup {i} /\ DOMAIN s \subseteq Nat /\ t \in WindowSpans
  OBVIOUS
<1>1. /\ v \in Seq(WindowSpans) /\ Ascends(v) /\ Held(s, i - 1, v) /\ ToCome(s, i - 1, v)
      /\ \A j \in 1..(i - 1) : Inside(s[j]) \cap open # {} => \E k \in DOMAIN v : v[k] = s[j]
  BY DEF OpenTo
<1>2. t.from \in Nat /\ t.to \in Nat
  BY <1>0, SpansInWindow DEF WindowSpanFields
<1>3. CASE Inside(t) \cap open # {}
  <2>1. w = Append(v, t)
    BY <1>3 DEF KeepOpen
  <2> HIDE DEF t, w
  <2>2. s[i] = t /\ s[i].from <= t.from /\ t.to <= s[i].to
    BY <1>2 DEF t
  <2>3. \A k \in DOMAIN v : v[k].to <= t.from
    BY <1>0, <1>1, <2>2, LaterSpans
  <2>4. /\ w \in Seq(WindowSpans) /\ Ascends(w)
        /\ \A k \in DOMAIN v : k \in DOMAIN w /\ w[k] = v[k]
        /\ \E k \in DOMAIN w : w[k] = t
        /\ \A k \in DOMAIN w : (k \in DOMAIN v /\ w[k] = v[k]) \/ w[k] = t
    BY <1>0, <1>1, <2>1, <2>3, AppendAscends
  <2>5. Held(s, i, w) /\ ToCome(s, i, w)
    <3>1. \A u : (\A k \in DOMAIN u : (k \in DOMAIN v /\ u[k] = v[k]) \/ u[k] = t)
                 => Held(s, i, u) /\ ToCome(s, i, u)
      BY <1>0, <1>1, <2>2, LaterSpans
    <3> QED BY <2>4, <3>1
  <2>6. \A j \in 1..i : Inside(s[j]) \cap open # {} => \E k \in DOMAIN w : w[k] = s[j]
    BY <1>0, <1>1, <2>2, <2>4
  <2>7. w \in OpenTo(s, i)
    BY <2>4, <2>5, <2>6 DEF OpenTo
  <2> QED BY <2>7 DEF w, t
<1>4. CASE Inside(t) \cap open = {}
  <2>1. w = v
    BY <1>4 DEF KeepOpen
  <2>2. Held(s, i, v) /\ ToCome(s, i, v)
    BY <1>0, <1>1, LaterNothing
  <2>3. \A j \in 1..i : Inside(s[j]) \cap open # {} => \E k \in DOMAIN v : v[k] = s[j]
    BY <1>0, <1>1, <1>4
  <2>4. v \in OpenTo(s, i)
    BY <1>1, <2>2, <2>3 DEF OpenTo
  <2> QED BY <2>1, <2>4
<1> QED BY <1>3, <1>4

LEMMA KeepAlignedStep ==
  ASSUME RequestOK, NEW s \in Seq(WindowSpans), Ascends(s), NEW i \in DOMAIN s,
         NEW v \in AlignedTo(s, i - 1)
  PROVE  KeepAligned(v, s[i]) \in AlignedTo(s, i)
<1> DEFINE r == s[i]
           t == Span(AlignUp(r.from), AlignDown(r.to))
           w == KeepAligned(v, r)
           Fits(u, j) == \A x, y \in Int :
                           /\ x < y /\ x % tf = 0 /\ y % tf = 0
                           /\ s[j].from <= x /\ y <= s[j].to
                           => \E k \in DOMAIN u : u[k].from <= x /\ y <= u[k].to
<1>0. i \in Nat \ {0} /\ 1..i = 1..(i - 1) \cup {i} /\ DOMAIN s \subseteq Nat /\ r \in WindowSpans
  OBVIOUS
<1>1. /\ v \in Seq(WindowSpans) /\ Ascends(v) /\ Held(s, i - 1, v) /\ ToCome(s, i - 1, v)
      /\ Aligned(v) /\ \A j \in 1..(i - 1) : Fits(v, j)
  BY DEF AlignedTo
<1>2. r.from \in Nat /\ r.to \in Nat /\ window.from <= r.from /\ r.to <= window.to
  BY <1>0, SpansInWindow DEF WindowSpanFields
<1>3. t.from = AlignUp(r.from) /\ t.to = AlignDown(r.to)
  BY SpanFields
<1>4. /\ t.from \in Int /\ t.to \in Int /\ t.from % tf = 0 /\ t.to % tf = 0
      /\ r.from <= t.from /\ t.to <= r.to
      /\ \A x \in Int : x % tf = 0 => (r.from <= x => t.from <= x) /\ (x <= r.to => x <= t.to)
  <2>1. /\ AlignUp(r.from) \in Int /\ AlignUp(r.from) % tf = 0 /\ r.from <= AlignUp(r.from)
        /\ \A x \in Int : x % tf = 0 => (r.from <= x => AlignUp(r.from) <= x)
    BY <1>2, AlignFacts
  <2>2. /\ AlignDown(r.to) \in Int /\ AlignDown(r.to) % tf = 0 /\ AlignDown(r.to) <= r.to
        /\ \A x \in Int : x % tf = 0 => (x <= r.to => x <= AlignDown(r.to))
    BY <1>2, AlignFacts
  <2> HIDE DEF t, r
  <2> QED BY <1>3, <2>1, <2>2
<1>5. window.from \in Nat /\ window.to \in Nat
  BY WindowFields
<1>6. CASE t.from < t.to
  <2>1. w = Append(v, t)
    BY <1>6 DEF KeepAligned
  <2>2. window.from <= t.from /\ t.to <= window.to
    <3> HIDE DEF t, r
    <3> QED BY <1>2, <1>4, <1>5
  <2>3. t \in WindowSpans
    <3>1. t = Span(t.from, t.to)
      BY <1>3
    <3> HIDE DEF t
    <3> QED BY <1>4, <1>6, <2>2, <3>1, SpanInWindow
  <2> HIDE DEF t, w
  <2>4. s[i].from <= t.from /\ t.to <= s[i].to
    BY <1>4
  <2>5. \A k \in DOMAIN v : v[k].to <= t.from
    BY <1>0, <1>1, <2>3, <2>4, LaterSpans
  <2>6. /\ w \in Seq(WindowSpans) /\ Ascends(w)
        /\ \A k \in DOMAIN v : k \in DOMAIN w /\ w[k] = v[k]
        /\ \E k \in DOMAIN w : w[k] = t
        /\ \A k \in DOMAIN w : (k \in DOMAIN v /\ w[k] = v[k]) \/ w[k] = t
    BY <1>1, <2>1, <2>3, <2>5, AppendAscends
  <2>7. Held(s, i, w) /\ ToCome(s, i, w)
    <3>1. \A u : (\A k \in DOMAIN u : (k \in DOMAIN v /\ u[k] = v[k]) \/ u[k] = t)
                 => Held(s, i, u) /\ ToCome(s, i, u)
      BY <1>0, <1>1, <2>3, <2>4, LaterSpans
    <3> QED BY <2>6, <3>1
  <2>8. Aligned(w)
    BY <1>1, <1>4, <2>6 DEF Aligned
  <2>9. \A j \in 1..(i - 1) : Fits(w, j)
    BY <1>1, <2>6
  <2>10. Fits(w, i)
    <3> SUFFICES ASSUME NEW x \in Int, NEW y \in Int, x % tf = 0, y % tf = 0,
                        r.from <= x, y <= r.to
                 PROVE  \E k \in DOMAIN w : w[k].from <= x /\ y <= w[k].to
      OBVIOUS
    <3>1. t.from <= x /\ y <= t.to
      BY <1>4
    <3> QED BY <2>6, <3>1
  <2>11. \A j \in 1..i : Fits(w, j)
    BY <1>0, <2>9, <2>10
  <2>12. w \in AlignedTo(s, i)
    BY <2>6, <2>7, <2>8, <2>11 DEF AlignedTo
  <2> QED BY <2>12 DEF w
<1>7. CASE ~(t.from < t.to)
  <2>1. w = v
    BY <1>7 DEF KeepAligned
  <2>2. Held(s, i, v) /\ ToCome(s, i, v)
    BY <1>0, <1>1, LaterNothing
  <2>3. Fits(v, i)
    <3> HIDE DEF t
    <3> SUFFICES ASSUME NEW x \in Int, NEW y \in Int, x < y, x % tf = 0, y % tf = 0,
                        r.from <= x, y <= r.to
                 PROVE  FALSE
      OBVIOUS
    <3>1. t.from <= x /\ y <= t.to
      BY <1>4
    <3> QED BY <1>4, <1>7, <3>1
  <2>4. \A j \in 1..i : Fits(v, j)
    BY <1>0, <1>1, <2>3
  <2>5. v \in AlignedTo(s, i)
    BY <1>1, <2>2, <2>4 DEF AlignedTo
  <2> QED BY <2>1, <2>5
<1> QED BY <1>6, <1>7

LEMMA OpenKept ==
  ASSUME RequestOK, NEW n \in Nat, NEW s \in Seq(WindowSpans), Len(s) = n, Ascends(s)
  PROVE  FoldLeft(KeepOpen, <<>>, s) \in OpenTo(s, n)
<1> DEFINE W == [i \in 0..n |-> OpenTo(s, i)]
<1>0. DOMAIN s = 1..n
  OBVIOUS
<1>1. <<>> \in OpenTo(s, 0)
  BY DEF OpenTo, Ascends, Held, ToCome
<1>2. Opening!Keeps(W, n, s)
  <2>1. <<>> \in W[0]
    BY <1>1
  <2>2. \A i \in 1..n : \A v \in W[i - 1] : KeepOpen(v, s[i]) \in W[i]
    <3> TAKE i \in 1..n
    <3>1. i \in 0..n /\ i - 1 \in 0..n
      OBVIOUS
    <3>2. W[i] = OpenTo(s, i) /\ W[i - 1] = OpenTo(s, i - 1)
      BY <3>1
    <3> HIDE DEF W
    <3> QED BY <1>0, <3>2, KeepOpenStep
  <2> HIDE DEF W
  <2> QED BY <2>1, <2>2 DEF Opening!Keeps
<1>3. Opening!Fold(s) \in W[n]
  <2> HIDE DEF W
  <2> QED BY <1>0, <1>2, Opening!FoldInvariant
<1>4. Opening!Fold(s) = FoldLeft(KeepOpen, <<>>, s)
  BY Zenon DEF Opening!Fold, Opening!MapThenFoldSet, Opening!Top, FoldLeft, MapThenFoldSet, Max
<1> QED BY <1>3, <1>4

LEMMA AlignedKept ==
  ASSUME RequestOK, NEW n \in Nat, NEW s \in Seq(WindowSpans), Len(s) = n, Ascends(s)
  PROVE  Snapped(s) \in AlignedTo(s, n)
<1> DEFINE W == [i \in 0..n |-> AlignedTo(s, i)]
<1>0. DOMAIN s = 1..n
  OBVIOUS
<1>1. <<>> \in AlignedTo(s, 0)
  BY DEF AlignedTo, Ascends, Held, ToCome, Aligned
<1>2. Aligning!Keeps(W, n, s)
  <2>1. <<>> \in W[0]
    BY <1>1
  <2>2. \A i \in 1..n : \A v \in W[i - 1] : KeepAligned(v, s[i]) \in W[i]
    <3> TAKE i \in 1..n
    <3>1. i \in 0..n /\ i - 1 \in 0..n
      OBVIOUS
    <3>2. W[i] = AlignedTo(s, i) /\ W[i - 1] = AlignedTo(s, i - 1)
      BY <3>1
    <3> HIDE DEF W
    <3> QED BY <1>0, <3>2, KeepAlignedStep
  <2> HIDE DEF W
  <2> QED BY <2>1, <2>2 DEF Aligning!Keeps
<1>3. Aligning!Fold(s) \in W[n]
  <2> HIDE DEF W
  <2> QED BY <1>0, <1>2, Aligning!FoldInvariant
<1>4. Aligning!Fold(s) = Snapped(s)
  BY Zenon DEF Aligning!Fold, Aligning!MapThenFoldSet, Aligning!Top, Snapped, FoldLeft,
               MapThenFoldSet, Max
<1> QED BY <1>3, <1>4

\* drop_closed_subranges keeps the order, and every sub-range with open time.
LEMMA DropClosedKeeps ==
  ASSUME RequestOK, NEW s \in Seq(WindowSpans), Ascends(s)
  PROVE  /\ DropClosed(s) \in Seq(WindowSpans) /\ Ascends(DropClosed(s))
         /\ \A k \in DOMAIN DropClosed(s) : \E j \in DOMAIN s :
              s[j].from <= DropClosed(s)[k].from /\ DropClosed(s)[k].to <= s[j].to
         /\ \A j \in DOMAIN s : Inside(s[j]) \cap open # {} =>
              \E k \in DOMAIN DropClosed(s) : DropClosed(s)[k] = s[j]
<1> DEFINE n == Len(s)
<1>0. n \in Nat /\ DOMAIN s = 1..n
  OBVIOUS
<1>1. CASE s = <<window>>
  <2>1. DropClosed(s) = s
    BY <1>1 DEF DropClosed
  <2>2. \A k \in DOMAIN s : s[k].from \in Nat /\ s[k].to \in Nat
    BY SpansInWindow DEF WindowSpanFields
  <2> QED BY <2>1, <2>2
<1>2. CASE s # <<window>>
  <2>1. DropClosed(s) = FoldLeft(KeepOpen, <<>>, s)
    BY <1>2 DEF DropClosed
  <2>2. DropClosed(s) \in OpenTo(s, n)
    BY <1>0, <2>1, OpenKept
  <2> QED BY <1>0, <2>2 DEF OpenTo, Held
<1> QED BY <1>1, <1>2

----------------------------------------------------------------------------
(* From the gaps to the sub-ranges. *)

\* The gaps dispatch acts on, as the first n of them.
EffectiveClear(x, y) == Clear(Effective, Len(Effective), x, y)

\* Sub-ranges of the window, in order, that hold no minute of a gap; whatever stretch of
\* the window holds none and some open minute is in one.
Dispatched ==
  /\ subs \in Seq(WindowSpans) /\ Ascends(subs)
  /\ \A k \in DOMAIN subs : EffectiveClear(subs[k].from, subs[k].to)
  /\ \A x, y \in window.from..window.to :
       x < y /\ EffectiveClear(x, y) /\ x..(y - 1) \cap open # {} =>
         \E k \in DOMAIN subs : subs[k].from <= x /\ y <= subs[k].to

\* The same on bars.
OnTimeframe ==
  /\ subs \in Seq(WindowSpans) /\ Ascends(subs) /\ Aligned(subs)
  /\ \A k \in DOMAIN subs : EffectiveClear(subs[k].from, subs[k].to)
  /\ \A x, y \in window.from..window.to :
       x < y /\ x % tf = 0 /\ y % tf = 0 /\ EffectiveClear(x, y) /\ x..(y - 1) \cap open # {} =>
         \E k \in DOMAIN subs : subs[k].from <= x /\ y <= subs[k].to

LEMMA EffectiveByStart ==
  ASSUME RequestOK, gaps \in Seq(Proper)
  PROVE  ByStart(Effective, Len(Effective))
<1>1. /\ Effective \in Seq(Proper)
      /\ \A i, j \in DOMAIN Effective : i < j => Effective[i].from <= Effective[j].from
  BY EffectiveFacts
<1> QED BY <1>1 DEF ByStart

LEMMA DispatchMakes ==
  ASSUME RequestOK, gaps \in Seq(Proper)
  PROVE  LET d == DropClosed(Partition(Effective))
         IN  /\ d \in Seq(WindowSpans) /\ Ascends(d)
             /\ \A k \in DOMAIN d : EffectiveClear(d[k].from, d[k].to)
             /\ \A x, y \in window.from..window.to :
                  x < y /\ EffectiveClear(x, y) /\ x..(y - 1) \cap open # {} =>
                    \E k \in DOMAIN d : d[k].from <= x /\ y <= d[k].to
<1> DEFINE n == Len(Effective)
           p == Partition(Effective)
           d == DropClosed(p)
<1>1. ByStart(Effective, n) /\ n \in Nat
  BY EffectiveByStart DEF ByStart
<1>2. Parts(Effective, n, p)
  BY <1>1, PartitionParts
<1> HIDE DEF p, n
<1>3. p \in Seq(WindowSpans) /\ Ascends(p)
  BY <1>2 DEF Parts
<1>4. /\ d \in Seq(WindowSpans) /\ Ascends(d)
      /\ \A k \in DOMAIN d : \E j \in DOMAIN p : p[j].from <= d[k].from /\ d[k].to <= p[j].to
      /\ \A j \in DOMAIN p : Inside(p[j]) \cap open # {} => \E k \in DOMAIN d : d[k] = p[j]
  BY <1>3, DropClosedKeeps
<1> HIDE DEF d
<1>5. ASSUME NEW k \in DOMAIN d PROVE Clear(Effective, n, d[k].from, d[k].to)
  <2>1. PICK j \in DOMAIN p : p[j].from <= d[k].from /\ d[k].to <= p[j].to
    BY <1>4
  <2>2. Clear(Effective, n, p[j].from, p[j].to)
    BY <1>2 DEF Parts
  <2>3. p[j] \in WindowSpans /\ d[k] \in WindowSpans
    BY <1>3, <1>4
  <2>4. p[j].from \in Nat /\ p[j].to \in Nat /\ d[k].from \in Nat /\ d[k].to \in Nat
    BY <2>3, SpansInWindow DEF WindowSpanFields
  <2>5. \A i \in 1..n : Effective[i].from \in Nat /\ Effective[i].to \in Int
    BY <1>1, ByStartFields
  <2> QED BY <2>1, <2>2, <2>4, <2>5 DEF Clear
<1>6. ASSUME NEW x \in window.from..window.to, NEW y \in window.from..window.to,
             x < y, Clear(Effective, n, x, y), x..(y - 1) \cap open # {}
      PROVE  \E k \in DOMAIN d : d[k].from <= x /\ y <= d[k].to
  <2>1. PICK j \in DOMAIN p : p[j].from <= x /\ y <= p[j].to
    BY <1>2, <1>6 DEF Parts
  <2>2. p[j] \in WindowSpans
    BY <1>3
  <2>3. p[j].from \in Nat /\ p[j].to \in Nat /\ x \in Int /\ y \in Int
    BY <2>2, SpansInWindow, WindowFields DEF WindowSpanFields
  <2>4. x..(y - 1) \subseteq Inside(p[j])
    BY <2>1, <2>3 DEF Inside
  <2>5. PICK k \in DOMAIN d : d[k] = p[j]
    BY <1>4, <1>6, <2>4
  <2> QED BY <2>1, <2>5
<1> QED BY <1>4, <1>5, <1>6 DEF EffectiveClear, d, p, n

LEMMA SnapMakes ==
  ASSUME RequestOK, gaps \in Seq(Proper), Dispatched
  PROVE  LET d == Snapped(subs)
         IN  /\ d \in Seq(WindowSpans) /\ Ascends(d) /\ Aligned(d)
             /\ \A k \in DOMAIN d : EffectiveClear(d[k].from, d[k].to)
             /\ \A x, y \in window.from..window.to :
                  x < y /\ x % tf = 0 /\ y % tf = 0 /\ EffectiveClear(x, y)
                  /\ x..(y - 1) \cap open # {} =>
                    \E k \in DOMAIN d : d[k].from <= x /\ y <= d[k].to
<1> DEFINE n == Len(Effective)
           p == subs
           d == Snapped(p)
<1>1. ByStart(Effective, n) /\ n \in Nat
  BY EffectiveByStart DEF ByStart
<1>2. /\ p \in Seq(WindowSpans) /\ Ascends(p)
      /\ \A k \in DOMAIN p : Clear(Effective, n, p[k].from, p[k].to)
      /\ \A x, y \in window.from..window.to :
           x < y /\ Clear(Effective, n, x, y) /\ x..(y - 1) \cap open # {} =>
             \E k \in DOMAIN p : p[k].from <= x /\ y <= p[k].to
  BY DEF Dispatched, EffectiveClear
<1> HIDE DEF p, n
<1>3. Len(p) \in Nat /\ DOMAIN p = 1..Len(p)
  BY <1>2
<1>4. d \in AlignedTo(p, Len(p))
  BY <1>2, <1>3, AlignedKept
<1> HIDE DEF d
<1>5. /\ d \in Seq(WindowSpans) /\ Ascends(d) /\ Held(p, Len(p), d) /\ Aligned(d)
      /\ \A j \in 1..Len(p) : \A x, y \in Int :
           /\ x < y /\ x % tf = 0 /\ y % tf = 0
           /\ p[j].from <= x /\ y <= p[j].to
           => \E k \in DOMAIN d : d[k].from <= x /\ y <= d[k].to
  BY <1>4 DEF AlignedTo
<1>6. ASSUME NEW k \in DOMAIN d PROVE Clear(Effective, n, d[k].from, d[k].to)
  <2>1. PICK j \in DOMAIN p : p[j].from <= d[k].from /\ d[k].to <= p[j].to
    BY <1>3, <1>5 DEF Held
  <2>2. Clear(Effective, n, p[j].from, p[j].to)
    BY <1>2
  <2>3. p[j] \in WindowSpans /\ d[k] \in WindowSpans
    BY <1>2, <1>5
  <2>4. p[j].from \in Nat /\ p[j].to \in Nat /\ d[k].from \in Nat /\ d[k].to \in Nat
    BY <2>3, SpansInWindow DEF WindowSpanFields
  <2>5. \A i \in 1..n : Effective[i].from \in Nat /\ Effective[i].to \in Int
    BY <1>1, ByStartFields
  <2> QED BY <2>1, <2>2, <2>4, <2>5 DEF Clear
<1>7. ASSUME NEW x \in window.from..window.to, NEW y \in window.from..window.to,
             x < y, x % tf = 0, y % tf = 0, Clear(Effective, n, x, y), x..(y - 1) \cap open # {}
      PROVE  \E k \in DOMAIN d : d[k].from <= x /\ y <= d[k].to
  <2>1. PICK j \in DOMAIN p : p[j].from <= x /\ y <= p[j].to
    BY <1>2, <1>7
  <2>2. x \in Int /\ y \in Int
    BY WindowFields
  <2> QED BY <1>3, <1>5, <1>7, <2>1, <2>2
<1> QED BY <1>5, <1>6, <1>7 DEF EffectiveClear, d, p, n

----------------------------------------------------------------------------
(* The gaps of the request. *)

DetectedGaps ==
  IF Len(legs) = 1 THEN Detect(legs[1]) ELSE IntersectGaps(Detect(legs[1]), Detect(legs[2]))

\* On one leg a gap is a day without a file, or minutes without a bar.
LegGaps ==
  \A i \in DOMAIN gaps : \A m \in Inside(gaps[i]) :
    m \in Minutes /\ IF gaps[i].whole THEN Day(m) \in legs[1].missing ELSE m \in legs[1].holes

GapsOK == gaps \in Seq(Proper) /\ Holes \subseteq Covered(gaps) /\ (Len(legs) = 1 => LegGaps)

LEMMA IntersectCovers ==
  ASSUME RequestOK, NEW f \in Feeds, NEW g \in Feeds
  PROVE  /\ IntersectGaps(Detect(f), Detect(g)) \in Seq(Proper)
         /\ Covered(IntersectGaps(Detect(f), Detect(g))) = Covered(Detect(f)) \cup Covered(Detect(g))
<1> DEFINE A == LostDays(f) \cup LostMinutes(f)
           B == LostDays(g) \cup LostMinutes(g)
           s == Sorted(A \cup B)
           n == Len(s)
<1>1. /\ Lists(Detect(f), A) /\ IsFiniteSet(A) /\ A \subseteq Proper
      /\ Lists(Detect(g), B) /\ IsFiniteSet(B) /\ B \subseteq Proper
  BY Detected
<1> HIDE DEF A, B
<1>2. Range(Detect(f)) = A /\ Range(Detect(g)) = B
  <2>1. Detect(f) \in Seq(A) /\ Detect(g) \in Seq(B)
    BY <1>1 DEF Lists
  <2>2. \A i \in DOMAIN Detect(f) : Detect(f)[i] \in A
    BY <2>1
  <2>3. \A i \in DOMAIN Detect(g) : Detect(g)[i] \in B
    BY <2>1
  <2> QED BY <1>1, <2>2, <2>3 DEF Lists, Range
<1>3. IsFiniteSet(A \cup B) /\ A \cup B \in SUBSET Proper /\ A \cup B \in SUBSET Gaps
  BY <1>1, FS_Union DEF Proper
<1>4. Lists(s, A \cup B)
  BY <1>3, SortedLists
<1>5. IntersectGaps(Detect(f), Detect(g)) = FoldLeft(Merge, <<>>, s)
  BY <1>2 DEF IntersectGaps
<1> HIDE DEF s
<1>6. /\ s \in Seq(Proper) /\ \A m : m \in Covered(s) <=> \E x \in A \cup B : m \in Inside(x)
      /\ \A i, j \in DOMAIN s : i < j => s[i].from <= s[j].from
  BY <1>3, <1>4, ListedCovers
<1>7. n \in Nat /\ DOMAIN s = 1..n
  BY <1>6
<1>8. /\ FoldLeft(Merge, <<>>, s) \in Seq(Proper)
      /\ Covered(FoldLeft(Merge, <<>>, s)) = UNION {Inside(s[j]) : j \in 1..n}
  BY <1>6, <1>7, MergeCovers
<1>9. UNION {Inside(s[j]) : j \in 1..n} = Covered(s)
  BY <1>7 DEF Covered
<1>10. \A m : m \in Covered(Detect(f)) <=> \E x \in A : m \in Inside(x)
  BY <1>1, ListedCovers
<1>11. \A m : m \in Covered(Detect(g)) <=> \E x \in B : m \in Inside(x)
  BY <1>1, ListedCovers
<1>12. Covered(s) = Covered(Detect(f)) \cup Covered(Detect(g))
  BY <1>6, <1>10, <1>11
<1> QED BY <1>5, <1>8, <1>9, <1>12

LEMMA DetectedAreGaps ==
  ASSUME RequestOK, gaps = DetectedGaps
  PROVE  GapsOK
<1>1. /\ legs \in Seq(Feeds) /\ Len(legs) \in {1, 2}
      /\ \A i \in DOMAIN legs : legs[i] \in Feeds
  BY RequestFacts
<1>2. DOMAIN legs = 1..Len(legs) /\ 1 \in DOMAIN legs /\ legs[1] \in Feeds
  BY <1>1
<1>3. ASSUME NEW i \in DOMAIN legs, NEW m \in Holes, m \in Missing(i)
      PROVE  m \in Covered(Detect(legs[i]))
  <2>1. m \in Inside(window) \cap Checked
    BY DEF Holes
  <2>2. m \in legs[i].holes \/ Day(m) \in legs[i].missing
    BY <1>3 DEF Missing
  <2>3. legs[i] \in Feeds
    BY <1>1
  <2> QED BY <2>1, <2>2, <2>3, DetectCovers
<1>4. \A m \in Holes : \E i \in DOMAIN legs : m \in Missing(i)
  BY DEF Holes
<1>5. CASE Len(legs) = 1
  <2>1. gaps = Detect(legs[1])
    BY <1>5 DEF DetectedGaps
  <2>2. /\ Lists(gaps, LostDays(legs[1]) \cup LostMinutes(legs[1])) /\ gaps \in Seq(Proper)
    BY <1>2, <2>1, Detected
  <2>3. Holes \subseteq Covered(gaps)
    <3>1. \A i \in DOMAIN legs : i = 1
      BY <1>2, <1>5
    <3> QED BY <1>3, <1>4, <2>1, <3>1
  <2>4. LegGaps
    <3> SUFFICES ASSUME NEW i \in DOMAIN gaps, NEW m \in Inside(gaps[i])
                 PROVE  /\ m \in Minutes
                        /\ IF gaps[i].whole THEN Day(m) \in legs[1].missing ELSE m \in legs[1].holes
      BY DEF LegGaps
    <3>1. gaps \in Seq(LostDays(legs[1]) \cup LostMinutes(legs[1]))
      BY <2>2 DEF Lists
    <3>2. gaps[i] \in LostDays(legs[1]) \/ gaps[i] \in LostMinutes(legs[1])
      BY <3>1
    <3>3. CASE gaps[i] \in LostDays(legs[1])
      BY <1>2, <3>3, LostDaysFacts
    <3>4. CASE gaps[i] \in LostMinutes(legs[1])
      BY <1>2, <3>4, LostMinutesFacts
    <3> QED BY <3>2, <3>3, <3>4
  <2> QED BY <2>2, <2>3, <2>4 DEF GapsOK
<1>6. CASE Len(legs) = 2
  <2>1. gaps = IntersectGaps(Detect(legs[1]), Detect(legs[2]))
    BY <1>6 DEF DetectedGaps
  <2>2. 2 \in DOMAIN legs /\ legs[2] \in Feeds /\ \A i \in DOMAIN legs : i = 1 \/ i = 2
    BY <1>1, <1>2, <1>6
  <2>3. /\ gaps \in Seq(Proper)
        /\ Covered(gaps) = Covered(Detect(legs[1])) \cup Covered(Detect(legs[2]))
    BY <1>2, <2>1, <2>2, IntersectCovers
  <2>4. Holes \subseteq Covered(gaps)
    BY <1>3, <1>4, <2>2, <2>3
  <2> QED BY <1>6, <2>3, <2>4 DEF GapsOK
<1> QED BY <1>1, <1>5, <1>6

----------------------------------------------------------------------------
(* Bars and days. *)

LEMMA NextMultiple ==
  ASSUME NEW n \in Nat \ {0}, NEW b \in Int, b % n = 0
  PROVE  (b + n) % n = 0 /\ 0 % n = 0
<1> DEFINE k == b \div n
<1>1. k \in Int /\ b = k * n
  OBVIOUS
<1> HIDE DEF k
<1>2. \A i \in Int : (i * n) % n = 0
  OBVIOUS
<1>3. b + n = (k + 1) * n /\ k + 1 \in Int
  BY <1>1
<1>4. 0 = 0 * n /\ 0 \in Int
  OBVIOUS
<1>5. (b + n) % n = 0
  BY <1>2, <1>3
<1>6. (0 * n) % n = 0
  BY <1>2, <1>4
<1> QED BY <1>4, <1>5, <1>6

LEMMA BarsFacts ==
  ASSUME RequestOK, NEW b \in Bars
  PROVE  /\ b \in Nat /\ b % tf = 0 /\ (b + tf) % tf = 0 /\ BarOf(b) = b..(b + tf - 1)
         /\ tf \in Nat \ {0} /\ BarOf(b) \subseteq Nat
<1>1. tf \in Nat \ {0} /\ b \in Nat /\ b % tf = 0
  BY RequestFacts DEF Bars, Minutes
<1>2. (b + tf) % tf = 0
  <2>1. b \in Int
    BY <1>1
  <2> QED BY <1>1, <2>1, NextMultiple, Zenon
<1>3. BarOf(b) = b..(b + tf - 1)
  BY DEF BarOf
<1>4. \A m \in b..(b + tf - 1) : m \in Nat
  BY <1>1
<1> QED BY <1>1, <1>2, <1>3, <1>4

\* Bars do not overlap.
LEMMA OneBar ==
  ASSUME RequestOK, NEW a \in Bars, NEW b \in Bars, NEW m \in BarOf(a), m \in BarOf(b)
  PROVE  a = b
<1>1. /\ tf \in Nat \ {0} /\ a \in Nat /\ b \in Nat /\ a % tf = 0 /\ b % tf = 0 /\ m \in Nat
      /\ a <= m /\ m < a + tf /\ b <= m /\ m < b + tf
  <2>1. a \in Nat /\ a % tf = 0 /\ tf \in Nat \ {0} /\ m \in a..(a + tf - 1)
    BY BarsFacts
  <2>2. b \in Nat /\ b % tf = 0 /\ m \in b..(b + tf - 1)
    BY BarsFacts
  <2> QED BY <2>1, <2>2
<1> DEFINE k == a \div tf
           l == b \div tf
<1>2. k \in Nat /\ l \in Nat /\ a = k * tf /\ b = l * tf
  BY <1>1
<1> HIDE DEF k, l
<1>3. k <= l /\ l <= k
  BY <1>1, <1>2
<1> QED BY <1>2, <1>3

\* A bar lies in one day.
LEMMA BarInDay ==
  ASSUME RequestOK, NEW b \in Bars, NEW m \in BarOf(b)
  PROVE  Day(m) = Day(b)
<1>1. /\ tf \in Nat \ {0} /\ b \in Nat /\ b % tf = 0 /\ m \in Nat
      /\ b <= m /\ m < b + tf
  BY BarsFacts
<1>2. DayLength \in Nat \ {0} /\ DayLength % tf = 0
  BY RequestFacts
<1> DEFINE d == Day(b)
           k == b \div tf
           q == DayLength \div tf
           e == (d + 1) * q
<1>3. k \in Nat /\ b = k * tf /\ q \in Nat /\ DayLength = q * tf
  BY <1>1, <1>2
<1>4. d \in Nat /\ d * DayLength <= b /\ b < (d + 1) * DayLength
  <2>1. d \in Nat /\ b \in (d * DayLength)..((d + 1) * DayLength - 1)
    BY <1>1, DayFacts
  <2> HIDE DEF d
  <2> QED BY <1>2, <2>1
<1> HIDE DEF d, k, q
<1>5. e \in Nat /\ (d + 1) * DayLength = e * tf
  BY <1>1, <1>3, <1>4
<1> HIDE DEF e
<1>6. k < e
  BY <1>1, <1>3, <1>4, <1>5
<1>7. (k + 1) * tf <= e * tf /\ (k + 1) * tf = b + tf
  BY <1>1, <1>3, <1>5, <1>6
<1>8. m \in (d * DayLength)..((d + 1) * DayLength - 1)
  <2>1. m < e * tf
    BY <1>1, <1>3, <1>5, <1>7
  <2> QED BY <1>1, <1>2, <1>4, <1>5, <2>1
<1>9. Day(m) = d
  BY <1>1, <1>4, <1>8, DayFacts
<1> QED BY <1>9 DEF d

\* Every minute is in a bar.
LEMMA BarAround ==
  ASSUME RequestOK, NEW m \in Minutes
  PROVE  \E b \in Bars : m \in BarOf(b)
<1> DEFINE b == AlignDown(m)
<1>1. tf \in Nat \ {0} /\ Horizon \in Nat /\ m \in Nat /\ m < Horizon
  BY RequestFacts DEF Minutes
<1>2. /\ b \in Int /\ b % tf = 0 /\ b <= m
      /\ \A x \in Int : x % tf = 0 => (x <= m => x <= b)
  BY <1>1, AlignFacts
<1> HIDE DEF b
<1>3. 0 % tf = 0 /\ (b + tf) % tf = 0 /\ b + tf \in Int
  <2>1. (b + tf) % tf = 0 /\ 0 % tf = 0
    BY <1>1, <1>2, NextMultiple, Zenon
  <2> QED BY <1>1, <1>2, <2>1
<1>4. 0 <= b
  BY <1>1, <1>2, <1>3
<1>5. ~(b + tf <= m)
  BY <1>1, <1>2, <1>3
<1>6. b \in Bars
  BY <1>1, <1>2, <1>4 DEF Bars, Minutes
<1>7. m \in BarOf(b)
  BY <1>1, <1>2, <1>5 DEF BarOf
<1> QED BY <1>6, <1>7

----------------------------------------------------------------------------
(* The invariant. *)

\* Before the detector no gaps are known; from dispatch on they cover the holes; an
\* abort is of a strict run with a gap, and has no sub-range; any other run has the
\* sub-ranges dispatch made, and at the end those on bars.
PolicyInv ==
  /\ RequestOK
  /\ pc \in {"detect", "dispatch", "snap", "done"} /\ aborted \in BOOLEAN
  /\ pc \in {"detect", "dispatch"} => subs = <<>> /\ ~aborted
  /\ pc # "detect" => GapsOK
  /\ aborted => Effective # <<>> /\ policy = "strict" /\ subs = <<>>
  /\ pc = "snap" /\ ~aborted => Dispatched
  /\ pc = "done" /\ ~aborted => OnTimeframe

LEMMA Unmoved ==
  ASSUME UNCHANGED <<request, gaps>>
  PROVE  /\ RequestOK => RequestOK'
         /\ GapsOK => GapsOK'
         /\ Effective' = Effective
<1>1. /\ legs' = legs /\ window' = window /\ policy' = policy /\ tf' = tf /\ cal' = cal
      /\ open' = open /\ gaps' = gaps
  BY DEF request
<1>2. RequestOK => RequestOK'
  BY <1>1 DEF RequestOK
<1>3. GapsOK => GapsOK'
  BY <1>1 DEF GapsOK, Holes, Missing, LegGaps
<1>4. Effective' = Effective
  BY <1>1 DEF Effective, Project, WithoutClosedTime, NoOpenData, Bars, BarOf
<1> QED BY <1>2, <1>3, <1>4

LEMMA SubsUnmoved ==
  ASSUME UNCHANGED <<request, gaps, subs>>
  PROVE  (Dispatched => Dispatched') /\ (OnTimeframe => OnTimeframe')
<1>1. /\ window' = window /\ tf' = tf /\ open' = open /\ subs' = subs
  BY DEF request
<1>2. Effective' = Effective
  BY Unmoved
<1>3. Dispatched => Dispatched'
  BY <1>1, <1>2 DEF Dispatched, EffectiveClear, WindowSpans
<1>4. OnTimeframe => OnTimeframe'
  BY <1>1, <1>2 DEF OnTimeframe, EffectiveClear, WindowSpans, Aligned
<1> QED BY <1>3, <1>4

LEMMA PolicyInit == Init => PolicyInv
<1> SUFFICES ASSUME Init PROVE PolicyInv
  OBVIOUS
<1>1. open \in SUBSET Minutes
  BY DEF Init
<1>2. RequestOK
  BY <1>1 DEF Init, RequestOK
<1> QED BY <1>2 DEF Init, PolicyInv

LEMMA DetectKeeps == PolicyInv /\ DetectGaps => PolicyInv'
<1> SUFFICES ASSUME PolicyInv, DetectGaps PROVE PolicyInv'
  OBVIOUS
<1>1. RequestOK /\ pc = "detect" /\ subs = <<>> /\ ~aborted
  BY DEF PolicyInv, DetectGaps
<1>2. /\ legs' = legs /\ window' = window /\ policy' = policy /\ tf' = tf /\ cal' = cal
      /\ open' = open /\ subs' = subs /\ aborted' = aborted /\ pc' = "dispatch"
      /\ gaps' = DetectedGaps
  BY DEF DetectGaps, request, DetectedGaps
<1>3. RequestOK'
  BY <1>1, <1>2 DEF RequestOK
<1>4. DetectedGaps' = DetectedGaps
  BY <1>2 DEF DetectedGaps, Detect
<1>5. (RequestOK /\ gaps = DetectedGaps => GapsOK)'
  BY DetectedAreGaps, PTL
<1>6. GapsOK'
  BY <1>2, <1>3, <1>4, <1>5
<1> QED BY <1>1, <1>2, <1>3, <1>6 DEF PolicyInv

LEMMA DispatchKeeps == PolicyInv /\ Dispatch => PolicyInv'
<1> SUFFICES ASSUME PolicyInv, Dispatch PROVE PolicyInv'
  OBVIOUS
<1>1. RequestOK /\ pc = "dispatch" /\ GapsOK /\ subs = <<>> /\ ~aborted
  BY DEF PolicyInv, Dispatch
<1>2. UNCHANGED <<request, gaps>> /\ pc' = "snap"
  BY DEF Dispatch
<1>3. RequestOK' /\ GapsOK' /\ Effective' = Effective /\ policy' = policy
  BY <1>1, <1>2, Unmoved DEF request
<1>4. CASE policy = "strict" /\ Effective # <<>>
  <2>1. aborted' = TRUE /\ subs' = subs
    BY <1>4 DEF Dispatch
  <2> QED BY <1>1, <1>2, <1>3, <1>4, <2>1 DEF PolicyInv
<1>5. CASE ~(policy = "strict" /\ Effective # <<>>)
  <2> DEFINE d == DropClosed(Partition(Effective))
  <2>1. aborted' = aborted /\ subs' = d
    BY <1>5 DEF Dispatch
  <2>2. gaps \in Seq(Proper)
    BY <1>1 DEF GapsOK
  <2>3. /\ d \in Seq(WindowSpans) /\ Ascends(d)
        /\ \A k \in DOMAIN d : EffectiveClear(d[k].from, d[k].to)
        /\ \A x, y \in window.from..window.to :
             x < y /\ EffectiveClear(x, y) /\ x..(y - 1) \cap open # {} =>
               \E k \in DOMAIN d : d[k].from <= x /\ y <= d[k].to
    BY <1>1, <2>2, DispatchMakes
  <2> HIDE DEF d
  <2>4. window' = window /\ open' = open
    BY <1>2 DEF request
  <2>5. Dispatched'
    BY <1>3, <2>1, <2>3, <2>4 DEF Dispatched, EffectiveClear, WindowSpans
  <2> QED BY <1>1, <1>2, <1>3, <2>1, <2>5 DEF PolicyInv
<1> QED BY <1>4, <1>5

LEMMA SnapKeeps == PolicyInv /\ Snap => PolicyInv'
<1> SUFFICES ASSUME PolicyInv, Snap PROVE PolicyInv'
  OBVIOUS
<1> DEFINE d == Snapped(subs)
<1>1. RequestOK /\ pc = "snap" /\ GapsOK /\ gaps \in Seq(Proper) /\ aborted \in BOOLEAN
  BY DEF PolicyInv, Snap, GapsOK
<1>2. UNCHANGED <<request, gaps>> /\ pc' = "done" /\ aborted' = aborted /\ subs' = d
  BY DEF Snap
<1>3. RequestOK' /\ GapsOK' /\ Effective' = Effective /\ policy' = policy
  BY <1>1, <1>2, Unmoved DEF request
<1>4. CASE aborted
  <2>1. Effective # <<>> /\ policy = "strict" /\ subs = <<>>
    BY <1>4 DEF PolicyInv
  <2>2. <<>> \in Seq(WindowSpans) /\ Len(<<>>) = 0 /\ Ascends(<<>>)
    BY DEF Ascends
  <2>3. Snapped(<<>>) \in AlignedTo(<<>>, 0)
    BY <1>1, <2>2, AlignedKept
  <2>4. Snapped(<<>>) = <<>>
    <3>1. Snapped(<<>>) \in Seq(WindowSpans) /\ Held(<<>>, 0, Snapped(<<>>))
      BY <2>3 DEF AlignedTo
    <3>2. \A j \in 1..0 : FALSE
      OBVIOUS
    <3>3. \A k \in DOMAIN Snapped(<<>>) : FALSE
      BY <3>1, <3>2 DEF Held
    <3> DEFINE z == Snapped(<<>>)
    <3>4. z \in Seq(WindowSpans) /\ \A k \in DOMAIN z : FALSE
      BY <3>1, <3>3
    <3> HIDE DEF z
    <3>5. DOMAIN z = {} <=> z = <<>>
      BY <3>4
    <3>6. z = <<>>
      BY <3>4, <3>5
    <3> QED BY <3>6 DEF z
  <2>5. d = <<>>
    BY <2>1, <2>4
  <2> HIDE DEF d
  <2> QED BY <1>1, <1>2, <1>3, <1>4, <2>1, <2>5 DEF PolicyInv
<1>5. CASE ~aborted
  <2>1. Dispatched
    BY <1>1, <1>5 DEF PolicyInv
  <2>2. /\ d \in Seq(WindowSpans) /\ Ascends(d) /\ Aligned(d)
        /\ \A k \in DOMAIN d : EffectiveClear(d[k].from, d[k].to)
        /\ \A x, y \in window.from..window.to :
             x < y /\ x % tf = 0 /\ y % tf = 0 /\ EffectiveClear(x, y)
             /\ x..(y - 1) \cap open # {} =>
               \E k \in DOMAIN d : d[k].from <= x /\ y <= d[k].to
    BY <1>1, <2>1, SnapMakes
  <2> HIDE DEF d
  <2>3. window' = window /\ open' = open /\ tf' = tf
    BY <1>2 DEF request
  <2>4. OnTimeframe'
    BY <1>2, <1>3, <2>2, <2>3 DEF OnTimeframe, EffectiveClear, WindowSpans, Aligned
  <2> QED BY <1>1, <1>2, <1>3, <1>5, <2>4 DEF PolicyInv
<1> QED BY <1>1, <1>4, <1>5

LEMMA PolicyStutters == PolicyInv /\ UNCHANGED vars => PolicyInv'
<1> SUFFICES ASSUME PolicyInv, UNCHANGED vars PROVE PolicyInv'
  OBVIOUS
<1>1. /\ UNCHANGED <<request, gaps, subs>> /\ UNCHANGED <<request, gaps>>
      /\ pc' = pc /\ aborted' = aborted /\ subs' = subs
  BY DEF vars
<1>2. policy' = policy
  BY <1>1 DEF request
<1>3. (RequestOK => RequestOK') /\ (GapsOK => GapsOK') /\ Effective' = Effective
  BY <1>1, Unmoved
<1>4. (Dispatched => Dispatched') /\ (OnTimeframe => OnTimeframe')
  BY <1>1, SubsUnmoved
<1> QED BY <1>1, <1>2, <1>3, <1>4 DEF PolicyInv

\* What is known of the gaps and the sub-ranges at each step of coverage.
THEOREM PolicyInvariant == Spec => []PolicyInv
<1>1. PolicyInv /\ [Next]_vars => PolicyInv'
  BY DetectKeeps, DispatchKeeps, SnapKeeps, PolicyStutters DEF Next, Stopped
<1> QED BY <1>1, PolicyInit, PTL DEF Spec

----------------------------------------------------------------------------
(* Properties. *)

LEMMA WhenDone ==
  ASSUME PolicyInv, pc = "done"
  PROVE  /\ subs \in Seq(WindowSpans) /\ Ascends(subs) /\ Aligned(subs)
         /\ \A k \in DOMAIN subs : EffectiveClear(subs[k].from, subs[k].to)
<1>1. CASE aborted
  <2>1. subs = <<>>
    BY <1>1 DEF PolicyInv
  <2>2. subs \in Seq(WindowSpans) /\ \A k \in DOMAIN subs : FALSE
    BY <2>1
  <2> QED BY <2>2 DEF Ascends, Aligned
<1>2. CASE ~aborted
  BY <1>2 DEF PolicyInv, OnTimeframe
<1> QED BY <1>1, <1>2

LEMMA InvOnBars == PolicyInv => OnBars
<1> SUFFICES ASSUME PolicyInv, pc = "done"
             PROVE  /\ \A i \in DOMAIN subs : /\ subs[i].from % tf = 0 /\ subs[i].to % tf = 0
                                              /\ window.from <= subs[i].from
                                              /\ subs[i].from < subs[i].to
                                              /\ subs[i].to <= window.to
                    /\ \A i, j \in DOMAIN subs : i < j => subs[i].to <= subs[j].from
  BY DEF OnBars
<1>1. subs \in Seq(WindowSpans) /\ Ascends(subs) /\ Aligned(subs)
  BY WhenDone
<1>2. \A i \in DOMAIN subs : subs[i] \in WindowSpans
  BY <1>1
<1> QED BY <1>1, <1>2 DEF Ascends, Aligned, WindowSpans

LEMMA InvNoEmptyBar == PolicyInv => NoEmptyBar
<1> SUFFICES ASSUME PolicyInv, pc = "done", NEW b \in Chosen, BarOf(b) \cap open # {},
                    BarOf(b) \cap open \subseteq Holes
             PROVE  FALSE
  BY DEF NoEmptyBar
<1>1. RequestOK /\ gaps \in Seq(Proper) /\ Holes \subseteq Covered(gaps)
  BY DEF PolicyInv, GapsOK
<1>2. PICK i \in DOMAIN subs : BarOf(b) \subseteq Inside(subs[i])
  BY DEF Chosen
<1>3. b \in Bars
  BY DEF Chosen
<1>4. PICK m \in BarOf(b) : m \in Covered(Effective)
  BY <1>1, <1>3, EmptyBarsAreGaps
<1>5. subs \in Seq(WindowSpans) /\ EffectiveClear(subs[i].from, subs[i].to)
  BY WhenDone
<1>6. Effective \in Seq(Proper)
  BY <1>1, EffectiveFacts
<1>7. PICK j \in DOMAIN Effective : m \in Inside(Effective[j])
  BY <1>4 DEF Covered
<1>8. j \in 1..Len(Effective) /\ Effective[j].from \in Nat /\ Effective[j].to \in Int
  BY <1>6, <1>7, ProperFields
<1>9. subs[i] \in WindowSpans
  BY <1>5
<1>10. subs[i].from \in Nat /\ subs[i].to \in Nat
  BY <1>1, <1>9, SpansInWindow DEF WindowSpanFields
<1>11. m \in subs[i].from..(subs[i].to - 1) /\ m \in Effective[j].from..(Effective[j].to - 1)
  BY <1>2, <1>7 DEF Inside
<1>12. subs[i].to <= Effective[j].from \/ Effective[j].to <= subs[i].from
  BY <1>5, <1>8 DEF EffectiveClear, Clear
<1> QED BY <1>8, <1>10, <1>11, <1>12

\* On one leg no gap holds a minute that has a bar, and a gap of a whole day no minute of
\* a day that has a file.
LEMMA GapsAreMissing ==
  ASSUME RequestOK, gaps \in Seq(Proper), LegGaps
  PROVE  /\ \A m \in Covered(gaps) : m \in Missing(1)
         /\ \A i \in DOMAIN gaps : gaps[i].whole =>
              \A m \in Inside(gaps[i]) : m \in Minutes /\ Day(m) \in legs[1].missing
BY DEF LegGaps, Covered, Missing

\* What an effective gap of one leg holds of a bar: a day without a file around it, or
\* no data in open time.
LEMMA GapOfBar ==
  ASSUME RequestOK, gaps \in Seq(Proper), LegGaps,
         NEW g \in ProjectSet(WithoutClosedTime(gaps)), NEW b \in Bars, NEW m \in BarOf(b),
         m \in Inside(g), NEW d \in BarOf(b) \cap open
  PROVE  d \in Missing(1)
<1> DEFINE man == WithoutClosedTime(gaps)
<1>1. /\ Lists(man, OpenSet(gaps)) /\ man \in Seq(Proper)
      /\ Covered(man) = Covered(gaps) \cap open
  BY WithoutClosedFacts
<1>2. d \in Minutes
  BY DEF RequestOK
<1>3. g \in ProjectSet(man)
  OBVIOUS
<1> HIDE DEF man
<1>4. CASE g.whole
  <2>1. PICK i \in DOMAIN man : g = man[i]
    BY <1>1, <1>3, <1>4, ProjectSetFacts
  <2>2. man[i] \in OpenSet(gaps)
    BY <1>1 DEF Lists
  <2>3. PICK k \in DOMAIN gaps : gaps[k].whole /\ Inside(g) \subseteq Inside(gaps[k])
    BY <1>4, <2>1, <2>2, OpenSetFacts
  <2>4. Day(m) \in legs[1].missing
    BY <2>3, GapsAreMissing
  <2>5. Day(d) = Day(b) /\ Day(m) = Day(b)
    BY BarInDay
  <2> QED BY <1>2, <2>4, <2>5 DEF Missing
<1>5. CASE ~g.whole
  <2>1. PICK c \in Emptied(man) : m \in BarOf(c)
    BY <1>1, <1>3, <1>5, ProjectSetFacts
  <2>2. c \in Bars /\ NoOpenData(c, Covered(man))
    BY DEF Emptied
  <2>3. c = b
    BY <2>1, <2>2, OneBar
  <2>4. d \in Covered(man)
    BY <2>2, <2>3 DEF NoOpenData
  <2> QED BY <1>1, <2>4, GapsAreMissing
<1> QED BY <1>4, <1>5

\* A bar with data in open time is in no gap.
LEMMA DataBarsClear ==
  ASSUME RequestOK, gaps \in Seq(Proper), LegGaps, Len(legs) = 1,
         NEW b \in Bars, BarOf(b) \cap WithData # {}
  PROVE  EffectiveClear(b, b + tf)
<1> SUFFICES ASSUME NEW j \in 1..Len(Effective),
                    ~(b + tf <= Effective[j].from \/ Effective[j].to <= b)
             PROVE  FALSE
  BY DEF EffectiveClear, Clear
<1>1. /\ Lists(Effective, ProjectSet(WithoutClosedTime(gaps))) /\ Effective \in Seq(Proper)
  BY EffectiveFacts
<1>2. /\ Effective[j] \in ProjectSet(WithoutClosedTime(gaps)) /\ Effective[j] \in Proper
  BY <1>1 DEF Lists
<1> DEFINE g == Effective[j]
           m == IF b <= g.from THEN g.from ELSE b
<1>3. g.from \in Nat /\ g.to \in Int /\ g.from < g.to
  BY <1>2, ProperFields
<1>4. b \in Nat /\ tf \in Nat \ {0} /\ BarOf(b) = b..(b + tf - 1)
  BY BarsFacts
<1>5. m \in BarOf(b) /\ m \in Inside(g)
  <2> SUFFICES m \in b..(b + tf - 1) /\ m \in g.from..(g.to - 1)
    BY <1>4 DEF Inside
  <2> HIDE DEF g
  <2> QED BY <1>3, <1>4 DEF g
<1>6. PICK d \in BarOf(b) : d \in WithData
  OBVIOUS
<1>7. d \in open /\ d \notin Missing(1)
  <2>1. legs \in Seq(Feeds)
    BY RequestFacts
  <2>2. 1 \in DOMAIN legs
    BY <2>1
  <2> QED BY <1>6, <2>2 DEF WithData
<1> HIDE DEF m
<1>8. d \in Missing(1)
  BY <1>2, <1>5, <1>6, <1>7, GapOfBar
<1> QED BY <1>7, <1>8

LEMMA InvKeepsData == PolicyInv /\ Len(legs) = 1 => KeepsData
<1> SUFFICES ASSUME PolicyInv, Len(legs) = 1, pc = "done", policy = "continuous_only",
                    NEW b \in Bars, BarOf(b) \subseteq Inside(window), BarOf(b) \cap WithData # {}
             PROVE  b \in Chosen
  BY DEF KeepsData
<1>1. RequestOK /\ gaps \in Seq(Proper) /\ LegGaps
  BY DEF PolicyInv, GapsOK
<1>2. OnTimeframe
  BY DEF PolicyInv
<1>3. EffectiveClear(b, b + tf)
  BY <1>1, DataBarsClear
<1>4. /\ b \in Nat /\ b % tf = 0 /\ (b + tf) % tf = 0 /\ tf \in Nat \ {0}
      /\ BarOf(b) = b..(b + tf - 1)
  BY <1>1, BarsFacts
<1>5. window.from \in Nat /\ window.to \in Nat
  BY <1>1, RequestFacts
<1>6. b \in window.from..window.to /\ b + tf \in window.from..window.to /\ b < b + tf
  <2>1. b \in b..(b + tf - 1) /\ b + tf - 1 \in b..(b + tf - 1)
    BY <1>4
  <2>2. b \in window.from..(window.to - 1) /\ b + tf - 1 \in window.from..(window.to - 1)
    BY <1>4, <2>1 DEF Inside
  <2> QED BY <1>4, <1>5, <2>2
<1>7. b..(b + tf - 1) \cap open # {}
  BY <1>4 DEF WithData
<1>8. PICK k \in DOMAIN subs : subs[k].from <= b /\ b + tf <= subs[k].to
  <2>1. \A x, y \in window.from..window.to :
          x < y /\ x % tf = 0 /\ y % tf = 0 /\ EffectiveClear(x, y) /\ x..(y - 1) \cap open # {} =>
            \E k \in DOMAIN subs : subs[k].from <= x /\ y <= subs[k].to
    BY <1>2 DEF OnTimeframe
  <2> DEFINE y == b + tf
  <2>2. /\ y \in window.from..window.to /\ b < y /\ y % tf = 0 /\ EffectiveClear(b, y)
        /\ b..(y - 1) \cap open # {}
    BY <1>3, <1>4, <1>6, <1>7
  <2> HIDE DEF y
  <2>3. \E k \in DOMAIN subs : subs[k].from <= b /\ y <= subs[k].to
    BY <1>4, <1>6, <2>1, <2>2
  <2> QED BY <2>3 DEF y
<1>9. subs[k] \in WindowSpans
  BY <1>2 DEF OnTimeframe
<1>10. subs[k].from \in Nat /\ subs[k].to \in Nat
  BY <1>1, <1>9, SpansInWindow DEF WindowSpanFields
<1>11. BarOf(b) \subseteq Inside(subs[k])
  BY <1>4, <1>8, <1>10 DEF Inside
<1> QED BY <1>11 DEF Chosen

LEMMA InvAbortsOnGap == PolicyInv /\ Len(legs) = 1 => AbortsOnGap
<1> SUFFICES ASSUME PolicyInv, Len(legs) = 1, aborted PROVE \E b \in Bars : EmptyBar(b)
  BY DEF AbortsOnGap
<1> DEFINE man == WithoutClosedTime(gaps)
<1>1. RequestOK /\ gaps \in Seq(Proper) /\ LegGaps /\ Effective # <<>>
  BY DEF PolicyInv, GapsOK
<1>2. /\ Lists(man, OpenSet(gaps)) /\ man \in Seq(Proper)
      /\ Covered(man) = Covered(gaps) \cap open
  BY <1>1, WithoutClosedFacts
<1>3. PICK g \in ProjectSet(man) : TRUE
  <2>1. Lists(Effective, ProjectSet(man)) /\ ProjectSet(man) \in SUBSET Proper
    BY <1>1, EffectiveFacts
  <2> HIDE DEF man
  <2>2. ProjectSet(man) # {}
    BY <1>1, <2>1, ListedCovers
  <2> QED BY <2>2
<1>4. ASSUME NEW b \in Bars, NEW m \in BarOf(b), m \in open, m \in Inside(g) PROVE EmptyBar(b)
  <2>1. \A d \in BarOf(b) \cap open : d \in Missing(1)
    BY <1>1, <1>4, GapOfBar
  <2>2. legs \in Seq(Feeds)
    BY <1>1, RequestFacts
  <2>3. 1 \in DOMAIN legs
    BY <2>2
  <2> QED BY <1>4, <2>1, <2>3 DEF EmptyBar
<1> HIDE DEF man
<1>5. ASSUME NEW i \in DOMAIN man
      PROVE  man[i].from \in open /\ Inside(man[i]) \subseteq open /\ man[i] \in Proper
  <2>1. man[i] \in OpenSet(gaps)
    BY <1>2 DEF Lists
  <2> QED BY <1>1, <1>2, <2>1, OpenSetFacts
<1>6. CASE g.whole
  <2>1. PICK i \in DOMAIN man : g = man[i]
    BY <1>1, <1>2, <1>3, <1>6, ProjectSetFacts
  <2>2. g.from \in open /\ g.from \in Minutes
    BY <1>1, <1>5, <2>1 DEF RequestOK
  <2>3. g.from \in Inside(g)
    BY <1>5, <2>1, ProperFields DEF Inside
  <2>4. PICK b \in Bars : g.from \in BarOf(b)
    BY <1>1, <2>2, BarAround
  <2> QED BY <1>4, <2>2, <2>3, <2>4
<1>7. CASE ~g.whole
  <2>1. PICK b \in Emptied(man) : TRUE
    BY <1>1, <1>2, <1>3, <1>7, ProjectSetFacts
  <2>2. b \in Bars /\ NoOpenData(b, Covered(man))
    BY DEF Emptied
  <2>3. PICK i \in DOMAIN man : BarOf(b) \cap Inside(man[i]) # {}
    BY <2>1 DEF Emptied
  <2>4. BarOf(b) \cap open # {}
    BY <1>5, <2>3
  <2>5. \A d \in BarOf(b) \cap open : d \in Missing(1)
    BY <1>1, <1>2, <2>2, GapsAreMissing DEF NoOpenData
  <2>6. 1 \in DOMAIN legs
    <3>1. legs \in Seq(Feeds)
      BY <1>1, RequestFacts
    <3> QED BY <3>1
  <2>7. EmptyBar(b)
    BY <2>4, <2>5, <2>6 DEF EmptyBar
  <2> QED BY <2>2, <2>7
<1> QED BY <1>6, <1>7

\* The sub-ranges of a scan start and end on bars, lie in the window, ascend and do not
\* overlap, whatever the calendar, the gaps of the legs and the timeframe.
THEOREM OnBarsHolds == Spec => []OnBars
BY PolicyInvariant, InvOnBars, PTL

\* No scan is run over a bar of which every open minute is known to be missing in one leg
\* or the other.
THEOREM NoEmptyBarHolds == Spec => []NoEmptyBar
BY PolicyInvariant, InvNoEmptyBar, PTL

\* On one leg the policy is exact: continuous_only gives up no bar with data in open time,
\* and strict aborts only over a bar without any.
THEOREM SingleLegIsExact == Spec => []SingleLegExact
<1>1. PolicyInv => SingleLegExact
  BY InvKeepsData, InvAbortsOnGap DEF SingleLegExact
<1> QED BY <1>1, PolicyInvariant, PTL

CalendarInv == cal \in Tables /\ Accepts(cal) /\ open = {m \in Minutes : IsOpenAt(cal, m)}

\* What the run takes for open is what the table of its calendar says, minute by minute.
THEOREM ClosedIsAsWritten == Spec => []ClosedAsWritten
<1>1. Init => CalendarInv
  BY GapPolicyAssumption DEF Init, CalendarInv
<1>2. CalendarInv /\ [Next]_vars => CalendarInv'
  <2> SUFFICES ASSUME CalendarInv, [Next]_vars PROVE CalendarInv'
    OBVIOUS
  <2>1. UNCHANGED request
    BY DEF Next, DetectGaps, Dispatch, Snap, Stopped, vars
  <2>2. cal' = cal /\ open' = open
    BY <2>1 DEF request
  <2> QED BY <2>2 DEF CalendarInv
<1>3. CalendarInv => ClosedAsWritten
  <2>1. \A m \in Minutes : m \in Int
    BY DEF Minutes
  <2> QED BY <2>1, OpenIsAsWritten DEF CalendarInv, ClosedAsWritten
<1> QED BY <1>1, <1>2, <1>3, PTL DEF Spec
=============================================================================
