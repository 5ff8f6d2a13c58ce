------------------------------ MODULE Calendar ------------------------------
(***************************************************************************)
(* Dates and times as datetime.c counts them, from 1 January 1900.  A date *)
(* is <<year, month, day>>, a time <<hour, minute, second, hundredth>>.    *)
(* 255 stands for any month, day, hour and so on, and 2155 for any year.   *)
(***************************************************************************)
EXTENDS Integers, Sequences, FiniteSets, FiniteSetsExt

AnyYear == 1900 + 255
AnyPart == 255

datetime_is_leap_year(y) == y % 4 = 0 /\ (y % 100 # 0 \/ y % 400 = 0)

MonthDays == <<31, 28, 31, 30, 31, 30, 31, 31, 30, 31, 30, 31>>

datetime_month_days(y, m) ==
  CASE m = 2 /\ datetime_is_leap_year(y) -> 29
    [] m \in 1..12 /\ ~(m = 2 /\ datetime_is_leap_year(y)) -> MonthDays[m]
    [] OTHER -> 0

datetime_ymd_is_valid(y, m, d) == y >= 1900 /\ d \in 1..datetime_month_days(y, m)
datetime_date_is_valid(date) == datetime_ymd_is_valid(date[1], date[2], date[3])
datetime_time_is_valid(t) == t[1] < 24 /\ t[2] < 60 /\ t[3] < 60 /\ t[4] < 100

(* The days of the months of year p[1] before month p[2]. *)
DaysOfMonthsBefore[p \in Nat \X (1..12)] ==
  IF p[2] = 1 THEN 0
  ELSE DaysOfMonthsBefore[<<p[1], p[2] - 1>>] + datetime_month_days(p[1], p[2] - 1)

day_of_year(y, m, d) ==
  IF datetime_ymd_is_valid(y, m, d) THEN DaysOfMonthsBefore[<<y, m>>] + d ELSE 0

LeapYearsBefore(y) == {k \in 1900..(y - 1) : datetime_is_leap_year(k)}

days_since_epoch(y, m, d) ==
  IF datetime_ymd_is_valid(y, m, d)
  THEN 365 * (y - 1900) + Cardinality(LeapYearsBefore(y)) + day_of_year(y, m, d) - 1
  ELSE 0

datetime_day_of_week(y, m, d) == (days_since_epoch(y, m, d) % 7) + 1

(***************************************************************************)
(* Back again: years are taken off while a whole one is left, then months. *)
(* What is left to count from is <<year, month, days>>, or <<year, days>>. *)
(***************************************************************************)
MonthsOff[p \in Nat \X Nat \X Nat] ==
  IF p[3] >= datetime_month_days(p[1], p[2])
  THEN MonthsOff[<<p[1], p[2] + 1, p[3] - datetime_month_days(p[1], p[2])>>]
  ELSE <<p[1], p[2], p[3] + 1>>

YearIsLeft(y, days) == days >= 365 /\ ~(datetime_is_leap_year(y) /\ days = 365)

YearsOff[p \in Nat \X Nat] ==
  IF YearIsLeft(p[1], p[2])
  THEN YearsOff[<<p[1] + 1, p[2] - IF datetime_is_leap_year(p[1]) THEN 366 ELSE 365>>]
  ELSE MonthsOff[<<p[1], 1, p[2]>>]

days_since_epoch_into_ymd(days) == YearsOff[<<1900, days>>]

(* The same from the day of a year, 1 being the first of January. *)
MonthsOffFrom[p \in Nat \X Nat \X Nat] ==
  IF p[3] > datetime_month_days(p[1], p[2])
  THEN MonthsOffFrom[<<p[1], p[2] + 1, p[3] - datetime_month_days(p[1], p[2])>>]
  ELSE <<p[2], p[3]>>
day_of_year_into_md(days, y) == MonthsOffFrom[<<y, 1, days>>]

(***************************************************************************)
(* Comparison: the sign of the first difference, a field that either side  *)
(* leaves open being no difference.                                        *)
(***************************************************************************)
FirstDifference(a, b, fields) ==
  LET different == {k \in fields : a[k] # b[k]}
  IN  IF different = {} THEN 0 ELSE LET k == Min(different) IN a[k] - b[k]

datetime_compare_date(a, b) == FirstDifference(a, b, 1..3)
datetime_compare_time(a, b) == FirstDifference(a, b, 1..4)
datetime_compare(a, b) ==
  IF datetime_compare_date(a[1], b[1]) # 0 THEN datetime_compare_date(a[1], b[1])
  ELSE datetime_compare_time(a[2], b[2])

IsOpen(v, k) == v[k] = (IF Len(v) = 3 /\ k = 1 THEN AnyYear ELSE AnyPart)
Told(a, b, fields) == {k \in fields : ~IsOpen(a, k) /\ ~IsOpen(b, k)}

datetime_wildcard_compare_date(a, b) == FirstDifference(a, b, Told(a, b, 1..3))
datetime_wildcard_compare_time(a, b) == FirstDifference(a, b, Told(a, b, 1..4))
datetime_wildcard_compare(a, b) ==
  IF datetime_wildcard_compare_date(a[1], b[1]) # 0
  THEN datetime_wildcard_compare_date(a[1], b[1])
  ELSE datetime_wildcard_compare_time(a[2], b[2])

datetime_wildcard(at) == at[1] = <<AnyYear, AnyPart, AnyPart>> /\ at[2] = <<AnyPart, AnyPart, AnyPart, AnyPart>>
datetime_wildcard_present(at) ==
  at[1][1] = AnyYear \/ at[1][2] > 12 \/ at[1][3] > 31 \/ \E k \in 1..4 : at[2][k] = AnyPart

(***************************************************************************)
(* Time of day, and a number of minutes added to a date and a time, or     *)
(* taken off: C divides towards zero, and the day before begins where the  *)
(* minutes of this one do not reach.  Seconds and hundredths stay.         *)
(***************************************************************************)
seconds_since_midnight(h, m, s) == h * 3600 + m * 60 + s
minutes_since_midnight(h, m) == h * 60 + m
seconds_since_midnight_into_hms(s) == <<s \div 3600, (s % 3600) \div 60, s % 60>>

Magnitude(n) == IF n < 0 THEN -n ELSE n
TowardsZero(n, d) == IF n < 0 THEN -(Magnitude(n) \div d) ELSE n \div d
MINUTES == 24 * 60

(* The day before forgotten. *)
AddMinutesOnOneDay(day, minute, minutes) ==
  LET days == TowardsZero(minutes, MINUTES)
      sum  == minute + minutes - days * MINUTES
  IN  <<day + days + TowardsZero(sum, MINUTES), sum % MINUTES>>

AddMinutesFrom(day, minute, minutes) ==
  LET days == TowardsZero(minutes, MINUTES)
      rest == minutes - days * MINUTES
      sum  == minute + rest
  IN  IF rest < 0 /\ Magnitude(rest) > minute
      THEN <<day + days - 1, minute + MINUTES + rest>>
      ELSE <<day + days + sum \div MINUTES, sum % MINUTES>>

datetime_add_minutes(at, minutes) ==
  LET sum == AddMinutesFrom(days_since_epoch(at[1][1], at[1][2], at[1][3]),
                            seconds_since_midnight(at[2][1], at[2][2], at[2][3]) \div 60, minutes)
      clock == seconds_since_midnight_into_hms(sum[2] * 60)
  IN  <<days_since_epoch_into_ymd(sum[1]), <<clock[1], clock[2], at[2][3], at[2][4]>>>>
=============================================================================
