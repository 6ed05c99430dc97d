------------------------------ MODULE TimeZone ------------------------------
(***************************************************************************)
(* Date.cc, then TimeZone.cc, which counts the days of a time with it.     *)
(***************************************************************************)
EXTENDS Integers, Sequences

-----------------------------------------------------------------------------
(***************************************************************************)
(* muduo/base/Date.cc: the conversions between a date of the Gregorian     *)
(* calendar and its Julian day number.  A behaviour walks the calendar day *)
(* by day with the rules a person uses (NextDay), beside a day number that *)
(* is only counted up; the two conversions are checked against that.       *)
(* Division is C's on the non-negative operands that occur here.           *)
(***************************************************************************)

CONSTANTS FirstDays,     \* <<date, its day number>> from which to walk
          MaxDays        \* how many days to walk

VARIABLES date, julianDayNumber_, walked

vars == <<date, julianDayNumber_, walked>>

YearMonthDay(y, m, d) == [year |-> y, month |-> m, day |-> d]

getJulianDayNumber(year, month, day) ==
  LET a == (14 - month) \div 12
      y == year + 4800 - a
      m == month + 12 * a - 3
  IN  day + (153 * m + 2) \div 5 + y * 365 + y \div 4 - y \div 100 + y \div 400 - 32045

getYearMonthDay(julianDayNumber) ==
  LET a == julianDayNumber + 32044
      b == (4 * a + 3) \div 146097
      c == a - ((b * 146097) \div 4)
      d == (4 * c + 3) \div 1461
      e == c - ((1461 * d) \div 4)
      m == (5 * e + 2) \div 153
  IN  [day   |-> e - ((153 * m + 2) \div 5) + 1,
       month |-> m + 3 - 12 * (m \div 10),
       year  |-> b * 100 + d - 4800 + (m \div 10)]

kDaysPerWeek == 7
weekDay(julianDayNumber) == (julianDayNumber + 1) % kDaysPerWeek
kJulianDayOf1970_01_01 == getJulianDayNumber(1970, 1, 1)

-----------------------------------------------------------------------------
(* The calendar, from its rules. *)
IsLeap(y) == (y % 4 = 0 /\ y % 100 # 0) \/ y % 400 = 0
DaysIn(y, m) == IF m = 2 THEN (IF IsLeap(y) THEN 29 ELSE 28)
                ELSE IF m = 4 \/ m = 6 \/ m = 9 \/ m = 11 THEN 30 ELSE 31

NextDay(x) ==
  IF x.day < DaysIn(x.year, x.month)
  THEN YearMonthDay(x.year, x.month, x.day + 1)
  ELSE IF x.month < 12
  THEN YearMonthDay(x.year, x.month + 1, 1)
  ELSE YearMonthDay(x.year + 1, 1, 1)

Init == /\ \E first \in FirstDays : date = first[1] /\ julianDayNumber_ = first[2]
        /\ walked = 0

Tomorrow ==
  /\ walked < MaxDays
  /\ date' = NextDay(date)
  /\ julianDayNumber_' = julianDayNumber_ + 1
  /\ walked' = walked + 1

Next == Tomorrow
Spec == Init /\ [][Next]_vars

-----------------------------------------------------------------------------
TypeOK ==
  /\ date.month \in 1..12 /\ date.day \in 1..DaysIn(date.year, date.month)
  /\ julianDayNumber_ \in Nat

(* Over leap days, centuries and ends of years, getJulianDayNumber counts  *)
(* the days of the calendar one by one and getYearMonthDay undoes it.      *)
Convert ==
  /\ getJulianDayNumber(date.year, date.month, date.day) = julianDayNumber_
  /\ getYearMonthDay(julianDayNumber_) = date

-----------------------------------------------------------------------------
(***************************************************************************)
(* muduo/base/TimeZone.cc: conversion of seconds since the epoch to and    *)
(* from UTC (toUtcTime, fromUtcTime) and to and from the local time of a   *)
(* zone with daylight saving (toLocalTime, fromLocalTime).                 *)
(*                                                                         *)
(* UTC is checked against the calendar of module Date as it is walked, at  *)
(* some seconds of every day.  For local time the unit is the half hour;   *)
(* gmtime_r and timegm, which are inverse to each other, are left out, so  *)
(* that a local time is a number of half hours and the daylight flag.      *)
(***************************************************************************)

CONSTANTS Seconds,       \* seconds of a day at which UTC is checked
          Zones,         \* each: localtimes, transitions as <<gmttime, index>>
          MaxHalfHours,
          kHour          \* the 3600 of fromLocalTime, in half hours

VARIABLES zone, now      \* a zone and a time in half hours

zoneVars == <<vars, zone, now>>
kSecondsPerDay == 24 * 60 * 60
kMaxDays == 24000        \* the seconds of more days exceed TLC's integers

(* C's division and remainder, which truncate towards zero. *)
Quot(a, b) == IF a >= 0 THEN a \div b ELSE -((-a) \div b)
Rem(a, b) == a - b * Quot(a, b)

fillHMS(seconds) == LET minutes == seconds \div 60
                    IN  <<minutes \div 60, minutes % 60, seconds % 60>>

toUtcTime(secondsSinceEpoch) ==
  LET rem == Rem(secondsSinceEpoch, kSecondsPerDay)
      quot == Quot(secondsSinceEpoch, kSecondsPerDay)
      seconds == IF rem < 0 THEN rem + kSecondsPerDay ELSE rem
      days == IF rem < 0 THEN quot - 1 ELSE quot
      julian == days + kJulianDayOf1970_01_01
      ymd == getYearMonthDay(julian)
  IN  [date |-> ymd, time |-> fillHMS(seconds), wday |-> weekDay(julian),
       yday |-> julian - getJulianDayNumber(ymd.year, 1, 1)]

fromUtcTime(ymd, hms) ==
  LET secondsInDay == hms[1] * 3600 + hms[2] * 60 + hms[3]
      days == getJulianDayNumber(ymd.year, ymd.month, ymd.day) - kJulianDayOf1970_01_01
  IN  days * kSecondsPerDay + secondsInDay

-----------------------------------------------------------------------------
(* readTimeZoneFile gives every transition the local time of its new offset.*)
transitions == [i \in DOMAIN zone.transitions |->
                  LET t == zone.transitions[i]
                  IN  [gmttime |-> t[1], localtimeIdx |-> t[2],
                       localtime |-> t[1] + zone.localtimes[t[2]].gmtOffset]]

Key(t, compareGmt) == IF compareGmt THEN t.gmttime ELSE t.localtime

(* std::lower_bound: the first transition that is not before the sentry. *)
lower_bound(sentry, gmt) ==
  LET n == Len(transitions)
      from == {i \in 1..n : ~(Key(transitions[i], gmt) < sentry)}
  IN  IF from = {} THEN n + 1 ELSE CHOOSE i \in from : \A j \in from : i <= j

findLocaltime(sentry, gmt) ==
  IF transitions = <<>> \/ sentry < Key(transitions[1], gmt)
  THEN zone.localtimes[1]
  ELSE LET i == lower_bound(sentry, gmt)
       IN  IF i > Len(transitions)
           THEN zone.localtimes[transitions[Len(transitions)].localtimeIdx]
           ELSE IF Key(transitions[i], gmt) # sentry
           THEN zone.localtimes[transitions[i - 1].localtimeIdx]
           ELSE zone.localtimes[transitions[i].localtimeIdx]

toLocalTime(seconds) ==
  LET local == findLocaltime(seconds, TRUE)
  IN  [time |-> seconds + local.gmtOffset, isDst |-> local.isDst]

(* The times of day agree when hour and minute do. *)
SameTime(a, b) == (a - b) % 48 = 0

(* Mutant of fromLocalTime: the hour that exists twice is not told apart. *)
fromLocalTimePlain(localTm) == localTm.time - findLocaltime(localTm.time, FALSE).gmtOffset

fromLocalTime(localTm) ==
  LET local == findLocaltime(localTm.time, FALSE)
      tryTm == toLocalTime(localTm.time - local.gmtOffset)
      hack == localTm.isDst /\ ~tryTm.isDst /\ SameTime(tryTm.time, localTm.time)
  IN  localTm.time - (IF hack THEN kHour ELSE 0) - local.gmtOffset

-----------------------------------------------------------------------------
ZoneInit == Init /\ zone \in Zones /\ now = 0

(* Either the calendar is walked, at the start of the local times, or the  *)
(* local times are, on the first day.                                      *)
ZoneNext ==
  \/ now = 0 /\ Next /\ UNCHANGED <<zone, now>>
  \/ walked = 0 /\ now < MaxHalfHours /\ now' = now + 1 /\ UNCHANGED <<vars, zone>>

ZoneSpec == ZoneInit /\ [][ZoneNext]_zoneVars

(* toUtcTime gives the date, the time, the week day and the day of the     *)
(* year of every second, before the epoch and after it, and fromUtcTime    *)
(* leads back to that second.                                              *)
UtcRight ==
  LET days == julianDayNumber_ - kJulianDayOf1970_01_01 IN
  days \in -kMaxDays..kMaxDays =>
  \A s \in Seconds :
    LET t == days * kSecondsPerDay + s
        utc == toUtcTime(t)
    IN  /\ utc.date = date
        /\ utc.time[1] * 3600 + utc.time[2] * 60 + utc.time[3] = s
        /\ utc.time[2] < 60 /\ utc.time[3] < 60
        /\ utc.wday \in 0..6 /\ utc.yday \in 0..365
        /\ (utc.yday = 0) = (date.month = 1 /\ date.day = 1)
        /\ fromUtcTime(utc.date, utc.time) = t

(* A time converted to local time and back is the same time, in the hour   *)
(* that is skipped in spring and in the one that comes twice in autumn.    *)
LocalRight == fromLocalTime(toLocalTime(now)) = now
=============================================================================
