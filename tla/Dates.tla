--------------------------------- MODULE Dates ---------------------------------
(***************************************************************************)
(* The dates of cookies: gmtTime (inc/utils.hh) writes a time, gmtToTime   *)
(* (src/utils.cc) reads it back through mktime, which takes local time.    *)
(* Times are seconds since 1970-01-01 00:00:00 UTC; of a time zone matters *)
(* how far it is from UTC and whether it has summer time.                  *)
(***************************************************************************)
EXTENDS Integers

Day == 24 * 3600

IsLeap(y) == y % 4 = 0 /\ (y % 100 # 0 \/ y % 400 = 0)
MonthStart(y, m) ==
  <<0, 31, 59, 90, 120, 151, 181, 212, 243, 273, 304, 334>>[m] + (IF m > 2 /\ IsLeap(y) THEN 1 ELSE 0)
YearStart(y) == (* the day 1 January of y is, counted from 1970 *)
  365 * (y - 1970) + ((y - 1969) \div 4) - ((y - 1901) \div 100) + ((y - 1601) \div 400)

(* The calendar of gmtime, for the days a time of 32 bits can be in.         *)
YearOf(d) ==
  CHOOSE y \in 1970 + (d \div 366)..1970 + (d \div 365) : YearStart(y) <= d /\ d < YearStart(y + 1)
MonthOf(d) ==
  LET y == YearOf(d) IN
  CHOOSE m \in 1..12 : /\ MonthStart(y, m) <= d - YearStart(y)
                       /\ m < 12 => d - YearStart(y) < MonthStart(y, m + 1)

(* %G, the year the week belongs to: that of its Thursday.                   *)
WeekYearOf(d) == YearOf(d - ((d + 3) % 7) + 3)

(* gmtTime: "%a, %d-%h-%G %H:%M:%S" of gmtime.  The name of the day is not   *)
(* read again.                                                               *)
GmtTime(t) ==
  LET d == t \div Day IN
  [mday |-> d - YearStart(YearOf(d)) - MonthStart(YearOf(d), MonthOf(d)) + 1,
   month |-> MonthOf(d), year |-> WeekYearOf(d), seconds |-> t % Day]

(* What the fields of a date mean, in UTC.  Two digits of a year are read as *)
(* of this century.                                                          *)
FullYear(y) == IF y < 1900 THEN y + 2000 ELSE y
Seconds(date) ==
  LET y == FullYear(date.year) IN
  (YearStart(y) + MonthStart(y, date.month) + date.mday - 1) * Day + date.seconds

(* to_localtime adds the difference of the hours, minutes and seconds that   *)
(* localtime and gmtime give for time 0, but not that of their days.         *)
(* (First a slip: the fields are taken for local time as they are.)          *)
NotLocal(zone) == 0
ToLocal(zone) == zone.offset % Day

(* gmtToTime: the times mktime may return.  tm_isdst is not initialised, so  *)
(* that it may read the fields as summer time where there is such a thing.   *)
GmtToTime(date, zone) ==
  {Seconds(date) + ToLocal(zone) - zone.offset - s : s \in IF zone.summer THEN {0, 3600} ELSE {0}}
=============================================================================
