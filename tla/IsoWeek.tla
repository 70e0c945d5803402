------------------------------ MODULE IsoWeek ------------------------------
(***************************************************************************)
(* The UTC week arithmetic of src/database-export/iso-week.ts.  A date is  *)
(* its number of days since 1970-01-01, which was a Thursday.              *)
(***************************************************************************)
EXTENDS Integers, Sequences

(* 1 January of a year from 1970 on, and the year of a day: Date.UTC. *)
NewYear(y) == 365 * (y - 1970) + (y - 1969) \div 4
              - (y - 1901) \div 100 + (y - 1601) \div 400

YearOf(d) == CHOOSE y \in 1970 + d \div 366 .. 1970 + d \div 365 :
               NewYear(y) <= d /\ d < NewYear(y + 1)

UTCDay(d) == (d + 4) % 7

weekStartUtc(iw) ==
  LET jan4 == NewYear(iw.year) + 3
  IN jan4 - ((UTCDay(jan4) + 6) % 7) + (iw.week - 1) * 7

weekEndUtc(iw) == weekStartUtc(iw) + 7

(* Faulty variant: the year is that of the day itself. *)
isoWeekOfOwnYear(d) ==
  LET dow == IF UTCDay(d) = 0 THEN 7 ELSE UTCDay(d)
      thursday == d + 4 - dow
  IN [year |-> YearOf(d), week |-> (thursday - NewYear(YearOf(thursday))) \div 7 + 1]

isoWeekOf(d) ==
  LET dow == IF UTCDay(d) = 0 THEN 7 ELSE UTCDay(d)
      thursday == d + 4 - dow
      year == YearOf(thursday)
  IN [year |-> year, week |-> (thursday - NewYear(year)) \div 7 + 1]

compareIsoWeek(a, b) ==
  IF a.year # b.year THEN a.year - b.year ELSE a.week - b.week

(* Faulty variant: every year has 52 weeks. *)
weeksBetweenNumbers(a, b) ==
  LET nth(n) == [year |-> a.year + (n \div 52), week |-> (n % 52) + 1]
  IN [i \in 1 .. 52 * (b.year - a.year) + b.week - a.week + 1 |->
        nth(a.week + i - 2)]

weeksBetween(a, b) ==
  IF compareIsoWeek(a, b) > 0 THEN <<>>
  ELSE [i \in 1 .. (weekStartUtc(b) - weekStartUtc(a)) \div 7 + 1 |->
          isoWeekOf(weekStartUtc(a) + 7 * (i - 1))]
=============================================================================
