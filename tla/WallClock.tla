------------------------------ MODULE WallClock ------------------------------
(***************************************************************************)
(* The calendar of time_manager.cpp: from a UTC date and hour to the local *)
(* time of Tallinn with the European summer time rule, and that rule as    *)
(* the directive states it, for comparison.                                *)
(* A time is a record of year, month, day and hour; minutes are not        *)
(* touched by any of this.  Months stay whole: callers keep to days on     *)
(* which an hour more or less does not leave the month.                    *)
(***************************************************************************)
EXTENDS Integers

\* mktime's tm_wday, 0 for Sunday (Sakamoto's rule).
Weekday(y, m, d) ==
  LET shift == <<0, 3, 2, 5, 0, 3, 5, 1, 4, 6, 2, 4>>
      z     == IF m < 3 THEN y - 1 ELSE y
  IN (z + (z \div 4) - (z \div 100) + (z \div 400) + shift[m] + d) % 7

\* mutant of lastSunday: the fourth Sunday
FourthSunday(year, month) == CHOOSE d \in 22 .. 28 : Weekday(year, month, d) = 0

\* Called for March and October, which have 31 days.
lastSunday(year, month) == CHOOSE d \in 25 .. 31 : Weekday(year, month, d) = 0

isDstEU(t) ==
  \/ t.month \in 4 .. 9
  \/ t.month = 3 /\ t.day >= lastSunday(t.year, 3)
  \/ t.month = 10 /\ t.day < lastSunday(t.year, 10)

Plus(t, hours) == [t EXCEPT !.day = @ + ((t.hour + hours) \div 24), !.hour = (@ + hours) % 24]

convertToTallinn(utc) == Plus(utc, IF isDstEU(utc) THEN 3 ELSE 2)

------------------------------------------------------------------------------
(* The rule itself: summer time begins and ends at 01:00 UTC of the Sunday *)
(* that no other Sunday of the month follows.                              *)

Changeover(t) == t.month \in {3, 10} /\ t.day + 7 > 31 /\ Weekday(t.year, t.month, t.day) = 0

Turned(t) ==
  \E d \in 25 .. t.day : Changeover([t EXCEPT !.day = d]) /\ (d < t.day \/ t.hour >= 1)

SummerTime(t) ==
  \/ t.month \in 4 .. 9
  \/ t.month = 3 /\ Turned(t)
  \/ t.month = 10 /\ ~Turned(t)

TallinnTime(utc) == Plus(utc, IF SummerTime(utc) THEN 3 ELSE 2)

==============================================================================
