-------------------------- MODULE HourlyCheckProofs --------------------------
(***************************************************************************)
(* Theorems about HourlyCheck and its calendar, for every year and any     *)
(* starts, outages and number of faults: the local time is the rule's, but *)
(* for the first hour of the day of a change; an hour has one check, and   *)
(* one that was seen has it, but for the named exceptions.                 *)
(***************************************************************************)
EXTENDS HourlyCheck, TLAPS

------------------------------------------------------------------------------
(* The calendar *)

\* Of seven days one is a Sunday.
LEMMA Sevens ==
  ASSUME NEW c \in Int
  PROVE  /\ \E d \in 25 .. 31 : (c + d) % 7 = 0
         /\ \A d, e \in 25 .. 31 : (c + d) % 7 = 0 /\ (c + e) % 7 = 0 => d = e
OBVIOUS

\* In March and October of any year the weekday is the day plus a constant.
LEMMA WeekdayIsSum ==
  ASSUME NEW y \in Int, NEW m \in {3, 10}
  PROVE  \E c \in Int : \A d \in Int : Weekday(y, m, d) = (c + d) % 7
<1> DEFINE c == y + (y \div 4) - (y \div 100) + (y \div 400)
<1>1. c \in Int
  OBVIOUS
<1>2. CASE m = 3
  <2>1. \A d \in Int : Weekday(y, 3, d) = (c + 2 + d) % 7
    BY DEF Weekday
  <2>2. c + 2 \in Int
    BY <1>1
  <2> QED BY <1>2, <2>1, <2>2
<1>3. CASE m = 10
  <2>1. \A d \in Int : Weekday(y, 10, d) = (c + 6 + d) % 7
    BY DEF Weekday
  <2>2. c + 6 \in Int
    BY <1>1
  <2> QED BY <1>3, <2>1, <2>2
<1> QED BY <1>2, <1>3

\* lastSunday exists and is the only Sunday of its week.
LEMMA LastSundayUnique ==
  ASSUME NEW y \in Int, NEW m \in {3, 10}
  PROVE  /\ lastSunday(y, m) \in 25 .. 31
         /\ Weekday(y, m, lastSunday(y, m)) = 0
         /\ \A e \in 25 .. 31 : Weekday(y, m, e) = 0 => e = lastSunday(y, m)
<1>1. PICK c \in Int : \A d \in Int : Weekday(y, m, d) = (c + d) % 7
  BY WeekdayIsSum
<1>2. \E d \in 25 .. 31 : Weekday(y, m, d) = 0
  <2>1. PICK d \in 25 .. 31 : (c + d) % 7 = 0
    BY Sevens
  <2>2. Weekday(y, m, d) = 0
    BY <1>1, <2>1
  <2> QED BY <2>2
<1>3. lastSunday(y, m) \in 25 .. 31 /\ Weekday(y, m, lastSunday(y, m)) = 0
  BY <1>2, Zenon DEF lastSunday
<1>4. ASSUME NEW e \in 25 .. 31, Weekday(y, m, e) = 0 PROVE e = lastSunday(y, m)
  <2>1. (c + e) % 7 = 0 /\ (c + lastSunday(y, m)) % 7 = 0
    BY <1>1, <1>3, <1>4
  <2> QED BY <2>1, <1>3, Sevens
<1> QED BY <1>3, <1>4

Time == [year : Int, month : 1 .. 12, day : Int, hour : 0 .. 23]

\* The directive's clock has been turned when the last Sunday is over, or its first hour.
LEMMA TurnedAtLastSunday ==
  ASSUME NEW t \in Time, t.month \in {3, 10}
  PROVE  Turned(t) <=> (t.day > lastSunday(t.year, t.month)
                        \/ (t.day = lastSunday(t.year, t.month) /\ t.hour >= 1))
<1> DEFINE s == lastSunday(t.year, t.month)
<1>0. t.year \in Int /\ t.day \in Int /\ t.hour \in 0 .. 23
  BY DEF Time
<1>1. /\ s \in 25 .. 31 /\ Weekday(t.year, t.month, s) = 0
      /\ \A e \in 25 .. 31 : Weekday(t.year, t.month, e) = 0 => e = s
  BY <1>0, LastSundayUnique
<1>2. \A d \in Int : /\ [t EXCEPT !.day = d].month = t.month
                     /\ [t EXCEPT !.day = d].year = t.year
                     /\ [t EXCEPT !.day = d].day = d
  BY DEF Time
<1>3. \A d \in Int : Changeover([t EXCEPT !.day = d]) <=> (d + 7 > 31 /\ Weekday(t.year, t.month, d) = 0)
  BY <1>2 DEF Changeover
<1> HIDE DEF s
<1>4. ASSUME Turned(t) PROVE t.day > s \/ (t.day = s /\ t.hour >= 1)
  <2>1. PICK d \in 25 .. t.day : /\ d + 7 > 31 /\ Weekday(t.year, t.month, d) = 0
                                 /\ d < t.day \/ t.hour >= 1
    BY <1>3, <1>4, <1>0 DEF Turned
  <2>2. CASE d <= 31
    BY <1>0, <1>1, <2>1, <2>2
  <2>3. CASE d > 31
    BY <1>0, <1>1, <2>1, <2>3
  <2> QED BY <2>2, <2>3, <2>1, <1>0
<1>5. ASSUME t.day > s \/ (t.day = s /\ t.hour >= 1) PROVE Turned(t)
  <2>1. s \in 25 .. t.day /\ (s < t.day \/ t.hour >= 1)
    BY <1>0, <1>1, <1>5
  <2>2. s \in Int /\ s + 7 > 31
    BY <1>1
  <2>3. Changeover([t EXCEPT !.day = s])
    BY <1>1, <1>3, <2>2
  <2> QED BY <2>1, <2>3 DEF Turned
<1> QED BY <1>4, <1>5 DEF s

\* isDstEU is the rule of the directive but for the first hour of the day of a change.
LEMMA SummerTimeRight ==
  ASSUME NEW t \in Time
  PROVE  (isDstEU(t) <=> SummerTime(t)) \/ (Changeover(t) /\ t.hour = 0)
<1>0. t.year \in Int /\ t.day \in Int /\ t.hour \in 0 .. 23 /\ t.month \in 1 .. 12
  BY DEF Time
<1>1. CASE t.month \notin {3, 10}
  BY <1>1 DEF isDstEU, SummerTime
<1>2. CASE t.month \in {3, 10}
  <2> DEFINE s == lastSunday(t.year, t.month)
  <2>1. s \in 25 .. 31 /\ Weekday(t.year, t.month, s) = 0
    BY <1>0, <1>2, LastSundayUnique
  <2>2. Turned(t) <=> (t.day > s \/ (t.day = s /\ t.hour >= 1))
    BY <1>2, TurnedAtLastSunday
  <2>3. (t.month = 3 => (isDstEU(t) <=> t.day >= s)) /\ (t.month = 10 => (isDstEU(t) <=> t.day < s))
    BY <1>2 DEF isDstEU
  <2>4. (t.month = 3 => (SummerTime(t) <=> Turned(t))) /\ (t.month = 10 => (SummerTime(t) <=> ~Turned(t)))
    BY <1>2 DEF SummerTime
  <2> HIDE DEF s
  <2>5. CASE t.day = s /\ t.hour = 0
    <3>1. t.day + 7 > 31
      BY <2>1, <2>5
    <3>2. Changeover(t)
      BY <1>2, <2>1, <2>5, <3>1, Zenon DEF Changeover
    <3> QED BY <2>5, <3>2
  <2>6. CASE ~(t.day = s /\ t.hour = 0)
    <3>1. Turned(t) <=> t.day >= s
      BY <1>0, <2>1, <2>2, <2>6
    <3>2. Turned(t) <=> ~(t.day < s)
      BY <1>0, <2>1, <3>1
    <3> QED BY <1>2, <2>3, <2>4, <3>1, <3>2
  <2> QED BY <2>5, <2>6
<1> QED BY <1>1, <1>2

------------------------------------------------------------------------------
(* The clock *)

TimeNat == [year : Int, month : 1 .. 12, day : Nat, hour : 0 .. 23]

LEMMA PlusIsTime ==
  ASSUME NEW t \in TimeNat, NEW n \in Nat
  PROVE  Plus(t, n) \in TimeNat
<1>1. t.day \in Nat /\ t.hour \in 0 .. 23 /\ t.hour + n \in Nat
  BY DEF TimeNat
<1>2. \A k \in Nat : k \div 24 \in Nat /\ k % 24 \in 0 .. 23
  OBVIOUS
<1>3. t.day + ((t.hour + n) \div 24) \in Nat /\ (t.hour + n) % 24 \in 0 .. 23
  BY <1>1, <1>2
<1> QED BY <1>1, <1>3 DEF TimeNat, Plus

LEMMA UtcIsTime ==
  ASSUME start \in Starts, NEW n \in Nat
  PROVE  Utc(n) \in TimeNat
<1>1. start \in TimeNat
  BY StartAssumption DEF TimeNat
<1>2. n \div Parts \in Nat
  BY DEF Parts
<1> QED BY <1>1, <1>2, PlusIsTime DEF Utc

LEMMA LocalIsTime ==
  ASSUME start \in Starts, dev \in Nat
  PROVE  Local \in TimeNat /\ Stamp \in Hour /\ Body \in Text
<1>1. Utc(dev) \in TimeNat
  BY UtcIsTime
<1>2. Local \in TimeNat
  BY <1>1, PlusIsTime DEF Local, convertToTallinn
<1>3. Local.month \in 1 .. 12 /\ Local.day \in Nat /\ Local.hour \in 0 .. 23
  BY <1>2 DEF TimeNat
<1>4. Part(dev) \in 0 .. Parts - 1
  BY DEF Part, Parts
<1> QED BY <1>2, <1>3, <1>4 DEF Stamp, Hour, Body, Text

------------------------------------------------------------------------------
(* The invariant *)

\* The device's clock never goes behind the start.
ClockInv == TypeOK /\ dev \in Nat

LEMMA HourOfText == \A x \in Text : HourOf(x) \in Hour /\ x # NotWriting /\ x.hour \in -1 .. 23
BY DEF Text, HourOf, Hour, NotWriting

LEMMA InitClock == Init => ClockInv
<1> SUFFICES ASSUME Init PROVE ClockInv
  OBVIOUS
<1>1. faults \in 0 .. MaxFault /\ ~Writing
  BY BoundAssumption DEF Init, Writing
<1> QED BY <1>1 DEF Init, ClockInv, TypeOK

LEMMA NextClock == ClockInv /\ [Next]_vars => ClockInv'
<1> SUFFICES ASSUME ClockInv, [Next]_vars PROVE ClockInv'
  OBVIOUS
<1> USE BoundAssumption
<1>0. /\ TypeOK /\ start \in Starts /\ now \in Nat /\ dev \in Nat
      /\ lastTimeSync \in 0 .. now /\ dev \in (now - 1) .. (now + 1)
      /\ faults \in 0 .. MaxFault
  BY DEF ClockInv, TypeOK
<1>t. Local \in TimeNat /\ Stamp \in Hour /\ Body \in Text
  BY <1>0, LocalIsTime
<1>1. CASE Tick
  <2>1. now' \in Nat /\ dev' \in Nat /\ dev' \in (now' - 1) .. (now' + 1) /\ lastTimeSync' \in 0 .. now'
    BY <1>0, <1>1 DEF Tick
  <2> QED BY <1>0, <1>1, <2>1 DEF ClockInv, TypeOK, Tick, Writing, lost
<1>2. CASE Outage
  <2>1. PICK k \in Outages : now' = now + (k * Parts) /\ dev' = dev + (k * Parts)
    BY <1>2 DEF Outage
  <2>2. k * Parts \in Nat
    BY DEF Parts
  <2>3. now' \in Nat /\ dev' \in Nat /\ dev' \in (now' - 1) .. (now' + 1) /\ lastTimeSync' \in 0 .. now'
    BY <1>0, <1>2, <2>1, <2>2 DEF Outage
  <2>4. faults' \in 0 .. MaxFault
    BY <1>0, <1>2 DEF Outage
  <2> QED BY <1>0, <1>2, <2>3, <2>4 DEF ClockInv, TypeOK, Outage, Writing, lost
<1>3. CASE syncSystemTime
  <2>1. faults' \in 0 .. MaxFault
    BY <1>0, <1>3 DEF syncSystemTime
  <2> QED BY <1>0, <1>3, <2>1 DEF ClockInv, TypeOK, syncSystemTime, Writing, lost
<1>4. CASE TestHour
  <2>1. tested' \subseteq Hour
    BY <1>0, <1>4, <1>t DEF TypeOK, TestHour
  <2>a. alike' \subseteq Hour
    BY <1>0, <1>4, <1>t DEF TypeOK, TestHour
  <2>2. CASE Due
    <3>1. lastCheckHour' = Local.hour /\ lastCheck' = Stamp /\ timeinfo' = Body
      BY <1>4, <2>2 DEF TestHour
    <3>2. Body.hour = Local.hour
      BY DEF Body
    <3>3. Body.hour \in -1 .. 23
      BY <1>t, HourOfText
    <3> QED BY <1>0, <1>4, <1>t, <2>1, <2>a, <3>1, <3>2, <3>3 DEF ClockInv, TypeOK, TestHour, Writing, clock
  <2>3. CASE ~Due
    BY <1>0, <1>4, <2>1, <2>a, <2>3 DEF ClockInv, TypeOK, TestHour, Writing, clock
  <2> QED BY <2>2, <2>3
<1>5. CASE QueueCheck
  <2>1. timeinfo \in Text
    BY <1>0, <1>5 DEF TypeOK, QueueCheck, Writing
  <2>2. checks' \subseteq Text
    BY <1>0, <1>5, <1>t DEF TypeOK, QueueCheck
  <2>3. missed' \subseteq Hour /\ split' \subseteq Hour
    BY <1>0, <1>5, <1>t, <2>1, HourOfText DEF TypeOK, QueueCheck
  <2> QED BY <1>0, <1>5, <2>2, <2>3 DEF ClockInv, TypeOK, QueueCheck, Writing, clock
<1>6. CASE Reboot
  <2>1. missed' \subseteq Hour
    BY <1>0, <1>6, HourOfText DEF TypeOK, Reboot, Writing
  <2>2. faults' \in 0 .. MaxFault
    BY <1>0, <1>6 DEF Reboot
  <2> QED BY <1>0, <1>6, <2>1, <2>2 DEF ClockInv, TypeOK, Reboot, Writing
<1>7. CASE UNCHANGED vars
  BY <1>0, <1>7 DEF ClockInv, TypeOK, vars, clock, Writing, lost
<1> QED BY <1>1, <1>2, <1>3, <1>4, <1>5, <1>6, <1>7 DEF Next

\* The variables keep their types; a check is written only by a clock that has been
\* set, in the hour it was tested for.
THEOREM TypeCorrect == Spec => []TypeOK
<1>1. ClockInv => TypeOK
  BY DEF ClockInv
<1> QED BY <1>1, InitClock, NextClock, PTL DEF Spec

\* isDstEU gives the local time for every date and year, but for the first hour (UTC)
\* of the days of the changes.
THEOREM LocalTimeIsRight == Spec => []LocalTimeRight
<1>1. ClockInv => LocalTimeRight
  <2> SUFFICES ASSUME ClockInv PROVE LocalTimeRight
    OBVIOUS
  <2>1. Utc(dev) \in TimeNat
    BY UtcIsTime DEF ClockInv, TypeOK
  <2>2. Utc(dev) \in Time
    BY <2>1 DEF Time, TimeNat
  <2>3. (isDstEU(Utc(dev)) <=> SummerTime(Utc(dev))) \/ (Changeover(Utc(dev)) /\ Utc(dev).hour = 0)
    BY <2>2, SummerTimeRight
  <2>4. (isDstEU(Utc(dev)) <=> SummerTime(Utc(dev))) => Local = TallinnTime(Utc(dev))
    BY DEF Local, convertToTallinn, TallinnTime
  <2> QED BY <2>3, <2>4 DEF LocalTimeRight
<1> QED BY <1>1, InitClock, NextClock, PTL DEF Spec

------------------------------------------------------------------------------
(* The checks *)

\* A check is dated with minute 0, or with another time than its hour was tested at.
Dated ==
  /\ \A c \in checks : c.part = 0 \/ HourOf(c) \in split
  /\ Writing => timeinfo.part = 0

LEMMA DatedNext == ClockInv /\ Dated /\ [Next]_vars => Dated'
<1> SUFFICES ASSUME ClockInv, Dated, [Next]_vars PROVE Dated'
  OBVIOUS
<1>1. CASE TestHour
  <2>1. UNCHANGED <<checks, split>>
    BY <1>1 DEF TestHour
  <2>2. Due => Body.part = 0
    BY DEF Due, Body
  <2>3. timeinfo' = timeinfo \/ (Due /\ timeinfo' = Body)
    BY <1>1 DEF TestHour
  <2> QED BY <2>1, <2>2, <2>3 DEF Dated, Writing
<1>2. CASE QueueCheck
  <2>1. Writing /\ ~Writing' /\ split \subseteq split'
    BY <1>2 DEF QueueCheck, Writing
  <2>2. CASE UNCHANGED checks
    BY <2>1, <2>2 DEF Dated
  <2>3. CASE checks' = checks \cup {Body} /\ (Body = timeinfo \/ Stamp \in split')
    <3>1. HourOf(Body) = Stamp
      BY DEF HourOf, Body, Stamp
    <3>2. Body.part = 0 \/ HourOf(Body) \in split'
      BY <2>1, <2>3, <3>1 DEF Dated
    <3> QED BY <2>1, <2>3, <3>2 DEF Dated
  <2> QED BY <1>2, <2>2, <2>3 DEF QueueCheck
<1>3. CASE Reboot
  BY <1>3 DEF Dated, Reboot, Writing
<1>4. CASE Tick \/ Outage \/ syncSystemTime \/ UNCHANGED vars
  BY <1>4 DEF Dated, Tick, Outage, syncSystemTime, vars, Writing, lost
<1> QED BY <1>1, <1>2, <1>3, <1>4 DEF Next

\* No hour has two checks in the queue, in spite of the clock being set back and of
\* reboots, unless the clock showed another time when the text was written
\* (handleHourlyCheck).
THEOREM OneCheckAnHour == Spec => []OneCheckPerHour
<1>1. Init => Dated
  BY DEF Init, Dated, Writing
<1>2. ClockInv /\ Dated => OneCheckPerHour
  <2> SUFFICES ASSUME ClockInv, Dated, NEW s \in checks, NEW t \in checks,
                      HourOf(s) = HourOf(t), HourOf(s) \notin split
               PROVE  s = t
    BY DEF OneCheckPerHour
  <2>1. s \in Text /\ t \in Text
    BY DEF ClockInv, TypeOK
  <2>2. s.part = 0 /\ t.part = 0
    BY DEF Dated
  <2>3. s.month = t.month /\ s.day = t.day /\ s.hour = t.hour
    BY DEF HourOf
  <2> QED BY <2>1, <2>2, <2>3 DEF Text
<1> QED BY <1>1, <1>2, InitClock, NextClock, DatedNext, PTL DEF Spec

\* An hour that was seen has its check, is among the named exceptions, or is the one
\* being written.
Accounted(h) ==
  \/ h \in missed \cup split \cup alike
  \/ \E c \in checks : HourOf(c) = h
  \/ Writing /\ h = HourOf(timeinfo)

\* And lastCheckHour is the number of one that was seen, or of none since the boot.
Seen ==
  /\ \A h \in tested : Accounted(h)
  /\ lastCheckHour # -1 => lastCheck \in tested

LEMMA SeenNext == ClockInv /\ Seen /\ [Next]_vars => Seen'
<1> SUFFICES ASSUME ClockInv, Seen, [Next]_vars PROVE Seen'
  OBVIOUS
<1>0. /\ Stamp \in Hour /\ Body \in Text /\ Local.hour \in 0 .. 23
      /\ HourOf(Body) = Stamp /\ Stamp.hour = Local.hour
  BY LocalIsTime DEF ClockInv, TypeOK, TimeNat, HourOf, Body, Stamp
<1>1. CASE TestHour
  <2>0. ~Writing /\ UNCHANGED <<checks, missed, split>> /\ alike \subseteq alike'
    BY <1>1 DEF TestHour
  <2>h. PICK m \in Hour : m = Stamp
    BY <1>0
  <2>1. CASE Due
    <3>1. tested' = tested \cup {m} /\ lastCheck' = m /\ timeinfo' = Body
      BY <1>0, <1>1, <2>1, <2>h DEF TestHour, Due
    <3>2. Writing' /\ HourOf(timeinfo') = m
      BY <1>0, <2>h, <3>1, HourOfText DEF Writing
    <3>3. Accounted(m)'
      BY <3>2 DEF Accounted, HourOf
    <3>4. ASSUME NEW h \in tested PROVE Accounted(h)'
      BY <2>0, <3>1 DEF Seen, Accounted
    <3>5. ASSUME NEW h \in tested' PROVE Accounted(h)'
      <4>1. CASE h = m
        BY <3>3, <4>1
      <4>2. CASE h \in tested
        BY <3>4, <4>2
      <4> QED BY <3>1, <4>1, <4>2
    <3> QED BY <3>1, <3>5 DEF Seen
  <2>2. CASE ~Due /\ Part(dev) = 0
    <3>1. tested' = tested \cup {m} /\ UNCHANGED <<lastCheckHour, lastCheck, timeinfo>>
      BY <1>1, <2>2, <2>h DEF TestHour
    <3>2. lastCheck \in tested /\ (m = lastCheck \/ m \in alike')
      BY <1>0, <1>1, <2>2, <2>h DEF Due, Seen, TestHour
    <3>3. ASSUME NEW h \in tested PROVE Accounted(h)'
      BY <2>0, <3>1, <3>3 DEF Seen, Accounted
    <3>4. ASSUME NEW h \in tested' PROVE Accounted(h)'
      <4>1. CASE h \in tested
        BY <3>3, <4>1
      <4>2. CASE h = m /\ m \in alike'
        BY <4>2 DEF Accounted
      <4> QED BY <3>1, <3>2, <4>1, <4>2
    <3> QED BY <3>1, <3>2, <3>4 DEF Seen
  <2>3. CASE ~Due /\ Part(dev) # 0
    <3>1. UNCHANGED <<tested, lastCheckHour, lastCheck, timeinfo>>
      BY <1>1, <2>3 DEF TestHour
    <3> QED BY <2>0, <3>1 DEF Seen, Accounted, Writing
  <2> QED BY <2>1, <2>2, <2>3
<1>2. CASE QueueCheck
  <2>1. /\ Writing /\ UNCHANGED <<tested, lastCheckHour, lastCheck, alike>>
        /\ missed \subseteq missed' /\ split \subseteq split' /\ checks \subseteq checks'
    BY <1>2 DEF QueueCheck
  <2>2. \/ HourOf(timeinfo) \in missed' \cup split'
        \/ \E c \in checks' : HourOf(c) = HourOf(timeinfo)
    BY <1>2 DEF QueueCheck
  <2>3. ASSUME NEW h \in tested PROVE Accounted(h)'
    BY <2>1, <2>2 DEF Seen, Accounted
  <2> QED BY <2>1, <2>3 DEF Seen
<1>3. CASE Reboot
  <2>1. /\ lastCheckHour' = -1 /\ UNCHANGED <<tested, checks, split, alike>> /\ missed \subseteq missed'
        /\ Writing => HourOf(timeinfo) \in missed'
    BY <1>3 DEF Reboot
  <2>2. ASSUME NEW h \in tested PROVE Accounted(h)'
    BY <2>1 DEF Seen, Accounted
  <2> QED BY <2>1, <2>2 DEF Seen
<1>4. CASE Tick \/ Outage \/ syncSystemTime \/ UNCHANGED vars
  <2>1. UNCHANGED <<tested, checks, lost, timeinfo, lastCheckHour, lastCheck>>
    BY <1>4 DEF Tick, Outage, syncSystemTime, vars
  <2> QED BY <2>1 DEF Seen, Accounted, Writing, HourOf, lost
<1> QED BY <1>1, <1>2, <1>3, <1>4 DEF Next

\* Over any number of days, reboots and settings of the clock, an hour whose minute 0
\* emailTask saw has its check in the queue, but for the hours whose check was refused,
\* cut off by a reboot or dated otherwise, and those that came when the last check since
\* the boot was of the same hour of another day (handleHourlyCheck).
THEOREM HoursAreChecked == Spec => []HourChecked
<1>1. Init => Seen
  BY DEF Init, Seen
<1>2. Seen => HourChecked
  BY DEF Seen, HourChecked, Accounted
<1> QED BY <1>1, <1>2, InitClock, NextClock, SeenNext, PTL DEF Spec
==============================================================================
