----------------------------- MODULE HourlyCheck -----------------------------
(***************************************************************************)
(* The control mail at the full hour (handleHourlyCheck in                 *)
(* email_queue.cpp) under a clock that is unknown at first, runs fast or   *)
(* slow and is set again every six hours (time_manager.cpp,                *)
(* ethernetTask), with reboots in between.                                 *)
(*                                                                         *)
(* An hour has Parts parts: minute 0 and the rest.  emailTask comes by at  *)
(* any time or not at all: a mail's session, a busy card or a lost link    *)
(* may outlast minute 0.  The queue refuses a text it has seen, as         *)
(* MailQueue shows, and may refuse for other reasons.                      *)
(***************************************************************************)
EXTENDS WallClock

CONSTANTS
  Starts,     \* UTC times at which a behaviour may begin
  Hours,      \* bound: hours observed of a day
  Outages,    \* lengths in hours of an outage
  SyncHours,  \* TIME_SYNC_INTERVAL
  MaxFault    \* bound: reboots and outages together

Parts == 2

ASSUME StartAssumption ==
  Starts \subseteq [year : 2000 .. 2099, month : 1 .. 12, day : 1 .. 28, hour : 0 .. 23]
ASSUME BoundAssumption ==
  Hours \in Nat /\ Outages \subseteq Nat /\ SyncHours \in Nat /\ MaxFault \in Nat

VARIABLES
  start,            \* where the behaviour began
  now,              \* parts of an hour since start
  dev,              \* the same by the device's own clock
  timeInitialized, lastTimeSync, lastCheckHour,
  timeinfo,         \* the time the hour was tested with, until the mail is queued
  (* the card *)
  checks,           \* texts the queue has accepted
  (* history *)
  tested,           \* hours whose minute 0 handleHourlyCheck has seen, by the local clock
  lastCheck,        \* the hour that lastCheckHour is the number of
  missed,           \* hours whose check the queue refused or a reboot cut off
  split,            \* hours of a check that was tested at one time and dated with another
  alike,            \* hours passed over because lastCheck has the same number
  faults

clock == <<now, dev, timeInitialized, lastTimeSync>>
lost  == <<missed, split, alike>>
vars  == <<start, clock, lastCheckHour, timeinfo, checks, tested, lastCheck, lost, faults>>

Hour    == [month : 1 .. 12, day : Nat, hour : 0 .. 23]
Text    == [month : 1 .. 12, day : Nat, hour : 0 .. 23, part : 0 .. Parts - 1]

NotWriting == [month |-> 0]
NoHour     == [month |-> 0]
Writing    == timeinfo # NotWriting

TypeOK ==
  /\ start \in Starts /\ now \in Nat /\ dev \in (now - 1) .. (now + 1)
  /\ timeInitialized \in BOOLEAN /\ lastTimeSync \in 0 .. now
  /\ lastCheckHour \in -1 .. 23 /\ timeinfo \in Text \cup {NotWriting}
  /\ checks \subseteq Text /\ tested \subseteq Hour /\ lastCheck \in Hour \cup {NoHour}
  /\ missed \subseteq Hour /\ split \subseteq Hour /\ alike \subseteq Hour /\ faults \in 0 .. MaxFault
  /\ Writing => (timeInitialized /\ lastCheckHour = timeinfo.hour)

Init ==
  /\ start \in Starts /\ now = 0 /\ dev = 0
  /\ timeInitialized \in BOOLEAN /\ lastTimeSync = 0 /\ lastCheckHour = -1
  /\ timeinfo = NotWriting /\ checks = {}
  /\ tested = {} /\ lastCheck = NoHour /\ missed = {} /\ split = {} /\ alike = {} /\ faults = 0

------------------------------------------------------------------------------
\* The UTC time n parts after the start.
Utc(n)  == Plus(start, n \div Parts)
Part(n) == n % Parts

\* getTallinnTimeNow and getTimestamp
Local == convertToTallinn(Utc(dev))
Stamp == [month |-> Local.month, day |-> Local.day, hour |-> Local.hour]
Body  == [month |-> Local.month, day |-> Local.day, hour |-> Local.hour, part |-> Part(dev)]
HourOf(text) == [month |-> text.month, day |-> text.day, hour |-> text.hour]

\* Time passes; the device's clock goes with it, or loses or has gained a little.
Tick ==
  /\ now % (24 * Parts) < Hours * Parts /\ now' = now + 1
  /\ dev' \in dev .. (dev + 2) /\ dev' \in (now' - 1) .. (now' + 1)
  /\ UNCHANGED <<start, timeInitialized, lastTimeSync, lastCheckHour, timeinfo, checks, tested, lastCheck, lost, faults>>

\* emailTask finds the link down for some hours and does nothing.
Outage ==
  /\ faults < MaxFault /\ faults' = faults + 1 /\ ~Writing
  /\ \E k \in Outages : now' = now + (k * Parts) /\ dev' = dev + (k * Parts)
  /\ UNCHANGED <<start, timeInitialized, lastTimeSync, lastCheckHour, timeinfo, checks, tested, lastCheck, lost>>

\* syncSystemTime from ethernetTask every SyncHours, and from ethernetConnect
\* when a lost link is back; a failure changes nothing.
syncSystemTime ==
  /\ \/ (now - lastTimeSync > SyncHours * Parts /\ UNCHANGED faults)
     \/ (faults < MaxFault /\ faults' = faults + 1)
  /\ dev' = now /\ timeInitialized' = TRUE /\ lastTimeSync' = now
  /\ UNCHANGED <<start, now, lastCheckHour, timeinfo, checks, tested, lastCheck, lost>>

\* mutants of Due: the hour must be later than the last, the minute is not looked at
Later == Part(dev) = 0 /\ Local.hour > lastCheckHour
AnyMinute == Local.hour # lastCheckHour
Due   == Part(dev) = 0 /\ Local.hour # lastCheckHour

\* handleHourlyCheck, in two steps: the clock is read again for the text.
TestHour ==
  /\ ~Writing /\ timeInitialized
  /\ tested' = IF Part(dev) = 0 THEN tested \cup {Stamp} ELSE tested
  /\ alike' = IF Part(dev) = 0 /\ Local.hour = lastCheckHour /\ Stamp # lastCheck
               THEN alike \cup {Stamp} ELSE alike
  /\ IF Due THEN lastCheckHour' = Local.hour /\ lastCheck' = Stamp /\ timeinfo' = Body
            ELSE UNCHANGED <<lastCheckHour, lastCheck, timeinfo>>
  /\ UNCHANGED <<start, clock, checks, missed, split, faults>>

\* queueEmail, whose result is not looked at: the card may be busy, the text known.
QueueCheck ==
  /\ Writing /\ timeinfo' = NotWriting
  /\ \/ /\ Body \notin checks /\ checks' = checks \cup {Body} /\ missed' = missed
        /\ split' = IF Body = timeinfo THEN split ELSE split \cup {HourOf(timeinfo), Stamp}
     \/ /\ missed' = IF timeinfo \in checks THEN missed ELSE missed \cup {HourOf(timeinfo)}
        /\ UNCHANGED <<checks, split>>
  /\ UNCHANGED <<start, clock, lastCheckHour, tested, lastCheck, alike, faults>>

\* A reboot; the boot's syncSystemTime may fail, and then the clock is not used.
Reboot ==
  /\ faults < MaxFault /\ faults' = faults + 1
  /\ timeInitialized' \in BOOLEAN /\ dev' = now /\ lastTimeSync' = now
  /\ lastCheckHour' = -1 /\ lastCheck' = NoHour /\ timeinfo' = NotWriting
  /\ missed' = IF Writing THEN missed \cup {HourOf(timeinfo)} ELSE missed
  /\ UNCHANGED <<start, now, checks, tested, split, alike>>

Next == Tick \/ Outage \/ syncSystemTime \/ TestHour \/ QueueCheck \/ Reboot

Spec == Init /\ [][Next]_vars

------------------------------------------------------------------------------
(* Properties *)

\* A clock that has been set shows the local time of Tallinn, but for the hour
\* before the change to or from summer time, which the code makes at midnight UTC.
LocalTimeRight ==
  timeInitialized =>
    \/ Local = TallinnTime(Utc(dev))
    \/ Changeover(Utc(dev)) /\ Utc(dev).hour = 0

\* No hour has two checks, unless the clock was read in one minute and again for
\* the text in another.
OneCheckPerHour == \A s, t \in checks : (HourOf(s) = HourOf(t)) => (s = t \/ HourOf(s) \in split)

\* An hour whose minute 0 emailTask saw has its check in the queue, unless the queue
\* refused it or a reboot came between, the second reading of the clock dated it
\* otherwise, or the last check since the boot was of the same hour of another day.
HourChecked ==
  ~Writing => \A h \in tested \ (missed \cup split \cup alike) : \E c \in checks : HourOf(c) = h

==============================================================================
