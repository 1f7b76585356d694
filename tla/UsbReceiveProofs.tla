-------------------------- MODULE UsbReceiveProofs --------------------------
(***************************************************************************)
(* Theorems about UsbEvents, UsbReceive and LineText, for any kinds and    *)
(* number of lines, any size of the chip, number of connections and length *)
(* of a line: what a mail and a sighting are made of, that no line is lost *)
(* or moved on its way into the mails, that nothing crosses from one       *)
(* connection to the next, that a line is handed on whole, and that the    *)
(* search finds the address a line has.                                    *)
(***************************************************************************)
EXTENDS UsbReceive, LineText, SequenceTheorems, WellFoundedInduction, TLAPS

------------------------------------------------------------------------------
(* The last header before a line *)

\* HeaderBefore of any lines, so that those before and after a step can be compared.
LastHeader(s, n) == Max({k \in 1 .. n - 1 : s[k].head} \cup {0})

LEMMA MaxIs ==
  ASSUME NEW S \in SUBSET Int, NEW x \in S, \A y \in S : x >= y
  PROVE  Max(S) = x
<1>1. \E z \in S : \A y \in S : z >= y
  OBVIOUS
<1>2. Max(S) \in S /\ \A y \in S : Max(S) >= y
  BY <1>1, Zenon DEF Max
<1>3. Max(S) >= x /\ x >= Max(S) /\ Max(S) \in Int /\ x \in Int
  BY <1>2
<1> QED BY <1>3

\* A line more does not change what came before it.
LEMMA HeaderStays ==
  ASSUME NEW S, NEW s \in Seq(S), NEW l \in S, NEW n \in 1 .. Len(s) + 1
  PROVE  LastHeader(Append(s, l), n) = LastHeader(s, n)
<1>1. \A k \in 1 .. n - 1 : Append(s, l)[k] = s[k]
  OBVIOUS
<1>2. {k \in 1 .. n - 1 : Append(s, l)[k].head} = {k \in 1 .. n - 1 : s[k].head}
  BY <1>1
<1> QED BY <1>2, Zenon DEF LastHeader

LEMMA HeaderMoves ==
  ASSUME NEW S, NEW s \in Seq(S), NEW l \in S
  PROVE  LastHeader(Append(s, l), Len(s) + 2) = IF l.head THEN Len(s) + 1 ELSE LastHeader(s, Len(s) + 1)
<1> DEFINE n == Len(s) + 1
<1> DEFINE m == Len(s) + 2
<1>0. n \in Nat /\ Append(s, l)[n] = l /\ n - 1 = Len(s) /\ 1 .. m - 1 = 1 .. n
  OBVIOUS
<1>a. LastHeader(Append(s, l), m) = Max({k \in 1 .. n : Append(s, l)[k].head} \cup {0})
  <2> HIDE DEF n, m
  <2> QED BY <1>0, Zenon DEF LastHeader
<1>1. \A k \in 1 .. Len(s) : Append(s, l)[k] = s[k]
  OBVIOUS
<1>2. CASE l.head
  <2> DEFINE T == {k \in 1 .. n : Append(s, l)[k].head} \cup {0}
  <2>1. T \in SUBSET Int /\ n \in T /\ \A y \in T : n >= y
    BY <1>0, <1>2
  <2>2. Max(T) = n
    BY <2>1, MaxIs
  <2> QED BY <1>a, <1>2, <2>2
<1>3. CASE ~l.head
  <2>1. {k \in 1 .. n : Append(s, l)[k].head} = {k \in 1 .. n - 1 : s[k].head}
    BY <1>0, <1>1, <1>3
  <2>2. LastHeader(s, n) = Max({k \in 1 .. n : Append(s, l)[k].head} \cup {0})
    <3> HIDE DEF n
    <3> QED BY <2>1, Zenon DEF LastHeader
  <2> QED BY <1>a, <1>3, <2>2
<1> QED BY <1>2, <1>3

LEMMA NoHeader == LastHeader(<<>>, 1) = 0
<1>1. {k \in 1 .. 1 - 1 : <<>>[k].head} \cup {0} = {0}
  OBVIOUS
<1>2. Max({0}) = 0
  BY MaxIs
<1> QED BY <1>1, <1>2 DEF LastHeader

------------------------------------------------------------------------------
(* Types *)

LEMMA Zero == 0 \in Number
BY LineAssumption DEF Number

LEMMA InitTypes == Init => TypeOK
<1> SUFFICES ASSUME Init PROVE TypeOK
  OBVIOUS
<1>1. /\ currentEvent \in Seq(Number) /\ lines \in Seq(Line) /\ mails \in Seq(Mail)
      /\ sightings \subseteq Number \X Number
  BY DEF Init
<1>2. Len(lines) <= MaxLines
  BY LineAssumption DEF Init
<1>3. /\ currentSubject \in Number /\ currentTimestamp \in Number /\ silent \in BOOLEAN
      /\ currentEventHasTimestampHeader \in BOOLEAN /\ currentEventIsSmokeAlarm \in BOOLEAN
  BY Zero, Zenon DEF Init
<1> QED BY <1>1, <1>2, <1>3, Zenon DEF TypeOK

LEMMA MailTyped ==
  ASSUME TypeOK, NEW x \in Number \cup {-1}
  PROVE  EventMail(x) \in Mail
BY DEF TypeOK, EventMail, Mail

LEMMA NextTypes == TypeOK /\ [Next]_vars => TypeOK'
<1> SUFFICES ASSUME TypeOK, [Next]_vars PROVE TypeOK'
  OBVIOUS
<1>1. ASSUME NEW l \in Line, processLine(l) PROVE TypeOK'
  <2> DEFINE n == Len(lines) + 1
  <2>1. n \in Number /\ n \in Nat
    BY <1>1, LineAssumption DEF processLine, TypeOK, Number
  <2>2. lines' \in Seq(Line) /\ Len(lines') <= MaxLines /\ silent' \in BOOLEAN
    <3>1. lines' = Append(lines, l) /\ silent' = FALSE /\ Len(lines) < MaxLines
      BY <1>1 DEF processLine
    <3>2. lines \in Seq(Line) /\ MaxLines \in Nat
      BY LineAssumption DEF TypeOK
    <3>3. lines' \in Seq(Line) /\ Len(lines') = Len(lines) + 1 /\ Len(lines) \in Nat
      BY <3>1, <3>2
    <3>4. Len(lines') <= MaxLines
      BY <3>1, <3>2, <3>3
    <3>5. silent' \in BOOLEAN
      BY <3>1, Zenon
    <3> QED BY <3>3, <3>4, <3>5
  <2>3. OwnStamp(l, n) \in Number
    BY <2>1 DEF OwnStamp, TypeOK
  <2>4. sightings' \subseteq Number \X Number
    <3>1. <<n, OwnStamp(l, n)>> \in Number \X Number
      BY <2>1, <2>3
    <3>2. sightings \subseteq Number \X Number
      BY DEF TypeOK
    <3>3. sightings' \subseteq sightings \cup {<<n, OwnStamp(l, n)>>}
      BY <1>1, Zenon DEF processLine
    <3> QED BY <3>1, <3>2, <3>3, Zenon
  <2>5. EventMail(-1) \in Mail
    BY MailTyped
  <2>6. CASE l.head
    <3>1. Header(l, n)
      BY <1>1, <2>6 DEF processLine
    <3>2. l.smoke \in BOOLEAN
      BY LineAssumption
    <3>3. mails' \in Seq(Mail)
      BY <2>5, <3>1 DEF Header, TypeOK
    <3> QED BY <2>1, <2>2, <2>4, <3>1, <3>2, <3>3 DEF Header, TypeOK
  <2>7. CASE ~l.head
    <3>1. Body(n)
      BY <1>1, <2>7 DEF processLine
    <3> QED BY <2>1, <2>2, <2>4, <3>1 DEF Body, TypeOK
  <2> QED BY <2>6, <2>7
<1>2. CASE PassTime
  BY <1>2 DEF PassTime, TypeOK
<1>3. CASE checkTimeout
  <2> DEFINE x == IF currentEventHasTimestampHeader THEN -1 ELSE currentTimestamp
  <2>1. EventMail(x) \in Mail
    BY MailTyped DEF TypeOK
  <2>2. mails' \in Seq(Mail)
    BY <1>3, <2>1 DEF checkTimeout, TypeOK
  <2>3. UNCHANGED <<currentEventIsSmokeAlarm, currentTimestamp, silent, lines, sightings>> /\ Ended
    BY <1>3 DEF checkTimeout
  <2>4. currentEvent' \in Seq(Number) /\ currentSubject' \in Number /\ currentEventHasTimestampHeader' \in BOOLEAN
    <3>1. <<>> \in Seq(Number)
      OBVIOUS
    <3> QED BY <2>3, <3>1, Zero, Zenon DEF Ended
  <2> QED BY <2>2, <2>3, <2>4 DEF TypeOK
<1>4. CASE UNCHANGED vars
  BY <1>4 DEF vars, state, TypeOK
<1> QED BY <1>1, <1>2, <1>3, <1>4 DEF Next

\* The state of the grouping is well typed.
THEOREM EventsTypeCorrect == Spec => []TypeOK
BY InitTypes, NextTypes, PTL DEF Spec

------------------------------------------------------------------------------
(* Sightings *)

\* The timestamp at hand is that of the last header, and the flag is this header's.
Headers == \A n \in 1 .. Len(lines) + 1 : LastHeader(lines, n) \in 0 .. n - 1
AtHand  == currentTimestamp = LastHeader(lines, Len(lines) + 1)
Flag    == currentEventIsSmokeAlarm <=> (currentTimestamp # 0 /\ lines[currentTimestamp].smoke)
Alarm   == Headers /\ AtHand /\ Flag

\* What SightingsInAlarm says of one line.
Seen(s, n) == s[n].address /\ LastHeader(s, n) # 0 /\ s[LastHeader(s, n)].smoke
Stamped(s, n) == <<n, IF s[n].head THEN n ELSE LastHeader(s, n)>>

LEMMA SightingsBySeen ==
  SightingsInAlarm <=> sightings = {Stamped(lines, n) : n \in {k \in DOMAIN lines : Seen(lines, k)}}
BY Zenon DEF SightingsInAlarm, AlarmLines, Seen, Stamped, HeaderBefore, LastHeader

LEMMA InitAlarm == Init => Alarm /\ SightingsInAlarm
<1> SUFFICES ASSUME Init PROVE Alarm /\ SightingsInAlarm
  OBVIOUS
<1>1. lines = <<>> /\ Len(lines) = 0 /\ DOMAIN lines = {} /\ sightings = {}
  BY DEF Init
<1>2. LastHeader(lines, 1) = 0
  BY <1>1, NoHeader
<1>3. Alarm
  BY <1>1, <1>2 DEF Init, Alarm, Headers, AtHand, Flag
<1>4. SightingsInAlarm
  BY <1>1, SightingsBySeen
<1> QED BY <1>3, <1>4

LEMMA SeenStays ==
  ASSUME Alarm, TypeOK, NEW l \in Line, NEW n \in DOMAIN lines
  PROVE  /\ Seen(Append(lines, l), n) <=> Seen(lines, n)
         /\ Stamped(Append(lines, l), n) = Stamped(lines, n)
<1>1. lines \in Seq(Line) /\ n \in 1 .. Len(lines) /\ n \in 1 .. Len(lines) + 1
  BY DEF TypeOK
<1>2. LastHeader(Append(lines, l), n) = LastHeader(lines, n)
  BY <1>1, HeaderStays
<1>3. LastHeader(lines, n) \in 0 .. n - 1
  BY <1>1 DEF Alarm, Headers, AtHand, Flag
<1>4. Append(lines, l)[n] = lines[n]
  BY <1>1
<1>5. LastHeader(lines, n) # 0 => Append(lines, l)[LastHeader(lines, n)] = lines[LastHeader(lines, n)]
  BY <1>1, <1>3
<1> QED BY <1>2, <1>4, <1>5, Zenon DEF Seen, Stamped

LEMMA NextAlarm == TypeOK /\ Alarm /\ SightingsInAlarm /\ [Next]_vars => Alarm' /\ SightingsInAlarm'
<1> SUFFICES ASSUME TypeOK, Alarm, SightingsInAlarm, [Next]_vars PROVE Alarm' /\ SightingsInAlarm'
  OBVIOUS
<1>1. ASSUME NEW l \in Line, processLine(l) PROVE Alarm' /\ SightingsInAlarm'
  <2> DEFINE n == Len(lines) + 1
  <2>1. /\ lines \in Seq(Line) /\ lines' = Append(lines, l) /\ Len(lines') = n /\ n \in Nat
        /\ lines'[n] = l /\ \A k \in 1 .. Len(lines) : lines'[k] = lines[k]
        /\ currentTimestamp \in Int
    BY <1>1 DEF TypeOK, processLine, Number
  <2>2. \A k \in 1 .. n : LastHeader(lines', k) = LastHeader(lines, k)
    BY <2>1, HeaderStays
  <2>3. LastHeader(lines', n + 1) = IF l.head THEN n ELSE LastHeader(lines, n)
    BY <2>1, HeaderMoves
  <2>4. \A k \in 1 .. n : LastHeader(lines, k) \in 0 .. k - 1
    BY DEF Alarm, Headers, AtHand, Flag
  <2>5. /\ currentTimestamp = LastHeader(lines, n)
        /\ currentEventIsSmokeAlarm <=> (currentTimestamp # 0 /\ lines[currentTimestamp].smoke)
    BY DEF Alarm, Headers, AtHand, Flag
  <2>6. \A k \in 1 .. Len(lines') + 1 : LastHeader(lines', k) \in 0 .. k - 1
    <3> HIDE DEF n
    <3>1. \A k \in 1 .. n + 1 : LastHeader(lines', k) \in 0 .. k - 1
      BY <2>1, <2>2, <2>3, <2>4
    <3> QED BY <2>1, <3>1
  <2>7. ASSUME l.head
        PROVE  currentTimestamp' = LastHeader(lines', Len(lines') + 1) /\ Flag'
    <3>1. currentTimestamp' = n /\ (currentEventIsSmokeAlarm' <=> l.smoke)
      BY <1>1, <2>7 DEF processLine, Header
    <3>2. currentTimestamp' = LastHeader(lines', n + 1)
      BY <2>3, <2>7, <3>1
    <3>3. n # 0 /\ lines'[currentTimestamp'] = l
      BY <2>1, <3>1
    <3>4. Flag'
      BY <3>1, <3>3, Zenon DEF Flag
    <3>5. currentTimestamp' = LastHeader(lines', Len(lines') + 1)
      BY <2>1, <3>2
    <3> QED BY <3>4, <3>5
  <2>8. ASSUME ~l.head
        PROVE  currentTimestamp' = LastHeader(lines', Len(lines') + 1) /\ Flag'
    <3>1. currentTimestamp' = currentTimestamp /\ (currentEventIsSmokeAlarm' <=> currentEventIsSmokeAlarm)
      BY <1>1, <2>8 DEF processLine, Body
    <3>2. currentTimestamp' = LastHeader(lines', n + 1)
      BY <2>3, <2>5, <2>8, <3>1
    <3>3. currentTimestamp \in 0 .. Len(lines)
      <4>1. n \in 1 .. n /\ n - 1 = Len(lines)
        BY <2>1
      <4> HIDE DEF n
      <4> QED BY <4>1, <2>4, <2>5
    <3>4. currentTimestamp # 0 => lines'[currentTimestamp] = lines[currentTimestamp]
      BY <2>1, <3>3
    <3>5. Flag'
      BY <2>5, <3>1, <3>4, Zenon DEF Flag
    <3>6. currentTimestamp' = LastHeader(lines', Len(lines') + 1)
      BY <2>1, <3>2
    <3> QED BY <3>5, <3>6
  <2>9. Alarm'
    <3>1. Headers'
      BY <2>6 DEF Headers
    <3>2. AtHand'
      BY <2>7, <2>8 DEF AtHand
    <3> QED BY <2>7, <2>8, <3>1, <3>2 DEF Alarm
  <2>10. Seen(lines', n) <=> Sighted(l)
    <3>1. LastHeader(lines', n) = currentTimestamp /\ currentTimestamp \in 0 .. n - 1
      <4>1. n \in 1 .. n
        BY <2>1
      <4> HIDE DEF n
      <4> QED BY <4>1, <2>2, <2>4, <2>5
    <3>2. currentTimestamp # 0 => lines'[currentTimestamp] = lines[currentTimestamp]
      BY <2>1, <3>1
    <3>3. lines'[n] = l
      BY <2>1
    <3> HIDE DEF n
    <3> QED BY <2>5, <3>1, <3>2, <3>3 DEF Seen, Sighted
  <2>11. Stamped(lines', n) = <<n, OwnStamp(l, n)>>
    <3>1. LastHeader(lines', n) = currentTimestamp /\ lines'[n] = l
      <4>1. n \in 1 .. n
        BY <2>1
      <4> HIDE DEF n
      <4> QED BY <4>1, <2>1, <2>2, <2>5
    <3> HIDE DEF n
    <3> QED BY <3>1, Zenon DEF Stamped, OwnStamp
  <2>12. \A k \in DOMAIN lines : (Seen(lines', k) <=> Seen(lines, k)) /\ Stamped(lines', k) = Stamped(lines, k)
    BY <2>1, SeenStays
  <2>13. DOMAIN lines' = DOMAIN lines \cup {n}
    BY <2>1
  <2>14. sightings = {Stamped(lines, k) : k \in {j \in DOMAIN lines : Seen(lines, j)}}
    BY SightingsBySeen
  <2>15. sightings' = sightings \cup IF Sighted(l) THEN {<<n, OwnStamp(l, n)>>} ELSE {}
    BY <1>1, Zenon DEF processLine
  <2>16. sightings' = {Stamped(lines', k) : k \in {j \in DOMAIN lines' : Seen(lines', j)}}
    <3> HIDE DEF n
    <3>1. CASE Sighted(l)
      <4>1. sightings' = sightings \cup {Stamped(lines', n)}
        BY <2>15, <2>11, <3>1
      <4> QED BY <2>10, <2>12, <2>13, <2>14, <3>1, <4>1
    <3>2. CASE ~Sighted(l)
      <4>1. sightings' = sightings
        BY <2>15, <3>2
      <4> QED BY <2>10, <2>12, <2>13, <2>14, <3>2, <4>1
    <3> QED BY <3>1, <3>2
  <2>17. SightingsInAlarm'
    BY <2>16, Zenon DEF SightingsInAlarm, AlarmLines, Seen, Stamped, HeaderBefore, LastHeader
  <2> QED BY <2>9, <2>17
<1>2. CASE PassTime \/ checkTimeout \/ UNCHANGED vars
  <2>1. UNCHANGED <<lines, sightings, currentTimestamp, currentEventIsSmokeAlarm>>
    BY <1>2 DEF PassTime, checkTimeout, vars, state
  <2>2. Alarm'
    BY <2>1 DEF Alarm, Headers, AtHand, Flag
  <2>3. SightingsInAlarm'
    BY <2>1, Zenon DEF SightingsInAlarm, AlarmLines, HeaderBefore
  <2> QED BY <2>2, <2>3
<1> QED BY <1>1, <1>2 DEF Next

\* Exactly the addresses on lines behind the header of a smoke alarm are reported, with
\* the timestamp of the line or of this header.
THEOREM SightingsAreAlarms == Spec => []SightingsInAlarm
BY InitTypes, NextTypes, InitAlarm, NextAlarm, PTL DEF Spec

------------------------------------------------------------------------------
(* Mails *)

\* What MailIsOneEvent says of one mail m of the lines s, and its lines are among them.
OneEvent(s, m) ==
  /\ m.body # <<>>
  /\ \A j \in 1 .. Len(m.body) : m.body[j] \in 1 .. Len(s)
  /\ \A j \in 2 .. Len(m.body) : ~s[m.body[j]].head
  /\ m.subject = IF s[m.body[1]].head THEN m.body[1] ELSE 0
  /\ m.stamp # -1 => ~s[m.body[1]].head /\ m.stamp = LastHeader(s, m.body[1])

AllOneEvent == \A k \in 1 .. Len(mails) : OneEvent(lines, mails[k])

\* The same of the event at hand; without a header of its own it began after the last.
EventLines == \A j \in 1 .. Len(currentEvent) : currentEvent[j] \in 1 .. Len(lines)
EventBody  == \A j \in 2 .. Len(currentEvent) : ~lines[currentEvent[j]].head
EventHead  ==
  /\ currentEvent = <<>> => ~currentEventHasTimestampHeader
  /\ currentEvent # <<>> => (currentEventHasTimestampHeader <=> lines[currentEvent[1]].head)
EventSubject == currentSubject = IF currentEventHasTimestampHeader THEN currentEvent[1] ELSE 0
EventStamp ==
  currentEvent # <<>> /\ ~currentEventHasTimestampHeader =>
    currentTimestamp = LastHeader(lines, currentEvent[1])

AtHandIsOne == EventLines /\ EventBody /\ EventHead /\ EventSubject /\ EventStamp

LEMMA AtHandMail ==
  ASSUME TypeOK, AtHandIsOne, currentEvent # <<>>,
         NEW x, x = -1 \/ (~currentEventHasTimestampHeader /\ x = currentTimestamp)
  PROVE  OneEvent(lines, EventMail(x))
<1> DEFINE m == EventMail(x)
<1>1. m.body = currentEvent /\ m.subject = currentSubject /\ m.stamp = x
  BY DEF EventMail
<1>2. currentEventHasTimestampHeader <=> lines[currentEvent[1]].head
  BY DEF AtHandIsOne, EventHead
<1>3. m.subject = IF lines[m.body[1]].head THEN m.body[1] ELSE 0
  BY <1>1, <1>2, Zenon DEF AtHandIsOne, EventSubject
<1>4. m.stamp # -1 => ~lines[m.body[1]].head /\ m.stamp = LastHeader(lines, m.body[1])
  BY <1>1, <1>2, Zenon DEF AtHandIsOne, EventStamp
<1>5. \A j \in 1 .. Len(m.body) : m.body[j] \in 1 .. Len(lines)
  BY <1>1, Zenon DEF AtHandIsOne, EventLines
<1>6. \A j \in 2 .. Len(m.body) : ~lines[m.body[j]].head
  BY <1>1, Zenon DEF AtHandIsOne, EventBody
<1> HIDE DEF m
<1>7. m.body # <<>>
  BY <1>1
<1>8. OneEvent(lines, m)
  BY <1>3, <1>4, <1>5, <1>6, <1>7, Zenon DEF OneEvent
<1> QED BY <1>8 DEF m

LEMMA OneEventStays ==
  ASSUME NEW s \in Seq(Line), NEW l \in Line, NEW m \in Mail, OneEvent(s, m)
  PROVE  OneEvent(Append(s, l), m)
<1> DEFINE t == Append(s, l)
<1>1. /\ m.body \in Seq(Number) /\ m.body # <<>>
      /\ \A j \in 1 .. Len(m.body) : m.body[j] \in 1 .. Len(s)
  BY DEF OneEvent, Mail
<1>2. Len(m.body) \in Nat /\ 1 \in 1 .. Len(m.body)
  BY <1>1
<1>3. \A k \in 1 .. Len(s) : t[k] = s[k] /\ LastHeader(t, k) = LastHeader(s, k)
  BY HeaderStays
<1>4. Len(t) = Len(s) + 1 /\ Len(s) \in Nat
  OBVIOUS
<1>5. \A j \in 1 .. Len(m.body) : m.body[j] \in 1 .. Len(t) /\ t[m.body[j]] = s[m.body[j]]
  <2> HIDE DEF t
  <2> QED BY <1>1, <1>3, <1>4
<1>6. LastHeader(t, m.body[1]) = LastHeader(s, m.body[1])
  <2> HIDE DEF t
  <2> QED BY <1>1, <1>2, <1>3
<1>7. \A j \in 2 .. Len(m.body) : ~t[m.body[j]].head
  <2>1. \A j \in 2 .. Len(m.body) : j \in 1 .. Len(m.body)
    BY <1>2
  <2> HIDE DEF t
  <2> QED BY <2>1, <1>5, Zenon DEF OneEvent
<1> HIDE DEF t
<1>8. OneEvent(t, m)
  BY <1>1, <1>2, <1>5, <1>6, <1>7, Zenon DEF OneEvent
<1> QED BY <1>8 DEF t

LEMMA InitMails == Init => AllOneEvent /\ AtHandIsOne
<1> SUFFICES ASSUME Init PROVE AllOneEvent /\ AtHandIsOne
  OBVIOUS
<1>1. AllOneEvent
  BY DEF Init, AllOneEvent
<1>2. EventLines /\ EventBody
  BY DEF Init, EventLines, EventBody
<1>3. EventHead /\ EventSubject /\ EventStamp
  BY DEF Init, EventHead, EventSubject, EventStamp
<1> QED BY <1>1, <1>2, <1>3 DEF AtHandIsOne

LEMMA MailsGrow ==
  ASSUME NEW s, NEW ms \in Seq(Mail), NEW m \in Mail,
         \A k \in 1 .. Len(ms) : OneEvent(s, ms[k]), OneEvent(s, m)
  PROVE  \A k \in 1 .. Len(Append(ms, m)) : OneEvent(s, Append(ms, m)[k])
<1>1. Len(Append(ms, m)) = Len(ms) + 1 /\ Append(ms, m)[Len(ms) + 1] = m /\ Len(ms) \in Nat
  OBVIOUS
<1>2. \A k \in 1 .. Len(ms) : Append(ms, m)[k] = ms[k]
  OBVIOUS
<1> QED BY <1>1, <1>2

LEMMA HeaderMails ==
  ASSUME TypeOK, AllOneEvent, AtHandIsOne, NEW l \in Line, l.head, processLine(l)
  PROVE  AllOneEvent' /\ AtHandIsOne'
<1> DEFINE n == Len(lines) + 1
<1>0. /\ lines \in Seq(Line) /\ mails \in Seq(Mail) /\ lines' = Append(lines, l)
      /\ Len(lines') = n /\ n \in Nat /\ n > 0 /\ lines'[n] = l
  BY DEF TypeOK, processLine
<1>1. Header(l, n)
  BY DEF processLine
<1>2. \A k \in 1 .. Len(mails) : OneEvent(lines', mails[k])
  BY <1>0, OneEventStays DEF AllOneEvent
<1>3. \A k \in 1 .. Len(mails') : OneEvent(lines', mails'[k])
  <2>1. CASE currentEvent # <<>>
    <3>1. EventMail(-1) \in Mail /\ OneEvent(lines, EventMail(-1))
      BY <2>1, MailTyped, AtHandMail
    <3>2. OneEvent(lines', EventMail(-1))
      BY <1>0, <3>1, OneEventStays
    <3>3. mails' = Append(mails, EventMail(-1))
      BY <1>1, <2>1 DEF Header
    <3> QED BY <1>0, <1>2, <3>1, <3>2, <3>3, MailsGrow
  <2>2. CASE currentEvent = <<>>
    <3>1. mails' = mails
      BY <1>1, <2>2 DEF Header
    <3> QED BY <1>2, <3>1
  <2> QED BY <2>1, <2>2
<1>4. AllOneEvent'
  BY <1>3 DEF AllOneEvent
<1>5. /\ currentEvent' = <<n>> /\ Len(currentEvent') = 1 /\ currentEvent'[1] = n
      /\ currentEventHasTimestampHeader' = TRUE /\ currentSubject' = n
  BY <1>1 DEF Header
<1> HIDE DEF n
<1>6. EventLines' /\ EventBody'
  BY <1>0, <1>5 DEF EventLines, EventBody
<1>7. EventHead' /\ EventSubject' /\ EventStamp'
  BY <1>0, <1>5, Zenon DEF EventHead, EventSubject, EventStamp
<1> QED BY <1>4, <1>6, <1>7 DEF AtHandIsOne

LEMMA BodyMails ==
  ASSUME TypeOK, AllOneEvent, AtHandIsOne, Alarm, NEW l \in Line, ~l.head, processLine(l)
  PROVE  AllOneEvent' /\ AtHandIsOne'
<1> DEFINE n == Len(lines) + 1
<1>0. /\ lines \in Seq(Line) /\ mails \in Seq(Mail) /\ lines' = Append(lines, l)
      /\ Len(lines') = n /\ n \in Nat /\ n > 0 /\ lines'[n] = l /\ Len(lines) \in Nat /\ n = Len(lines) + 1
      /\ \A k \in 1 .. Len(lines) : lines'[k] = lines[k]
  BY DEF TypeOK, processLine
<1>1. Body(n)
  BY DEF processLine
<1>2. \A k \in 1 .. Len(mails) : OneEvent(lines', mails[k])
  BY <1>0, OneEventStays DEF AllOneEvent
<1>3. AllOneEvent'
  <2>1. mails' = mails
    BY <1>1 DEF Body
  <2>2. \A k \in 1 .. Len(mails') : OneEvent(lines', mails'[k])
    BY <1>2, <2>1
  <2> QED BY <2>2 DEF AllOneEvent
<1>4. /\ currentEvent \in Seq(Number) /\ currentEvent' = Append(currentEvent, n)
      /\ UNCHANGED <<currentEventHasTimestampHeader, currentSubject, currentTimestamp>>
  BY <1>1 DEF Body, TypeOK
<1>a. \A k \in 1 .. n : LastHeader(lines', k) = LastHeader(lines, k)
  BY <1>0, HeaderStays
<1>b. \A j \in 1 .. Len(currentEvent) : currentEvent[j] \in 1 .. Len(lines)
  BY DEF AtHandIsOne, EventLines
<1> HIDE DEF n
<1>5. /\ Len(currentEvent) \in Nat /\ Len(currentEvent') = Len(currentEvent) + 1
      /\ currentEvent'[Len(currentEvent) + 1] = n
      /\ \A j \in 1 .. Len(currentEvent) : currentEvent'[j] = currentEvent[j]
      /\ currentEvent' # <<>>
  BY <1>4
<1>6. EventLines'
  <2>1. \A j \in 1 .. Len(currentEvent) : currentEvent'[j] \in 1 .. Len(lines')
    BY <1>0, <1>5, <1>b
  <2>2. currentEvent'[Len(currentEvent) + 1] \in 1 .. Len(lines')
    BY <1>0, <1>5
  <2> QED BY <1>5, <2>1, <2>2 DEF EventLines
<1>7. EventBody'
  <2>1. \A j \in 2 .. Len(currentEvent) : ~lines'[currentEvent'[j]].head
    BY <1>0, <1>5, <1>b DEF AtHandIsOne, EventBody
  <2>2. ~lines'[currentEvent'[Len(currentEvent) + 1]].head
    BY <1>0, <1>5
  <2> QED BY <1>5, <2>1, <2>2 DEF EventBody
<1>8. CASE currentEvent = <<>>
  <2>1. currentEvent'[1] = n /\ Len(currentEvent) = 0
    BY <1>5, <1>8
  <2>2. ~currentEventHasTimestampHeader
    BY <1>8 DEF AtHandIsOne, EventHead
  <2>3. EventHead'
    BY <1>0, <1>4, <1>5, <2>1, <2>2, Zenon DEF EventHead
  <2>4. EventSubject'
    BY <1>4, <2>2, Zenon DEF AtHandIsOne, EventSubject
  <2>5. currentTimestamp' = LastHeader(lines', n)
    BY <1>0, <1>4, <1>a DEF Alarm, AtHand
  <2>6. EventStamp'
    BY <2>1, <2>5 DEF EventStamp
  <2> QED BY <1>3, <1>6, <1>7, <2>3, <2>4, <2>6 DEF AtHandIsOne
<1>9. CASE currentEvent # <<>>
  <2>1. 1 \in 1 .. Len(currentEvent)
    BY <1>4, <1>9
  <2>2. /\ currentEvent'[1] = currentEvent[1] /\ lines'[currentEvent[1]] = lines[currentEvent[1]]
        /\ LastHeader(lines', currentEvent[1]) = LastHeader(lines, currentEvent[1])
    BY <1>0, <1>5, <1>a, <1>b, <2>1
  <2>3. EventHead'
    BY <1>4, <1>5, <1>9, <2>2, Zenon DEF AtHandIsOne, EventHead
  <2>4. EventSubject'
    BY <1>4, <2>2, Zenon DEF AtHandIsOne, EventSubject
  <2>5. ~currentEventHasTimestampHeader => currentTimestamp' = LastHeader(lines', currentEvent'[1])
    BY <1>4, <1>9, <2>2 DEF AtHandIsOne, EventStamp
  <2>6. EventStamp'
    BY <1>4, <2>5 DEF EventStamp
  <2> QED BY <1>3, <1>6, <1>7, <2>3, <2>4, <2>6 DEF AtHandIsOne
<1> QED BY <1>8, <1>9

LEMMA NextMails == TypeOK /\ Alarm /\ AllOneEvent /\ AtHandIsOne /\ [Next]_vars => AllOneEvent' /\ AtHandIsOne'
<1> SUFFICES ASSUME TypeOK, Alarm, AllOneEvent, AtHandIsOne, [Next]_vars PROVE AllOneEvent' /\ AtHandIsOne'
  OBVIOUS
<1>1. ASSUME NEW l \in Line, processLine(l) PROVE AllOneEvent' /\ AtHandIsOne'
  BY <1>1, HeaderMails, BodyMails
<1>2. CASE PassTime \/ UNCHANGED vars
  <2>1. UNCHANGED <<lines, mails, currentEvent, currentEventHasTimestampHeader, currentSubject, currentTimestamp>>
    BY <1>2 DEF PassTime, vars, state
  <2>2. \A k \in 1 .. Len(mails') : OneEvent(lines', mails'[k])
    BY <2>1 DEF AllOneEvent
  <2> QED BY <2>1, <2>2 DEF AllOneEvent, AtHandIsOne, EventLines, EventBody, EventHead, EventSubject, EventStamp
<1>3. CASE checkTimeout
  <2> DEFINE x == IF currentEventHasTimestampHeader THEN -1 ELSE currentTimestamp
  <2>1. mails \in Seq(Mail) /\ x \in Number \cup {-1} /\ lines' = lines /\ currentEvent # <<>>
    BY <1>3 DEF TypeOK, checkTimeout, TimedOut
  <2>2. x = -1 \/ (~currentEventHasTimestampHeader /\ x = currentTimestamp)
    OBVIOUS
  <2>3. mails' = Append(mails, EventMail(x)) /\ Ended
    BY <1>3 DEF checkTimeout
  <2> HIDE DEF x
  <2>4. EventMail(x) \in Mail /\ OneEvent(lines, EventMail(x))
    BY <2>1, <2>2, MailTyped, AtHandMail
  <2>5. \A k \in 1 .. Len(mails') : OneEvent(lines', mails'[k])
    BY <2>1, <2>3, <2>4, MailsGrow DEF AllOneEvent
  <2>6. AllOneEvent'
    BY <2>5 DEF AllOneEvent
  <2>7. Len(currentEvent') = 0 /\ currentEvent' = <<>>
    BY <2>3 DEF Ended
  <2>8. EventLines' /\ EventBody'
    BY <2>7 DEF EventLines, EventBody
  <2>9. ~currentEventHasTimestampHeader' /\ currentSubject' = 0
    BY <2>3, Zenon DEF Ended
  <2>10. EventHead' /\ EventStamp'
    BY <2>7, <2>9 DEF EventHead, EventStamp
  <2>11. EventSubject'
    BY <2>9, Zenon DEF EventSubject
  <2> QED BY <2>6, <2>8, <2>10, <2>11 DEF AtHandIsOne
<1> QED BY <1>1, <1>2, <1>3 DEF Next

\* Every mail is one event: a header only as its first line, the subject of this header,
\* the timestamp of the header before.
THEOREM MailsAreEvents == Spec => []MailIsOneEvent
<1>1. TypeOK /\ AllOneEvent => MailIsOneEvent
  <2> SUFFICES ASSUME TypeOK, AllOneEvent, NEW k \in DOMAIN mails
               PROVE  LET m == mails[k]  first == Head(m.body) IN
                        /\ m.body # <<>>
                        /\ \A j \in 2 .. Len(m.body) : ~lines[m.body[j]].head
                        /\ m.subject = IF lines[first].head THEN first ELSE 0
                        /\ m.stamp # -1 => ~lines[first].head /\ m.stamp = HeaderBefore(first)
    BY Zenon DEF MailIsOneEvent
  <2> DEFINE m == mails[k]
  <2>1. m \in Mail /\ OneEvent(lines, m)
    BY DEF TypeOK, AllOneEvent
  <2> HIDE DEF m
  <2>2. Head(m.body) = m.body[1]
    BY <2>1 DEF Mail, OneEvent
  <2>3. HeaderBefore(m.body[1]) = LastHeader(lines, m.body[1])
    BY Zenon DEF HeaderBefore, LastHeader
  <2>4. /\ m.body # <<>>
        /\ \A j \in 2 .. Len(m.body) : ~lines[m.body[j]].head
        /\ m.subject = IF lines[Head(m.body)].head THEN Head(m.body) ELSE 0
        /\ m.stamp # -1 => ~lines[Head(m.body)].head /\ m.stamp = HeaderBefore(Head(m.body))
    BY <2>1, <2>2, <2>3, Zenon DEF OneEvent
  <2> QED BY <2>4, Zenon DEF m
<1> QED BY <1>1, InitTypes, NextTypes, InitAlarm, NextAlarm, InitMails, NextMails, PTL DEF Spec

------------------------------------------------------------------------------
(* Concatenation of many sequences, by induction on their number *)

\* A set of numbers has a least one (NatLessThanWellFounded says it of relations).
LEMMA LeastNatural == ASSUME NEW T, T \subseteq Nat, T # {}
                      PROVE  \E x \in T : \A y \in T : x <= y
<1> DEFINE R == OpToRel(<, Nat)
<1>1. IsWellFoundedOn(R, Nat)
  BY NatLessThanWellFounded
<1>2. \A a, b \in Nat : a < b => <<a, b>> \in R
  BY DEF OpToRel
<1> HIDE DEF R
<1>3. PICK x \in T : \A y \in T : ~ (<<y, x>> \in R)
  BY <1>1, WFMin
<1>4. \A y \in T : x <= y
  <2> TAKE y \in T
  <2>1. x \in Nat /\ y \in Nat
    OBVIOUS
  <2>2. ~(y < x)
    BY <1>2, <1>3, <2>1, Zenon
  <2> QED BY <2>1, <2>2
<1> QED BY <1>4

\* Induction, for the numbers that have what is to be proved.
LEMMA AllNaturals == ASSUME NEW S, 0 \in S, \A n \in Nat : n \in S => n + 1 \in S
                     PROVE  Nat \subseteq S
<1> SUFFICES ASSUME Nat \ S # {} PROVE FALSE
  OBVIOUS
<1>1. PICK x \in Nat \ S : \A y \in Nat \ S : x <= y
  BY LeastNatural, Nat \ S \subseteq Nat, Zenon
<1>2. x # 0 /\ x - 1 \in Nat /\ x - 1 < x /\ x - 1 + 1 = x
  BY <1>1
<1>3. x - 1 \in S
  BY <1>1, <1>2
<1> QED BY <1>1, <1>2, <1>3

\* f is what FlattenSeq computes, for the first n sequences of s.
Flattens(s, n, f) == f = [i \in 1 .. n |-> IF i = 1 THEN s[i] ELSE f[i - 1] \o s[i]]

\* Such a function exists: the one for n + 1 continues the one for n.
LEMMA FlattenExists == ASSUME NEW s PROVE \A n \in Nat : \E f : Flattens(s, n, f)
<1> DEFINE S == {n \in Nat : \E f : Flattens(s, n, f)}
<1>1. 0 \in S
  <2> DEFINE f == [i \in 1 .. 0 |-> s[i]]
  <2>1. f = [i \in 1 .. 0 |-> IF i = 1 THEN s[i] ELSE f[i - 1] \o s[i]]
    BY SMT
  <2> QED BY <2>1 DEF Flattens
<1>2. ASSUME NEW n \in Nat, n \in S PROVE n + 1 \in S
  <2>1. PICK f : Flattens(s, n, f)
    BY <1>2
  <2> DEFINE D == 1 .. n + 1
             g == [i \in D |-> IF i \in 1 .. n THEN f[i] ELSE IF i = 1 THEN s[i] ELSE f[n] \o s[i]]
             h == [i \in D |-> IF i = 1 THEN s[i] ELSE g[i - 1] \o s[i]]
  <2>2. ASSUME NEW i \in D PROVE g[i] = h[i]
    <3>1. CASE i \in 1 .. n
      <4>1. g[i] = IF i = 1 THEN s[i] ELSE f[i - 1] \o s[i]
        BY <2>1, <3>1 DEF Flattens
      <4>2. i # 1 => i - 1 \in 1 .. n /\ i - 1 \in D
        BY <3>1
      <4> QED BY <4>1, <4>2
    <3>2. CASE i = n + 1
      <4>1. ~(i \in 1 .. n) /\ i - 1 = n /\ (i # 1 => n \in 1 .. n /\ n \in D)
        BY <3>2
      <4> QED BY <4>1
    <3> QED BY <3>1, <3>2
  <2>3. g = h
    BY <2>2
  <2> HIDE DEF g
  <2>4. Flattens(s, n + 1, g)
    BY <2>3 DEF Flattens
  <2> QED BY <2>4
<1> HIDE DEF S
<1>3. Nat \subseteq S
  BY <1>1, <1>2, AllNaturals
<1> QED BY <1>3 DEF S

LEMMA FlattenFirst == ASSUME NEW s, NEW n \in Nat \ {0}, NEW f, Flattens(s, n, f)
                      PROVE  f[1] = s[1]
BY DEF Flattens

LEMMA FlattenRound ==
  ASSUME NEW s, NEW n \in Nat, NEW f, Flattens(s, n, f), NEW j \in Nat \ {0}, j + 1 <= n
  PROVE  f[j + 1] = f[j] \o s[j + 1]
<1>1. PICK i : i = j + 1
  OBVIOUS
<1>2. i \in 1 .. n /\ i # 1 /\ i - 1 = j
  BY <1>1
<1>3. f[i] = f[i - 1] \o s[i]
  BY <1>2, Zenon DEF Flattens
<1> QED BY <1>1, <1>2, <1>3, Zenon

\* There is only one, and it depends on no later sequence.
LEMMA FlattenUnique ==
  ASSUME NEW s, NEW t, NEW f, NEW g, NEW m \in Nat, NEW n \in Nat, m <= n,
         \A i \in 1 .. m : s[i] = t[i], Flattens(s, m, f), Flattens(t, n, g)
  PROVE  \A i \in 1 .. m : f[i] = g[i]
<1> DEFINE S == {i \in Nat : i + 1 <= m => f[i + 1] = g[i + 1]}
<1>1. 0 \in S
  <2> SUFFICES ASSUME 1 <= m PROVE f[1] = g[1]
    OBVIOUS
  <2> QED BY 1 \in 1 .. m, FlattenFirst
<1>2. ASSUME NEW i \in Nat, i \in S PROVE i + 1 \in S
  <2> SUFFICES ASSUME i + 2 <= m PROVE f[i + 2] = g[i + 2]
    <3>1. i + 1 + 1 = i + 2
      OBVIOUS
    <3> QED BY <3>1
  <2>1. i + 1 \in Nat \ {0} /\ i + 1 + 1 = i + 2 /\ i + 2 <= n /\ i + 2 \in 1 .. m
    OBVIOUS
  <2>2. f[i + 1] = g[i + 1]
    BY <1>2
  <2>3. f[i + 2] = f[i + 1] \o s[i + 2] /\ g[i + 2] = g[i + 1] \o t[i + 2]
    <3>1. PICK j \in Nat \ {0} : j = i + 1 /\ j + 1 = i + 2 /\ j + 1 <= m /\ j + 1 <= n
      BY <2>1
    <3>2. j + 1 <= m /\ j + 1 <= n
      BY <3>1
    <3>3. f[j + 1] = f[j] \o s[j + 1]
      BY <3>2, FlattenRound, Zenon
    <3>4. g[j + 1] = g[j] \o t[j + 1]
      BY <3>2, FlattenRound, Zenon
    <3> QED BY <3>1, <3>3, <3>4, Zenon
  <2>4. s[i + 2] = t[i + 2]
    BY <2>1
  <2> QED BY <2>2, <2>3, <2>4, Zenon
<1> HIDE DEF S
<1>4. Nat \subseteq S
  BY <1>1, <1>2, AllNaturals
<1> SUFFICES ASSUME NEW i \in 1 .. m PROVE f[i] = g[i]
  OBVIOUS
<1>5. i - 1 \in Nat /\ i - 1 + 1 = i /\ i <= m
  OBVIOUS
<1>6. i - 1 \in S
  BY <1>4, <1>5
<1> QED BY <1>5, <1>6 DEF S

\* FlattenSeq chooses among the functions that solve its equation.
LEMMA FlattenSolved == ASSUME NEW s, Len(s) \in Nat \ {0}, NEW f, Flattens(s, Len(s), f)
                       PROVE  FlattenSeq(s) = f[Len(s)]
<1> DEFINE g == CHOOSE h : Flattens(s, Len(s), h)
<1>1. FlattenSeq(s) = g[Len(s)]
  BY Zenon DEF FlattenSeq, Flattens
<1>2. Flattens(s, Len(s), g)
  BY Zenon
<1> HIDE DEF g
<1>3. \A i \in 1 .. Len(s) : f[i] = g[i]
  BY <1>2, FlattenUnique
<1> QED BY <1>1, <1>3

LEMMA FlattenEmpty == FlattenSeq(<<>>) = <<>>
BY DEF FlattenSeq

LEMMA FlattenAppend == ASSUME NEW E, NEW s \in Seq(Seq(E)), NEW x \in Seq(E)
                       PROVE  FlattenSeq(Append(s, x)) = FlattenSeq(s) \o x
<1> DEFINE t == Append(s, x)
           n == Len(s)
<1>1. n \in Nat /\ Len(t) = n + 1 /\ Len(t) \in Nat \ {0} /\ t[n + 1] = x
        /\ \A i \in 1 .. n : s[i] = t[i]
  OBVIOUS
<1> HIDE DEF t, n
<1>2. PICK g : Flattens(t, n + 1, g)
  BY <1>1, FlattenExists
<1>3. FlattenSeq(t) = g[n + 1]
  BY <1>1, <1>2, FlattenSolved
<1>4. g[n + 1] = IF n + 1 = 1 THEN x ELSE g[n] \o x
  <2>1. n = 0 => g[1] = x
    BY <1>1, <1>2, FlattenFirst
  <2>2. ASSUME n # 0 PROVE g[n + 1] = g[n] \o t[n + 1]
    <3>1. n \in Nat \ {0} /\ n + 1 \in Nat /\ n + 1 <= n + 1
      BY <1>1, <2>2
    <3> QED BY <1>2, <3>1, FlattenRound, Zenon
  <2>3. n + 1 = 1 <=> n = 0
    BY <1>1
  <2>4. CASE n = 0
    BY <2>1, <2>3, <2>4
  <2>5. CASE n # 0
    BY <1>1, <2>2, <2>3, <2>5, Zenon
  <2> QED BY <2>4, <2>5
<1>5. CASE n = 0
  <2>1. s = <<>>
    BY <1>5 DEF n
  <2>2. <<>> \o x = x
    OBVIOUS
  <2> QED BY <1>3, <1>4, <1>5, <2>1, <2>2, FlattenEmpty DEF t
<1>6. CASE n # 0
  <2>1. PICK f : Flattens(s, n, f)
    BY <1>1, FlattenExists
  <2>2. FlattenSeq(s) = f[n]
    BY <1>1, <1>6, <2>1, FlattenSolved DEF n
  <2>3. f[n] = g[n]
    <3>1. \A i \in 1 .. n : f[i] = g[i]
      BY <1>1, <1>2, <2>1, FlattenUnique
    <3> QED BY <1>1, <1>6, <3>1
  <2> QED BY <1>1, <1>3, <1>4, <1>6, <2>2, <2>3 DEF t
<1> QED BY <1>5, <1>6

LEMMA FlattenType == ASSUME NEW E, NEW s \in Seq(Seq(E)) PROVE FlattenSeq(s) \in Seq(E)
<1> DEFINE n == Len(s)
<1>1. n \in Nat /\ \A i \in 1 .. n : s[i] \in Seq(E)
  OBVIOUS
<1>2. CASE n = 0
  <2>1. s = <<>>
    BY <1>2
  <2>2. <<>> \in Seq(E)
    OBVIOUS
  <2> QED BY <2>1, <2>2, FlattenEmpty, Zenon
<1>3. CASE n # 0
  <2>1. PICK f : Flattens(s, n, f)
    BY <1>1, FlattenExists
  <2> DEFINE S == {i \in Nat : i + 1 <= n => f[i + 1] \in Seq(E)}
  <2> HIDE DEF n
  <2>2. 0 \in S
    <3>1. f[1] = s[1] /\ 1 \in 1 .. n
      BY <1>1, <1>3, <2>1, FlattenFirst
    <3> QED BY <1>1, <3>1
  <2>3. ASSUME NEW i \in Nat, i \in S PROVE i + 1 \in S
    <3> SUFFICES ASSUME i + 2 <= n PROVE f[i + 2] \in Seq(E)
      <4>1. i + 1 + 1 = i + 2
        OBVIOUS
      <4> QED BY <4>1
    <3>1. PICK j \in Nat \ {0} : j = i + 1 /\ j + 1 = i + 2
      OBVIOUS
    <3>2. j + 1 <= n /\ j + 1 \in 1 .. n
      BY <1>1, <3>1
    <3>3. f[j + 1] = f[j] \o s[j + 1]
      BY <1>1, <2>1, <3>2, FlattenRound, Zenon
    <3>4. f[j] \in Seq(E)
      BY <1>1, <2>3, <3>1
    <3>5. s[j + 1] \in Seq(E)
      BY <1>1, <3>2
    <3>6. f[j] \o s[j + 1] \in Seq(E)
      BY <3>4, <3>5
    <3> QED BY <3>1, <3>3, <3>6, Zenon
  <2> HIDE DEF S
  <2>4. Nat \subseteq S
    BY <2>2, <2>3, AllNaturals
  <2>5. n - 1 \in Nat /\ n - 1 + 1 = n /\ n <= n
    BY <1>1, <1>3
  <2>6. f[n] \in Seq(E)
    BY <2>4, <2>5 DEF S
  <2>7. FlattenSeq(s) = f[n]
    BY <1>1, <1>3, <2>1, FlattenSolved DEF n
  <2> QED BY <2>6, <2>7
<1> QED BY <1>2, <1>3

------------------------------------------------------------------------------
(* All lines, in order *)

\* The lines of all mails, one mail after the other, and all numbers up to n.
Bodies(ms) == [k \in DOMAIN ms |-> ms[k].body]
UpTo(n)    == [k \in 1 .. n |-> k]

LEMMA BodiesAppend == ASSUME NEW ms \in Seq(Mail), NEW m \in Mail
                      PROVE  /\ Bodies(ms) \in Seq(Seq(Number))
                             /\ Bodies(Append(ms, m)) = Append(Bodies(ms), m.body)
<1>1. \A x \in Mail : x.body \in Seq(Number)
  BY DEF Mail
<1>2. \A k \in 1 .. Len(ms) : ms[k].body \in Seq(Number)
  BY <1>1
<1>3. Bodies(ms) \in Seq(Seq(Number)) /\ Len(Bodies(ms)) = Len(ms)
  BY <1>2 DEF Bodies
<1>4. m.body \in Seq(Number)
  BY <1>1
<1> DEFINE t == Append(ms, m)
<1>5. DOMAIN t = 1 .. Len(ms) + 1 /\ Len(ms) \in Nat /\ t[Len(ms) + 1] = m
        /\ \A k \in 1 .. Len(ms) : t[k] = ms[k]
  OBVIOUS
<1> HIDE DEF t
<1>6. Bodies(t) = Append(Bodies(ms), m.body)
  <2> DEFINE u == Append(Bodies(ms), m.body)
  <2>1. u \in Seq(Seq(Number)) /\ DOMAIN u = 1 .. Len(ms) + 1 /\ u[Len(ms) + 1] = m.body
          /\ \A k \in 1 .. Len(ms) : u[k] = Bodies(ms)[k]
    BY <1>3, <1>4, <1>5
  <2>2. \A k \in 1 .. Len(ms) : Bodies(ms)[k] = ms[k].body
    BY <1>5 DEF Bodies
  <2> HIDE DEF u
  <2>3. u = [k \in 1 .. Len(ms) + 1 |-> u[k]]
    BY <2>1
  <2>4. ASSUME NEW k \in 1 .. Len(ms) + 1 PROVE u[k] = t[k].body
    <3>1. k \in 1 .. Len(ms) \/ k = Len(ms) + 1
      BY <1>5
    <3> QED BY <1>5, <2>1, <2>2, <3>1, Zenon
  <2>5. Bodies(t) = [k \in 1 .. Len(ms) + 1 |-> t[k].body]
    BY <1>5, Zenon DEF Bodies
  <2>6. u = Bodies(t)
    BY <2>3, <2>4, <2>5
  <2> QED BY <2>6 DEF u
<1> QED BY <1>3, <1>6 DEF t

LEMMA UpToNext == ASSUME NEW n \in Nat
                  PROVE  UpTo(n) \in Seq(Nat) /\ UpTo(n + 1) = Append(UpTo(n), n + 1)
BY DEF UpTo

LEMMA OrderIs == ASSUME TypeOK
                 PROVE  LinesInOrder <=> FlattenSeq(Bodies(mails)) \o currentEvent = UpTo(Len(lines))
<1>1. DOMAIN lines = 1 .. Len(lines)
  BY DEF TypeOK
<1> QED BY <1>1, Zenon DEF LinesInOrder, Bodies, UpTo

LEMMA InitOrder == Init => LinesInOrder
<1> SUFFICES ASSUME Init PROVE LinesInOrder
  OBVIOUS
<1>1. Bodies(mails) = <<>> /\ currentEvent = <<>> /\ UpTo(Len(lines)) = <<>>
  BY DEF Init, Bodies, UpTo
<1>2. <<>> \o <<>> = <<>>
  OBVIOUS
<1> QED BY <1>1, <1>2, OrderIs, InitTypes, FlattenEmpty

LEMMA NextOrder == TypeOK /\ LinesInOrder /\ [Next]_vars => LinesInOrder'
<1> SUFFICES ASSUME TypeOK, LinesInOrder, [Next]_vars PROVE LinesInOrder'
  OBVIOUS
<1> DEFINE F == FlattenSeq(Bodies(mails))
           n == Len(lines) + 1
<1>1. F \o currentEvent = UpTo(Len(lines))
  BY OrderIs
<1>2. /\ currentEvent \in Seq(Number) /\ mails \in Seq(Mail) /\ Len(lines) \in Nat
      /\ lines \in Seq(Line) /\ Number \subseteq Int
  BY LineAssumption DEF TypeOK, Number
<1>3. F \in Seq(Number)
  <2>1. PICK m : m \in Mail
    BY MailTyped
  <2>2. Bodies(mails) \in Seq(Seq(Number))
    BY <1>2, <2>1, BodiesAppend
  <2> QED BY <2>2, FlattenType
<1>4. TypeOK'
  BY NextTypes
<1>5. LinesInOrder' <=> FlattenSeq(Bodies(mails')) \o currentEvent' = UpTo(Len(lines'))
  <2>1. DOMAIN lines' = 1 .. Len(lines')
    BY <1>4 DEF TypeOK
  <2> QED BY <2>1, Zenon DEF LinesInOrder, Bodies, UpTo
\* A mail more takes over the lines at hand.
<1>6. ASSUME NEW m \in Mail, m.body = currentEvent
      PROVE  FlattenSeq(Bodies(Append(mails, m))) = F \o currentEvent
  <2>1. Bodies(mails) \in Seq(Seq(Number)) /\ Bodies(Append(mails, m)) = Append(Bodies(mails), currentEvent)
    BY <1>2, <1>6, BodiesAppend
  <2> QED BY <1>2, <2>1, FlattenAppend
<1> HIDE DEF F
<1>7. ASSUME NEW l \in Line, processLine(l) PROVE LinesInOrder'
  <2>1. n \in Number /\ n \in Nat
    BY <1>7, LineAssumption DEF processLine, TypeOK, Number
  <2>2. UpTo(Len(lines')) = Append(F \o currentEvent, n)
    <3>1. Len(lines') = n
      BY <1>2, <1>7 DEF processLine
    <3>2. UpTo(n) = Append(UpTo(Len(lines)), n)
      BY <1>2, UpToNext
    <3> QED BY <1>1, <3>1, <3>2
  <2>3. CASE l.head
    <3>1. /\ mails' = IF currentEvent # <<>> THEN Append(mails, EventMail(-1)) ELSE mails
          /\ currentEvent' = <<n>>
      BY <1>7, <2>3 DEF processLine, Header
    <3>2. FlattenSeq(Bodies(mails')) = F \o currentEvent
      <4>1. CASE currentEvent # <<>>
        <5>1. EventMail(-1) \in Mail /\ EventMail(-1).body = currentEvent
          BY MailTyped DEF EventMail
        <5> QED BY <1>6, <3>1, <4>1, <5>1
      <4>2. CASE currentEvent = <<>>
        <5>1. F \o <<>> = F
          BY <1>3
        <5> QED BY <3>1, <4>2, <5>1 DEF F
      <4> QED BY <4>1, <4>2
    <3>3. (F \o currentEvent) \o <<n>> = Append(F \o currentEvent, n)
      BY <1>2, <1>3, <2>1
    <3> QED BY <1>5, <2>2, <3>1, <3>2, <3>3, Zenon
  <2>4. CASE ~l.head
    <3>1. mails' = mails /\ currentEvent' = Append(currentEvent, n)
      BY <1>7, <2>4 DEF processLine, Body
    <3>2. F \o Append(currentEvent, n) = Append(F \o currentEvent, n)
      BY <1>2, <1>3, <2>1
    <3> QED BY <1>5, <2>2, <3>1, <3>2, Zenon DEF F
  <2> QED BY <2>3, <2>4
<1>8. CASE PassTime
  <2>1. UNCHANGED <<mails, currentEvent, lines>>
    BY <1>8 DEF PassTime
  <2> QED BY <1>1, <1>5, <2>1, Zenon DEF F
<1>9. CASE checkTimeout
  <2>1. PICK x \in Number \cup {-1} : mails' = Append(mails, EventMail(x))
    BY <1>9 DEF checkTimeout, TypeOK
  <2>2. currentEvent' = <<>> /\ lines' = lines
    BY <1>9 DEF checkTimeout, Ended
  <2>3. EventMail(x) \in Mail /\ EventMail(x).body = currentEvent
    BY MailTyped DEF EventMail
  <2>4. FlattenSeq(Bodies(mails')) = F \o currentEvent
    BY <1>6, <2>1, <2>3
  <2>5. (F \o currentEvent) \o <<>> = F \o currentEvent
    BY <1>2, <1>3
  <2> QED BY <1>1, <1>5, <2>2, <2>4, <2>5, Zenon
<1>10. CASE UNCHANGED vars
  <2>1. UNCHANGED <<mails, currentEvent, lines>>
    BY <1>10 DEF vars, state
  <2> QED BY <1>1, <1>5, <2>1, Zenon DEF F
<1> QED BY <1>7, <1>8, <1>9, <1>10 DEF Next

\* Every line goes into exactly one event, in order, whatever headers and timeouts do:
\* the mails handed to queueEmail and the event at hand make up all lines.
THEOREM EventsKeepLines == Spec => []LinesInOrder
BY InitTypes, NextTypes, InitOrder, NextOrder, PTL DEF Spec

------------------------------------------------------------------------------
(* Reception *)

\* What a reception does to the events is a step of UsbEvents or none.
THEOREM ReceptionGroups == ReceiveSpec => Spec
<1>1. ReceiveInit => Init
  BY DEF ReceiveInit
<1>2. [ReceiveNext]_receiveVars => [Next]_vars
  <2> SUFFICES ASSUME [ReceiveNext]_receiveVars PROVE [Next]_vars
    OBVIOUS
  <2>1. CASE PanelSends \/ NoiseComes \/ PlugIn \/ Unplug \/ TransferError
    BY <2>1 DEF PanelSends, NoiseComes, PlugIn, Unplug, TransferError, input
  <2>2. CASE Silence
    BY <2>2 DEF Silence, Next
  <2>3. CASE OnNew \/ NewDevice \/ DeviceGone \/ ReceiveDone \/ EventsDone \/ Submit
    BY <2>3 DEF OnNew, NewDevice, DeviceGone, ReceiveDone, EventsDone, Submit, input
  <2>4. CASE TakeHalf \/ handleGarbage
    BY <2>4 DEF TakeHalf, handleGarbage
  <2>5. CASE EndLine
    BY <2>5 DEF EndLine, Next
  <2>6. CASE Timeout
    BY <2>6 DEF Timeout, Next
  <2>7. CASE UNCHANGED receiveVars
    BY <2>7 DEF receiveVars
  <2> QED BY <2>1, <2>2, <2>3, <2>4, <2>5, <2>6, <2>7 DEF ReceiveNext, usbTask, onReceive
<1> QED BY <1>1, <1>2, PTL DEF ReceiveSpec, Spec

\* Behind the cable too, with pulled plugs, halted endpoints and dropped bytes, the
\* events keep their lines, a mail is one event and an address counts in a smoke
\* alarm only (EspUsbHost::task, usbTask, processLine, checkTimeout).
THEOREM ReceptionKeepsEvents ==
  ReceiveSpec => [](LinesInOrder /\ MailIsOneEvent /\ SightingsInAlarm)
BY ReceptionGroups, EventsKeepLines, MailsAreEvents, SightingsAreAlarms, PTL

\* What the driver has is of the open device; bytes come only once onNew has dropped
\* the line of the connection before.
Driver ==
  /\ {recv, send} \subseteq {0} \cup (IF opened THEN {conn} ELSE {})
  /\ events = <<"new">> => ~opened /\ cable
  /\ cable \/ opened => conn # 0
  /\ ~opened => ~flying /\ ~raisedOnNew
  /\ flying => isReady
  /\ flying /\ step \in {"events", "submit"} => raisedOnNew
  /\ data # <<>> => opened /\ raisedOnNew /\ step = "events"

OneLine ==
  /\ \A i, j \in 1 .. Len(lineBuffer) : lineBuffer[i][3] = lineBuffer[j][3]
  /\ raisedOnNew => \A i \in 1 .. Len(lineBuffer) : lineBuffer[i][3] = conn

LEMMA InitDriver == ReceiveInit => Driver /\ OneLine
BY DEF ReceiveInit, Driver, OneLine

\* A piece with the connection it came from.
LEMMA PieceOfConnection ==
  ASSUME NEW p \in Piece, NEW c \in Nat
  PROVE  /\ Append(p, c) = <<p[1], p[2], c>>
         /\ Append(p, c)[3] = c
<1>1. p \in Int \X Int
  BY LineAssumption DEF Piece
<1>2. p = <<p[1], p[2]>> /\ p[1] \in Int /\ p[2] \in Int
  BY <1>1
<1>3. \A a, b \in Int : Append(<<a, b>>, c) = <<a, b, c>>
  <2> SUFFICES ASSUME NEW a \in Int, NEW b \in Int PROVE Append(<<a, b>>, c) = <<a, b, c>>
    OBVIOUS
  <2>1. <<a, b>> \in Seq(Int) /\ Len(<<a, b>>) = 2 /\ c \in Int
    OBVIOUS
  <2>2. /\ Append(<<a, b>>, c) \in Seq(Int) /\ Len(Append(<<a, b>>, c)) = 3
        /\ Append(<<a, b>>, c)[1] = a /\ Append(<<a, b>>, c)[2] = b /\ Append(<<a, b>>, c)[3] = c
    BY <2>1
  <2>3. /\ <<a, b, c>> \in Seq(Int) /\ Len(<<a, b, c>>) = 3
        /\ <<a, b, c>>[1] = a /\ <<a, b, c>>[2] = b /\ <<a, b, c>>[3] = c
    BY <2>1
  <2> DEFINE s == Append(<<a, b>>, c)
             t == <<a, b, c>>
  <2> HIDE DEF s, t
  <2>4. s \in Seq(Int) /\ t \in Seq(Int) /\ Len(s) = Len(t) /\ \A i \in 1 .. Len(s) : s[i] = t[i]
    <3>1. \A i \in 1 .. 3 : i = 1 \/ i = 2 \/ i = 3
      OBVIOUS
    <3>2. s \in Seq(Int) /\ t \in Seq(Int) /\ Len(s) = 3 /\ Len(t) = 3
      BY <2>2, <2>3, Zenon DEF s, t
    <3>3. s[1] = t[1] /\ s[2] = t[2] /\ s[3] = t[3]
      BY <2>2, <2>3, Zenon DEF s, t
    <3> QED BY <3>1, <3>2, <3>3
  <2>5. s = t
    BY <2>4, SeqEqual
  <2> QED BY <2>5 DEF s, t
<1>4. Append(p, c) = <<p[1], p[2], c>>
  BY <1>2, <1>3
<1>5. <<p[1], p[2], c>>[3] = c
  OBVIOUS
<1> QED BY <1>4, <1>5

LEMMA NewIsNot == <<"new">> # <<>> /\ <<"new">> # <<"gone">> /\ <<"gone">> # <<>>
OBVIOUS

LEMMA NextDriver == ReceiveTypeOK /\ Driver /\ [ReceiveNext]_receiveVars => Driver'
<1> SUFFICES ASSUME ReceiveTypeOK, Driver, [ReceiveNext]_receiveVars PROVE Driver'
  OBVIOUS
<1> USE NewIsNot DEF Driver, isReady
<1>1. CASE PanelSends \/ NoiseComes
  BY <1>1 DEF PanelSends, NoiseComes, driver
<1>2. CASE PlugIn
  <2>1. conn' # 0
    BY <1>2, ReceiveAssumption DEF PlugIn, ReceiveTypeOK
  <2> QED BY <1>2, <2>1 DEF PlugIn, device, input
<1>3. CASE Unplug
  BY <1>3 DEF Unplug, device
<1>4. CASE TransferError
  BY <1>4 DEF TransferError, device, input
<1>5. CASE Silence
  BY <1>5 DEF Silence, world, driver, input
<1>6. CASE OnNew
  BY <1>6 DEF OnNew, Goto, world
<1>7. CASE NewDevice
  BY <1>7 DEF NewDevice
<1>8. CASE DeviceGone
  BY <1>8 DEF DeviceGone, Freed, world, input
<1>9. CASE ReceiveDone
  BY <1>9 DEF ReceiveDone, device
<1>10. CASE onReceive
  BY <1>10 DEF onReceive, TakeHalf, EndLine, handleGarbage, NextPiece, world, driver
<1>11. CASE EventsDone
  BY <1>11 DEF EventsDone, Goto, world, driver
<1>12. CASE Submit
  BY <1>12 DEF Submit, Goto, world, device, input
<1>13. CASE Timeout
  BY <1>13 DEF Timeout, Goto, world, driver, input
<1>14. CASE UNCHANGED receiveVars
  BY <1>14 DEF receiveVars, world, driver, input
<1> QED BY <1>1, <1>2, <1>3, <1>4, <1>5, <1>6, <1>7, <1>8, <1>9, <1>10, <1>11, <1>12, <1>13, <1>14
        DEF ReceiveNext, usbTask

LEMMA NextOneLine == ReceiveTypeOK /\ Driver /\ OneLine /\ [ReceiveNext]_receiveVars => OneLine'
<1> SUFFICES ASSUME ReceiveTypeOK, Driver, OneLine, [ReceiveNext]_receiveVars PROVE OneLine'
  OBVIOUS
<1> USE NewIsNot DEF OneLine
<1>1. CASE PanelSends \/ NoiseComes \/ Unplug \/ TransferError \/ Silence
  BY <1>1 DEF PanelSends, NoiseComes, Unplug, TransferError, Silence, world, driver, device, input
<1>2. CASE PlugIn
  <2>1. ~raisedOnNew
    BY <1>2 DEF PlugIn, Driver
  <2> QED BY <1>2, <2>1 DEF PlugIn, device, input
<1>3. CASE OnNew
  <2>1. CASE lineBuffer' = <<>>
    BY <2>1
  <2>2. CASE UNCHANGED <<raisedOnNew, lineBuffer>>
    BY <1>3, <2>2 DEF OnNew, world
  <2> QED BY <1>3, <2>1, <2>2 DEF OnNew
<1>4. CASE NewDevice \/ ReceiveDone \/ EventsDone \/ Submit \/ Timeout
  BY <1>4 DEF NewDevice, ReceiveDone, EventsDone, Submit, Timeout, world, driver, device, input
<1>5. CASE DeviceGone
  BY <1>5 DEF DeviceGone, Freed, world, input
<1>6. CASE TakeHalf
  <2>1. /\ data # <<>> /\ lineBuffer \in Seq(Received) /\ Head(data) \in Piece /\ conn \in Nat
    BY <1>6 DEF TakeHalf, NextPiece, ReceiveTypeOK
  <2>2. Append(Head(data), conn)[3] = conn
    BY <2>1, PieceOfConnection
  <2>3. raisedOnNew /\ UNCHANGED <<raisedOnNew, conn>>
    BY <1>6, <2>1 DEF Driver, TakeHalf, world, driver
  <2>4. \A i \in 1 .. Len(lineBuffer) : lineBuffer[i][3] = conn
    BY <2>3
  <2>5. lineBuffer' = Append(lineBuffer, Append(Head(data), conn))
    BY <1>6 DEF TakeHalf
  <2> DEFINE x == Append(Head(data), conn)
  <2> HIDE DEF x
  <2>6. lineBuffer' = Append(lineBuffer, x) /\ x[3] = conn
    BY <2>2, <2>5 DEF x
  <2>7. \A i \in 1 .. Len(lineBuffer') : lineBuffer'[i][3] = conn
    <3>1. Len(lineBuffer') = Len(lineBuffer) + 1 /\ lineBuffer'[Len(lineBuffer) + 1] = x /\ Len(lineBuffer) \in Nat
      BY <2>1, <2>6
    <3>2. \A i \in 1 .. Len(lineBuffer) : lineBuffer'[i] = lineBuffer[i]
      BY <2>1, <2>6
    <3> QED BY <2>4, <2>6, <3>1, <3>2
  <2> QED BY <2>3, <2>7
<1>7. CASE EndLine \/ handleGarbage
  <2>1. lineBuffer' = lineBuffer \/ lineBuffer' = <<>>
    BY <1>7 DEF EndLine, handleGarbage
  <2>2. UNCHANGED <<raisedOnNew, conn>>
    BY <1>7 DEF EndLine, handleGarbage, world, driver
  <2> QED BY <2>1, <2>2
<1>8. CASE UNCHANGED receiveVars
  BY <1>8 DEF receiveVars, world, driver, input
<1> QED BY <1>1, <1>2, <1>3, <1>4, <1>5, <1>6, <1>7, <1>8 DEF ReceiveNext, usbTask, onReceive

------------------------------------------------------------------------------
(* Types of the reception *)

LEMMA LinesOfPieces ==
  /\ \A s \in Seq(Piece) : LinesOf(s) \subseteq 1 .. MaxLines
  /\ \A s \in Seq(Received) : LinesOf(s) \subseteq 1 .. MaxLines
<1>1. ASSUME NEW s \in Seq(Piece) PROVE LinesOf(s) \subseteq 1 .. MaxLines
  <2>1. \A p \in Piece : p[1] \in (1 .. MaxLines) \cup {0}
    BY LineAssumption DEF Piece
  <2>2. ToSet(s) \subseteq Piece
    BY DEF ToSet
  <2> QED BY <2>1, <2>2 DEF LinesOf
<1>2. ASSUME NEW s \in Seq(Received) PROVE LinesOf(s) \subseteq 1 .. MaxLines
  <2>1. \A p \in Received : p[1] \in 1 .. MaxLines
    BY DEF Received
  <2>2. ToSet(s) \subseteq Received
    BY DEF ToSet
  <2> QED BY <2>1, <2>2 DEF LinesOf
<1> QED BY <1>1, <1>2

LEMMA NoPieces ==
  /\ <<>> \in Seq(Piece) /\ <<>> \in Seq(Received) /\ Len(<<>>) <= FifoSize
  /\ 0 \in 0 .. MaxPlug /\ 0 \in 0 .. MaxFault /\ 0 \in 0 .. Tolerated /\ 0 \in 0 .. MaxNoise
  /\ 0 \in 0 .. 3 * MaxLines
BY LineAssumption, ReceiveAssumption

LEMMA InitReceiveTypes == ReceiveInit => ReceiveTypeOK
BY NoPieces DEF ReceiveInit, ReceiveTypeOK

\* What a piece does when it comes.
LEMMA ArriveTyped ==
  ASSUME ReceiveTypeOK, NEW p \in Piece, Arrive(p)
  PROVE  fifo' \in Seq(Piece) /\ Len(fifo') <= FifoSize /\ hurt' \subseteq 1 .. MaxLines
<1>1. fifo \in Seq(Piece) /\ Len(fifo) <= FifoSize /\ hurt \subseteq 1 .. MaxLines
  BY DEF ReceiveTypeOK
<1>2. CASE cable /\ Len(fifo) < FifoSize
  <2>1. fifo' = Append(fifo, p) /\ hurt' = hurt
    BY <1>2 DEF Arrive
  <2> QED BY <1>1, <1>2, <2>1, ReceiveAssumption
<1>3. CASE ~(cable /\ Len(fifo) < FifoSize)
  <2>1. hurt' = hurt \cup LinesOf(<<p>>) /\ fifo' = fifo
    BY <1>3 DEF Arrive
  <2>2. <<p>> \in Seq(Piece)
    OBVIOUS
  <2> QED BY <1>1, <2>1, <2>2, LinesOfPieces
<1> QED BY <1>2, <1>3

LEMMA PanelPiece ==
  ASSUME NEW n \in 1 .. 3 * MaxLines
  PROVE  <<PanelLine(n), n - (3 * (PanelLine(n) - 1))>> \in Piece
<1>1. PanelLine(n) \in 1 .. MaxLines /\ n - (3 * (PanelLine(n) - 1)) \in {1, 2, 3}
  BY LineAssumption DEF PanelLine
<1> QED BY <1>1 DEF Piece

LEMMA NextReceiveTypes == ReceiveTypeOK /\ Driver /\ [ReceiveNext]_receiveVars => ReceiveTypeOK'
<1> SUFFICES ASSUME ReceiveTypeOK, Driver, [ReceiveNext]_receiveVars PROVE ReceiveTypeOK'
  OBVIOUS
<1> USE NoPieces
<1>0. /\ fifo \in Seq(Piece) /\ Len(fifo) <= FifoSize /\ data \in Seq(Piece)
      /\ lineBuffer \in Seq(Received) /\ hurt \subseteq 1 .. MaxLines
      /\ conn \in 0 .. MaxPlug /\ sent \in 0 .. 3 * MaxLines /\ noise \in 0 .. MaxNoise
      /\ faults \in 0 .. MaxFault /\ recv \in 0 .. MaxPlug /\ send \in 0 .. MaxPlug
      /\ garbageCount \in 0 .. Tolerated
  BY DEF ReceiveTypeOK
<1>1. CASE PanelSends
  <2>1. sent' \in 1 .. 3 * MaxLines /\ sent' \in 0 .. 3 * MaxLines
    BY <1>0, <1>1, LineAssumption DEF PanelSends
  <2>2. fifo' \in Seq(Piece) /\ Len(fifo') <= FifoSize /\ hurt' \subseteq 1 .. MaxLines
    BY <1>1, <2>1, PanelPiece, ArriveTyped DEF PanelSends
  <2> QED BY <1>1, <2>1, <2>2 DEF PanelSends, ReceiveTypeOK, driver
<1>2. CASE NoiseComes
  <2>1. noise' \in 0 .. MaxNoise
    BY <1>0, <1>2, ReceiveAssumption DEF NoiseComes
  <2>2. fifo' \in Seq(Piece) /\ Len(fifo') <= FifoSize /\ hurt' \subseteq 1 .. MaxLines
    BY <1>2, ArriveTyped DEF NoiseComes, Noise, Piece
  <2> QED BY <1>2, <2>1, <2>2 DEF NoiseComes, ReceiveTypeOK, driver
<1>3. CASE PlugIn
  <2>1. conn' \in 0 .. MaxPlug
    BY <1>0, <1>3, ReceiveAssumption DEF PlugIn
  <2> QED BY <1>3, <2>1 DEF PlugIn, ReceiveTypeOK, device, input
<1>4. CASE Unplug
  <2>1. hurt' \subseteq 1 .. MaxLines
    BY <1>0, <1>4, LinesOfPieces DEF Unplug
  <2> QED BY <1>4, <2>1 DEF Unplug, ReceiveTypeOK, device
<1>5. CASE TransferError
  <2>1. faults' \in 0 .. MaxFault
    BY <1>0, <1>5, ReceiveAssumption DEF TransferError
  <2> QED BY <1>5, <2>1 DEF TransferError, ReceiveTypeOK, device, input
<1>6. CASE Silence
  BY <1>6 DEF Silence, ReceiveTypeOK, world, driver, input
<1>7. CASE OnNew
  <2>1. hurt' \subseteq 1 .. MaxLines
    BY <1>0, <1>7, LinesOfPieces DEF OnNew
  <2>2. lineBuffer' \in Seq(Received) /\ raisedOnNew' \in BOOLEAN
    BY <1>0, <1>7 DEF OnNew, ReceiveTypeOK
  <2>3. data = <<>>
    BY <1>7 DEF OnNew, Goto, ReceiveTypeOK
  <2> QED BY <1>7, <2>1, <2>2, <2>3 DEF OnNew, Goto, ReceiveTypeOK, world
<1>8. CASE NewDevice
  <2>1. faults' \in 0 .. MaxFault
    BY <1>0, <1>8, ReceiveAssumption DEF NewDevice
  <2>2. recv' \in 0 .. MaxPlug /\ send' \in 0 .. MaxPlug
    BY <1>0, <1>8 DEF NewDevice
  <2>3. fifo' \in Seq(Piece) /\ Len(fifo') <= FifoSize
    BY <1>0, <1>8 DEF NewDevice
  <2>4. hurt' \subseteq 1 .. MaxLines
    BY <1>0, <1>8, LinesOfPieces DEF NewDevice
  <2>5. claimed' \in BOOLEAN /\ initialized' \in BOOLEAN
    BY <1>8 DEF NewDevice
  <2> QED BY <1>8, <2>1, <2>2, <2>3, <2>4, <2>5 DEF NewDevice, ReceiveTypeOK
<1>9. CASE DeviceGone
  BY <1>9 DEF DeviceGone, Freed, ReceiveTypeOK, world, input
<1>10. CASE ReceiveDone
  BY <1>0, <1>10 DEF ReceiveDone, ReceiveTypeOK, device
<1>11. CASE TakeHalf
  <2>1. data # <<>> /\ data' = Tail(data) /\ step = "events" /\ Head(data)[2] \in Half
    BY <1>11 DEF TakeHalf, NextPiece
  <2>2. data' \in Seq(Piece) /\ Head(data) \in Piece
    BY <1>0, <2>1
  <2>3. conn \in 1 .. MaxPlug
    BY <1>0, <2>1, ReceiveAssumption DEF Driver
  <2>4. Append(Head(data), conn) \in Received
    <3>1. Head(data)[1] \in 1 .. MaxLines /\ Head(data)[2] \in Half
      BY <2>1, <2>2 DEF Piece, Half
    <3>2. Append(Head(data), conn) = <<Head(data)[1], Head(data)[2], conn>>
      BY <2>2, <2>3, PieceOfConnection
    <3> QED BY <2>3, <3>1, <3>2 DEF Received
  <2>5. lineBuffer' \in Seq(Received)
    <3>1. lineBuffer' = Append(lineBuffer, Append(Head(data), conn))
      BY <1>11 DEF TakeHalf
    <3> DEFINE x == Append(Head(data), conn)
    <3> HIDE DEF x
    <3>2. x \in Received /\ lineBuffer' = Append(lineBuffer, x)
      BY <2>4, <3>1 DEF x
    <3> QED BY <1>0, <3>2
  <2> QED BY <1>11, <2>1, <2>2, <2>5 DEF TakeHalf, ReceiveTypeOK, world, driver
<1>12. CASE EndLine
  <2>1. data' \in Seq(Piece) /\ step = "events"
    BY <1>0, <1>12 DEF EndLine, NextPiece
  <2>2. lineBuffer' \in Seq(Received) /\ handed' \in Seq(Received)
    BY <1>0, <1>12 DEF EndLine, ReceiveTypeOK
  <2> QED BY <1>12, <2>1, <2>2 DEF EndLine, ReceiveTypeOK, world, driver
<1>13. CASE handleGarbage
  <2>1. data' \in Seq(Piece) /\ step = "events"
    BY <1>0, <1>13 DEF handleGarbage, NextPiece
  <2>2. lineBuffer' \in Seq(Received) /\ garbageCount' \in 0 .. Tolerated
    <3>1. CASE garbageCount = Tolerated
      BY <1>13, <3>1 DEF handleGarbage
    <3>2. CASE garbageCount # Tolerated
      <4>1. garbageCount' = garbageCount + 1 /\ lineBuffer' = lineBuffer
        BY <1>13, <3>2 DEF handleGarbage
      <4>2. Tolerated \in Nat /\ garbageCount \in 0 .. Tolerated
        BY <1>0, ReceiveAssumption
      <4>3. garbageCount' \in 0 .. Tolerated
        BY <3>2, <4>1, <4>2
      <4> QED BY <1>0, <4>1, <4>3
    <3> QED BY <3>1, <3>2
  <2>3. hurt' \subseteq 1 .. MaxLines
    BY <1>0, <1>13, LinesOfPieces DEF handleGarbage
  <2>4. UNCHANGED <<world, driver, step, handed>>
    BY <1>13 DEF handleGarbage
  <2> QED BY <2>1, <2>2, <2>3, <2>4 DEF ReceiveTypeOK, world, driver
<1>14. CASE EventsDone
  BY <1>14 DEF EventsDone, Goto, ReceiveTypeOK, world, driver
<1>15. CASE Submit
  <2>1. flying' \in BOOLEAN
    <3>1. flying' = TRUE \/ flying' = FALSE
      BY <1>15, Zenon DEF Submit
    <3> QED BY <3>1
  <2> QED BY <1>15, <2>1 DEF Submit, Goto, ReceiveTypeOK, world, device, input
<1>16. CASE Timeout
  BY <1>16 DEF Timeout, Goto, ReceiveTypeOK, world, driver, input
<1>17. CASE UNCHANGED receiveVars
  BY <1>17 DEF receiveVars, ReceiveTypeOK, world, driver, input
<1> QED BY <1>1, <1>2, <1>3, <1>4, <1>5, <1>6, <1>7, <1>8, <1>9, <1>10, <1>11, <1>12, <1>13, <1>14,
           <1>15, <1>16, <1>17 DEF ReceiveNext, usbTask, onReceive

\* The reception keeps its types; pieces are taken only while a transfer's callback runs.
THEOREM ReceiveTypeCorrect == ReceiveSpec => []ReceiveTypeOK
BY InitReceiveTypes, InitDriver, NextReceiveTypes, NextDriver, PTL DEF ReceiveSpec

\* Transfers are those of the open device, and a line is of one connection.
THEOREM NothingCrosses == ReceiveSpec => []OneConnection
<1>1. ReceiveTypeOK /\ Driver /\ OneLine => OneConnection
  <2> SUFFICES ASSUME ReceiveTypeOK, Driver, OneLine PROVE OneConnection
    OBVIOUS
  <2>1. {recv, send} \subseteq {0} \cup (IF opened THEN {conn} ELSE {})
    BY DEF Driver
  <2>2. flying => recv = conn
    <3>1. flying => recv # 0 /\ opened
      BY Zenon DEF Driver, isReady
    <3> QED BY <2>1, <3>1
  <2>3. DOMAIN lineBuffer = 1 .. Len(lineBuffer)
    BY DEF ReceiveTypeOK
  <2> QED BY <2>1, <2>2, <2>3, Zenon DEF OneLine, OneConnection
<1> QED BY <1>1, InitReceiveTypes, InitDriver, NextReceiveTypes, NextDriver, NextOneLine, PTL DEF ReceiveSpec

------------------------------------------------------------------------------
(* Pieces by their number in what the panel sends *)

Pos(p) == (3 * (p[1] - 1)) + p[2]

\* The numbers of the panel's pieces in a sequence, without the noise.
Panel(s)  == {i \in 1 .. Len(s) : s[i][1] # 0}
Positions(s) == {Pos(s[i]) : i \in Panel(s)}
Rising(s) == \A i, j \in Panel(s) : i < j => Pos(s[i]) < Pos(s[j])

Below(A, B) == \A a \in A, b \in B : a < b
OfLine(n)   == {(3 * n) - 2, (3 * n) - 1, 3 * n}

Pieces(s) ==
  /\ Len(s) \in Nat /\ DOMAIN s = 1 .. Len(s)
  /\ \A i \in Panel(s) : s[i][1] \in 1 .. MaxLines /\ s[i][2] \in {1, 2, 3}

LEMMA PiecesIn ==
  /\ \A s \in Seq(Piece) : Pieces(s)
  /\ \A s \in Seq(Received) : Pieces(s) /\ Panel(s) = DOMAIN s /\ \A i \in DOMAIN s : s[i][2] \in Half
<1> USE LineAssumption
<1>1. ASSUME NEW s \in Seq(Piece) PROVE Pieces(s)
  <2>1. Len(s) \in Nat /\ DOMAIN s = 1 .. Len(s) /\ \A i \in 1 .. Len(s) : s[i] \in Piece
    OBVIOUS
  <2>2. \A q \in Piece : q[1] # 0 => q[1] \in 1 .. MaxLines /\ q[2] \in {1, 2, 3}
    BY DEF Piece
  <2> QED BY <2>1, <2>2 DEF Pieces, Panel
<1>2. ASSUME NEW s \in Seq(Received)
      PROVE  Pieces(s) /\ Panel(s) = DOMAIN s /\ \A i \in DOMAIN s : s[i][2] \in Half
  <2>1. Len(s) \in Nat /\ DOMAIN s = 1 .. Len(s) /\ \A i \in 1 .. Len(s) : s[i] \in Received
    OBVIOUS
  <2>2. \A q \in Received : q[1] \in 1 .. MaxLines /\ q[1] # 0 /\ q[2] \in Half /\ q[2] \in {1, 2, 3}
    BY DEF Received, Half
  <2> QED BY <2>1, <2>2 DEF Pieces, Panel
<1> QED BY <1>1, <1>2

\* A piece's number says its line and its part.
LEMMA PosOf ==
  ASSUME NEW s, Pieces(s), NEW i \in Panel(s)
  PROVE  /\ Pos(s[i]) \in Nat /\ Pos(s[i]) \in Positions(s) /\ Pos(s[i]) \in OfLine(s[i][1])
         /\ s[i][1] \in LinesOf(s)
         /\ \A n \in Int : Pos(s[i]) \in OfLine(n) => n = s[i][1]
         /\ \A n \in Int : (Pos(s[i]) = 3 * n <=> s[i][1] = n /\ s[i][2] = 3)
<1>1. s[i][1] \in 1 .. MaxLines /\ s[i][2] \in {1, 2, 3} /\ s[i][1] \in Int
  BY LineAssumption DEF Pieces
<1>2. s[i][1] \in LinesOf(s)
  BY <1>1 DEF LinesOf, ToSet, Panel, Pieces
<1>3. Pos(s[i]) \in Positions(s)
  BY DEF Positions
<1> DEFINE l == s[i][1]
           h == s[i][2]
<1>4. Pos(s[i]) = (3 * (l - 1)) + h
  BY DEF Pos
<1>5. l \in Int /\ l >= 1 /\ h \in {1, 2, 3}
  BY <1>1, LineAssumption
<1> HIDE DEF l, h
<1>6. Pos(s[i]) \in Nat /\ Pos(s[i]) \in OfLine(l)
  BY <1>4, <1>5 DEF OfLine
<1>7. \A n \in Int : Pos(s[i]) \in OfLine(n) => n = l
  BY <1>4, <1>5 DEF OfLine
<1>8. \A n \in Int : (Pos(s[i]) = 3 * n <=> l = n /\ h = 3)
  BY <1>4, <1>5
<1> QED BY <1>2, <1>3, <1>6, <1>7, <1>8 DEF l, h

LEMMA LinesByPlaces ==
  ASSUME NEW s, Pieces(s)
  PROVE  /\ Positions(s) \subseteq Nat
         /\ \A n \in Int : OfLine(n) \cap Positions(s) # {} => n \in LinesOf(s)
<1>1. Positions(s) \subseteq Nat
  BY PosOf DEF Positions
<1>2. ASSUME NEW n \in Int, NEW k \in OfLine(n) \cap Positions(s) PROVE n \in LinesOf(s)
  <2>1. PICK i \in Panel(s) : k = Pos(s[i])
    BY DEF Positions
  <2> QED BY <2>1, PosOf
<1> QED BY <1>1, <1>2

LEMMA EmptyPlaces == Positions(<<>>) = {} /\ Rising(<<>>)
<1>1. Panel(<<>>) = {}
  BY DEF Panel
<1> QED BY <1>1 DEF Positions, Rising

LEMMA AppendPlaces ==
  ASSUME NEW S, NEW s \in Seq(S), NEW q \in S, Rising(s),
         q[1] # 0 => \A a \in Positions(s) : a < Pos(q)
  PROVE  /\ Rising(Append(s, q))
         /\ Positions(Append(s, q)) = Positions(s) \cup (IF q[1] = 0 THEN {} ELSE {Pos(q)})
<1> DEFINE t == Append(s, q)
<1>1. /\ Len(s) \in Nat /\ Len(t) = Len(s) + 1 /\ t[Len(s) + 1] = q
      /\ \A i \in 1 .. Len(s) : t[i] = s[i]
  OBVIOUS
<1> HIDE DEF t
<1>2. Panel(t) = Panel(s) \cup (IF q[1] = 0 THEN {} ELSE {Len(s) + 1})
  BY <1>1 DEF Panel
<1>3. \A i \in Panel(s) : t[i] = s[i] /\ i < Len(s) + 1 /\ i \in Nat
  BY <1>1 DEF Panel
<1>4. Positions(t) = Positions(s) \cup (IF q[1] = 0 THEN {} ELSE {Pos(q)})
  <2>1. Positions(t) \subseteq Positions(s) \cup (IF q[1] = 0 THEN {} ELSE {Pos(q)})
    BY <1>1, <1>2, <1>3 DEF Positions
  <2>2. Positions(s) \subseteq Positions(t)
    BY <1>2, <1>3 DEF Positions
  <2>3. q[1] # 0 => Pos(q) \in Positions(t)
    BY <1>1, <1>2 DEF Positions
  <2> QED BY <2>1, <2>2, <2>3
<1>5. Rising(t)
  <2> SUFFICES ASSUME NEW i \in Panel(t), NEW j \in Panel(t), i < j PROVE Pos(t[i]) < Pos(t[j])
    BY DEF Rising
  <2>1. i \in Panel(s)
    BY <1>1, <1>2, <1>3
  <2>2. CASE j \in Panel(s)
    BY <1>3, <2>1, <2>2 DEF Rising
  <2>3. CASE j \notin Panel(s)
    <3>1. q[1] # 0 /\ t[j] = q
      BY <1>1, <1>2, <2>3
    <3>2. Pos(s[i]) \in Positions(s)
      BY <2>1 DEF Positions
    <3> QED BY <1>3, <2>1, <3>1, <3>2
  <2> QED BY <2>2, <2>3
<1> QED BY <1>4, <1>5 DEF t

LEMMA TailPlaces ==
  ASSUME NEW s \in Seq(Piece), s # <<>>, Rising(s)
  PROVE  /\ Rising(Tail(s))
         /\ Head(s)[1] = 0 => Positions(Tail(s)) = Positions(s)
         /\ Head(s)[1] # 0 => /\ Pos(Head(s)) \in Positions(s)
                              /\ Positions(Tail(s)) = Positions(s) \ {Pos(Head(s))}
                              /\ \A a \in Positions(Tail(s)) : Pos(Head(s)) < a
<1> DEFINE t == Tail(s)
<1>0. Pieces(s)
  BY PiecesIn
<1>1. /\ Len(s) \in Nat \ {0} /\ Len(t) = Len(s) - 1 /\ Head(s) = s[1]
      /\ \A i \in 1 .. Len(t) : t[i] = s[i + 1]
  BY HeadTailProperties, EmptySeq
<1> HIDE DEF t
<1>2. \A i \in Panel(t) : i + 1 \in Panel(s) /\ t[i] = s[i + 1] /\ i \in Nat /\ 1 < i + 1
  BY <1>1 DEF Panel
<1>3. \A i \in Panel(s) : i = 1 \/ (i - 1 \in Panel(t) /\ t[i - 1] = s[i])
  BY <1>1 DEF Panel
<1>4. Rising(t)
  <2> SUFFICES ASSUME NEW i \in Panel(t), NEW j \in Panel(t), i < j PROVE Pos(t[i]) < Pos(t[j])
    BY DEF Rising
  <2>1. i + 1 < j + 1
    BY <1>2
  <2> QED BY <1>2, <2>1 DEF Rising
<1>5. CASE Head(s)[1] = 0
  <2>1. 1 \notin Panel(s)
    BY <1>1, <1>5 DEF Panel
  <2>2. Positions(t) \subseteq Positions(s)
    BY <1>2 DEF Positions
  <2>3. Positions(s) \subseteq Positions(t)
    BY <1>3, <2>1 DEF Positions
  <2> QED BY <1>4, <1>5, <2>2, <2>3 DEF t
<1>6. CASE Head(s)[1] # 0
  <2>1. 1 \in Panel(s)
    BY <1>1, <1>6 DEF Panel
  <2>2. Pos(s[1]) \in Positions(s) /\ Pos(s[1]) \in Nat
    BY <1>0, <2>1, PosOf
  <2>3. \A a \in Positions(t) : a \in Positions(s) /\ Pos(s[1]) < a
    BY <1>2, <2>1 DEF Positions, Rising
  <2>4. Positions(s) \subseteq Positions(t) \cup {Pos(s[1])}
    BY <1>3 DEF Positions
  <2>5. Pos(s[1]) \notin Positions(t)
    BY <2>2, <2>3
  <2> QED BY <1>1, <1>4, <1>6, <2>2, <2>3, <2>4, <2>5 DEF t
<1> QED BY <1>5, <1>6

------------------------------------------------------------------------------
(* What is under way, and what has become of the rest *)

UnderWay == Positions(lineBuffer) \cup Positions(data) \cup Positions(fifo)

InOrder ==
  /\ Rising(lineBuffer) /\ Rising(data) /\ Rising(fifo)
  /\ Below(Positions(lineBuffer), Positions(data))
  /\ Below(Positions(lineBuffer), Positions(fifo)) /\ Below(Positions(data), Positions(fifo))
  /\ \A a \in UnderWay : a <= sent

\* A line that lost nothing is under way with all that was sent of it, or is over.
Whereabouts(n) ==
  \/ n \in hurt
  \/ \A k \in OfLine(n) : k <= sent => k \in UnderWay
  \/ 3 * n <= sent /\ OfLine(n) \cap UnderWay = {}

Stream == InOrder /\ \A n \in 1 .. MaxLines : Whereabouts(n)

LEMMA StreamInit == ReceiveInit => Stream /\ HandedWhole
<1> SUFFICES ASSUME ReceiveInit PROVE Stream /\ HandedWhole
  OBVIOUS
<1>1. UnderWay = {} /\ InOrder
  BY EmptyPlaces DEF ReceiveInit, UnderWay, InOrder, Below
<1>2. ASSUME NEW n \in 1 .. MaxLines PROVE Whereabouts(n)
  <2>1. \A k \in OfLine(n) : ~(k <= 0)
    BY LineAssumption DEF OfLine
  <2> QED BY <2>1 DEF ReceiveInit, Whereabouts
<1> QED BY <1>1, <1>2 DEF Stream, HandedWhole, ReceiveInit

\* Pieces that leave the stream leave a mark on their line.
LEMMA Dropping ==
  ASSUME Stream, InOrder', sent' = sent, hurt \subseteq hurt', UnderWay' \subseteq UnderWay,
         \A n \in 1 .. MaxLines : n \notin hurt' => OfLine(n) \cap UnderWay \subseteq UnderWay'
  PROVE  Stream'
<1>1. ASSUME NEW n \in 1 .. MaxLines PROVE Whereabouts(n)'
  <2>1. Whereabouts(n)
    BY DEF Stream
  <2>2. CASE n \in hurt'
    BY <2>2 DEF Whereabouts
  <2>3. CASE n \notin hurt'
    BY <2>1, <2>3 DEF Whereabouts
  <2> QED BY <2>2, <2>3
<1> QED BY <1>1 DEF Stream

LEMMA PlacesTyped ==
  ASSUME ReceiveTypeOK
  PROVE  /\ Pieces(lineBuffer) /\ Pieces(data) /\ Pieces(fifo) /\ UnderWay \subseteq Nat /\ sent \in Nat
         /\ \A n \in Int : 3 * n \notin Positions(lineBuffer)
<1>1. lineBuffer \in Seq(Received) /\ data \in Seq(Piece) /\ fifo \in Seq(Piece)
  BY DEF ReceiveTypeOK
<1>2. Pieces(lineBuffer) /\ Pieces(data) /\ Pieces(fifo)
  BY <1>1, PiecesIn
<1>3. UnderWay \subseteq Nat
  BY <1>2, LinesByPlaces DEF UnderWay
<1>4. ASSUME NEW n \in Int, 3 * n \in Positions(lineBuffer) PROVE FALSE
  <2>1. PICK i \in Panel(lineBuffer) : 3 * n = Pos(lineBuffer[i])
    BY <1>4 DEF Positions
  <2>2. lineBuffer[i][2] = 3
    BY <1>2, <2>1, PosOf
  <2> QED BY <1>1, <2>2, PiecesIn DEF Half
<1> QED BY <1>2, <1>3, <1>4, LineAssumption DEF ReceiveTypeOK

\* Line 1 is pieces 1 to 3, and so on.
LEMMA LineOfNumber ==
  ASSUME NEW n \in Nat \ {0}
  PROVE  \A l \in Int : n \in OfLine(l) => l = PanelLine(n)
BY DEF OfLine, PanelLine

\* The next piece comes, or is lost with a mark on its line.
LEMMA StreamArrives ==
  ASSUME ReceiveTypeOK, Stream, NEW q \in Piece, Arrive(q), UNCHANGED <<lineBuffer, data>>,
         \/ q[1] = 0 /\ sent' = sent
         \/ q[1] # 0 /\ sent' = sent + 1 /\ Pos(q) = sent' /\ q[1] = PanelLine(sent')
  PROVE  Stream' /\ hurt \subseteq hurt'
<1>0. fifo \in Seq(Piece) /\ sent \in Nat /\ UnderWay \subseteq Nat /\ hurt \subseteq hurt'
  BY PlacesTyped DEF ReceiveTypeOK, Arrive
<1>1. CASE cable /\ Len(fifo) < FifoSize
  <2>1. fifo' = Append(fifo, q) /\ hurt' = hurt
    BY <1>1 DEF Arrive
  <2>2. q[1] # 0 => Pos(q) = sent + 1 /\ \A a \in UnderWay : a < Pos(q)
    BY <1>0 DEF Stream, InOrder
  <2>3. Rising(fifo)' /\ Positions(fifo)' = Positions(fifo) \cup (IF q[1] = 0 THEN {} ELSE {Pos(q)})
    BY <1>0, <2>1, <2>2, AppendPlaces DEF Stream, InOrder, UnderWay
  <2>4. Positions(lineBuffer)' = Positions(lineBuffer) /\ Positions(data)' = Positions(data)
    BY DEF Positions, Panel
  <2>5. Rising(lineBuffer)' /\ Rising(data)'
    BY DEF Stream, InOrder, Rising, Panel
  <2>6. UnderWay' = UnderWay \cup (IF q[1] = 0 THEN {} ELSE {Pos(q)})
    BY <2>3, <2>4 DEF UnderWay
  <2>7. InOrder'
    <3>1. \A a \in UnderWay' : a <= sent'
      BY <1>0, <2>2, <2>6 DEF Stream, InOrder
    <3>2. /\ Below(Positions(lineBuffer), Positions(data))'
          /\ Below(Positions(lineBuffer), Positions(fifo))' /\ Below(Positions(data), Positions(fifo))'
      BY <2>2, <2>3, <2>4 DEF Stream, InOrder, Below, UnderWay
    <3> QED BY <2>3, <2>5, <3>1, <3>2 DEF InOrder
  <2>8. ASSUME NEW n \in 1 .. MaxLines PROVE Whereabouts(n)'
    <3>1. Whereabouts(n) /\ n \in Int
      BY DEF Stream
    <3>2. \A k \in OfLine(n) : k \in Int /\ k <= 3 * n
      BY <3>1 DEF OfLine
    <3>3. CASE q[1] = 0
      BY <2>1, <2>6, <3>1, <3>3 DEF Whereabouts
    <3>4. CASE q[1] # 0
      <4>1. sent' = sent + 1 /\ UnderWay' = UnderWay \cup {sent + 1}
        BY <2>2, <2>6, <3>4
      <4>2. CASE n \in hurt
        BY <2>1, <4>2 DEF Whereabouts
      <4>3. CASE \A k \in OfLine(n) : k <= sent => k \in UnderWay
        <5>1. \A k \in OfLine(n) : k <= sent' => k \in UnderWay'
          BY <1>0, <3>2, <4>1, <4>3
        <5> QED BY <5>1 DEF Whereabouts
      <4>4. CASE 3 * n <= sent /\ OfLine(n) \cap UnderWay = {}
        <5>1. 3 * n <= sent' /\ sent + 1 \notin OfLine(n)
          BY <1>0, <3>1, <3>2, <4>1, <4>4
        <5>2. OfLine(n) \cap UnderWay' = {}
          BY <4>1, <4>4, <5>1
        <5> QED BY <5>1, <5>2 DEF Whereabouts
      <4> QED BY <3>1, <4>2, <4>3, <4>4 DEF Whereabouts
    <3> QED BY <3>3, <3>4
  <2> QED BY <1>0, <2>7, <2>8 DEF Stream
<1>2. CASE ~(cable /\ Len(fifo) < FifoSize)
  <2>1. fifo' = fifo /\ hurt' = hurt \cup LinesOf(<<q>>)
    BY <1>2 DEF Arrive
  <2>2. UnderWay' = UnderWay
    BY <2>1 DEF UnderWay, Positions, Panel
  <2>3. sent <= sent' /\ sent' \in Nat
    BY <1>0
  <2>4. InOrder'
    <3>1. \A a \in UnderWay' : a <= sent'
      BY <1>0, <2>2, <2>3 DEF Stream, InOrder
    <3> QED BY <2>1, <3>1 DEF Stream, InOrder, Rising, Below, Positions, Panel
  <2>5. ASSUME NEW n \in 1 .. MaxLines PROVE Whereabouts(n)'
    <3>1. Whereabouts(n) /\ n \in Int
      BY DEF Stream
    <3>2. \A k \in OfLine(n) : k \in Int
      BY <3>1 DEF OfLine
    <3>3. CASE q[1] = 0
      BY <1>0, <2>2, <3>1, <3>3 DEF Whereabouts
    <3>4. CASE q[1] # 0 /\ sent' \in OfLine(n)
      <4>1. n = q[1]
        BY <1>0, <3>1, <3>4, LineOfNumber
      <4>2. n \in LinesOf(<<q>>)
        <5>1. <<q>>[1] = q /\ DOMAIN <<q>> = {1}
          OBVIOUS
        <5> QED BY <3>4, <4>1, <5>1 DEF LinesOf, ToSet
      <4> QED BY <2>1, <4>2 DEF Whereabouts
    <3>5. CASE q[1] # 0 /\ sent' \notin OfLine(n)
      <4>1. \A k \in OfLine(n) : k <= sent' => k <= sent
        BY <1>0, <3>2, <3>5
      <4>2. 3 * n <= sent => 3 * n <= sent'
        BY <1>0, <2>3, <3>1
      <4> QED BY <1>0, <2>2, <3>1, <4>1, <4>2 DEF Whereabouts
    <3> QED BY <3>3, <3>4, <3>5
  <2> QED BY <1>0, <2>4, <2>5 DEF Stream
<1> QED BY <1>1, <1>2

\* Whoever is hurt by the loss of the lines of a sequence.
LEMMA MarkedLines ==
  ASSUME NEW s, Pieces(s), NEW n \in Int, n \notin LinesOf(s)
  PROVE  OfLine(n) \cap Positions(s) = {}
BY LinesByPlaces

\* A step that leaves the pieces where they are.
LEMMA StreamRests ==
  ASSUME Stream, UNCHANGED <<lineBuffer, data, fifo, sent, hurt>>
  PROVE  Stream'
BY DEF Stream, InOrder, Whereabouts, UnderWay, Rising, Below, Positions, Panel

\* The line at hand is dropped (onNew, handleGarbage).
LEMMA StreamDropsLine ==
  ASSUME ReceiveTypeOK, Stream, lineBuffer' = <<>>, UNCHANGED <<fifo, sent>>,
         hurt' = hurt \cup LinesOf(lineBuffer), Rising(data)', Positions(data)' = Positions(data)
  PROVE  Stream'
<1>1. Positions(lineBuffer)' = {} /\ Rising(lineBuffer)'
  BY EmptyPlaces
<1>2. Positions(fifo)' = Positions(fifo) /\ Rising(fifo)'
  BY DEF Stream, InOrder, Positions, Panel, Rising
<1>3. UnderWay' = Positions(data) \cup Positions(fifo)
  BY <1>1, <1>2 DEF UnderWay
<1>4. InOrder'
  BY <1>1, <1>2, <1>3 DEF Stream, InOrder, Below, UnderWay
<1>5. \A n \in 1 .. MaxLines : n \notin hurt' => OfLine(n) \cap UnderWay \subseteq UnderWay'
  BY <1>3, MarkedLines, PlacesTyped DEF UnderWay
<1> QED BY <1>3, <1>4, <1>5, Dropping DEF UnderWay

\* What the chip holds is dropped (a reset, a pulled cable).
LEMMA StreamDropsFifo ==
  ASSUME ReceiveTypeOK, Stream, fifo' = <<>>, UNCHANGED <<lineBuffer, data, sent>>,
         hurt' = hurt \cup LinesOf(fifo)
  PROVE  Stream'
<1>1. Positions(fifo)' = {} /\ Rising(fifo)'
  BY EmptyPlaces
<1>2. /\ Positions(data)' = Positions(data) /\ Rising(data)'
      /\ Positions(lineBuffer)' = Positions(lineBuffer) /\ Rising(lineBuffer)'
  BY DEF Stream, InOrder, Positions, Panel, Rising
<1>3. UnderWay' = Positions(lineBuffer) \cup Positions(data)
  BY <1>1, <1>2 DEF UnderWay
<1>4. InOrder'
  BY <1>1, <1>2, <1>3 DEF Stream, InOrder, Below, UnderWay
<1>5. \A n \in 1 .. MaxLines : n \notin hurt' => OfLine(n) \cap UnderWay \subseteq UnderWay'
  BY <1>3, MarkedLines, PlacesTyped DEF UnderWay
<1> QED BY <1>3, <1>4, <1>5, Dropping DEF UnderWay

LEMMA StreamReceives ==
  ASSUME ReceiveTypeOK, Stream, ReceiveDone
  PROVE  Stream'
<1>1. data = <<>> /\ data' = fifo /\ fifo' = <<>> /\ UNCHANGED <<lineBuffer, sent, hurt>>
  BY DEF ReceiveDone
<1>2. /\ Positions(data) = {} /\ Positions(data)' = Positions(fifo) /\ Rising(data)'
      /\ Positions(fifo)' = {} /\ Rising(fifo)'
      /\ Positions(lineBuffer)' = Positions(lineBuffer) /\ Rising(lineBuffer)'
  BY <1>1, EmptyPlaces DEF Stream, InOrder, Positions, Panel, Rising
<1>3. UnderWay' = UnderWay
  BY <1>2 DEF UnderWay
<1>4. InOrder'
  BY <1>1, <1>2, <1>3 DEF Stream, InOrder, Below
<1> QED BY <1>1, <1>3, <1>4, Dropping

\* Half a line moves from the transfer to the line at hand.
LEMMA StreamTakes ==
  ASSUME ReceiveTypeOK, Stream, TakeHalf
  PROVE  Stream'
<1>1. /\ data # <<>> /\ data' = Tail(data) /\ Head(data)[2] \in Half
      /\ lineBuffer' = Append(lineBuffer, Append(Head(data), conn))
      /\ UNCHANGED <<fifo, sent, hurt, conn>>
  BY DEF TakeHalf, NextPiece, world
<1>2. data \in Seq(Piece) /\ lineBuffer \in Seq(Received) /\ Head(data) \in Piece /\ conn \in Nat
  BY <1>1 DEF ReceiveTypeOK
<1>3. Head(data)[1] # 0
  BY <1>1, <1>2, LineAssumption DEF Piece, Half
<1> DEFINE h == Head(data)
           x == Append(Head(data), conn)
<1>4. x = <<h[1], h[2], conn>>
  BY <1>2, PieceOfConnection
<1>5. Pos(x) = Pos(h) /\ x[1] # 0
  BY <1>3, <1>4 DEF Pos
<1>6. lineBuffer' = Append(lineBuffer, x)
  BY <1>1
<1> HIDE DEF x
<1>7. /\ Pos(h) \in Positions(data) /\ Rising(data)' /\ Positions(data)' = Positions(data) \ {Pos(h)}
      /\ \A a \in Positions(data)' : Pos(h) < a
  BY <1>1, <1>2, <1>3, TailPlaces DEF Stream, InOrder
<1> HIDE DEF h
<1>8. \A a \in Positions(lineBuffer) : a < Pos(x)
  BY <1>5, <1>7 DEF Stream, InOrder, Below
<1>9. Rising(lineBuffer)' /\ Positions(lineBuffer)' = Positions(lineBuffer) \cup {Pos(h)}
  <2>1. \E S : lineBuffer \in Seq(S) /\ x \in S
    <3>1. lineBuffer \in Seq(Received \cup {x})
      BY <1>2, SeqMonotonic
    <3> QED BY <3>1
  <2>2. /\ Rising(Append(lineBuffer, x))
        /\ Positions(Append(lineBuffer, x)) = Positions(lineBuffer) \cup {Pos(x)}
    BY <1>5, <1>8, <2>1, AppendPlaces DEF Stream, InOrder
  <2> QED BY <1>5, <1>6, <2>2
<1>10. Positions(fifo)' = Positions(fifo) /\ Rising(fifo)'
  BY <1>1 DEF Stream, InOrder, Positions, Panel, Rising
<1>11. UnderWay' = UnderWay
  BY <1>7, <1>9, <1>10 DEF UnderWay
<1>12. InOrder'
  <2>1. Below(Positions(lineBuffer), Positions(data))'
    BY <1>7, <1>9 DEF Stream, InOrder, Below
  <2>2. Below(Positions(lineBuffer), Positions(fifo))' /\ Below(Positions(data), Positions(fifo))'
    BY <1>7, <1>9, <1>10 DEF Stream, InOrder, Below
  <2> QED BY <1>1, <1>7, <1>9, <1>10, <1>11, <2>1, <2>2 DEF Stream, InOrder
<1> QED BY <1>1, <1>11, <1>12, Dropping

\* When a CR comes, a line at hand that lost nothing is the one it ends, and whole.
LEMMA AtTheEnd ==
  ASSUME ReceiveTypeOK, Stream, data # <<>>, Head(data)[2] = CR, NEW l \in 1 .. MaxLines, l \notin hurt,
         l = Head(data)[1] \/ OfLine(l) \cap Positions(lineBuffer) # {}
  PROVE  l = Head(data)[1] /\ {(3 * l) - 2, (3 * l) - 1} \subseteq Positions(lineBuffer)
<1> DEFINE n == Head(data)[1]
<1>1. Head(data) \in Piece /\ data \in Seq(Piece)
  BY DEF ReceiveTypeOK
<1>2. n \in 1 .. MaxLines /\ n # 0
  BY <1>1, LineAssumption DEF Piece, CR
<1>3. Pos(Head(data)) = 3 * n
  BY <1>2, LineAssumption DEF Pos, CR
<1> HIDE DEF n
<1>4. 3 * n \in Positions(data) /\ \A a \in Positions(data) : a = 3 * n \/ 3 * n < a
  <2>1. Head(data)[1] # 0
    BY <1>2 DEF n
  <2> QED BY <1>1, <1>3, <2>1, TailPlaces DEF Stream, InOrder
<1>5. \A a \in UnderWay : a \in Positions(lineBuffer) \/ a >= 3 * n
  <2>1. \A a \in Positions(fifo) : 3 * n < a
    BY <1>4 DEF Stream, InOrder, Below
  <2>2. \A a \in UnderWay : a \in Nat
    BY PlacesTyped
  <2>3. 3 * n \in Int
    BY <1>2, LineAssumption
  <2> QED BY <1>4, <2>1, <2>2, <2>3 DEF UnderWay
<1>6. 3 * n <= sent /\ 3 * n \in UnderWay
  BY <1>4 DEF Stream, InOrder, UnderWay
<1>7. l \in Int /\ n \in Int /\ sent \in Nat
  BY <1>2, PlacesTyped, LineAssumption
<1>8. l <= n /\ OfLine(l) \cap UnderWay # {}
  <2>1. CASE l = n
    BY <1>6, <1>7, <2>1 DEF OfLine
  <2>2. CASE l # n
    <3>1. PICK k \in OfLine(l) : k \in Positions(lineBuffer)
      BY <2>2 DEF n
    <3>2. k < 3 * n
      BY <1>4, <3>1 DEF Stream, InOrder, Below
    <3>3. l <= n
      BY <1>7, <3>1, <3>2 DEF OfLine
    <3> QED BY <3>1, <3>3 DEF UnderWay
  <2> QED BY <2>1, <2>2
<1>9. \A k \in OfLine(l) : k <= sent => k \in UnderWay
  BY <1>8 DEF Stream, Whereabouts
<1>10. {(3 * l) - 2, (3 * l) - 1, 3 * l} \subseteq UnderWay
  <2>1. \A k \in OfLine(l) : k <= sent
    BY <1>6, <1>7, <1>8 DEF OfLine
  <2> QED BY <1>9, <2>1 DEF OfLine
<1>11. l = n
  <2>1. 3 * l \notin Positions(lineBuffer)
    BY <1>7, PlacesTyped
  <2>2. 3 * l >= 3 * n
    BY <1>5, <1>10, <2>1
  <2> QED BY <1>7, <1>8, <2>2
<1>12. {(3 * l) - 2, (3 * l) - 1} \subseteq Positions(lineBuffer)
  BY <1>5, <1>7, <1>10, <1>11
<1> QED BY <1>11, <1>12 DEF n

LEMMA StreamEnds ==
  ASSUME ReceiveTypeOK, Stream, EndLine
  PROVE  Stream'
<1>1. /\ data # <<>> /\ data' = Tail(data) /\ Head(data)[2] = CR
      /\ lineBuffer' = <<>> /\ UNCHANGED <<fifo, sent, hurt>>
  BY DEF EndLine, NextPiece, world
<1> DEFINE n == Head(data)[1]
<1>2. data \in Seq(Piece) /\ Head(data) \in Piece
  BY <1>1 DEF ReceiveTypeOK
<1>3. n \in 1 .. MaxLines /\ n # 0 /\ n \in Int
  BY <1>1, <1>2, LineAssumption DEF Piece, CR
<1>4. Pos(Head(data)) = 3 * n
  BY <1>1, <1>3 DEF Pos, CR
<1>5. /\ Rising(data)' /\ 3 * n \in Positions(data) /\ Positions(data)' = Positions(data) \ {3 * n}
      /\ \A a \in Positions(data)' : 3 * n < a
  BY <1>1, <1>2, <1>3, <1>4, TailPlaces DEF Stream, InOrder
<1>6. Positions(lineBuffer)' = {} /\ Rising(lineBuffer)' /\ Positions(fifo)' = Positions(fifo) /\ Rising(fifo)'
  BY <1>1, EmptyPlaces DEF Stream, InOrder, Positions, Panel, Rising
<1>7. \A l \in 1 .. MaxLines : l \notin hurt /\ (l = n \/ OfLine(l) \cap Positions(lineBuffer) # {})
        => l = n /\ {(3 * l) - 2, (3 * l) - 1} \subseteq Positions(lineBuffer)
  BY <1>1, AtTheEnd
<1> HIDE DEF n
<1>8. UnderWay' = (Positions(data) \ {3 * n}) \cup Positions(fifo)
  BY <1>5, <1>6 DEF UnderWay
<1>9. \A a \in UnderWay' : 3 * n < a
  BY <1>5, <1>6 DEF Stream, InOrder, Below, UnderWay
<1>10. 3 * n <= sent /\ 3 * n \in UnderWay
  BY <1>5 DEF Stream, InOrder, UnderWay
<1>11. InOrder'
  BY <1>1, <1>5, <1>6, <1>8 DEF Stream, InOrder, Below, UnderWay
<1>12. ASSUME NEW l \in 1 .. MaxLines, l \notin hurt PROVE Whereabouts(l)'
  <2>0. l \in Int /\ Whereabouts(l)
    BY DEF Stream
  <2>1. CASE l = n
    <3>1. \A k \in OfLine(n) : k <= 3 * n
      BY <1>3 DEF OfLine
    <3>2. \A k \in OfLine(n) : k \in Int /\ 3 * n \in Int
      BY <1>3 DEF OfLine
    <3>3. OfLine(n) \cap UnderWay' = {}
      <4> SUFFICES ASSUME NEW k \in OfLine(n), k \in UnderWay' PROVE FALSE
        OBVIOUS
      <4> QED BY <1>9, <3>1, <3>2
    <3> QED BY <1>1, <1>10, <2>1, <3>3 DEF Whereabouts
  <2>2. CASE l # n
    <3>1. OfLine(l) \cap Positions(lineBuffer) = {}
      BY <1>7, <1>12, <2>2
    <3>2. 3 * n \notin OfLine(l)
      BY <1>3, <2>0, <2>2 DEF OfLine
    <3>3. OfLine(l) \cap UnderWay' = OfLine(l) \cap UnderWay
      BY <1>8, <3>1, <3>2 DEF UnderWay
    <3> QED BY <1>1, <1>12, <2>0, <3>3 DEF Whereabouts
  <2> QED BY <2>1, <2>2
<1>13. ASSUME NEW l \in 1 .. MaxLines, l \in hurt PROVE Whereabouts(l)'
  BY <1>1, <1>13 DEF Whereabouts
<1> QED BY <1>11, <1>12, <1>13 DEF Stream

\* Two pieces that are the two halves of a line are the line.
LEMMA TwoHalves ==
  ASSUME NEW s \in Seq(Received), NEW n \in 1 .. MaxLines, Rising(s),
         Positions(s) \subseteq OfLine(n), {(3 * n) - 2, (3 * n) - 1} \subseteq Positions(s)
  PROVE  Whole(s)
<1>1. /\ Pieces(s) /\ Len(s) \in Nat /\ Panel(s) = 1 .. Len(s)
      /\ \A i \in 1 .. Len(s) : s[i][1] \in 1 .. MaxLines /\ s[i][2] \in {1, 2}
  BY PiecesIn DEF Half, Pieces
<1>2. n \in Int /\ \A i \in 1 .. Len(s) : s[i][1] = n /\ Pos(s[i]) = (3 * (n - 1)) + s[i][2]
  <2>1. n \in Int
    OBVIOUS
  <2>2. ASSUME NEW i \in 1 .. Len(s) PROVE s[i][1] = n
    BY <1>1, <2>1, PosOf
  <2> QED BY <2>1, <2>2 DEF Pos
<1>3. ASSUME NEW i \in 1 .. Len(s), NEW j \in 1 .. Len(s), i < j PROVE s[i][2] = 1 /\ s[j][2] = 2
  <2>1. Pos(s[i]) < Pos(s[j])
    BY <1>1, <1>3 DEF Rising
  <2>2. /\ Pos(s[i]) = (3 * (n - 1)) + s[i][2] /\ Pos(s[j]) = (3 * (n - 1)) + s[j][2]
        /\ s[i][2] \in {1, 2} /\ s[j][2] \in {1, 2} /\ 3 * (n - 1) \in Int
    BY <1>1, <1>2
  <2> QED BY <2>1, <2>2
<1>4. PICK i \in 1 .. Len(s) : Pos(s[i]) = (3 * n) - 2
  BY <1>1 DEF Positions
<1>5. PICK j \in 1 .. Len(s) : Pos(s[j]) = (3 * n) - 1
  BY <1>1 DEF Positions
<1>6. s[i][2] = 1 /\ s[j][2] = 2 /\ i # j
  BY <1>1, <1>2, <1>4, <1>5
<1>7. i < j
  BY <1>1, <1>3, <1>6
<1>8. \A k \in 1 .. Len(s) : k = i \/ k = j
  <2> SUFFICES ASSUME NEW k \in 1 .. Len(s), k # i, k # j PROVE FALSE
    OBVIOUS
  <2>1. CASE s[k][2] = 1
    BY <1>1, <1>3, <1>6, <2>1
  <2>2. CASE s[k][2] = 2
    BY <1>1, <1>3, <1>6, <2>2
  <2> QED BY <1>1, <2>1, <2>2
<1>9. i = 1 /\ j = 2 /\ Len(s) = 2
  <2> DEFINE m == Len(s)
  <2>0. m \in Nat /\ i \in 1 .. m /\ j \in 1 .. m /\ i < j /\ \A k \in 1 .. m : k = i \/ k = j
    BY <1>1, <1>7, <1>8
  <2> HIDE DEF m
  <2>1. 1 \in 1 .. m /\ 2 \in 1 .. m /\ m \in 1 .. m
    BY <2>0
  <2>2. (1 = i \/ 1 = j) /\ (2 = i \/ 2 = j) /\ (m = i \/ m = j)
    BY <2>0, <2>1
  <2>3. i = 1 /\ j = 2
    BY <2>0, <2>2
  <2> QED BY <2>0, <2>2, <2>3 DEF m
<1> QED BY <1>2, <1>6, <1>9 DEF Whole

LEMMA WholeEnds ==
  ASSUME ReceiveTypeOK, Stream, HandedWhole, EndLine
  PROVE  HandedWhole'
<1>1. hurt' = hurt /\ data # <<>> /\ Head(data)[2] = CR
  BY DEF EndLine, NextPiece
<1>2. CASE handed' = handed
  BY <1>1, <1>2 DEF HandedWhole
<1>3. CASE lineBuffer # <<>> /\ handed' = lineBuffer
  <2>0. /\ lineBuffer \in Seq(Received) /\ Pieces(lineBuffer) /\ Panel(lineBuffer) = DOMAIN lineBuffer
        /\ DOMAIN lineBuffer = 1 .. Len(lineBuffer) /\ Len(lineBuffer) \in Nat \ {0}
    BY <1>3, PiecesIn, EmptySeq DEF ReceiveTypeOK, Pieces
  <2> SUFFICES ASSUME LinesOf(lineBuffer) \cap hurt = {} PROVE Whole(lineBuffer)
    BY <1>1, <1>3 DEF HandedWhole
  <2> DEFINE n == Head(data)[1]
  <2>1. ASSUME NEW i \in 1 .. Len(lineBuffer)
        PROVE  /\ lineBuffer[i][1] = n /\ n \in 1 .. MaxLines /\ Pos(lineBuffer[i]) \in OfLine(n)
               /\ {(3 * n) - 2, (3 * n) - 1} \subseteq Positions(lineBuffer)
    <3> DEFINE l == lineBuffer[i][1]
    <3>1. /\ l \in 1 .. MaxLines /\ l \in LinesOf(lineBuffer)
          /\ Pos(lineBuffer[i]) \in OfLine(l) \cap Positions(lineBuffer)
      BY <2>0, PosOf DEF Pieces
    <3>2. l \notin hurt
      BY <3>1
    <3> HIDE DEF l
    <3>3. l = n /\ {(3 * l) - 2, (3 * l) - 1} \subseteq Positions(lineBuffer)
      BY <1>1, <3>1, <3>2, AtTheEnd
    <3> QED BY <3>1, <3>3 DEF l
  <2> HIDE DEF n
  <2>2. Positions(lineBuffer) \subseteq OfLine(n)
    BY <2>0, <2>1 DEF Positions
  <2>3. n \in 1 .. MaxLines /\ {(3 * n) - 2, (3 * n) - 1} \subseteq Positions(lineBuffer)
    <3>1. 1 \in 1 .. Len(lineBuffer)
      BY <2>0
    <3> QED BY <2>1, <3>1
  <2> QED BY <2>0, <2>2, <2>3, TwoHalves DEF Stream, InOrder
<1> QED BY <1>2, <1>3 DEF EndLine

LEMMA StreamGarbage ==
  ASSUME ReceiveTypeOK, Stream, handleGarbage
  PROVE  Stream'
<1>1. data # <<>> /\ data' = Tail(data) /\ Head(data) = Noise /\ UNCHANGED <<fifo, sent>>
  BY DEF handleGarbage, NextPiece, world
<1>2. data \in Seq(Piece) /\ Head(data)[1] = 0
  BY <1>1 DEF ReceiveTypeOK, Noise
<1>3. Rising(data)' /\ Positions(data)' = Positions(data)
  BY <1>1, <1>2, TailPlaces DEF Stream, InOrder
<1>4. CASE UNCHANGED <<lineBuffer, hurt>>
  <2>1. /\ Positions(lineBuffer)' = Positions(lineBuffer) /\ Rising(lineBuffer)'
        /\ Positions(fifo)' = Positions(fifo) /\ Rising(fifo)'
    BY <1>1, <1>4 DEF Stream, InOrder, Positions, Panel, Rising
  <2>2. UnderWay' = UnderWay
    BY <1>3, <2>1 DEF UnderWay
  <2>3. InOrder'
    BY <1>1, <1>3, <2>1, <2>2 DEF Stream, InOrder, Below
  <2> QED BY <1>1, <1>4, <2>2, <2>3, Dropping
<1>5. CASE lineBuffer' = <<>> /\ hurt' = hurt \cup LinesOf(lineBuffer)
  BY <1>1, <1>3, <1>5, StreamDropsLine
<1> QED BY <1>4, <1>5 DEF handleGarbage

\* Only EndLine hands a line over; what is hurt stays so.
LEMMA HandedStays ==
  ASSUME HandedWhole, handed' \in {handed, <<>>}, hurt \subseteq hurt'
  PROVE  HandedWhole'
BY DEF HandedWhole

LEMMA NextStream ==
  ReceiveTypeOK /\ Stream /\ HandedWhole /\ [ReceiveNext]_receiveVars => Stream' /\ HandedWhole'
<1> SUFFICES ASSUME ReceiveTypeOK, Stream, HandedWhole, [ReceiveNext]_receiveVars PROVE Stream' /\ HandedWhole'
  OBVIOUS
<1>1. CASE PanelSends
  <2> DEFINE q == <<PanelLine(sent'), sent' - (3 * (PanelLine(sent') - 1))>>
  <2>1. sent \in Nat /\ sent' = sent + 1 /\ sent' \in 1 .. 3 * MaxLines
    BY <1>1, LineAssumption DEF PanelSends, ReceiveTypeOK
  <2>2. Arrive(q) /\ UNCHANGED <<lineBuffer, data, handed>>
    BY <1>1 DEF PanelSends
  <2>3. q \in Piece /\ PanelLine(sent') \in 1 .. MaxLines /\ PanelLine(sent') # 0
    <3>1. q \in Piece
      BY <2>1, PanelPiece
    <3>2. \A m \in 1 .. 3 * MaxLines : PanelLine(m) \in 1 .. MaxLines /\ PanelLine(m) # 0
      BY LineAssumption DEF PanelLine
    <3> QED BY <2>1, <3>1, <3>2
  <2>4. q[1] = PanelLine(sent') /\ q[1] # 0 /\ Pos(q) = sent'
    <3>1. q[1] = PanelLine(sent') /\ q[2] = sent' - (3 * (PanelLine(sent') - 1))
      OBVIOUS
    <3> HIDE DEF q
    <3> QED BY <2>1, <2>3, <3>1 DEF Pos
  <2> HIDE DEF q
  <2>5. Stream' /\ hurt \subseteq hurt'
    BY <2>1, <2>2, <2>3, <2>4, StreamArrives
  <2> QED BY <2>2, <2>5, HandedStays
<1>2. CASE NoiseComes
  <2>1. /\ Noise \in Piece /\ Noise[1] = 0 /\ Arrive(Noise)
        /\ UNCHANGED <<lineBuffer, data, handed, sent>>
    BY <1>2 DEF NoiseComes, Noise, Piece
  <2>2. Stream' /\ hurt \subseteq hurt'
    BY <2>1, StreamArrives
  <2> QED BY <2>1, <2>2, HandedStays
<1>3. CASE PlugIn \/ TransferError \/ Silence \/ DeviceGone \/ EventsDone \/ Submit \/ Timeout
           \/ UNCHANGED receiveVars
  <2>1. UNCHANGED <<lineBuffer, data, fifo, sent, hurt>> /\ handed' \in {handed, <<>>}
    BY <1>3 DEF PlugIn, TransferError, Silence, DeviceGone, EventsDone, Submit, Timeout,
                receiveVars, world, input
  <2> QED BY <2>1, StreamRests, HandedStays
<1>4. CASE Unplug
  <2>1. /\ fifo' = <<>> /\ UNCHANGED <<lineBuffer, data, sent, handed>>
        /\ hurt' = hurt \cup LinesOf(fifo)
    BY <1>4 DEF Unplug
  <2> QED BY <2>1, StreamDropsFifo, HandedStays
<1>5. CASE OnNew
  <2>1. UNCHANGED <<data, fifo, sent, handed>>
    BY <1>5 DEF OnNew, world
  <2>2. CASE UNCHANGED <<lineBuffer, hurt>>
    BY <2>1, <2>2, StreamRests, HandedStays
  <2>3. CASE lineBuffer' = <<>> /\ hurt' = hurt \cup LinesOf(lineBuffer)
    <3>1. Rising(data)' /\ Positions(data)' = Positions(data)
      BY <2>1 DEF Stream, InOrder, Rising, Positions, Panel
    <3> QED BY <2>1, <2>3, <3>1, StreamDropsLine, HandedStays
  <2> QED BY <1>5, <2>2, <2>3 DEF OnNew
<1>6. CASE NewDevice
  <2>1. UNCHANGED <<lineBuffer, data, sent, handed>>
    BY <1>6 DEF NewDevice
  <2>2. CASE UNCHANGED <<fifo, hurt>>
    BY <2>1, <2>2, StreamRests, HandedStays
  <2>3. CASE fifo' = <<>> /\ hurt' = hurt \cup LinesOf(fifo)
    BY <2>1, <2>3, StreamDropsFifo, HandedStays
  <2> QED BY <1>6, <2>2, <2>3 DEF NewDevice
<1>7. CASE ReceiveDone
  BY <1>7, StreamReceives, HandedStays DEF ReceiveDone
<1>8. CASE TakeHalf
  BY <1>8, StreamTakes, HandedStays DEF TakeHalf
<1>9. CASE EndLine
  BY <1>9, StreamEnds, WholeEnds
<1>10. CASE handleGarbage
  <2>1. handed' = handed /\ hurt \subseteq hurt'
    BY <1>10 DEF handleGarbage
  <2> QED BY <1>10, <2>1, StreamGarbage, HandedStays
<1> QED BY <1>1, <1>2, <1>3, <1>4, <1>5, <1>6, <1>7, <1>8, <1>9, <1>10 DEF ReceiveNext, usbTask, onReceive

\* A line handed to processLine is one line of the panel, whole and in order, unless a
\* line in it lost a piece, however transfers cut the stream, the cable is pulled, the
\* chip overflows and noise comes in between (onReceive, handleGarbage).
THEOREM LinesAreWhole == ReceiveSpec => []HandedWhole
BY StreamInit, NextStream, InitReceiveTypes, InitDriver, NextReceiveTypes, NextDriver, PTL DEF ReceiveSpec

------------------------------------------------------------------------------
(* The address in a line *)

\* The characters that the code tells apart.
Character == Digit \cup {".", "A", " "}

\* An address that lies at a .. b of line l, with its dot at k.
AddressAt(l, a, b, k) ==
  /\ a < k /\ k <= b /\ l[k] = "." /\ b - k \in {3, 4}
  /\ \A j \in a .. b : j # k => l[j] \in Digit

LEMMA Cut ==
  ASSUME NEW l \in Seq(Character), NEW a \in 1 .. Len(l) + 1, NEW b \in a - 1 .. Len(l)
  PROVE  /\ SubSeq(l, a, b) \in Seq(Character) /\ Len(SubSeq(l, a, b)) = b - a + 1
         /\ \A i \in 1 .. b - a + 1 : SubSeq(l, a, b)[i] = l[a + i - 1]
BY SMT

LEMMA AddressIs ==
  ASSUME NEW l \in Seq(Character), NEW a \in 1 .. Len(l), NEW b \in 1 .. Len(l)
  PROVE  IsAddress(SubSeq(l, a, b)) <=> \E k \in 1 .. Len(l) : AddressAt(l, a, b, k)
<1>1. CASE a <= b
  <2> DEFINE w == SubSeq(l, a, b)
             n == b - a + 1
  <2>1. w \in Seq(Character) /\ Len(w) = n /\ \A i \in 1 .. n : w[i] = l[a + i - 1]
    BY <1>1, Cut
  <2>2. DOMAIN w = 1 .. n
    BY <2>1
  <2> HIDE DEF w
  <2>3. ASSUME NEW i \in 2 .. n, w[i] = ".", n - i \in {3, 4}, \A j \in 1 .. n \ {i} : w[j] \in Digit
        PROVE  AddressAt(l, a, b, a + i - 1)
    <3> DEFINE k == a + i - 1
    <3>1. a < k /\ k <= b /\ l[k] = "." /\ b - k \in {3, 4}
      BY <2>1, <2>3
    <3>2. ASSUME NEW j \in a .. b, j # k PROVE l[j] \in Digit
      <4>1. j - a + 1 \in 1 .. n \ {i} /\ a + (j - a + 1) - 1 = j
        BY <3>2
      <4>2. w[j - a + 1] \in Digit
        BY <2>3, <4>1
      <4> QED BY <2>1, <4>1, <4>2
    <3> QED BY <3>1, <3>2 DEF AddressAt
  <2>4. ASSUME NEW k \in 1 .. Len(l), AddressAt(l, a, b, k)
        PROVE  /\ k - a + 1 \in 2 .. n /\ w[k - a + 1] = "." /\ n - (k - a + 1) \in {3, 4}
               /\ \A j \in 1 .. n \ {k - a + 1} : w[j] \in Digit
    <3>1. k - a + 1 \in 2 .. n /\ n - (k - a + 1) \in {3, 4} /\ l[k] = "." /\ a + (k - a + 1) - 1 = k
      BY <2>4 DEF AddressAt
    <3>2. w[k - a + 1] = "."
      BY <2>1, <3>1
    <3>3. ASSUME NEW j \in 1 .. n, j # k - a + 1 PROVE w[j] \in Digit
      <4>1. a + j - 1 \in a .. b /\ a + j - 1 # k
        BY <3>3
      <4>2. l[a + j - 1] \in Digit
        BY <2>4, <4>1 DEF AddressAt
      <4> QED BY <2>1, <4>2
    <3> QED BY <3>1, <3>2, <3>3
  <2>5. IsAddress(w) => \E k \in 1 .. Len(l) : AddressAt(l, a, b, k)
    <3> SUFFICES ASSUME IsAddress(w) PROVE \E k \in 1 .. Len(l) : AddressAt(l, a, b, k)
      OBVIOUS
    <3>1. PICK i \in 2 .. n : w[i] = "." /\ n - i \in {3, 4} /\ \A j \in 1 .. n \ {i} : w[j] \in Digit
      BY <2>1, <2>2 DEF IsAddress
    <3>2. AddressAt(l, a, b, a + i - 1)
      BY <2>3, <3>1
    <3>3. a + i - 1 \in 1 .. Len(l)
      OBVIOUS
    <3> QED BY <3>2, <3>3
  <2>6. (\E k \in 1 .. Len(l) : AddressAt(l, a, b, k)) => IsAddress(w)
    <3> SUFFICES ASSUME NEW k \in 1 .. Len(l), AddressAt(l, a, b, k) PROVE IsAddress(w)
      OBVIOUS
    <3> HIDE DEF n
    <3>1. k - a + 1 \in 2 .. Len(w) /\ w[k - a + 1] = "." /\ Len(w) - (k - a + 1) \in {3, 4}
      BY <2>1, <2>4
    <3>2. \A j \in DOMAIN w \ {k - a + 1} : w[j] \in Digit
      BY <2>2, <2>4
    <3> QED BY <3>1, <3>2, Zenon DEF IsAddress
  <2> QED BY <2>5, <2>6 DEF w
<1>2. CASE b < a
  <2>1. Len(SubSeq(l, a, b)) = 0
    BY <1>2
  <2>2. ~IsAddress(SubSeq(l, a, b))
    <3>1. 2 .. 0 = {}
      OBVIOUS
    <3> QED BY <2>1, <3>1 DEF IsAddress
  <2>3. \A k \in 1 .. Len(l) : ~AddressAt(l, a, b, k)
    BY <1>2 DEF AddressAt
  <2> QED BY <2>2, <2>3
<1> QED BY <1>1, <1>2

LEMMA MinOf == ASSUME NEW S \in SUBSET Nat, S # {}
               PROVE  Min(S) \in S /\ \A y \in S : Min(S) <= y
<1>1. \E x \in S : \A y \in S : x <= y
  BY LeastNatural
<1> QED BY <1>1, Zenon DEF Min

LEMMA PlaceIs ==
  ASSUME NEW l \in Seq(Character), NEW p
  PROVE  p \in Places(l) <=>
           \E a, b, k \in 1 .. Len(l) : p = <<a, b>> /\ AddressAt(l, a, b, k)
<1>1. DOMAIN l = 1 .. Len(l)
  OBVIOUS
<1>2. \A a, b \in 1 .. Len(l) : <<a, b>>[1] = a /\ <<a, b>>[2] = b
  OBVIOUS
<1>3. p \in Places(l) <=> \E a, b \in 1 .. Len(l) : p = <<a, b>> /\ IsAddress(SubSeq(l, a, b))
  BY <1>1, <1>2 DEF Places
<1> QED BY <1>3, AddressIs, Zenon

LEMMA PlaceAt ==
  ASSUME NEW l \in Seq(Character), NEW a \in 1 .. Len(l), NEW b \in 1 .. Len(l)
  PROVE  <<a, b>> \in Places(l) <=> \E k \in 1 .. Len(l) : AddressAt(l, a, b, k)
<1>1. ASSUME <<a, b>> \in Places(l) PROVE \E k \in 1 .. Len(l) : AddressAt(l, a, b, k)
  <2>1. PICK x, y, k \in 1 .. Len(l) : <<a, b>> = <<x, y>> /\ AddressAt(l, x, y, k)
    BY <1>1, PlaceIs, Zenon
  <2>2. x = a /\ y = b
    BY <2>1
  <2> QED BY <2>1, <2>2
<1>2. ASSUME NEW k \in 1 .. Len(l), AddressAt(l, a, b, k) PROVE <<a, b>> \in Places(l)
  BY <1>2, PlaceIs, Zenon
<1> QED BY <1>1, <1>2, Zenon

\* FirstPlace chooses the one place that comes before all others.
LEMMA FirstIs ==
  ASSUME NEW l \in Seq(Character), NEW a \in 1 .. Len(l), NEW b \in 1 .. Len(l),
         <<a, b>> \in Places(l),
         \A q \in Places(l) : a < q[1] \/ (a = q[1] /\ b >= q[2])
  PROVE  FirstPlace(l) = <<a, b>>
<1> DEFINE p == FirstPlace(l)
<1>1. <<a, b>>[1] = a /\ <<a, b>>[2] = b
  OBVIOUS
<1>2. \E x \in Places(l) : \A q \in Places(l) : x[1] < q[1] \/ (x[1] = q[1] /\ x[2] >= q[2])
  BY <1>1
<1>3. p \in Places(l) /\ \A q \in Places(l) : p[1] < q[1] \/ (p[1] = q[1] /\ p[2] >= q[2])
  BY <1>2, Zenon DEF FirstPlace
<1> HIDE DEF p
<1>4. PICK c \in 1 .. Len(l), d \in 1 .. Len(l) : p = <<c, d>>
  BY <1>3, PlaceIs
<1>5. p[1] = c /\ p[2] = d
  BY <1>4
<1>6. c = a /\ d = b
  BY <1>1, <1>3, <1>5
<1> QED BY <1>4, <1>6 DEF p

\* The search stops at the dot of every address, which is three or four digits long.
LEMMA DotOfAddress ==
  ASSUME NEW l \in Seq(Character), NEW a \in 1 .. Len(l), NEW b \in 1 .. Len(l), NEW k \in 1 .. Len(l),
         AddressAt(l, a, b, k)
  PROVE  /\ k \in Dots(l) /\ \A j \in a .. k - 1 : l[j] \in Digit
         /\ b = k + 3 \/ (b = k + 4 /\ l[k + 4] \in Digit)
<1>1. k \in 2 .. Len(l) - 3 /\ l[k] = "." /\ k - 1 \in a .. b /\ k - 1 # k
  BY DEF AddressAt
<1>2. l[k - 1] \in Digit
  BY <1>1 DEF AddressAt
<1>3. ASSUME NEW j \in 1 .. 3 PROVE l[k + j] \in Digit
  BY k + j \in a .. b, k + j # k DEF AddressAt
<1>4. b = k + 3 \/ (b = k + 4 /\ l[k + 4] \in Digit)
  BY <1>1, k + 4 # k DEF AddressAt
<1>5. \A j \in a .. k - 1 : l[j] \in Digit
  BY DEF AddressAt
<1> QED BY <1>1, <1>2, <1>3, <1>4, <1>5 DEF Dots

\* What tryExtractDetectorAddress stops at, and where the first address lies.
LEMMA SearchFinds ==
  ASSUME NEW l \in Seq(Character), Dots(l) # {}
  PROVE  \E s, e, f, k \in 1 .. Len(l) :
           /\ tryExtractDetectorAddress(l) = SubSeq(l, s, e) /\ AddressAt(l, s, e, k)
           /\ <<s, f>> \in Places(l) /\ FirstPlace(l) = <<s, f>>
           /\ \A q \in Places(l) : s < q[1] \/ (s = q[1] /\ f >= q[2])
           /\ f = e \/ (f = e + 1 /\ f = Len(l))
<1> DEFINE k == Min(Dots(l))
           s == StartPos(l, k)
           e == EndPos(l, k)
           f == IF k + 4 <= Len(l) /\ l[k + 4] \in Digit THEN k + 4 ELSE k + 3
<1>1. k \in Dots(l) /\ \A j \in Dots(l) : k <= j
  BY MinOf, Dots(l) \in SUBSET Nat DEF Dots
<1>2. tryExtractDetectorAddress(l) = SubSeq(l, s, e)
  BY Zenon DEF tryExtractDetectorAddress
<1> HIDE DEF k
<1>3. /\ k \in 2 .. Len(l) - 3 /\ Len(l) \in Nat /\ l[k] = "." /\ l[k - 1] \in Digit
      /\ l[k + 1] \in Digit /\ l[k + 2] \in Digit /\ l[k + 3] \in Digit
  BY <1>1 DEF Dots
<1>4. s \in 1 .. k - 1 /\ (\A j \in s .. k - 1 : l[j] \in Digit)
        /\ \A r \in 1 .. k - 1 : (\A j \in r .. k - 1 : l[j] \in Digit) => s <= r
  <2> DEFINE S == {r \in 1 .. k - 1 : \A j \in r .. k - 1 : l[j] \in Digit}
  <2>1. k - 1 \in S
    BY <1>3, SMTT(30)
  <2>2. s = Min(S)
    BY Zenon DEF StartPos
  <2>3. S \in SUBSET Nat /\ S # {}
    <3>1. S \subseteq 1 .. k - 1
      OBVIOUS
    <3> HIDE DEF S
    <3> QED BY <2>1, <3>1
  <2>4. s \in S /\ \A r \in S : s <= r
    BY <2>2, <2>3, MinOf
  <2> QED BY <2>4
<1> HIDE DEF s
<1>5. e \in {k + 3, k + 4} /\ e <= Len(l) /\ (e = k + 4 => l[k + 4] \in Digit)
  BY <1>3 DEF EndPos
<1>6. f = e \/ (f = e + 1 /\ f = Len(l))
  BY <1>3 DEF EndPos
<1>7. f \in {k + 3, k + 4} /\ f <= Len(l) /\ (f = k + 4 => l[k + 4] \in Digit)
  BY <1>3
<1>8. \A x \in {e, f} : AddressAt(l, s, x, k)
  <2> HIDE DEF e, f
  <2> SUFFICES ASSUME NEW x \in {e, f} PROVE AddressAt(l, s, x, k)
    OBVIOUS
  <2>1. x \in {k + 3, k + 4} /\ (x = k + 4 => l[k + 4] \in Digit)
    BY <1>5, <1>7
  <2>2. s < k /\ k <= x /\ x - k \in {3, 4}
    BY <1>3, <1>4, <2>1
  <2>3. ASSUME NEW j \in s .. x, j # k PROVE l[j] \in Digit
    <3>1. j \in s .. k - 1 \/ j = k + 1 \/ j = k + 2 \/ j = k + 3 \/ (j = k + 4 /\ x = k + 4)
      BY <1>3, <1>4, <2>1, <2>3
    <3> QED BY <1>3, <1>4, <2>1, <3>1
  <2> QED BY <1>3, <2>2, <2>3 DEF AddressAt
<1>9. s \in 1 .. Len(l) /\ e \in 1 .. Len(l) /\ f \in 1 .. Len(l) /\ k \in 1 .. Len(l)
  BY <1>3, <1>4, <1>5, <1>7
<1>10. <<s, f>> \in Places(l)
  BY <1>8, <1>9, PlaceIs
<1>11. \A q \in Places(l) : s < q[1] \/ (s = q[1] /\ f >= q[2])
  <2> SUFFICES ASSUME NEW q \in Places(l) PROVE s < q[1] \/ (s = q[1] /\ f >= q[2])
    OBVIOUS
  <2>1. PICK a, b, i \in 1 .. Len(l) : q = <<a, b>> /\ AddressAt(l, a, b, i)
    BY PlaceIs
  <2>2. q[1] = a /\ q[2] = b
    BY <2>1
  <2>3. /\ i \in Dots(l) /\ \A j \in a .. i - 1 : l[j] \in Digit
        /\ b = i + 3 \/ (b = i + 4 /\ l[i + 4] \in Digit)
    BY <2>1, DotOfAddress
  <2>4. k <= i /\ a < i
    BY <1>1, <2>1, <2>3 DEF AddressAt
  <2>5. CASE i = k
    <3>1. s <= a
      BY <1>4, <2>3, <2>4, <2>5
    <3>2. b <= f
      BY <1>3, <2>3, <2>5
    <3> QED BY <1>9, <2>2, <3>1, <3>2
  <2>6. CASE i > k
    <3>1. l[k] \notin Digit
      BY <1>3 DEF Digit
    <3>2. ~(k \in a .. i - 1)
      BY <2>3, <3>1
    <3> QED BY <1>3, <1>4, <2>2, <2>6, <3>2
  <2> QED BY <1>3, <2>4, <2>5, <2>6
<1>12. FirstPlace(l) = <<s, f>>
  BY <1>9, <1>10, <1>11, FirstIs
<1> HIDE DEF e, f
<1>13. AddressAt(l, s, e, k)
  BY <1>8
<1> QED BY <1>2, <1>6, <1>9, <1>10, <1>11, <1>12, <1>13, Zenon

LEMMA SearchFails == ASSUME NEW l \in Seq(Character), Dots(l) = {}
                     PROVE  Places(l) = {} /\ tryExtractDetectorAddress(l) = <<>>
<1>1. ASSUME NEW p \in Places(l) PROVE FALSE
  <2>1. PICK a, b, k \in 1 .. Len(l) : AddressAt(l, a, b, k)
    BY PlaceIs
  <2> QED BY <2>1, DotOfAddress
<1> QED BY <1>1 DEF tryExtractDetectorAddress

\* What processLine takes off in front is no digit, but for a 6 that begins the line.
Removable(l, c) == \A i \in 1 .. c - 1 : l[i] \in Digit => i = 1 /\ l[1] = "6"

LEMMA CutAgain ==
  ASSUME NEW l \in Seq(Character), NEW c \in 1 .. Len(l) + 1,
         NEW a \in 1 .. Len(l) - c + 2, NEW b \in a - 1 .. Len(l) - c + 1
  PROVE  SubSeq(SubSeq(l, c, Len(l)), a, b) = SubSeq(l, a + c - 1, b + c - 1)
<1> DEFINE m == SubSeq(l, c, Len(l))
           u == SubSeq(m, a, b)
           v == SubSeq(l, a + c - 1, b + c - 1)
<1>1. Len(l) \in Nat /\ c \in Nat /\ a \in Nat /\ b \in Int
  OBVIOUS
<1>2. m \in Seq(Character) /\ Len(m) = Len(l) - c + 1 /\ \A i \in 1 .. Len(m) : m[i] = l[c + i - 1]
  BY Cut
<1> HIDE DEF m
<1>3. u \in Seq(Character) /\ Len(u) = b - a + 1 /\ \A i \in 1 .. b - a + 1 : u[i] = m[a + i - 1]
  BY <1>2, Cut
<1>4. v \in Seq(Character) /\ Len(v) = b - a + 1 /\ \A i \in 1 .. b - a + 1 : v[i] = l[a + c - 1 + i - 1]
  <2>1. a + c - 1 \in 1 .. Len(l) + 1 /\ b + c - 1 \in a + c - 2 .. Len(l)
    OBVIOUS
  <2> QED BY <2>1, Cut
<1> HIDE DEF u, v
<1>5. \A i \in 1 .. b - a + 1 : u[i] = v[i]
  <2> SUFFICES ASSUME NEW i \in 1 .. b - a + 1 PROVE u[i] = v[i]
    OBVIOUS
  <2>1. a + i - 1 \in 1 .. Len(m) /\ c + (a + i - 1) - 1 = a + c - 1 + i - 1
    BY <1>1, <1>2
  <2> QED BY <1>2, <1>3, <1>4, <2>1
<1>6. u = v
  BY <1>1, <1>3, <1>4, <1>5
<1> QED BY <1>6 DEF u, v, m

LEMMA LetterCuts ==
  ASSUME NEW n \in Seq(Character)
  PROVE  \E u \in 1 .. Len(n) + 1 : /\ DropLetter(n) = SubSeq(n, u, Len(n))
                                    /\ \A k \in 1 .. u - 1 : n[k] \notin Digit
<1>1. Len(n) \in Nat
  OBVIOUS
<1>2. CASE ~Letter(n)
  <2>1. DropLetter(n) = SubSeq(n, 1, Len(n))
    BY <1>2 DEF DropLetter
  <2> QED BY <1>1, <2>1
<1>3. CASE Letter(n)
  <2> DEFINE u == Useful(n)
             S == {k \in 2 .. Len(n) : n[k] # " "} \cup {Len(n) + 1}
  <2>1. S \subseteq 2 .. Len(n) + 1 /\ Len(n) + 1 \in S
    <3>1. Len(n) > 2
      BY <1>3, Zenon DEF Letter
    <3>2. Len(n) + 1 \in 2 .. Len(n) + 1 /\ 2 .. Len(n) \subseteq 2 .. Len(n) + 1
      BY <1>1, <3>1
    <3> QED BY <3>2, Zenon
  <2>2. u = Min(S)
    BY Zenon DEF Useful
  <2>3. \A k \in 2 .. Len(n) : n[k] # " " => k \in S
    OBVIOUS
  <2>4. DropLetter(n) = SubSeq(n, u, Len(n))
    BY <1>3, Zenon DEF DropLetter
  <2> HIDE DEF u, S
  <2>5. u \in S /\ \A k \in S : u <= k
    <3>1. S \in SUBSET Nat /\ S # {}
      BY <2>1
    <3> QED BY <2>2, <3>1, MinOf, Zenon
  <2>6. u \in 2 .. Len(n) + 1
    BY <2>1, <2>5
  <2>7. ASSUME NEW k \in 1 .. u - 1 PROVE n[k] \in {"A", " "}
    <3>1. CASE k = 1
      BY <1>3, <3>1 DEF Letter
    <3>2. CASE k # 1
      <4>1. k \in 2 .. Len(n) /\ ~(u <= k)
        BY <1>1, <2>6, <3>2
      <4> QED BY <2>3, <2>5, <4>1
    <3> QED BY <3>1, <3>2
  <2>8. \A k \in 1 .. u - 1 : n[k] \notin Digit
    BY <2>7 DEF Digit
  <2> QED BY <1>1, <2>4, <2>6, <2>8
<1> QED BY <1>2, <1>3

LEMMA LeadingCuts ==
  ASSUME NEW l \in Seq(Character), Len(l) >= 2
  PROVE  \E d \in 1 .. 2 : DropLeading(l) = SubSeq(l, d, Len(l)) /\ Removable(l, d)
<1>1. CASE isValidLeadingChar(l[1])
  <2>1. DropLeading(l) = SubSeq(l, 1, Len(l))
    BY <1>1 DEF DropLeading
  <2> QED BY <2>1 DEF Removable
<1>2. CASE ~isValidLeadingChar(l[1])
  <2>1. DropLeading(l) = SubSeq(l, 2, Len(l))
    BY <1>2 DEF DropLeading
  <2>2. l[1] # "3"
    BY <1>2 DEF isValidLeadingChar
  <2>3. l[1] \in Digit => l[1] = "6"
    BY <2>2 DEF Digit
  <2> QED BY <2>1, <2>3 DEF Removable
<1> QED BY <1>1, <1>2

LEMMA CleanCuts ==
  ASSUME NEW l \in Seq(Character), Len(l) >= 2
  PROVE  \E c \in 1 .. Len(l) + 1 : /\ DropLetter(DropLeading(l)) = SubSeq(l, c, Len(l))
                                    /\ Removable(l, c)
<1> DEFINE n == DropLeading(l)
<1>1. PICK d \in 1 .. 2 : n = SubSeq(l, d, Len(l)) /\ Removable(l, d)
  BY LeadingCuts
<1> HIDE DEF n
<1>2. n \in Seq(Character) /\ Len(n) = Len(l) - d + 1 /\ Len(n) \in Nat /\ Len(l) \in Nat
        /\ \A i \in 1 .. Len(n) : n[i] = l[d + i - 1]
  BY <1>1, Cut
<1>3. PICK u \in 1 .. Len(n) + 1 : /\ DropLetter(n) = SubSeq(n, u, Len(n))
                                   /\ \A k \in 1 .. u - 1 : n[k] \notin Digit
  BY <1>2, LetterCuts
<1>4. SubSeq(n, u, Len(n)) = SubSeq(l, u + d - 1, Len(l))
  <2>1. u \in 1 .. Len(l) - d + 2 /\ Len(n) \in u - 1 .. Len(l) - d + 1 /\ Len(n) + d - 1 = Len(l)
          /\ d \in 1 .. Len(l) + 1
    BY <1>2, <1>3
  <2> QED BY <1>1, <2>1, CutAgain
<1>5. u + d - 1 \in 1 .. Len(l) + 1
  BY <1>2, <1>3
<1>6. Removable(l, u + d - 1)
  <2> SUFFICES ASSUME NEW i \in 1 .. u + d - 1 - 1, l[i] \in Digit PROVE i = 1 /\ l[1] = "6"
    BY DEF Removable
  <2>1. CASE i < d
    BY <1>1, <2>1 DEF Removable
  <2>2. CASE i >= d
    <3>1. i - d + 1 \in 1 .. u - 1 /\ i - d + 1 \in 1 .. Len(n) /\ d + (i - d + 1) - 1 = i
      BY <1>2, <1>3, <2>2
    <3> QED BY <1>2, <1>3, <3>1
  <2> QED BY <2>1, <2>2
<1> QED BY <1>3, <1>4, <1>5, <1>6 DEF n

\* An address of a line lies in its tail, or begins before it.
LEMMA PlaceInTail ==
  ASSUME NEW l \in Seq(Character), NEW c \in 1 .. Len(l) + 1,
         NEW a \in 1 .. Len(l) - c + 1, NEW b \in 1 .. Len(l) - c + 1
  PROVE  <<a, b>> \in Places(SubSeq(l, c, Len(l))) <=> <<a + c - 1, b + c - 1>> \in Places(l)
<1> DEFINE m == SubSeq(l, c, Len(l))
<1>1. Len(l) \in Nat /\ c \in Nat /\ m \in Seq(Character) /\ Len(m) = Len(l) - c + 1
        /\ \A i \in 1 .. Len(m) : m[i] = l[c + i - 1]
  BY Cut
<1> HIDE DEF m
<1>2. a \in 1 .. Len(m) /\ b \in 1 .. Len(m) /\ a + c - 1 \in 1 .. Len(l) /\ b + c - 1 \in 1 .. Len(l)
  BY <1>1
<1>3. <<a, b>> \in Places(m) <=> \E k \in 1 .. Len(m) : AddressAt(m, a, b, k)
  BY <1>1, <1>2, PlaceAt
<1>4. <<a + c - 1, b + c - 1>> \in Places(l) <=> \E k \in 1 .. Len(l) : AddressAt(l, a + c - 1, b + c - 1, k)
  BY <1>2, PlaceAt
<1>5. ASSUME NEW k \in 1 .. Len(m), AddressAt(m, a, b, k)
      PROVE  k + c - 1 \in 1 .. Len(l) /\ AddressAt(l, a + c - 1, b + c - 1, k + c - 1)
  <2>1. a < k /\ k <= b /\ m[k] = "." /\ b - k \in {3, 4}
    BY <1>5 DEF AddressAt
  <2>2. c + k - 1 = k + c - 1 /\ k + c - 1 \in 1 .. Len(l)
    BY <1>1
  <2>3. l[k + c - 1] = "."
    BY <1>1, <2>1, <2>2
  <2>4. ASSUME NEW j \in a + c - 1 .. b + c - 1, j # k + c - 1 PROVE l[j] \in Digit
    <3>1. j - c + 1 \in a .. b /\ j - c + 1 # k /\ j - c + 1 \in 1 .. Len(m) /\ c + (j - c + 1) - 1 = j
      BY <1>1, <1>2, <2>4
    <3>2. m[j - c + 1] \in Digit
      BY <1>5, <3>1 DEF AddressAt
    <3>3. m[j - c + 1] = l[c + (j - c + 1) - 1]
      BY <1>1, <3>1
    <3> QED BY <3>1, <3>2, <3>3, Zenon
  <2> QED BY <1>1, <2>1, <2>2, <2>3, <2>4 DEF AddressAt
<1>6. ASSUME NEW k \in 1 .. Len(l), AddressAt(l, a + c - 1, b + c - 1, k)
      PROVE  k - c + 1 \in 1 .. Len(m) /\ AddressAt(m, a, b, k - c + 1)
  <2>1. a + c - 1 < k /\ k <= b + c - 1 /\ l[k] = "." /\ b + c - 1 - k \in {3, 4}
    BY <1>6 DEF AddressAt
  <2>2. c + (k - c + 1) - 1 = k /\ k - c + 1 \in 1 .. Len(m)
    BY <1>1, <1>2, <2>1
  <2>3. m[k - c + 1] = "." /\ a < k - c + 1 /\ k - c + 1 <= b /\ b - (k - c + 1) \in {3, 4}
    BY <1>1, <2>1, <2>2
  <2>4. ASSUME NEW j \in a .. b, j # k - c + 1 PROVE m[j] \in Digit
    <3>1. c + j - 1 \in a + c - 1 .. b + c - 1 /\ c + j - 1 # k /\ j \in 1 .. Len(m)
      BY <1>1, <1>2, <2>4
    <3>2. l[c + j - 1] \in Digit
      BY <1>6, <3>1 DEF AddressAt
    <3> QED BY <1>1, <3>1, <3>2
  <2> QED BY <2>2, <2>3, <2>4 DEF AddressAt
<1>7. <<a, b>> \in Places(m) => <<a + c - 1, b + c - 1>> \in Places(l)
  BY <1>3, <1>4, <1>5
<1>8. <<a + c - 1, b + c - 1>> \in Places(l) => <<a, b>> \in Places(m)
  BY <1>3, <1>4, <1>6
<1> QED BY <1>7, <1>8 DEF m

\* AddressFound of any line.
FoundIn(l) ==
  LET found == tryExtractDetectorAddress(Clean(l))  first == FirstAddress(l) IN
  \/ found = first
  \/ /\ first # <<>>
     /\ \/ /\ FirstPlace(l)[2] = Len(l)
           /\ found = SubSeq(first, 1, Len(first) - 1) /\ IsAddress(found)
        \/ FirstPlace(l)[1] = 1 /\ first[1] = "6"

LEMMA NothingIn == tryExtractDetectorAddress(<<>>) = <<>>
<1>1. Dots(<<>>) = {}
  BY DEF Dots
<1> QED BY <1>1 DEF tryExtractDetectorAddress

LEMMA FoundInAny == ASSUME NEW l \in Seq(Character) PROVE FoundIn(l)
<1> DEFINE n == Len(l)
<1>1. n \in Nat
  OBVIOUS
<1>2. CASE n < 2
  <2>1. Dots(l) = {}
    BY <1>1, <1>2 DEF Dots
  <2>2. Clean(l) = <<>>
    BY <1>2 DEF Clean
  <2> QED BY <2>1, <2>2, SearchFails, NothingIn DEF FoundIn, FirstAddress
<1>3. CASE n >= 2
  <2>1. PICK c \in 1 .. n + 1 : DropLetter(DropLeading(l)) = SubSeq(l, c, n) /\ Removable(l, c)
    BY <1>3, CleanCuts
  <2> DEFINE m == SubSeq(l, c, n)
  <2>2. m \in Seq(Character) /\ Len(m) = n - c + 1
    BY Cut
  <2>3. Clean(l) = IF Len(m) < 2 THEN <<>> ELSE m
    <3>1. ~(n < 2)
      BY <1>1, <1>3
    <3> QED BY <2>1, <3>1, Zenon DEF Clean
  <2> HIDE DEF m
  <2>4. ASSUME NEW a \in 1 .. Len(m), NEW b \in 1 .. Len(m)
        PROVE  <<a, b>> \in Places(m) <=> <<a + c - 1, b + c - 1>> \in Places(l)
    BY <2>2, PlaceInTail DEF m
  <2>5. \A q \in Places(m) : \E a, b \in 1 .. Len(m) : q = <<a, b>> /\ b - a >= 3
    <3> SUFFICES ASSUME NEW q \in Places(m) PROVE \E a, b \in 1 .. Len(m) : q = <<a, b>> /\ b - a >= 3
      OBVIOUS
    <3>1. PICK a, b, k \in 1 .. Len(m) : q = <<a, b>> /\ AddressAt(m, a, b, k)
      BY <2>2, PlaceIs
    <3> QED BY <3>1 DEF AddressAt
  <2>6. CASE Dots(l) = {}
    <3>1. Places(l) = {}
      BY <2>6, SearchFails
    <3>2. Dots(m) = {}
      <4> SUFFICES ASSUME Dots(m) # {} PROVE FALSE
        OBVIOUS
      <4>1. Places(m) # {}
        BY <2>2, SearchFinds
      <4>2. PICK q \in Places(m) : TRUE
        BY <4>1
      <4>3. PICK a, b \in 1 .. Len(m) : q = <<a, b>>
        BY <2>5
      <4> QED BY <2>4, <3>1, <4>3
    <3>3. tryExtractDetectorAddress(Clean(l)) = <<>>
      BY <2>2, <2>3, <3>2, SearchFails, NothingIn
    <3> QED BY <3>1, <3>3 DEF FoundIn, FirstAddress
  <2>7. CASE Dots(l) # {}
    <3>1. PICK s, f, k \in 1 .. n :
            /\ <<s, f>> \in Places(l) /\ FirstPlace(l) = <<s, f>> /\ AddressAt(l, s, f, k)
            /\ \A q \in Places(l) : s < q[1] \/ (s = q[1] /\ f >= q[2])
      <4>1. PICK s, e, f \in 1 .. n :
            /\ <<s, f>> \in Places(l) /\ FirstPlace(l) = <<s, f>>
            /\ \A q \in Places(l) : s < q[1] \/ (s = q[1] /\ f >= q[2])
        BY <2>7, SearchFinds, Zenon
      <4>2. PICK a, b, k \in 1 .. n : <<s, f>> = <<a, b>> /\ AddressAt(l, a, b, k)
        BY <4>1, PlaceIs
      <4>3. AddressAt(l, s, f, k)
        BY <4>2
      <4> QED BY <4>1, <4>3
    <3> DEFINE first == SubSeq(l, s, f)
    <3>2. FirstAddress(l) = first /\ FirstPlace(l)[1] = s /\ FirstPlace(l)[2] = f
      BY <3>1 DEF FirstAddress
    <3>3. s < k /\ k <= f /\ f - k \in {3, 4} /\ l[s] \in Digit
      BY <3>1 DEF AddressAt
    <3>4. first \in Seq(Character) /\ Len(first) = f - s + 1 /\ \A i \in 1 .. f - s + 1 : first[i] = l[s + i - 1]
      BY <3>3, Cut
    <3> HIDE DEF first
    <3>5. first # <<>>
      BY <3>3, <3>4
    <3>6. CASE s < c
      <4>1. s = 1 /\ l[1] = "6"
        BY <2>1, <3>3, <3>6 DEF Removable
      <4>2. first[1] = "6"
        BY <3>3, <3>4, <4>1
      <4> QED BY <3>2, <3>5, <4>1, <4>2 DEF FoundIn
    <3>7. CASE s >= c
      <4> DEFINE a == s - c + 1
                 b == f - c + 1
      <4>1. a \in 1 .. Len(m) /\ b \in 1 .. Len(m) /\ a + c - 1 = s /\ b + c - 1 = f /\ b - a >= 3
        BY <1>1, <2>2, <3>3, <3>7
      <4>2. <<a, b>> \in Places(m)
        BY <2>4, <3>1, <4>1
      <4>3. Clean(l) = m
        BY <2>2, <2>3, <4>1
      <4>4. \A q \in Places(m) : a < q[1] \/ (a = q[1] /\ b >= q[2])
        <5> SUFFICES ASSUME NEW q \in Places(m) PROVE a < q[1] \/ (a = q[1] /\ b >= q[2])
          OBVIOUS
        <5>1. PICK x, y \in 1 .. Len(m) : q = <<x, y>>
          BY <2>5
        <5>2. <<x + c - 1, y + c - 1>> \in Places(l)
          BY <2>4, <5>1
        <5>3. s < x + c - 1 \/ (s = x + c - 1 /\ f >= y + c - 1)
          BY <3>1, <5>2
        <5> QED BY <1>1, <4>1, <5>1, <5>3
      <4>5. FirstPlace(m) = <<a, b>>
        BY <2>2, <4>1, <4>2, <4>4, FirstIs
      <4>6. Dots(m) # {}
        BY <2>2, <4>2, SearchFails
      <4>7. PICK t, e, g, i \in 1 .. Len(m) :
              /\ tryExtractDetectorAddress(m) = SubSeq(m, t, e) /\ AddressAt(m, t, e, i)
              /\ FirstPlace(m) = <<t, g>> /\ (g = e \/ (g = e + 1 /\ g = Len(m)))
        BY <2>2, <4>6, SearchFinds, Zenon
      <4>8. t = a /\ g = b
        BY <4>5, <4>7
      <4>9. AddressAt(m, a, e, i) /\ a < i /\ i <= e /\ e - i \in {3, 4}
        BY <4>7, <4>8 DEF AddressAt
      <4>10. SubSeq(m, a, e) = SubSeq(l, s, e + c - 1)
        <5>1. a \in 1 .. n - c + 2 /\ e \in a - 1 .. n - c + 1
          BY <1>1, <2>2, <4>1, <4>9
        <5> QED BY <4>1, <5>1, CutAgain DEF m
      <4>11. tryExtractDetectorAddress(Clean(l)) = SubSeq(l, s, e + c - 1)
        BY <4>3, <4>7, <4>8, <4>10
      <4>12. CASE b = e
        <5>1. e + c - 1 = f
          BY <4>1, <4>12
        <5> QED BY <3>2, <4>11, <5>1 DEF FoundIn, first
      <4>13. CASE b = e + 1 /\ b = Len(m)
        <5>1. f = n /\ e + c - 1 = f - 1
          BY <1>1, <2>2, <4>1, <4>13
        <5>2. SubSeq(l, s, f - 1) = SubSeq(first, 1, Len(first) - 1)
          <6>1. /\ s \in 1 .. n + 1 /\ 1 \in 1 .. n - s + 2 /\ Len(first) - 1 \in 0 .. n - s + 1
                /\ 1 + s - 1 = s /\ Len(first) - 1 + s - 1 = f - 1
            BY <1>1, <3>3, <3>4, <5>1
          <6>2. first = SubSeq(l, s, n)
            BY <5>1 DEF first
          <6>3. SubSeq(SubSeq(l, s, n), 1, Len(first) - 1) = SubSeq(l, 1 + s - 1, Len(first) - 1 + s - 1)
            BY <6>1, CutAgain
          <6> QED BY <6>1, <6>2, <6>3, Zenon
        <5>3. IsAddress(SubSeq(m, a, e))
          BY <2>2, <4>1, <4>9, AddressIs
        <5> QED BY <3>2, <3>5, <4>10, <4>11, <5>1, <5>2, <5>3 DEF FoundIn
      <4> QED BY <4>7, <4>8, <4>12, <4>13
    <3> QED BY <1>1, <3>6, <3>7
  <2> QED BY <2>6, <2>7
<1> QED BY <1>1, <1>2, <1>3

LEMMA LineTyped == TextInit /\ [][TextNext]_chars => [](chars \in Seq(Character))
<1>1. TextInit => chars \in Seq(Character)
  BY DEF TextInit
<1>2. chars \in Seq(Character) /\ [TextNext]_chars => (chars \in Seq(Character))'
  <2> SUFFICES ASSUME chars \in Seq(Character), [TextNext]_chars PROVE chars' \in Seq(Character)
    OBVIOUS
  <2>1. CASE Clear
    BY <2>1 DEF Clear
  <2>2. ASSUME NEW x \in Char, Receive(x) PROVE chars' \in Seq(Character)
    <3>1. x \in Character
      BY CharAssumption DEF Character
    <3> QED BY <2>2, <3>1 DEF Receive
  <2> QED BY <2>1, <2>2 DEF TextNext
<1> QED BY <1>1, <1>2, PTL

\* Of a line of any length tryExtractDetectorAddress finds the first address in full, but
\* for a fourth digit at the end of the line and an address that begins it with a 6.
THEOREM AddressesAreFound == TextSpec => []AddressFound
<1>1. chars \in Seq(Character) => AddressFound
  BY FoundInAny, Zenon DEF FoundIn, AddressFound
<1> QED BY <1>1, LineTyped, PTL DEF TextSpec

==============================================================================
