----------------------------- MODULE UsbEvents -----------------------------
(***************************************************************************)
(* How usbTask groups the lines of the fire panel into events, hands each  *)
(* event to queueEmail, and attributes detector addresses to smoke alarms  *)
(* (SerialFTDI::processLine and checkTimeout in usb_task.cpp).             *)
(*                                                                         *)
(* A line is reduced to what the code asks of it: does it hold a timestamp *)
(* (head), does it say SUITSUHAIRE (smoke), does it hold an address.  The  *)
(* lines are numbered as they come; a number also stands for the timestamp *)
(* and the subject a header holds, and 0 for none.  LineText shows how an  *)
(* address is found.  Left out are the text of the mails, the diagnostic   *)
(* report, and what queueEmail does with an event: its result is ignored.  *)
(***************************************************************************)
EXTENDS Integers, Sequences, SequencesExt

CONSTANTS
  Line,     \* kinds of line
  MaxLines  \* bound: lines in one behaviour

ASSUME LineAssumption ==
  /\ Line \subseteq [head : BOOLEAN, smoke : BOOLEAN, address : BOOLEAN]
  /\ MaxLines \in Nat

VARIABLES
  currentEvent,                    \* its lines
  currentSubject,
  currentEventHasTimestampHeader,
  currentEventIsSmokeAlarm,
  currentTimestamp,                \* also stands for lastGoodTimestamp
  silent,                          \* 5 s have passed since lastEventTime
  (* history *)
  lines,      \* the lines so far
  mails,      \* the events handed to queueEmail
  sightings   \* calls of addOrUpdateDetector: the line, the timestamp given

state   == <<currentEvent, currentSubject, currentEventHasTimestampHeader,
             currentEventIsSmokeAlarm, currentTimestamp, silent>>
vars    == <<state, lines, mails, sightings>>

Number == 0 .. MaxLines
Mail   == [subject : Number, stamp : Number \cup {-1}, body : Seq(Number)]

TypeOK ==
  /\ currentEvent \in Seq(Number) /\ currentSubject \in Number
  /\ currentEventHasTimestampHeader \in BOOLEAN /\ currentEventIsSmokeAlarm \in BOOLEAN
  /\ currentTimestamp \in Number /\ silent \in BOOLEAN
  /\ lines \in Seq(Line) /\ Len(lines) <= MaxLines
  /\ mails \in Seq(Mail) /\ sightings \subseteq Number \X Number

------------------------------------------------------------------------------
Init ==
  /\ currentEvent = <<>> /\ currentSubject = 0
  /\ currentEventHasTimestampHeader = FALSE /\ currentEventIsSmokeAlarm = FALSE
  /\ currentTimestamp = 0 /\ silent = FALSE
  /\ lines = <<>> /\ mails = <<>> /\ sightings = {}

\* The mail of the current event; stamp -1 is a mail without TIMESTAMP line.
EventMail(stamp) == [subject |-> currentSubject, stamp |-> stamp, body |-> currentEvent]

OwnStamp(l, n) == IF l.head THEN n ELSE currentTimestamp

\* mutant of Sighted: the flag of an earlier event is never dropped
Sticky(l) == l.address /\ \E k \in DOMAIN lines : lines[k].head /\ lines[k].smoke
Sighted(l) == l.address /\ currentEventIsSmokeAlarm

\* A header ends the current event and starts its own.
Header(l, n) ==
  /\ currentEventIsSmokeAlarm' = l.smoke /\ currentTimestamp' = n
  /\ mails' = IF currentEvent # <<>> THEN Append(mails, EventMail(-1)) ELSE mails
  /\ currentEventHasTimestampHeader' = TRUE
  /\ currentEvent' = <<n>> /\ currentSubject' = n

\* mutant of Body: a line that follows no header starts afresh
Restarted(n) ==
  /\ currentEvent' = IF currentEventHasTimestampHeader THEN Append(currentEvent, n) ELSE <<n>>
  /\ UNCHANGED <<currentEventIsSmokeAlarm, currentTimestamp, mails,
                 currentEventHasTimestampHeader, currentSubject>>

Body(n) ==
  /\ currentEvent' = Append(currentEvent, n)
  /\ UNCHANGED <<currentEventIsSmokeAlarm, currentTimestamp, mails,
                 currentEventHasTimestampHeader, currentSubject>>

\* The address is looked for before the line is known to be a header.
processLine(l) ==
  /\ Len(lines) < MaxLines /\ lines' = Append(lines, l)
  /\ LET n == Len(lines) + 1 IN
       /\ sightings' = sightings \cup IF Sighted(l) THEN {<<n, OwnStamp(l, n)>>} ELSE {}
       /\ IF l.head THEN Header(l, n) ELSE Body(n)
  /\ silent' = FALSE

PassTime ==
  /\ ~silent /\ silent' = TRUE
  /\ UNCHANGED <<currentEvent, currentSubject, currentEventHasTimestampHeader,
                 currentEventIsSmokeAlarm, currentTimestamp, lines, mails, sightings>>

\* mutant of Ended: the subject stays
KeepSubject ==
  /\ currentEvent' = <<>> /\ UNCHANGED currentSubject
  /\ currentEventHasTimestampHeader' = FALSE

Ended ==
  /\ currentEvent' = <<>> /\ currentSubject' = 0
  /\ currentEventHasTimestampHeader' = FALSE

\* mutant of TimedOut: an event without header waits for one
HeaderOnly == silent /\ currentEventHasTimestampHeader
TimedOut   == silent /\ currentEvent # <<>>

checkTimeout ==
  /\ TimedOut
  /\ mails' = Append(mails, EventMail(IF currentEventHasTimestampHeader
                                      THEN -1 ELSE currentTimestamp))
  /\ Ended
  /\ UNCHANGED <<currentEventIsSmokeAlarm, currentTimestamp, silent, lines, sightings>>

Next == PassTime \/ checkTimeout \/ \E l \in Line : processLine(l)

Spec == Init /\ [][Next]_vars

------------------------------------------------------------------------------
(* Properties *)

\* The last header before line n, 0 if there is none.
HeaderBefore(n) == Max({k \in 1 .. n - 1 : lines[k].head} \cup {0})

\* Every line goes into exactly one event, in order, whatever headers and
\* timeouts do: the events handed over and the one at hand make up all lines.
LinesInOrder ==
  FlattenSeq([k \in DOMAIN mails |-> mails[k].body]) \o currentEvent
    = [n \in DOMAIN lines |-> n]

\* A mail is one event: a header comes first or not at all, the subject is
\* that of this header, and a TIMESTAMP line names the header before it.
MailIsOneEvent ==
  \A k \in DOMAIN mails : LET m == mails[k]  first == Head(m.body) IN
    /\ m.body # <<>>
    /\ \A j \in 2 .. Len(m.body) : ~lines[m.body[j]].head
    /\ m.subject = IF lines[first].head THEN first ELSE 0
    /\ m.stamp # -1 => ~lines[first].head /\ m.stamp = HeaderBefore(first)

\* The lines that are followed up: they hold an address, and the header before
\* them is that of a smoke alarm.
AlarmLines == {n \in DOMAIN lines : lines[n].address /\ HeaderBefore(n) # 0
                                     /\ lines[HeaderBefore(n)].smoke}

\* Exactly the detectors of these lines are reported, with the timestamp of
\* their line or of that header, whatever timeouts came between.  (So the
\* address on an alarm's own header is never reported, and the one on the
\* header after it is: the flag still is that of the event before.)
SightingsInAlarm ==
  sightings = {<<n, IF lines[n].head THEN n ELSE HeaderBefore(n)>> : n \in AlarmLines}

\* Every event is handed over once the panel is silent (checked where
\* checkTimeout has its place in usbTask's loop, in UsbReceive).
EventHandedOver == currentEvent # <<>> ~> currentEvent = <<>>

==============================================================================
