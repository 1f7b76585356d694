# A formal model of the VAO22 fire-panel gateway

The repository is the firmware of an ESP32-S3 board that reads the printer
output of a fire-alarm panel over USB, turns it into e-mails, keeps a list of
the smoke detectors it has seen, and takes commands over MQTT. This directory
holds TLA+ modules that model its logic, TLC configurations that check them on
small instances, and proofs that TLAPS checks for instances of every size.

## The system

Tasks (all created in `vao23.ino`, FreeRTOS, two cores):

| task | runs | touches |
|---|---|---|
| `setup()` | loadConfig, initStorage, recoverEmailQueue, initDetectorStorage, ethernetConnect, initEmailSystem, mqttSetup, then creates the tasks | everything, alone |
| `loop()` | mqttLoop, serial console, processPendingCommands, once a second | MQTT session, detector list, mail queue |
| `emailTask` | processQueue, handleHourlyCheck, every 10 s | mail queue, SMTP session |
| `usbTask` | USB reception, checkTimeout, every 10 ms | event text, detector list, mail queue |
| `ethernetTask` | ethernetOK, reconnect, time sync, every 5 s | link state, wall clock |

They share four mutexes: `sdMutex` and `ethMutex`, each taken together with
`spiMutex` (`lockSD`, `lockEthernetBus`), and `emailMutex` around one round of
`emailTask`. All but `markSent` give up after a timeout, and each caller does
something else when they do.

| component | state | operations | what makes it correct |
|---|---|---|---|
| mail queue (`email_queue.cpp`) | `/queue/<id>.json` with `.tmp`, `.bak`, `.lock`; `/hash/<h>.pending`, `.ok`; `/sent`, `/failed` | queueEmail, the scan, claim, send, markSent, scheduleRetry, markPermanentFailure, recoverEmailQueue | no accepted mail lost, no text sent twice unknowingly, no marker without a mail, retries counted, every mail leaves the queue |
| retry clock (`retryDelayMs`, `isDue`) | `retry`, `nextDelayMs`, `lastAttemptMs` on the card; `millis()` in RAM | back-off, due test, stale test | a back-off ends, also when `millis()` wraps or restarts at 0 |
| storage locks (`storage.cpp`, `ethernet_manager.cpp`) | three mutexes | lockSPI, lockSD, lockEthernetBus and their unlocks, with timeouts | exclusion, no deadlock, an SMTP session is never cut into |
| detector list (`detector_manager.cpp`) | `detectorMap`, `/detectors.txt`, `/removal_reasons.txt` | init, add or update, remove, clear, report | the file follows the map, also across reboots and refused locks |
| line text (`usb_task.cpp`) | one line | cleaning, address extraction | an address is found whole and survives the cleaning |
| event grouping (`usb_task.cpp`) | current event, smoke flag, timestamps | processLine, checkTimeout | every line ends up in one mail, a detector is attributed to the event it stands in |
| MQTT (`mqtt_manager.cpp`) | session over the shared `ethClient`, command ring of 10 | reconnect, loop, callback, commands | commands in order, the session is re-made after a mail, no mail's conversation is disturbed, the retained status is right |
| time (`time_manager.cpp`) | wall clock, `lastCheckHour` | sync, summer time, hourly check | one check per hour, none missed, local time right |
| link (`ethernet_manager.cpp`) | `ethConnected`, `timeInitialized` | connect, check, monitor | reconnects, resyncs |
| USB host (`lib/EspUsbHost`) | device, transfers, driver state | attach, configure, receive, detach | a driver is never used after it is gone |
| log, configuration | `/logs/log.txt`, settings | append, load | pure input and output |
| SMTP client (`lib/ReadyMail`) | state of the dialogue, status code, capabilities | connect, authenticate, send, each a loop of reads and steps | a mail reported sent was accepted, one reported failed was not, but for the last answer; every session ends |
| TLS (`lib/ESP_SSLClient`, with BearSSL) | vendored | connect, connected, write, stop | its effect on the shared socket is in `MqttSession`; its cryptography is not modelled |

They interact by calls: `usbTask`, `loop` and `emailTask` call `queueEmail` and
the detector operations directly; the only queues are the mail files and the
MQTT command ring. The hard part is everything a test bench seldom shows: a
restart between two card operations, a full or failing card, a lock that is not
obtained because an SMTP session of a minute holds it, a reply that is lost
after the server took the mail, and the order in which tasks reach shared
state. `PROJECT.json` lists each such place under `hazards`.

## Modules

Every module with state has a type invariant, `TypeOK` (`ReceiveTypeOK` in
`UsbReceive`). All are proved for every instance (see Proofs), so that no run
checks them.

### MailQueue

One module for the mail queue, because its guarantees are about all of its
operations together. A mail is an element of `Id`; its text is reduced to its
hash `HashOf[i]`, which is all the queue compares. `json[i]` is the queue file:
absent (`NoFile`), unreadable (`Corrupt`) or an `Entry` with the retry count (8
bits wide) and the in-flight flag. `bak`, `tmp`, `lockFile`, `pending`,
`okHash`, `sentFile` and `failedDir` are the other files of the card.

* `writeQueuedMailLocked` is a little sequential process (`wpc`) of four card
  operations; its callers start it with `BeginWrite` and take its result.
* `queueEmail` (`qpc`) stands for whichever task calls it. A refusal changes
  nothing and so is not a step.
* `emailTask` (`epc`) goes through the scan, the second read, the claim, the
  session, and one of `markSent`, `scheduleRetry`, `markPermanentFailure`. Each
  `lockSD` ... `unlockSD` section is exclusive (`SdFree`), and other tasks may
  take the card between two sections.
* `recoverEmailQueue` is the same process in its `boot` state, before any task
  exists; `Reboot` may strike in every state and resets what is in RAM.
* `Faults` says which operations of the card may fail: opening a file, filling
  it (a full card cuts it short), renaming it, getting the lock.

History variables record what no part of the program sees: which texts reached
a server (`delivered`, `again`), when the card cannot know of it (`doubt`), and
the holes through which a mail or a marker can go astray (`cut`, `torn`,
`orphan`, `gaveUp`). They are exact: each is set in the one step in which the
program does the thing, and the invariants say nothing goes wrong elsewhere.

Time is left out. Whether a back-off has ended or a claim has grown stale is a
free choice of the scan, so the safety properties hold for any clock. Failing
removals are not modelled: the code ignores their result everywhere.

| property | says |
|---|---|
| `AcceptedNotLost` | after `queueEmail` returned true the text is on the card, delivered, in `/failed`, given up on, or lost in one of two named holes |
| `NoSilentDuplicate` | a text is delivered twice only after a lost reply, a restart before the `.ok` marker, or a marker that could not be opened |
| `PendingBacked` | a `.pending` marker blocks a text only while a mail stands behind it, or after a recorded leak |
| `ClaimBeforeSend` | a session is open only for a mail the card shows as claimed with the count it started from |
| `AttemptsCounted` | the count on the card is never behind the sessions begun |
| `EveryMailLeavesQueue` | every mail taken into keeping is in the end no longer kept, under its own name, in a `.bak` or by a writer at work: it was sent, given up on or set aside (stated on the mapping of `MailQueueService`, since a rewrite takes the file itself away for a moment) |

Runs (`MCMailQueue`, which extends `MailQueueService`):

| run | instance | why it is enough |
|---|---|---|
| `mail_crash` | two mails of one text, retry limit 2, two mishaps, no card faults, fairness | the second mail meets every state of the first; two mishaps reach a restart inside the recovery of a restart, and a restart after a lock timeout; checks the refinement (`Implements`) and `EveryMailLeavesQueue` too |
| `mail_faults` | the same mails, every fault, one mishap | every fault of every operation, combined with a restart at any point |

More mails and texts are not run: the safety properties and the refinement are
proved for any number of them. `RetryMod` is 256 as in the code; the counts stay
small because `MaxRetry` and `MaxMishap` are.

Fairness (`FairSpec`): weak fairness of the writer, of `queueEmail`'s end, of
recovery and of `emailTask`, which FreeRTOS gives every task that is ready and
which assumes that a session ends (the client has timeouts) and that the link
comes up again and again (`emailTask` skips its round while it is down). Strong
fairness of `ScanPick` and `ScanStale` says that a back-off, at most 30 minutes,
and the 15 minutes of a stale claim run out although a scan may come too early
any number of times.

### MailService, MailQueueService

`MailService` is what the tasks that call `queueEmail` may count on. A mail is
`New`, `Gone` or in keeping, and then it is known by the number of times the
service has set out to send it. `accepted`, `attempts`, `delivered`, `settled` and
`mishaps` are the rest of the state. The promise: a text is taken once while it is
kept and not again after it was sent, no session without a try, at most
`MAX_RETRY_COUNT` tries and one more per mishap, a mail leaves because it is settled
or because its tries are used up, and `Gone` is final. What a mishap or a failing
operation of the card may cost is in the actions:

| action | what it may cost |
|---|---|
| `Mishap` | at most one mail in keeping, and the call it interrupts the file it had not yet put in place |
| `Spoil` | with a failed open, rename or short write, the mail whose file it is |
| `Accept` | with short writes, a yes for a mail whose text was cut and is gone |
| `Release` | when the `.ok` marker could not be written, the knowledge that the text was sent |
| `Take` | after a restart that could not put a `.pending` marker back, a second copy of a text |

`MailQueueService` maps the card to it. `Keeping` is the try in RAM while
`emailTask` has one begun, else what the readable file of the mail says (its count,
plus a claim that is not counted yet), else the `.bak` of the write at work; a `.bak`
nobody will rename keeps nothing. `settled` is the set of `.ok` markers.
`Implements` says that every behaviour of `MailQueue` is one of `MailService` under
this mapping. It is proved for every fault set and any number of mails; the run
`mail_crash` checks it on a card that does not fail, where `MailService` is strictest
(`Spoil` and the second halves of `Accept`, `Release` and `Take` are off).

### DetectorStore

`detectorMap` in RAM, `/detectors.txt` and `/removal_reasons.txt` on the card,
and the two tasks that change them: `usbTask` (`Sight`) and `loop` with the MQTT
commands (`ManualAdd`, `RemoveBegin`, `ClearMap`). Each task is a small process
(`pc`): the map is changed outside any lock, the file is opened (which empties
it), the map is copied and sorted, the lines reach the card at `close`. An open
list file is the SD section; `SdFree` is the lock. A task keeps a reference into
the map between `AddFind` and `AddCount`; `valid` says that its entry still
exists, otherwise the count is lost. What concurrent changes of a `std::map` do
to the heap cannot be expressed and is not modelled.

History variables name the holes: `dirty` (the map changed and the card does not
follow), `lost` (acknowledged addresses taken by a restart during a write, by a
clear or by a start without readable file), `excused` (addresses that need no
report), `unexplained` (erasures whose reason could not be written).

| property | says |
|---|---|
| `FileFollowsMap` | when both tasks are done the file is the map, unless a write was refused or a clear wiped what was added meanwhile |
| `ListKept` | an address added with success is in the list until removed, across restarts, but for `lost` |
| `NoGhost` | an address removed with success does not come back, from another task's copy or from the card |
| `DiscoveryLogged` | what is on the card was reported as discovered, but for `excused` |
| `ReasonBeforeErase` | a detector is erased only after its reason was saved ("Save removal reason before erasing", `detector_manager.cpp`), or after the lock or the file was refused |

The run `det_follow` has two addresses, all commands, refused locks and opens,
five operations and one restart: both tasks can be in each operation at once and
more follow.

Addresses are symmetric. `CHECK_DEADLOCK FALSE`: the bound `MaxOps` ends a
behaviour, here and with `MaxLines`, `MaxLength` and a mail that has left.

Three places where the code does less than the CHANGELOG says are holes of
the properties: a restart between the opening of the list file, which empties
it, and its closing loses the whole list (`lost`, against "Detector list
persists across reboots"); a detector added between the two halves of a clear stays in the
map without a line in the file (`dirty` in `ClearFiles`), and one whose first
write was refused is stored by the next and never reported (`excused`).

### RetryClock

One mail and the clock, which `MailQueue` leaves out. `now` is `millis()` modulo
`Mod` (2^32 in the code), `next` and `last` are the stored times, and `phase`
says whether the mail is queued, in a session, claimed without a session, or
gone. `Stored` models how ArduinoJson reads the times back: `doc[...] | 0` has
an `int` default, so a value of 2^31 or more reads as 0. `Restart` sets `now` to
0 and leaves the card alone, as `recoverEmailQueue` finds it.

| property | says |
|---|---|
| `BackoffDoubles` | with an even maximum `retryDelayMs` doubles up to it and does not overflow, also for counts beyond the limit |
| `BackoffKept` | no mail is picked before its back-off has passed, restarts included, unless the back-off reached across the wrap or its end does not fit into an int |
| `DueOnTime` | a passed back-off makes the mail due, unless a restart put `millis()` back or it wrapped while the mail was due |
| `StaleKept` | a claim is released only after the stale time, across the wrap, while its time fits into an int |
| `WaitEnds` | every wait for a back-off or a stale claim ends |

So the behaviour the code shows after 24.8 days of uptime (stored times read as
0: retries at once, every claim stale), after 49.7 days (the wrap) and after a
restart (a wait of up to the old uptime) is named in the properties. The run
`clock` scales the numbers: `Mod` 18, back-offs 1, 2, 4, 6, stale after 3 (the
code's maximum is twice its stale time too), one restart, both counters wrap.
`Horizon` only stops the history variable `since`. Fairness is that of `Tick`
alone: time passes. `MaxRestart` matters: with a restart before every due time a
mail would wait for ever. The code never reaches its 30-minute maximum through
`scheduleRetry`, as `MAX_RETRY_COUNT` is 5; stale releases get there.

### LineText

The characters of one line: `Clean` is what `processLine` strips off it,
`tryExtractDetectorAddress` the search. A character is a digit (6 is one that
`isValidLeadingChar` leaves out, 3 stands for the others), a dot, a capital or a
space. The line grows character by character, so every line of up to
`MaxLength` is met. Finding a timestamp in a line is not modelled; garbage bytes
are in `UsbReceive`.

| run | length | shows |
|---|---|---|
| `text_scan` | 8 | `AddressFound`: in the cleaned line the search finds the first address of the panel's line in full, compared with a definition by all places in the line, but for a fourth digit at the very end and for an address that begins the line with 6 |
| `text_format` | 6 | `AddressAlone` (the comment's "one or more digits, dot, three or four digits (e.g., 3.031, 10.0042)") fails: a line that is just an address loses a leading 6, and its fourth digit if that ends the line |

Eight characters hold every shape: two digits, dot, four digits and a character
behind, or a letter and a space before.

### UsbEvents

Lines to events to mails. A line is what the code asks of it: is it a header (it
holds a timestamp), does it say SUITSUHAIRE, does it hold an address. Lines are
numbered; the number stands for the text, the timestamp and the subject.
`processLine` and `checkTimeout` are the two handlers, both run by `usbTask`, and
`PassTime` lets the 5 s of silence pass. `queueEmail` gets every event (`mails`);
its result is ignored by the code and not modelled.

| property | says |
|---|---|
| `LinesInOrder` | the events handed over and the current one make up all lines, in order, each once |
| `MailIsOneEvent` | a mail has at most one header, its first line; the subject is this header's, a TIMESTAMP line names the last header before |
| `SightingsInAlarm` | exactly the addresses behind the header of a smoke alarm are reported, however many timeouts came between; the header itself is missed and the next header counted in, because the address is looked for before the flag is updated |
| `EventHandedOver` | every event is handed over once the panel is silent (checked by the run `receive`, where `checkTimeout` has its place in the task's loop) |

The run `usb` takes every sequence of five lines of six kinds, with timeouts
anywhere between them.

### UsbReceive

From the cable to the line, on top of `UsbEvents`: the loop of `usbTask` with
`EspUsbHost::task` and its client events, the one receive transfer of the FTDI
driver and its resubmission, and `SerialFTDI::onReceive`. The panel sends a line
as two halves and a CR, noise may come in between; the chip holds `FifoSize` of
these pieces and drops the rest. `step` is where the loop is, `data` the pieces
a transfer has brought, `conn` numbers the connections so that what belongs to
an old one can be told. What fails when a device is set up is not tried again, as in
the code, and an endpoint halted by an error stays so until the cable is pulled.

| property | says |
|---|---|
| `OneConnection` | transfers are those of the open device, and a line is never put together from two connections |
| `HandedWhole` | a line given to `processLine` is whole and in order unless it lost a piece: in the chip, to `handleGarbage`, or with the cable |
| `BytesAreRead` | bytes in the chip are read, however often the cable was pulled, unless the device was not set up or its endpoint halted |
| `EventHandedOver` | as above, now with a loop that is busy receiving |

The run `receive` has two lines, a chip of two pieces, two connections, two
characters of noise (one tolerated, five in the code) and one fault. Fairness:
`usbTask` goes on (weak), time passes (weak), and a chip with bytes answers a
transfer that is submitted again and again (strong).

`onNew` drops the half line but not the event at hand, so an event may span two
connections, and `garbageCount` is a static that no line resets: both are in the
model. Left out: a cable pulled before its NEW_DEV event is handled, when
`usb_host_get_device_descriptor` fails and the uninitialised `dev_desc` is read
(`EspUsbHost.cpp:41`), and `"Baud rate: " + BAUD_RATE` (`usb_task.cpp:206`, 497),
which adds an integer to a pointer: neither has a meaning in the language to
translate.

### MqttSession

One socket, `ethClient`, and three tasks. `loop` (`mqttLoop`) keeps an MQTT session
on it; `emailTask` takes the bus, disconnects MQTT, speaks SMTP over the same
socket and makes the session anew; `ethernetTask` resets the chip when it has no
address or cannot get the bus for 2 s. `pc` says where each task is, `Section` which
places lie between `lockEthernetBus` and `unlockEthernetBus`; `sock` is what the
socket is connected to ("half" is TCP whose TLS failed, "mute" a peer that is gone
without a word), `tls` and `mq` what the two layers above believe, `sess` and `status`
the session and the retained status as the broker sees them.

| property | says |
|---|---|
| `SmtpUndisturbed` | no task writes into a mail's conversation or closes it, but for a publish that had passed its `connected()`, or the stop of a lost session that had passed its look at `_secure`, when the mail disconnected |
| `CommandsInOrder` | commands are worked off in order and once; the others are on their way or were lost with the session that carried them |
| `StatusHonest` | a session that works has the status "online", or will have it when the task that made it has published; "online" without a session is left only by a DISCONNECT for a mail |
| `SessionComesBack` | whenever there is no working session at the broker, whether the device knows it or not, there is one again later that has said "online" |

`connected()` and `stop()` take the bus only when their caller does, so each is in the
steps the tasks can come between. `connected()` asks the socket (`FindsDown`) and its
own state later (`Dropping`); if it knew of a session it stops the TLS client, which
looks at `_secure` (`Stopping`, `SSLClient.h:488`) and then stops the socket (line
514), whatever that is by now: first a FIN and a wait for the other side (`Stopped`),
then the close (`Dropped`). A publish is a check and a write. `crossed` notes that
`loop()` stood behind one of these checks when a mail disconnected, `disturbed` that
the mail's conversation was written into or closed. A publish that finds the socket
down goes through the same steps; after a heartbeat, the last thing `mqttLoop` does,
they are those of its beginning, and of the next round's (`Site`). `sess` is "parted"
after a DISCONNECT, "ghost" while the broker has not noticed a loss, "none" after the
will.

The run `link` has two commands (ping, reboot), a ring of two, one fault, and mails
and chip resets without end (160,702 states); it also shows the absence of deadlock.
More faults or commands repeat these situations, since a session that was lost is
made by the same steps whatever ended it, and the safety properties are proved for
any number. Fairness: the three tasks run and a mail's session ends (`SmtpSession`,
weak). Strong fairness says that the bus is free most of the time, so that `loop()`
looks at the connection, finds that it must reconnect and takes the bus at some time
when it is free; that the broker answers, or a mute broker or a lost address is found
out; and that not every session breaks before it has said "online". Where several
actions stand in one strong fairness it asks only that one of them happens, which is
less than fairness of each.

What the model shows on the way: `~SMTPClient` runs when `sendEmailMessage` returns,
after `mqttReconnect` and without the bus. After a successful mail over TLS the
library still thinks it is connected and stops `ethClient`, by then the fresh MQTT
session: each mail costs a second reconnection by `loop`, at least 5 s later, and
commands that arrived in between. The DISCONNECT before a mail discards the will.

### SmtpSession

One session: the calls `connect`, `authenticate` and `send` of ReadyMail as
`sendEmailMessage` makes them, its state machine, and a server behind a connection
that may break. An action is one round of `awaitLoop`: `handleResponse` reads at most
one line, then the state machine takes its step. A reply line is the command it
answers, its code and whether it is the last; a reply that TCP delivers in two pieces
is two reads, since `readLine` returns what is there.

| property | says |
|---|---|
| `RepliesInStep` | the answer to one command is never taken for that to another, although any code of the class counts in any state |
| `SentMeansAccepted` | a mail reported as sent was accepted once, with all recipients and all text |
| `FailureIsSafe` | one reported as failed is with the server only if the session failed while it waited for the answer to the text |
| `SessionEnds` | every session ends |

`SentMeansAccepted` and `FailureIsSafe` justify the outcomes `MailQueue` gives a
session, `SessionEnds` its fairness. The run `smtp` has two recipients, a text of three pieces
and three torn replies: more recipients, pieces or tears repeat these states. Fairness is that of
the client's loop; nothing is asked of the server, because every wait has the library's
read time limit (120 s). `CHECK_DEADLOCK FALSE`: a session ends.

A torn reply whose pieces have no code costs the whole time limit with the bus
held. The HELO fallback is not in the model: a refused EHLO has already closed the
session when it would be tried.

### WallClock, HourlyCheck

`WallClock` has the calendar as operators: `lastSunday`, `isDstEU`,
`convertToTallinn`, and beside them the rule of the directive (`SummerTime`,
`TallinnTime`) for comparison. `HourlyCheck` is the control mail at the full hour: a
clock that is unknown at first, drifts by at most one part of an hour, is set every
six hours (`TIME_SYNC_INTERVAL`), and a check whose two readings of the clock
(`TestHour`, `QueueCheck`) may differ. `now` is the true time in parts of an hour, `dev`
the device's; part 0 is minute 0.

| property | says |
|---|---|
| `LocalTimeRight` | a clock that is set shows the time of Tallinn, but for the hour from 00:00 UTC on the two Sundays of the change |
| `OneCheckPerHour` | no hour has two checks, unless the clock turned between the two readings of one of them (`split`) |
| `HourChecked` | an hour whose minute 0 `emailTask` saw has its check, unless the queue refused it or a restart came between (`missed`), the second reading dated it otherwise (`split`), or the last check since the boot was of the same hour of another day (`alike`) |

The run `hour` takes three hours around midnight before both changes of 2026, a day's
outage, and two reboots or outages. No fairness: the properties are about the past.
`CHECK_DEADLOCK FALSE` because the hours end.

So the code switches an hour early (`isDstEU` looks at the UTC date); in October
hour 02 comes twice and is checked once; the check's text has no year and its `.ok`
marker stays, so that from the second year on the queue refuses every check (in the model the
text is refused when it is known, `QueueCheck`); a boot whose synchronisation
fails has no time for six hours; a comment speaks of a daily resync, the interval is
six hours.

### StorageLocks

The mutexes and the tasks. A call is a task's section (`lockSD` or
`lockEthernetBus` to its unlock) or a `writeLog` inside one; its stages are
waiting for the first mutex, waiting for `spiMutex`, inside, and half unlocked.
`TakeOuter`, `OuterTimeout`, `TakeSpi`, `SpiTimeout`, `unlockSPI`, `GiveOuter` are
the steps of the four lock functions. A timeout may come whenever the mutex is
taken; `markSent` alone waits for ever. `MCStorageLocks!CodeJobs` lists the
sections of the four tasks. This module is the reason why the others may treat
an SD section as atomic.

| property | says |
|---|---|
| `SectionsExclusive` | one call at a time is inside, whether of the card or of the bus |
| `NoLeak` | a task owns exactly the mutexes its calls account for, on every path |
| `LogInBusRefused` | a `writeLog` inside a bus section never gets the card: it waits out its 2 s on its own task |
| `EveryCallEnds` | every call ends, refused or done |
| `NoEndlessCircle` | tasks that wait for each other in a circle include one with a timeout (proved, not run: the absence of deadlock shows it on the instance) |

The run `locks` has all four tasks and checks for deadlock too. Fairness: a task
goes on when it can (weak), and one that waits for a mutex that is free again
and again gets it (strong): FreeRTOS wakes waiters of one priority in order, and
between two sections every task sleeps for milliseconds to seconds.

### Mutants

Beside some definitions stands a second one that changes it the way a bug would
(a dropped guard, a swapped field, a missing reset), marked as its mutant. It is
used by no action; replacing the definition by it makes the property it is
listed with in `PROJECT.json` fail, which shows that the property depends on it.

## Proofs

`MailQueueProofs` proves for every set of mails and hashes, every limit, fault
set and number of mishaps:

* `TypeCorrect`: `Spec => []TypeOK`. `TypeOK` alone is not inductive: that
  `cur` is a mail when its file is read needs `Cursor`, that the writer writes a
  real mail needs `Sections` (who is inside an SD section, and for whom the
  writer works), and that `queueEmail` never writes the file of the mail in hand
  needs `Drawn` (queue files belong to ids already drawn).
* `DuplicatesAreDoubtful`: `Spec => []NoSilentDuplicate`. The strengthening
  `Recorded` says that every delivered text has its `.ok` marker, is in doubt, or
  is being recorded at this moment, and that a mail in hand up to its session
  has no `.ok` marker. A second delivery is then of a text in doubt.
* `AcceptedIsKept` and `SessionsAreClaimed`: `Spec => []AcceptedNotLost` and
  `Spec => []ClaimBeforeSend`, from `CardInv`: the mail in hand has a file
  (`OnCard`), only cut files are unreadable (`CutOnly`), the claim being written
  is that of the mail in hand (`ClaimRecord`), markers stand for delivered texts
  (`Delivered`). Without `OnCard` a rotation could overwrite the only `.bak`.

* `MarkersAreBacked`: `Spec => []PendingBacked`. `Backed` adds that the markers a
  section removes stay away until its end (`queueEmail` before its save, `markSent`
  before it removes the file).
* `SessionsAreCounted`: `[]AttemptsCounted`, and `TriesAreBounded`: a mail has at
  most `MaxRetry` sessions and one more per mishap (a restart, a lock that timed out). Both assume that `MaxRetry +
  MaxMishap` is below `RetryMod`: the count has eight bits, and one that wraps has
  forgotten its sessions. `CountInv` is `Counts` (each file, `.bak` and record being
  written shows at least the sessions begun), `Shown` (what the card shows of the
  mail in hand at each step of its session) and `Low` (counts stay away from the
  width, since only a try within the limit or a mishap raises them).
* `QueueImplementsService`: `Spec => Implements`, whatever the card does; every
  step of the 39 is mapped to one of `MailService` or to a stutter (`MapNext`).
  The abstract actions have guards that the detailed ones do not test, and
  `ServiceInv` is what they need. A file that is cut or not written is blamed on an
  operation that failed (`Blamed`), a mail that `queueEmail` is saving has no `.bak`
  and no `.ok` marker (`NewFile`), the claim in hand is on the card unless it was cut
  there (`InHandKept`), a rewrite keeps the tries and a claim is one more
  (`Rewritten`). `Alone` is why a text is taken once: while files can be opened, or
  before the first mishap, a kept text has a marker until recovery comes to it
  (`Marked`), and a text is kept once (`Single`). The mapping has three branches, and
  a step may change the one a mail falls under; `KeptNext` says that a mail comes
  into keeping in one way only, its new file put in place.
* `TextsKeptOnce`: while files can be opened no text stands in the queue twice,
  through any number of restarts. `GoneStaysGone`: a mail that left the queue does not
  come back from a `.bak`, `.tmp` or claim that a restart or a failed operation left.

The three assume `MaxRetry + MaxMishap < RetryMod` as well. All rest on the named
assumptions of `MailQueue` and `MailQueueService`
(`StatusAssumption`: `New` and `Gone` are no counts), which TLC evaluates in every
run of the queue.

`RetryClockProofs` proves `TypeCorrect`, `DueInTime` (`DueOnTime`), `BackoffNotCut`
(`BackoffKept`) and `ClaimKeptWhileFresh` (`StaleKept`) for every width, back-off
and number of restarts. None of them is inductive. `Remaining` says that a
retried mail has at least the rest of its back-off to wait for, `Exact` that it
has exactly that while nothing disturbed the clock, `ClaimAge` that the clock
shows no more than the real age of a claim; `End` counts the end of the
back-off on across the wrap. `BackoffAsStated` is `[]BackoffDoubles`.
`retryDelayMs` is a recursive function; that it is what `BackoffDoubles` says, and
never more than its maximum nor zero, is proved by induction on the retries. The
library's rule for that takes an operator as parameter, so `AllNaturals` gives
the induction instead, for the set of the numbers where a claim holds, from the
smallest number outside it (`LeastNatural`). `BackoffAsStated` needs an even
maximum, as `QUEUE_MAX_BACKOFF_MS` is: the code compares with half of it, rounded
down, and with an odd one it would reach the maximum a doubling early.

`StorageLocksProofs` proves `TypeCorrect`, `Exclusive`, `NothingLeaks`,
`LogsAreRefused` and `CirclesEnd` for any number of tasks with any sections. The
inductive `LockInv` splits `NoLeak` in two (`HolderOwns`, `OwnedHeld`), adds that a
mutex is held by one call (`OneHolder`), and needs `LogInBusRefused` itself, since
a log that were inside would give up the `spiMutex` of its section.
`CirclesEnd` uses that a task which waits without timeout does so in a section
and not in a log, so that it does not hold `spiMutex`.

`DetectorStoreProofs` proves every property of `DetectorStore`, for any set of
addresses and commands. `Base` is what all the proofs share: `TypeOK`, where each
task can be and on which address (`Places`), that before the end of `setup` none
works (`Down`), that one task at a time has the list file open (`OneWriter`), that
only such a task has a copy (`Copies`), and that a valid reference is to an entry
of the map (`Refs`). On top of it each theorem has a strengthening of its own:
`Ghosts` (what the map, the copies and the file may hold of removed addresses),
`KeptInv`, `Follows` (a file that lags is about to be written), `Traces` and
`Explained`.

`MqttSessionProofs` proves `TypeCorrect`, `MailUndisturbed` (`SmtpUndisturbed`) and
`StatusIsHonest` for any commands, ring and number of faults. `SessionInv` adds to
the two properties what ties a mail's section to the socket: while a mail works,
both layers know that their session has ended and `loop()` stands behind none of its
checks, publish or stop, unless it did when the mail disconnected (`Ended`), and the socket is a mail's only while one talks or hangs up
(`OnMail`). The lemmas on `Take` and `Give` say that a step into or out of a section
keeps the bus with the one task inside, so that only the holder of the bus makes a
session; `LoopSteps` says once what a step that `loop()` takes without the bus may do to them. `CommandsKeepOrder` (`CommandsInOrder`) puts done, ring and wire into one
line: `InLine` says that numbers rise within and across them, `Found` that none is
missing that was not cut, `Drained` that the ring is empty wherever `loop()` may read
a packet, which is why a ring of ten never overflows.

`SmtpSessionProofs` proves all the safety properties for any number of recipients,
pieces of text and torn replies. `Wire` is why the two sides stay in step: at most
one positive answer is under way, it answers what the client waits for, and it is
there only while no command is. `Book` is what the server has of the mail, as a
function of where the client is: `Named` for the recipients, `Written` for the text,
`Taken` for the mail itself. `SentMeansAccepted` and `FailureIsSafe` are the end of
`Taken`.

`HourlyCheckProofs` proves `LocalTimeIsRight` for every year and any outages: of
seven days one is a Sunday (`Sevens`), hence `lastSunday` exists and is the only
one of its week, hence `isDstEU` turns on that day and not at 01:00 UTC.
`OneCheckAnHour` needs that a check is dated with minute 0 unless its hour is in `split`
(`Dated`); `HoursAreChecked` that every hour seen is accounted for or is being written,
and that `lastCheck`, whose number `lastCheckHour` is, was seen itself (`Seen`): an hour
of the same number that is passed over is then either `lastCheck`, and accounted for,
or of another day and `alike`.

`UsbReceiveProofs` is about `UsbEvents`, `UsbReceive` and `LineText`. For the events: `Alarm`
relates the flag to the last header (`SightingsAreAlarms`), `AtHandIsOne` says of the
event at hand what `MailIsOneEvent` says of the mails (`MailsAreEvents`), and
`EventsKeepLines` (`LinesInOrder`) needs only how `FlattenSeq` grows with its last part.
`ReceptionGroups`, `ReceiveSpec => Spec`, says that reception is an implementation of
the event grouping, so that these theorems hold behind the cable too
(`ReceptionKeepsEvents`). `Driver`
and `OneLine` then give `NothingCrosses` (`OneConnection`). `LinesAreWhole`
(`HandedWhole`) numbers the panel's pieces: `InOrder` says that they rise through line
buffer, transfer and chip, `Whereabouts` that a line which lost nothing is under way
with all that was sent of it, or is over. So when a CR is taken, a line at hand that
lost nothing is the one it ends, and all of it (`AtTheEnd`).
`AddressesAreFound` (`AddressFound`) is for lines of every length: what the search
returns begins at the first dot with digits around it and takes all digits before
and three or four behind (`SearchFinds`), `Clean` cuts away a prefix and a suffix
(`CleanCuts`), and the first address of a line is that of its rest unless the cut went
through it (`PlaceInTail`), which the two named exceptions are.

What is model-checked only is liveness under fairness, which is outside what the
prover handles: `EveryMailLeavesQueue`, `WaitEnds`, `EveryCallEnds`,
`SessionComesBack`, `SessionEnds`, `EventHandedOver` and `BytesAreRead`. (`AddressAlone` is
the property of the run that finds a violation.) Every invariant and action property
of a passing run, and the refinement, is proved.

## Plan

Done: the queue with its abstract specification and its clock, the locks, the
detector list, the way of a line from the cable to a mail, the shared socket with
its three users, the mail's dialogue, and the control mail. The order was that of
what an operator loses: a mail, a detector, a line, the connection, the check.

Left: what `queueEmail` refuses to `usbTask` (`UsbEvents` composed with
`MailService`).

## Not modelled

* TLS (`lib/ESP_SSLClient`). More than nine tenths of the repository's lines are
  this library with BearSSL, ReadyMail's parts for IMAP and attachments, and other
  vendored code. BearSSL is arithmetic on big numbers, block ciphers and generated
  handshake code: a small instance of it says nothing about the real one. What the
  library does to the socket it shares is in `MqttSession` (`StopTls`, `Stopping`,
  `Stopped`, `Dropped`, `MailLeaves`). So the share of the repository's lines that the models stand for
  stays small, although the firmware's own sources with state are nearly all
  modelled.
* Encodings: base64, headers, MIME in ReadyMail; IMAP and attachments, which the
  firmware does not use. `SmtpSession` has the dialogue.
* Configuration (`config.cpp`), certificates, the log and the serial console: read
  once, or written only. The lock a `writeLog` takes is in `StorageLocks`.
* `setup()` as a module: it runs alone. Its recovery and loading steps are in
  `MailQueue`, `DetectorStore` and `HourlyCheck`.
* What has no meaning in C++: concurrent changes of a `std::map` and writes through
  a dangling reference (`detector_manager.cpp`, the model loses the count), a
  device descriptor read although the call that fills it failed
  (`EspUsbHost.cpp:41`), and a string literal plus an integer
  (`usb_task.cpp:206`, 497).
* Two tasks at the chip's registers at once: `getHttpTime`, `mqtt.connected()` and the
  publishes run without the bus, so `SectionsExclusive` is about the calls that lock
  only. Their outcome, a synchronisation or a session that fails, is a step of
  `HourlyCheck` and `MqttSession`.
* Two tasks inside the TLS engine at once, as when `emailTask` disconnects while
  `loop()` is in `stop()`: what the buffers of a freed engine (`mFreeSSL`) then hold has
  no meaning to translate. The model has what both do to the socket and to `_secure`.
* Timestamps inside a line, the HTTP date, the text of the detector report: text
  without state.
