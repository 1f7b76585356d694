------------------------------ MODULE MailQueue ------------------------------
(***************************************************************************)
(* The persistent e-mail queue of email_queue.cpp: the files it keeps on   *)
(* the SD card, the tasks that change them, the SMTP session that empties  *)
(* it, and the reboots that may strike between any two card operations.    *)
(*                                                                         *)
(* A mail is an Id, the name generateMessageID() gives it; HashOf[i] is    *)
(* what sha1String() returns for its subject and body, so two Ids with the *)
(* same hash are the same text queued twice (or two texts that collide).   *)
(* Everything done between lockSD() and unlockSD() is one critical         *)
(* section: only a reboot can come between two of its steps, and every     *)
(* step here is one card operation whose effect a reboot would keep.       *)
(*                                                                         *)
(* Time is left out: whether a back-off has run out (isDue) or a claim has *)
(* grown stale is a free choice of the scan.                               *)
(***************************************************************************)
EXTENDS Integers

CONSTANTS
  Id,         \* message ids, never drawn twice (generateMessageID)
  Hash,       \* the values of sha1String
  HashOf,     \* the hash of each mail's subject and body
  MaxRetry,   \* MAX_RETRY_COUNT
  RetryMod,   \* QueuedMail.retry is a uint8_t: 256
  MaxMishap,  \* bound: reboots and lock timeouts together in one behaviour
  Faults,     \* the operations that may fail
  NoFile, Corrupt, NoId

FaultKind == {"open", "short", "rename", "lock"}

ASSUME HashAssumption  == HashOf \in [Id -> Hash]
ASSUME RetryAssumption ==
  MaxRetry \in Nat \ {0} /\ RetryMod \in Nat \ {0} /\ MaxMishap \in Nat
ASSUME FaultAssumption == Faults \subseteq FaultKind

\* What a readable /queue/<id>.json says, as far as the queue looks at it.
Entry == [retry : 0 .. RetryMod - 1, inFlight : BOOLEAN]

ASSUME FileAssumption ==
  NoFile # Corrupt /\ NoFile \notin Entry /\ Corrupt \notin Entry /\ NoId \notin Id

VARIABLES
  (* the card *)
  json,       \* /queue/<id>.json
  bak,        \* /queue/<id>.json.bak
  tmp,        \* ids with a /queue/<id>.json.tmp
  lockFile,   \* ids with a /queue/<id>.lock
  pending,    \* hashes with a /hash/<hash>.pending
  okHash,     \* hashes with a /hash/<hash>.ok
  sentFile,   \* ids with a /sent/<id>.ok
  failedDir,  \* ids whose file was moved into /failed
  (* RAM *)
  wpc, wid, wrec,       \* writeQueuedMailLocked: where it is, its mail
  qpc,                  \* queueEmail
  epc, cur, curRetry,   \* emailTask, the mail it works on, that mail's retry
  seen,                 \* ids the directory loop has passed
  (* history *)
  used,       \* ids drawn so far
  accepted,   \* ids for which queueEmail returned true
  attempts,   \* SMTP sessions begun for each id
  delivered,  \* hashes some server accepted
  again,      \* hashes accepted more than once
  doubt,      \* hashes accepted while the card does not say so
  cut,        \* ids whose file was cut short by a full card
  torn,       \* ids whose last copy recovery erased
  gaveUp,     \* ids given up on by markPermanentFailure
  orphan,     \* hashes whose .pending outlived the mail it stood for
  mishaps     \* reboots and lock timeouts so far

card    == <<json, bak, tmp, lockFile, pending, okHash, sentFile, failedDir>>
writer  == <<wpc, wid, wrec>>
mailer  == <<epc, cur, curRetry, seen>>
history == <<used, accepted, attempts, delivered, again, doubt, cut, torn, gaveUp,
             orphan, mishaps>>
vars    == <<card, writer, qpc, mailer, history>>

WriterPc == {"idle", "tmp", "rotate", "swap", "tidy", "ok", "fail"}
MailerPc == {"boot", "bootWrite", "idle", "scan", "scanWrite", "picked", "read",
             "claim", "claimed", "smtp", "sent", "markHash", "markPending",
             "markQueue", "failed", "retry", "perm"}

TypeOK ==
  /\ json \in [Id -> Entry \cup {NoFile, Corrupt}]
  /\ bak \in [Id -> Entry \cup {NoFile, Corrupt}]
  /\ tmp \subseteq Id /\ lockFile \subseteq Id
  /\ pending \subseteq Hash /\ okHash \subseteq Hash
  /\ sentFile \subseteq Id /\ failedDir \subseteq Id
  /\ wpc \in WriterPc /\ wid \in Id \cup {NoId} /\ wrec \in Entry \cup {Corrupt}
  /\ qpc \in {"idle", "save"}
  /\ epc \in MailerPc /\ cur \in Id \cup {NoId} /\ curRetry \in 0 .. RetryMod - 1
  /\ seen \subseteq Id
  /\ used \subseteq Id /\ accepted \subseteq used
  /\ attempts \in [Id -> Nat]
  /\ delivered \subseteq Hash /\ again \subseteq Hash /\ doubt \subseteq Hash
  /\ cut \subseteq Id /\ torn \subseteq Id /\ gaveUp \subseteq Id
  /\ orphan \subseteq Hash /\ mishaps \in Nat

------------------------------------------------------------------------------
Readable(i)  == json[i] \in Entry
Fresh        == [retry |-> 0, inFlight |-> FALSE]
Next8(r)     == (r + 1) % RetryMod
Uncounted(r) == [retry |-> r, inFlight |-> FALSE]          \* mutant of Released
Released(r)  == [retry |-> Next8(r), inFlight |-> FALSE]
Unmarked(r)  == [retry |-> r, inFlight |-> FALSE]          \* mutant of Claimed
Claimed(r)   == [retry |-> r, inFlight |-> TRUE]

\* The steps at which emailTask is inside a section between lockSD and unlockSD.
MailerInSd == {"boot", "bootWrite", "scan", "scanWrite", "claim", "markHash",
               "markPending", "markQueue", "retry", "perm"}

\* lockSD also takes spiMutex, which the SMTP session holds from end to end.
SdFree == qpc = "idle" /\ epc \notin MailerInSd \cup {"smtp"}

Init ==
  /\ json = [i \in Id |-> NoFile] /\ bak = [i \in Id |-> NoFile]
  /\ tmp = {} /\ lockFile = {} /\ pending = {} /\ okHash = {}
  /\ sentFile = {} /\ failedDir = {}
  /\ wpc = "idle" /\ wid = NoId /\ wrec = Fresh
  /\ qpc = "idle"
  /\ epc = "boot" /\ cur = NoId /\ curRetry = 0 /\ seen = {}
  /\ used = {} /\ accepted = {} /\ attempts = [i \in Id |-> 0]
  /\ delivered = {} /\ again = {} /\ doubt = {}
  /\ cut = {} /\ torn = {} /\ gaveUp = {} /\ orphan = {} /\ mishaps = 0

------------------------------------------------------------------------------
(* writeQueuedMailLocked: the new text goes to .tmp, the old file steps    *)
(* aside to .bak, .tmp takes its name, .bak goes.  "ok" and "fail" are its *)
(* two results; the caller's next step takes the result and frees it.      *)

BeginWrite(i, e) == wpc' = "tmp" /\ wid' = i /\ wrec' = e
EndWrite         == wpc' = "idle" /\ wid' = NoId /\ wrec' = Fresh
Written          == wpc \in {"ok", "fail"}

WriteRest == UNCHANGED <<lockFile, pending, okHash, sentFile, failedDir, qpc, mailer, used,
                         accepted, attempts, delivered, again, doubt, torn, gaveUp,
                         orphan, mishaps>>

\* Open and fill .tmp.  A card that is full cuts the text short and
\* serializeJson still returns a positive count, so the cut text is kept.
WriteTmp ==
  /\ wpc = "tmp"
  /\ \/ tmp' = tmp \cup {wid} /\ wpc' = "rotate" /\ UNCHANGED <<wrec, cut>>
     \/ /\ "short" \in Faults
        /\ tmp' = tmp \cup {wid} /\ wpc' = "rotate"
        /\ wrec' = Corrupt /\ cut' = cut \cup {wid}
     \/ "open" \in Faults /\ tmp' = tmp \ {wid} /\ wpc' = "fail" /\ UNCHANGED <<wrec, cut>>
  /\ UNCHANGED <<json, bak, wid>> /\ WriteRest

\* Drop a stale .bak, then move the original aside if there is one.
WriteRotate ==
  /\ wpc = "rotate"
  /\ \/ /\ bak' = [bak EXCEPT ![wid] = json[wid]]
        /\ json' = [json EXCEPT ![wid] = NoFile]
        /\ wpc' = "swap" /\ tmp' = tmp
     \/ /\ "rename" \in Faults /\ json[wid] # NoFile
        /\ bak' = [bak EXCEPT ![wid] = NoFile]
        /\ tmp' = tmp \ {wid}
        /\ wpc' = "fail" /\ json' = json
  /\ UNCHANGED <<wid, wrec, cut>> /\ WriteRest

\* .tmp becomes the queue file; when that fails the original is moved back,
\* and nothing looks at whether that worked.
WriteSwap ==
  /\ wpc = "swap"
  /\ tmp' = tmp \ {wid}
  /\ \/ json' = [json EXCEPT ![wid] = wrec] /\ bak' = bak /\ wpc' = "tidy"
     \/ /\ "rename" \in Faults
        /\ wpc' = "fail"
        /\ \/ json' = [json EXCEPT ![wid] = bak[wid]] /\ bak' = [bak EXCEPT ![wid] = NoFile]
           \/ UNCHANGED <<json, bak>>
  /\ UNCHANGED <<wid, wrec, cut>> /\ WriteRest

WriteTidy ==
  /\ wpc = "tidy"
  /\ bak' = [bak EXCEPT ![wid] = NoFile]
  /\ wpc' = "ok"
  /\ UNCHANGED <<json, tmp, wid, wrec, cut>> /\ WriteRest

writeQueuedMailLocked == WriteTmp \/ WriteRotate \/ WriteSwap \/ WriteTidy

------------------------------------------------------------------------------
(* queueEmail: any task may call it, and it runs in one SD section.  A     *)
(* text whose hash is pending or was sent is refused, which changes        *)
(* nothing; so does a lockSD that times out.                               *)

\* mutant of Duplicate: the .pending marker is not looked at
DuplicateOfSent(i) == HashOf[i] \in okHash

Duplicate(i) == HashOf[i] \in okHash \cup pending

QueueBegin(i) ==
  /\ SdFree /\ i \notin used /\ ~Duplicate(i)
  /\ used' = used \cup {i}
  /\ BeginWrite(i, Fresh)
  /\ qpc' = "save"
  /\ UNCHANGED <<card, mailer, accepted, attempts, delivered, again, doubt, cut, torn,
                 gaveUp, orphan, mishaps>>

QueueSaved ==
  /\ qpc = "save" /\ wpc = "ok"
  /\ \/ pending' = pending \cup {HashOf[wid]} /\ accepted' = accepted \cup {wid} /\ json' = json
     \/ /\ "open" \in Faults
        /\ json' = [json EXCEPT ![wid] = NoFile]
        /\ UNCHANGED <<pending, accepted>>
  /\ qpc' = "idle" /\ EndWrite
  /\ UNCHANGED <<bak, tmp, lockFile, okHash, sentFile, failedDir, mailer,
                 used, attempts, delivered, again, doubt, cut, torn, gaveUp, orphan, mishaps>>

QueueNotSaved ==
  /\ qpc = "save" /\ wpc = "fail"
  /\ qpc' = "idle" /\ EndWrite
  /\ UNCHANGED <<card, mailer, history>>

queueEmail == (\E i \in Id : QueueBegin(i)) \/ QueueSaved \/ QueueNotSaved

------------------------------------------------------------------------------
(* getNextQueuePath: one pass over /queue in directory order, which is any *)
(* order.                                                                  *)

\* The file that cannot be read is set aside; its .pending marker stays.
SetAside(i) ==
  \/ /\ json' = [json EXCEPT ![i] = NoFile]
     /\ failedDir' = failedDir \cup {i}
     /\ orphan' = orphan \cup ({HashOf[i]} \cap pending)
  \/ "rename" \in Faults /\ UNCHANGED <<json, failedDir, orphan>>

ScanBegin ==
  /\ epc = "idle" /\ SdFree
  /\ epc' = "scan" /\ seen' = {}
  /\ UNCHANGED <<card, writer, qpc, cur, curRetry, history>>

Scanning(i) == epc = "scan" /\ i \notin seen /\ json[i] # NoFile

\* Already sent: the file was left behind by a reboot inside markSent.
ScanSent(i) ==
  /\ Scanning(i) /\ Readable(i) /\ HashOf[i] \in okHash
  /\ json' = [json EXCEPT ![i] = NoFile]
  /\ lockFile' = lockFile \ {i}
  /\ seen' = seen \cup {i}
  /\ UNCHANGED <<bak, tmp, pending, okHash, sentFile, failedDir, writer, qpc,
                 epc, cur, curRetry, history>>

\* Not in flight and due: a mail never tried is always due.
ScanPick(i) ==
  /\ Scanning(i) /\ Readable(i) /\ HashOf[i] \notin okHash
  /\ ~json[i].inFlight
  /\ epc' = "picked" /\ cur' = i /\ seen' = {}
  /\ UNCHANGED <<card, writer, qpc, curRetry, history>>

\* Back-off still running, or claimed not long enough ago.
ScanSkip(i) ==
  /\ Scanning(i) /\ Readable(i) /\ HashOf[i] \notin okHash
  /\ json[i].inFlight \/ json[i].retry # 0
  /\ seen' = seen \cup {i}
  /\ UNCHANGED <<card, writer, qpc, epc, cur, curRetry, history>>

\* Claimed more than QUEUE_STALE_INFLIGHT_MS ago: free it, count the attempt.
ScanStale(i) ==
  /\ Scanning(i) /\ Readable(i) /\ HashOf[i] \notin okHash
  /\ json[i].inFlight
  /\ BeginWrite(i, Released(json[i].retry))
  /\ epc' = "scanWrite" /\ seen' = seen \cup {i}
  /\ UNCHANGED <<card, qpc, cur, curRetry, history>>

ScanStaleWritten ==
  /\ epc = "scanWrite" /\ Written
  /\ lockFile' = lockFile \ {wid}
  /\ EndWrite /\ epc' = "scan"
  /\ UNCHANGED <<json, bak, tmp, pending, okHash, sentFile, failedDir, qpc,
                 cur, curRetry, seen, history>>

\* Unreadable: cut short, or it could not be opened this time.
ScanCorrupt(i) ==
  /\ Scanning(i)
  /\ json[i] = Corrupt \/ "open" \in Faults
  /\ SetAside(i)
  /\ seen' = seen \cup {i}
  /\ UNCHANGED <<bak, tmp, lockFile, pending, okHash, sentFile, writer, qpc, epc, cur,
                 curRetry, used, accepted, attempts, delivered, again, doubt, cut, torn, gaveUp,
                 mishaps>>

\* The loop ends without a mail to send.
ScanEnd ==
  /\ epc = "scan" /\ \A i \in Id : json[i] # NoFile => i \in seen
  /\ epc' = "idle" /\ seen' = {}
  /\ UNCHANGED <<card, writer, qpc, cur, curRetry, history>>

getNextQueuePath ==
  \/ ScanBegin \/ ScanStaleWritten \/ ScanEnd
  \/ \E i \in Id : ScanSent(i) \/ ScanPick(i) \/ ScanSkip(i) \/ ScanStale(i) \/ ScanCorrupt(i)

------------------------------------------------------------------------------
(* processQueue after a mail was picked: read it again, claim it on the    *)
(* card, send it, settle the outcome.                                      *)

ToIdle  == epc' = "idle" /\ cur' = NoId /\ curRetry' = 0 /\ seen' = seen
Goto(p) == epc' = p /\ UNCHANGED <<cur, curRetry, seen>>

\* A lockSD of 5 s that runs out ends the round; after a failed session the
\* file then stays claimed.
LockTimeout ==
  /\ "lock" \in Faults /\ mishaps < MaxMishap
  /\ epc \in {"picked", "read", "failed"}
  /\ ToIdle /\ mishaps' = mishaps + 1
  /\ UNCHANGED <<card, writer, qpc, used, accepted, attempts, delivered, again, doubt,
                 cut, torn, gaveUp, orphan>>

\* readQueuedMail
ReadPicked ==
  /\ epc = "picked" /\ SdFree
  /\ \/ epc' = "read" /\ curRetry' = json[cur].retry /\ UNCHANGED <<cur, seen>>
     \/ "open" \in Faults /\ ToIdle
  /\ UNCHANGED <<card, writer, qpc, history>>

\* claimForSend: the .lock file and the rewritten mail, one section.
ClaimBegin ==
  /\ epc = "read" /\ SdFree
  /\ \/ lockFile' = lockFile \cup {cur}
     \/ "open" \in Faults /\ lockFile' = lockFile
  /\ BeginWrite(cur, Claimed(curRetry))
  /\ Goto("claim")
  /\ UNCHANGED <<json, bak, tmp, pending, okHash, sentFile, failedDir, qpc, history>>

ClaimEnd ==
  /\ epc = "claim" /\ Written
  /\ IF wpc = "ok" THEN Goto("claimed") ELSE ToIdle
  /\ EndWrite
  /\ UNCHANGED <<card, qpc, history>>

claimForSend == ClaimBegin \/ ClaimEnd

\* mutant of SmtpNoLink: a missing link reported as success
NoLinkTakenForSent ==
  /\ epc = "claimed" /\ Goto("sent")
  /\ UNCHANGED <<card, writer, qpc, history>>

\* sendEmailMessage: no link, or the bus lock of 120 s runs out.
SmtpNoLink ==
  /\ epc = "claimed" /\ Goto("failed")
  /\ UNCHANGED <<card, writer, qpc, history>>

SmtpOpen ==
  /\ epc = "claimed" /\ qpc = "idle" /\ Goto("smtp")
  /\ attempts' = [attempts EXCEPT ![cur] = @ + 1]
  /\ UNCHANGED <<card, writer, qpc, used, accepted, delivered, again, doubt, cut, torn,
                 gaveUp, orphan, mishaps>>

SmtpRefused ==
  /\ epc = "smtp" /\ Goto("failed")
  /\ UNCHANGED <<card, writer, qpc, history>>

\* The server takes the mail; its reply arrives, or the read times out and
\* the session counts as failed.
SmtpDelivered ==
  /\ epc = "smtp"
  /\ again' = again \cup ({HashOf[cur]} \cap delivered)
  /\ delivered' = delivered \cup {HashOf[cur]}
  /\ \/ Goto("sent") /\ doubt' = doubt
     \/ Goto("failed") /\ doubt' = doubt \cup {HashOf[cur]}
  /\ UNCHANGED <<card, writer, qpc, used, accepted, attempts, cut, torn, gaveUp, orphan, mishaps>>

sendEmailMessage == SmtpNoLink \/ SmtpOpen \/ SmtpRefused \/ SmtpDelivered

\* markSent waits for the card as long as it takes.  A marker that cannot be
\* opened is skipped without a word.
MarkSentBegin ==
  /\ epc = "sent" /\ SdFree /\ Goto("markHash")
  /\ \/ sentFile' = sentFile \cup {cur}
     \/ "open" \in Faults /\ sentFile' = sentFile
  /\ UNCHANGED <<json, bak, tmp, lockFile, pending, okHash, failedDir, writer, qpc, history>>

\* mutant of MarkHash: no .ok marker is written
MarkNothing ==
  /\ epc = "markHash" /\ Goto("markPending")
  /\ UNCHANGED <<card, writer, qpc, history>>

MarkHash ==
  /\ epc = "markHash" /\ Goto("markPending")
  /\ \/ okHash' = okHash \cup {HashOf[cur]} /\ doubt' = doubt
     \/ "open" \in Faults /\ okHash' = okHash /\ doubt' = doubt \cup {HashOf[cur]}
  /\ UNCHANGED <<json, bak, tmp, lockFile, pending, sentFile, failedDir, writer, qpc, used,
                 accepted, attempts, delivered, again, cut, torn, gaveUp, orphan, mishaps>>

MarkPending ==
  /\ epc = "markPending" /\ Goto("markQueue")
  /\ pending' = pending \ {HashOf[cur]}
  /\ UNCHANGED <<json, bak, tmp, lockFile, okHash, sentFile, failedDir, writer, qpc, history>>

\* The .lock and the queue file go.
MarkQueue ==
  /\ epc = "markQueue" /\ ToIdle
  /\ lockFile' = lockFile \ {cur} /\ json' = [json EXCEPT ![cur] = NoFile]
  /\ UNCHANGED <<bak, tmp, pending, okHash, sentFile, failedDir, writer, qpc, history>>

markSent == MarkSentBegin \/ MarkHash \/ MarkPending \/ MarkQueue

\* scheduleRetry below the limit.  The .lock file is left behind.
RetryBegin ==
  /\ epc = "failed" /\ SdFree /\ Next8(curRetry) < MaxRetry
  /\ BeginWrite(cur, Released(curRetry))
  /\ Goto("retry")
  /\ UNCHANGED <<card, qpc, history>>

RetryEnd ==
  /\ epc = "retry" /\ Written
  /\ EndWrite /\ ToIdle
  /\ UNCHANGED <<card, qpc, history>>

\* markPermanentFailure: a mail that cannot be moved is removed.
PermBegin ==
  /\ epc = "failed" /\ SdFree /\ Next8(curRetry) >= MaxRetry
  /\ json' = [json EXCEPT ![cur] = NoFile]
  /\ \/ failedDir' = failedDir \cup {cur}
     \/ "rename" \in Faults /\ failedDir' = failedDir \ {cur}
  /\ gaveUp' = gaveUp \cup {cur}
  /\ Goto("perm")
  /\ UNCHANGED <<bak, tmp, lockFile, pending, okHash, sentFile, writer, qpc, used, accepted,
                 attempts, delivered, again, doubt, cut, torn, orphan, mishaps>>

\* mutant of PermEnd: the .pending marker stays
PermKeepsMarker ==
  /\ epc = "perm" /\ ToIdle
  /\ lockFile' = lockFile \ {cur}
  /\ UNCHANGED <<json, bak, tmp, pending, okHash, sentFile, failedDir, writer, qpc, history>>

PermEnd ==
  /\ epc = "perm" /\ ToIdle
  /\ pending' = pending \ {HashOf[cur]} /\ lockFile' = lockFile \ {cur}
  /\ UNCHANGED <<json, bak, tmp, okHash, sentFile, failedDir, writer, qpc, history>>

scheduleRetry        == RetryBegin \/ RetryEnd
markPermanentFailure == PermBegin \/ PermEnd

processQueue ==
  \/ getNextQueuePath \/ LockTimeout \/ ReadPicked \/ claimForSend
  \/ sendEmailMessage \/ markSent \/ scheduleRetry \/ markPermanentFailure

------------------------------------------------------------------------------
(* recoverEmailQueue: setup() runs it before any task exists, one pass     *)
(* over /queue in any order.                                               *)

HasLeftover(i) == i \in tmp \cup lockFile \/ bak[i] # NoFile

\* .tmp, .bak and .lock files are removed, also when a .bak is all there is.
RecoverTidy(i) ==
  /\ epc = "boot" /\ HasLeftover(i)
  /\ tmp' = tmp \ {i} /\ lockFile' = lockFile \ {i}
  /\ bak' = [bak EXCEPT ![i] = NoFile]
  /\ torn' = IF bak[i] \in Entry /\ ~Readable(i) THEN torn \cup {i} ELSE torn
  /\ orphan' = IF bak[i] # NoFile /\ json[i] = NoFile
               THEN orphan \cup ({HashOf[i]} \cap pending) ELSE orphan
  /\ UNCHANGED <<json, pending, okHash, sentFile, failedDir, writer, qpc, mailer, used, accepted,
                 attempts, delivered, again, doubt, cut, gaveUp, mishaps>>

\* (The leftovers of a mail before its queue file: the order makes no difference.)
Recovering(i) == epc = "boot" /\ i \notin seen /\ json[i] # NoFile /\ ~HasLeftover(i)

RecoverSent(i) ==
  /\ Recovering(i) /\ Readable(i) /\ HashOf[i] \in okHash
  /\ json' = [json EXCEPT ![i] = NoFile]
  /\ lockFile' = lockFile \ {i}
  /\ seen' = seen \cup {i}
  /\ UNCHANGED <<bak, tmp, pending, okHash, sentFile, failedDir, writer, qpc, epc, cur,
                 curRetry, history>>

\* Put a missing .pending back and release a claim, counting the attempt.
RecoverKeep(i) ==
  /\ Recovering(i) /\ Readable(i) /\ HashOf[i] \notin okHash
  /\ \/ pending' = pending \cup {HashOf[i]}
     \/ "open" \in Faults /\ pending' = pending
  /\ IF json[i].inFlight
       THEN BeginWrite(i, Released(json[i].retry)) /\ epc' = "bootWrite"
       ELSE UNCHANGED <<writer, epc>>
  /\ seen' = seen \cup {i}
  /\ UNCHANGED <<json, bak, tmp, lockFile, okHash, sentFile, failedDir, qpc, cur, curRetry, history>>

RecoverWritten ==
  /\ epc = "bootWrite" /\ Written
  /\ lockFile' = lockFile \ {wid}
  /\ EndWrite /\ epc' = "boot"
  /\ UNCHANGED <<json, bak, tmp, pending, okHash, sentFile, failedDir, qpc, cur, curRetry,
                 seen, history>>

RecoverCorrupt(i) ==
  /\ Recovering(i)
  /\ json[i] = Corrupt \/ "open" \in Faults
  /\ SetAside(i)
  /\ seen' = seen \cup {i}
  /\ UNCHANGED <<bak, tmp, lockFile, pending, okHash, sentFile, writer, qpc, epc, cur, curRetry,
                 used, accepted, attempts, delivered, again, doubt, cut, torn, gaveUp, mishaps>>

\* The pass is over, or /queue could not be opened at all.
RecoverEnd ==
  /\ epc = "boot"
  /\ \/ \A i \in Id : json[i] # NoFile \/ HasLeftover(i) => i \in seen
     \/ "open" \in Faults /\ seen = {}
  /\ epc' = "idle" /\ seen' = {}
  /\ UNCHANGED <<card, writer, qpc, cur, curRetry, history>>

recoverEmailQueue ==
  \/ RecoverWritten \/ RecoverEnd
  \/ \E i \in Id : RecoverTidy(i) \/ RecoverSent(i) \/ RecoverKeep(i) \/ RecoverCorrupt(i)

\* ESP.restart() from the "reboot" command, a watchdog or a power cut: the
\* card keeps what the last finished operation left on it.
Reboot ==
  /\ mishaps < MaxMishap /\ mishaps' = mishaps + 1
  /\ wpc' = "idle" /\ wid' = NoId /\ wrec' = Fresh /\ qpc' = "idle"
  /\ epc' = "boot" /\ cur' = NoId /\ curRetry' = 0 /\ seen' = {}
  /\ doubt' = IF epc \in {"sent", "markHash"} THEN doubt \cup {HashOf[cur]} ELSE doubt
  /\ orphan' = IF epc = "perm" THEN orphan \cup ({HashOf[cur]} \cap pending) ELSE orphan
  /\ UNCHANGED <<card, used, accepted, attempts, delivered, again, cut, torn, gaveUp>>

------------------------------------------------------------------------------
Next == writeQueuedMailLocked \/ queueEmail \/ processQueue \/ recoverEmailQueue \/ Reboot

Spec == Init /\ [][Next]_vars

\* The tasks run for ever, a link comes up again and again, every session
\* ends, and a back-off or a stale claim runs out if one waits long enough.
Fairness ==
  /\ WF_vars(writeQueuedMailLocked) /\ WF_vars(QueueSaved \/ QueueNotSaved)
  /\ WF_vars(recoverEmailQueue) /\ WF_vars(processQueue)
  /\ \A i \in Id : SF_vars(ScanPick(i)) /\ SF_vars(ScanStale(i))

FairSpec == Spec /\ Fairness

------------------------------------------------------------------------------
(* Properties *)

\* Some copy of the mail's whole text is on the card, under /queue.
Held(i) == json[i] \in Entry \/ bak[i] \in Entry

\* A mail queueEmail said yes to is never lost without a trace: it is still on
\* the card, its text reached a server, it was moved to /failed or given up
\* on, or one of the two known holes took it: a full card cut its file short,
\* or recovery erased a .bak that was the only copy.
AcceptedNotLost ==
  \A i \in accepted : Held(i) \/ HashOf[i] \in delivered \/ i \in failedDir \cup gaveUp \cup cut \cup torn

\* A text reaches a server twice only where the card could not know of the
\* first time: the reply was lost, the device restarted before the .ok marker,
\* or the marker could not be opened (sendEmailMessage, markSent).
NoSilentDuplicate == again \subseteq doubt

\* A text is blocked by a .pending marker only while a mail stands behind it,
\* or after one of the recorded leaks (a corrupt or erased mail, a reboot
\* inside markPermanentFailure).
PendingBacked ==
  \A h \in pending :
    \/ h \in okHash \cup orphan
    \/ \E i \in Id : HashOf[i] = h /\ (json[i] # NoFile \/ bak[i] # NoFile)
    \/ epc = "perm" /\ HashOf[cur] = h

\* No session is open for a mail the card does not show as claimed, with the
\* count of attempts the session was started from: a reboot during the
\* session finds the claim and counts it (claimForSend, recoverEmailQueue).
ClaimBeforeSend ==
  epc \in {"claimed", "smtp"} =>
    json[cur] = [retry |-> curRetry, inFlight |-> TRUE] \/ cur \in cut

\* The count on the card is never behind the sessions that were begun.
AttemptsCounted ==
  \A i \in Id : Readable(i) =>
    attempts[i] <= json[i].retry + (IF json[i].inFlight THEN 1 ELSE 0)

==============================================================================
