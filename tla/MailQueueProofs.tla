--------------------------- MODULE MailQueueProofs ---------------------------
(* Theorems about MailQueue, for every set of mails and hashes, every retry *)
(* limit, every set of faults and every number of reboots; and that the     *)
(* queue implements MailService.                                            *)
EXTENDS MailQueueService, TLAPS

\* emailTask is somewhere between picking a mail and settling it.
Busy == {"picked", "read", "claim", "claimed", "smtp", "sent", "markHash", "markPending",
         "markQueue", "failed", "retry", "perm"}

\* The steps of emailTask at which writeQueuedMailLocked runs on its behalf.
Writing == {"bootWrite", "scanWrite", "claim", "retry"}

\* One task at a time is inside an SD section, and the writer works for it.
Sections ==
  /\ qpc = "save" => epc \notin MailerInSd \cup {"smtp"}
  /\ wpc # "idle" <=> qpc = "save" \/ epc \in Writing
  /\ wpc # "idle" => wid \in used
  /\ epc \in {"claim", "retry"} => wid = cur

\* The mail in hand is a real one; queueEmail writes another.
Cursor ==
  /\ cur \in used \cup {NoId}
  /\ epc \in Busy => cur \in used
  /\ qpc = "save" => wid # cur
  /\ epc = "picked" => Readable(cur)

\* Queue files belong to ids that were drawn.
Drawn == \A i \in Id : json[i] # NoFile => i \in used

TypeInv == TypeOK /\ Sections /\ Cursor /\ Drawn

\* The 8-bit retry counter wraps within its range.
LEMMA Next8Range == \A r \in 0 .. RetryMod - 1 : Next8(r) \in 0 .. RetryMod - 1
  BY RetryAssumption DEF Next8

LEMMA EntryFacts ==
  /\ Fresh \in Entry
  /\ \A e \in Entry : e.retry \in 0 .. RetryMod - 1
  /\ \A r \in 0 .. RetryMod - 1 : Claimed(r) \in Entry /\ Released(r) \in Entry
  BY Next8Range, RetryAssumption DEF Entry, Fresh, Released, Claimed

------------------------------------------------------------------------------
LEMMA TypeInit == Init => TypeInv
  BY EntryFacts, HashAssumption, RetryAssumption, FileAssumption
  DEF Init, TypeInv, TypeOK, Sections, Cursor, Drawn, WriterPc, MailerPc, MailerInSd, Writing, Busy

LEMMA TypeNext == TypeInv /\ [Next]_vars => TypeInv'
<1>. SUFFICES ASSUME TypeInv, [Next]_vars PROVE TypeInv'
  OBVIOUS
<1>. USE EntryFacts, HashAssumption, RetryAssumption, FileAssumption
     DEF TypeInv, TypeOK, Sections, Cursor, Drawn, WriterPc, MailerPc, MailerInSd, Writing, Busy, Readable,
         card, writer, mailer, history
<1>1. CASE WriteTmp
  BY <1>1 DEF WriteTmp, WriteRest
<1>2. CASE WriteRotate
  BY <1>2 DEF WriteRotate, WriteRest
<1>3. CASE WriteSwap
  BY <1>3 DEF WriteSwap, WriteRest
<1>4. CASE WriteTidy
  BY <1>4 DEF WriteTidy, WriteRest
<1>5. CASE \E i \in Id : QueueBegin(i)
  BY <1>5 DEF QueueBegin, BeginWrite, SdFree, MailerInSd, Fresh, card
<1>6. CASE QueueSaved
  BY <1>6 DEF QueueSaved, EndWrite, Fresh
<1>7. CASE QueueNotSaved
  BY <1>7 DEF QueueNotSaved, EndWrite, Fresh, card
<1>8. CASE ScanBegin
  BY <1>8 DEF ScanBegin, SdFree, card, writer
<1>9. CASE \E i \in Id : ScanSent(i)
  BY <1>9 DEF ScanSent, Scanning, Readable, writer
<1>10. CASE \E i \in Id : ScanPick(i)
  BY <1>10 DEF ScanPick, Scanning, Readable, card, writer
<1>11. CASE \E i \in Id : ScanSkip(i)
  BY <1>11 DEF ScanSkip, Scanning, Readable, card, writer
<1>12. CASE \E i \in Id : ScanStale(i)
  BY <1>12 DEF ScanStale, Scanning, Readable, BeginWrite, card
<1>13. CASE ScanStaleWritten
  BY <1>13 DEF ScanStaleWritten, Written, EndWrite, Fresh
<1>14. CASE \E i \in Id : ScanCorrupt(i)
  BY <1>14 DEF ScanCorrupt, Scanning, SetAside, writer
<1>15. CASE ScanEnd
  BY <1>15 DEF ScanEnd, card, writer
<1>16. CASE LockTimeout
  BY <1>16 DEF LockTimeout, ToIdle, card, writer
<1>17. CASE ReadPicked
  BY <1>17 DEF ReadPicked, ToIdle, SdFree, MailerInSd, Readable, card, writer
<1>18. CASE ClaimBegin
  BY <1>18 DEF ClaimBegin, BeginWrite, Claimed, Goto, SdFree, MailerInSd
<1>19. CASE ClaimEnd
  BY <1>19 DEF ClaimEnd, Written, EndWrite, Fresh, Goto, ToIdle, card
<1>20. CASE SmtpNoLink
  BY <1>20 DEF SmtpNoLink, Goto, card, writer
<1>21. CASE SmtpOpen
  BY <1>21 DEF SmtpOpen, Goto, card, writer
<1>22. CASE SmtpRefused
  BY <1>22 DEF SmtpRefused, Goto, card, writer
<1>23. CASE SmtpDelivered
  BY <1>23 DEF SmtpDelivered, Goto, card, writer
<1>24. CASE MarkSentBegin
  BY <1>24 DEF MarkSentBegin, Goto, SdFree, MailerInSd, writer
<1>25. CASE MarkHash
  BY <1>25 DEF MarkHash, Goto, writer
<1>26. CASE MarkPending
  BY <1>26 DEF MarkPending, Goto, writer
<1>27. CASE MarkQueue
  BY <1>27 DEF MarkQueue, ToIdle, writer
<1>28. CASE RetryBegin
  BY <1>28 DEF RetryBegin, BeginWrite, Goto, SdFree, MailerInSd, card
<1>29. CASE RetryEnd
  BY <1>29 DEF RetryEnd, Written, EndWrite, Fresh, ToIdle, card
<1>30. CASE PermBegin
  BY <1>30 DEF PermBegin, Goto, SdFree, MailerInSd, writer
<1>31. CASE PermEnd
  BY <1>31 DEF PermEnd, ToIdle, writer
<1>32. CASE \E i \in Id : RecoverTidy(i)
  BY <1>32 DEF RecoverTidy, writer, mailer
<1>33. CASE \E i \in Id : RecoverSent(i)
  BY <1>33 DEF RecoverSent, Recovering, writer
<1>34. CASE \E i \in Id : RecoverKeep(i)
  BY <1>34 DEF RecoverKeep, Recovering, Readable, BeginWrite, writer
<1>35. CASE RecoverWritten
  BY <1>35 DEF RecoverWritten, Written, EndWrite, Fresh
<1>36. CASE \E i \in Id : RecoverCorrupt(i)
  BY <1>36 DEF RecoverCorrupt, Recovering, SetAside, writer
<1>37. CASE RecoverEnd
  BY <1>37 DEF RecoverEnd, card, writer
<1>38. CASE Reboot
  BY <1>38 DEF Reboot, Fresh, card
<1>39. CASE UNCHANGED vars
  BY <1>39 DEF vars, card, writer, mailer, history
<1>. QED
  BY <1>1, <1>2, <1>3, <1>4, <1>5, <1>6, <1>7, <1>8, <1>9, <1>10, <1>11, <1>12, <1>13,
     <1>14, <1>15, <1>16, <1>17, <1>18, <1>19, <1>20, <1>21, <1>22, <1>23, <1>24, <1>25,
     <1>26, <1>27, <1>28, <1>29, <1>30, <1>31, <1>32, <1>33, <1>34, <1>35, <1>36, <1>37,
     <1>38, <1>39 DEF Next, writeQueuedMailLocked,
     queueEmail, processQueue, getNextQueuePath, claimForSend, sendEmailMessage, markSent,
     scheduleRetry, markPermanentFailure, recoverEmailQueue

\* Every reachable state is well typed; with it, the sections exclude each
\* other and the mail in hand exists (lockSD, getNextQueuePath).
THEOREM TypeCorrect == Spec => []TypeOK
<1>1. TypeInv => TypeOK
  BY DEF TypeInv
<1>. QED
  BY <1>1, TypeInit, TypeNext, PTL DEF Spec

------------------------------------------------------------------------------
\* What has reached a server is recorded, in doubt, or about to be recorded;
\* and a mail is only sent while its hash has no .ok marker.
Recorded ==
  /\ delivered \subseteq okHash \cup doubt
       \cup (IF epc \in {"sent", "markHash"} THEN {HashOf[cur]} ELSE {})
  /\ epc \in {"picked", "read", "claim", "claimed", "smtp"} => HashOf[cur] \notin okHash

LEMMA RecordedNext ==
  TypeInv /\ Recorded /\ NoSilentDuplicate /\ [Next]_vars => (Recorded /\ NoSilentDuplicate)'
<1>. SUFFICES ASSUME TypeInv, Recorded, NoSilentDuplicate, [Next]_vars
              PROVE (Recorded /\ NoSilentDuplicate)'
  OBVIOUS
<1>. USE HashAssumption, FileAssumption
     DEF Recorded, NoSilentDuplicate, TypeInv, TypeOK, Sections, Cursor, Writing, Busy,
         Readable, card, writer, mailer, history
<1>1. CASE WriteTmp
  BY <1>1 DEF WriteTmp, WriteRest
<1>2. CASE WriteRotate
  BY <1>2 DEF WriteRotate, WriteRest
<1>3. CASE WriteSwap
  BY <1>3 DEF WriteSwap, WriteRest
<1>4. CASE WriteTidy
  BY <1>4 DEF WriteTidy, WriteRest
<1>5. CASE \E i \in Id : QueueBegin(i)
  BY <1>5 DEF QueueBegin, BeginWrite, SdFree, MailerInSd, Fresh, card
<1>6. CASE QueueSaved
  BY <1>6 DEF QueueSaved, EndWrite, Fresh
<1>7. CASE QueueNotSaved
  BY <1>7 DEF QueueNotSaved, EndWrite, Fresh, card
<1>8. CASE ScanBegin
  BY <1>8 DEF ScanBegin, SdFree, card, writer
<1>9. CASE \E i \in Id : ScanSent(i)
  BY <1>9 DEF ScanSent, Scanning, Readable, writer
<1>10. CASE \E i \in Id : ScanPick(i)
  BY <1>10 DEF ScanPick, Scanning, Readable, card, writer
<1>11. CASE \E i \in Id : ScanSkip(i)
  BY <1>11 DEF ScanSkip, Scanning, Readable, card, writer
<1>12. CASE \E i \in Id : ScanStale(i)
  BY <1>12 DEF ScanStale, Scanning, Readable, BeginWrite, card
<1>13. CASE ScanStaleWritten
  BY <1>13 DEF ScanStaleWritten, Written, EndWrite, Fresh
<1>14. CASE \E i \in Id : ScanCorrupt(i)
  BY <1>14 DEF ScanCorrupt, Scanning, SetAside, writer
<1>15. CASE ScanEnd
  BY <1>15 DEF ScanEnd, card, writer
<1>16. CASE LockTimeout
  BY <1>16 DEF LockTimeout, ToIdle, card, writer
<1>17. CASE ReadPicked
  BY <1>17 DEF ReadPicked, ToIdle, SdFree, MailerInSd, Readable, card, writer
<1>18. CASE ClaimBegin
  BY <1>18 DEF ClaimBegin, BeginWrite, Claimed, Goto, SdFree, MailerInSd
<1>19. CASE ClaimEnd
  BY <1>19 DEF ClaimEnd, Written, EndWrite, Fresh, Goto, ToIdle, card
<1>20. CASE SmtpNoLink
  BY <1>20 DEF SmtpNoLink, Goto, card, writer
<1>21. CASE SmtpOpen
  BY <1>21 DEF SmtpOpen, Goto, card, writer
<1>22. CASE SmtpRefused
  BY <1>22 DEF SmtpRefused, Goto, card, writer
<1>23. CASE SmtpDelivered
  BY <1>23 DEF SmtpDelivered, Goto, card, writer
<1>24. CASE MarkSentBegin
  BY <1>24 DEF MarkSentBegin, Goto, SdFree, MailerInSd, writer
<1>25. CASE MarkHash
  BY <1>25 DEF MarkHash, Goto, writer
<1>26. CASE MarkPending
  BY <1>26 DEF MarkPending, Goto, writer
<1>27. CASE MarkQueue
  BY <1>27 DEF MarkQueue, ToIdle, writer
<1>28. CASE RetryBegin
  BY <1>28 DEF RetryBegin, BeginWrite, Goto, SdFree, MailerInSd, card
<1>29. CASE RetryEnd
  BY <1>29 DEF RetryEnd, Written, EndWrite, Fresh, ToIdle, card
<1>30. CASE PermBegin
  BY <1>30 DEF PermBegin, Goto, SdFree, MailerInSd, writer
<1>31. CASE PermEnd
  BY <1>31 DEF PermEnd, ToIdle, writer
<1>32. CASE \E i \in Id : RecoverTidy(i)
  BY <1>32 DEF RecoverTidy, writer, mailer
<1>33. CASE \E i \in Id : RecoverSent(i)
  BY <1>33 DEF RecoverSent, Recovering, writer
<1>34. CASE \E i \in Id : RecoverKeep(i)
  BY <1>34 DEF RecoverKeep, Recovering, Readable, BeginWrite, writer
<1>35. CASE RecoverWritten
  BY <1>35 DEF RecoverWritten, Written, EndWrite, Fresh
<1>36. CASE \E i \in Id : RecoverCorrupt(i)
  BY <1>36 DEF RecoverCorrupt, Recovering, SetAside, writer
<1>37. CASE RecoverEnd
  BY <1>37 DEF RecoverEnd, card, writer
<1>38. CASE Reboot
  BY <1>38 DEF Reboot, Fresh, card
<1>39. CASE UNCHANGED vars
  BY <1>39 DEF vars, card, writer, mailer, history
<1>. QED
  BY <1>1, <1>2, <1>3, <1>4, <1>5, <1>6, <1>7, <1>8, <1>9, <1>10, <1>11, <1>12, <1>13,
     <1>14, <1>15, <1>16, <1>17, <1>18, <1>19, <1>20, <1>21, <1>22, <1>23, <1>24, <1>25,
     <1>26, <1>27, <1>28, <1>29, <1>30, <1>31, <1>32, <1>33, <1>34, <1>35, <1>36, <1>37,
     <1>38, <1>39 DEF Next, writeQueuedMailLocked,
     queueEmail, processQueue, getNextQueuePath, claimForSend, sendEmailMessage, markSent,
     scheduleRetry, markPermanentFailure, recoverEmailQueue

\* A text reaches a server twice only when the card could not know of the
\* first time.
THEOREM DuplicatesAreDoubtful == Spec => []NoSilentDuplicate
<1>1. Init => Recorded /\ NoSilentDuplicate
  BY DEF Init, Recorded, NoSilentDuplicate
<1>. QED
  BY <1>1, TypeInit, TypeNext, RecordedNext, PTL DEF Spec

------------------------------------------------------------------------------
\* A mail that is in hand, or that is about to be rewritten, has a queue file,
\* and the writer has put down what it was given once it says so.
OnCard ==
  /\ epc \in Busy \ {"claim", "retry", "perm"} => json[cur] # NoFile
  /\ wpc \in {"tmp", "rotate"} /\ qpc = "idle" => json[wid] # NoFile
  /\ wpc = "swap" => json[wid] = NoFile
  /\ wpc \in {"tidy", "ok"} => json[wid] = wrec
  /\ qpc = "save" => wid \notin accepted

\* Only files a full card cut short cannot be read.
CutOnly ==
  /\ \A i \in Id : Corrupt \in {json[i], bak[i]} => i \in cut
  /\ wpc # "idle" /\ wrec = Corrupt => wid \in cut

\* The claim that is being written is the claim of the mail in hand.
ClaimRecord == epc = "claim" => wrec = [retry |-> curRetry, inFlight |-> TRUE] \/ cur \in cut

\* Markers are only put down for texts a server has.
Delivered ==
  /\ okHash \subseteq delivered
  /\ epc \in {"sent", "markHash", "markPending", "markQueue"} => HashOf[cur] \in delivered

CardInv == OnCard /\ CutOnly /\ ClaimRecord /\ Delivered /\ ClaimBeforeSend /\ AcceptedNotLost

LEMMA CardNext == TypeInv /\ CardInv /\ [Next]_vars => CardInv'
<1>. SUFFICES ASSUME TypeInv, CardInv, [Next]_vars PROVE CardInv'
  OBVIOUS
<1>. USE HashAssumption, FileAssumption, EntryFacts
     DEF CardInv, OnCard, CutOnly, ClaimRecord, Delivered, ClaimBeforeSend, AcceptedNotLost,
         Held, TypeInv, TypeOK, Sections, Cursor, MailerInSd, Writing, Busy, Readable,
         WriterPc, card, writer, mailer, history
<1>1. CASE WriteTmp
  BY <1>1 DEF WriteTmp, WriteRest
<1>2. CASE WriteRotate
  BY <1>2 DEF WriteRotate, WriteRest
<1>3. CASE WriteSwap
  BY <1>3 DEF WriteSwap, WriteRest
<1>4. CASE WriteTidy
  BY <1>4 DEF WriteTidy, WriteRest
<1>5. CASE \E i \in Id : QueueBegin(i)
  BY <1>5 DEF QueueBegin, BeginWrite, SdFree, MailerInSd, Fresh, card
<1>6. CASE QueueSaved
  BY <1>6 DEF QueueSaved, EndWrite, Fresh
<1>7. CASE QueueNotSaved
  BY <1>7 DEF QueueNotSaved, EndWrite, Fresh, card
<1>8. CASE ScanBegin
  BY <1>8 DEF ScanBegin, SdFree, card, writer
<1>9. CASE \E i \in Id : ScanSent(i)
  BY <1>9 DEF ScanSent, Scanning, Readable, writer
<1>10. CASE \E i \in Id : ScanPick(i)
  BY <1>10 DEF ScanPick, Scanning, Readable, card, writer
<1>11. CASE \E i \in Id : ScanSkip(i)
  BY <1>11 DEF ScanSkip, Scanning, Readable, card, writer
<1>12. CASE \E i \in Id : ScanStale(i)
  BY <1>12 DEF ScanStale, Scanning, Readable, BeginWrite, card
<1>13. CASE ScanStaleWritten
  BY <1>13 DEF ScanStaleWritten, Written, EndWrite, Fresh
<1>14. CASE \E i \in Id : ScanCorrupt(i)
  BY <1>14 DEF ScanCorrupt, Scanning, SetAside, writer
<1>15. CASE ScanEnd
  BY <1>15 DEF ScanEnd, card, writer
<1>16. CASE LockTimeout
  BY <1>16 DEF LockTimeout, ToIdle, card, writer
<1>17. CASE ReadPicked
  BY <1>17 DEF ReadPicked, ToIdle, SdFree, MailerInSd, Readable, card, writer
<1>18. CASE ClaimBegin
  BY <1>18 DEF ClaimBegin, BeginWrite, Claimed, Goto, SdFree, MailerInSd
<1>19. CASE ClaimEnd
  <2>. USE DEF ClaimEnd, Written, EndWrite, Fresh, Goto, ToIdle
  <2>1. (OnCard /\ CutOnly /\ ClaimRecord)'
    BY <1>19
  <2>2. ClaimBeforeSend'
    BY <1>19
  <2>3. (Delivered /\ AcceptedNotLost)'
    BY <1>19
  <2>. QED
    BY <2>1, <2>2, <2>3
<1>20. CASE SmtpNoLink
  BY <1>20 DEF SmtpNoLink, Goto, card, writer
<1>21. CASE SmtpOpen
  BY <1>21 DEF SmtpOpen, Goto, card, writer
<1>22. CASE SmtpRefused
  BY <1>22 DEF SmtpRefused, Goto, card, writer
<1>23. CASE SmtpDelivered
  BY <1>23 DEF SmtpDelivered, Goto, card, writer
<1>24. CASE MarkSentBegin
  BY <1>24 DEF MarkSentBegin, Goto, SdFree, MailerInSd, writer
<1>25. CASE MarkHash
  BY <1>25 DEF MarkHash, Goto, writer
<1>26. CASE MarkPending
  BY <1>26 DEF MarkPending, Goto, writer
<1>27. CASE MarkQueue
  BY <1>27 DEF MarkQueue, ToIdle, writer
<1>28. CASE RetryBegin
  BY <1>28 DEF RetryBegin, BeginWrite, Goto, SdFree, MailerInSd, card
<1>29. CASE RetryEnd
  BY <1>29 DEF RetryEnd, Written, EndWrite, Fresh, ToIdle, card
<1>30. CASE PermBegin
  BY <1>30 DEF PermBegin, Goto, SdFree, MailerInSd, writer
<1>31. CASE PermEnd
  BY <1>31 DEF PermEnd, ToIdle, writer
<1>32. CASE \E i \in Id : RecoverTidy(i)
  BY <1>32 DEF RecoverTidy, writer, mailer
<1>33. CASE \E i \in Id : RecoverSent(i)
  BY <1>33 DEF RecoverSent, Recovering, writer
<1>34. CASE \E i \in Id : RecoverKeep(i)
  BY <1>34 DEF RecoverKeep, Recovering, Readable, BeginWrite, writer
<1>35. CASE RecoverWritten
  BY <1>35 DEF RecoverWritten, Written, EndWrite, Fresh
<1>36. CASE \E i \in Id : RecoverCorrupt(i)
  BY <1>36 DEF RecoverCorrupt, Recovering, SetAside, writer
<1>37. CASE RecoverEnd
  BY <1>37 DEF RecoverEnd, card, writer
<1>38. CASE Reboot
  BY <1>38 DEF Reboot, Fresh, card
<1>39. CASE UNCHANGED vars
  BY <1>39 DEF vars, card, writer, mailer, history
<1>. QED
  BY <1>1, <1>2, <1>3, <1>4, <1>5, <1>6, <1>7, <1>8, <1>9, <1>10, <1>11, <1>12, <1>13,
     <1>14, <1>15, <1>16, <1>17, <1>18, <1>19, <1>20, <1>21, <1>22, <1>23, <1>24, <1>25,
     <1>26, <1>27, <1>28, <1>29, <1>30, <1>31, <1>32, <1>33, <1>34, <1>35, <1>36, <1>37,
     <1>38, <1>39 DEF Next, writeQueuedMailLocked,
     queueEmail, processQueue, getNextQueuePath, claimForSend, sendEmailMessage, markSent,
     scheduleRetry, markPermanentFailure, recoverEmailQueue

\* No accepted mail is lost without a trace.
THEOREM AcceptedIsKept == Spec => []AcceptedNotLost
<1>1. Init => CardInv
  BY FileAssumption
  DEF Init, CardInv, OnCard, CutOnly, ClaimRecord, Delivered, ClaimBeforeSend, AcceptedNotLost, Busy
<1>2. CardInv => AcceptedNotLost
  BY DEF CardInv
<1>. QED
  BY <1>1, <1>2, TypeInit, TypeNext, CardNext, PTL DEF Spec

\* A session is only open for a mail the card shows as claimed.
THEOREM SessionsAreClaimed == Spec => []ClaimBeforeSend
<1>1. Init => CardInv
  BY FileAssumption
  DEF Init, CardInv, OnCard, CutOnly, ClaimRecord, Delivered, ClaimBeforeSend, AcceptedNotLost, Busy
<1>2. CardInv => ClaimBeforeSend
  BY DEF CardInv
<1>. QED
  BY <1>1, <1>2, TypeInit, TypeNext, CardNext, PTL DEF Spec

------------------------------------------------------------------------------
\* A text that is pending has a mail, and the markers a section takes away
\* do not come back before its end.
Backed ==
  /\ PendingBacked
  /\ qpc = "save" => HashOf[wid] \notin pending
  /\ epc = "markQueue" => HashOf[cur] \notin pending

LEMMA BackedNext == TypeInv /\ CardInv /\ Backed /\ [Next]_vars => Backed'
<1>. SUFFICES ASSUME TypeInv, CardInv, Backed, [Next]_vars PROVE Backed'
  OBVIOUS
<1>. USE HashAssumption, FileAssumption, EntryFacts
     DEF CardInv, OnCard, Backed, PendingBacked, TypeInv, TypeOK, Sections, Cursor, MailerInSd,
         Writing, Busy, Readable, WriterPc, card, writer, mailer, history
<1>1. CASE WriteTmp
  BY <1>1 DEF WriteTmp, WriteRest
<1>2. CASE WriteRotate
  BY <1>2 DEF WriteRotate, WriteRest
<1>3. CASE WriteSwap
  BY <1>3 DEF WriteSwap, WriteRest
<1>4. CASE WriteTidy
  BY <1>4 DEF WriteTidy, WriteRest
<1>5. CASE \E i \in Id : QueueBegin(i)
  BY <1>5 DEF QueueBegin, Duplicate, BeginWrite, SdFree, MailerInSd, Fresh, card
<1>6. CASE QueueSaved
  BY <1>6 DEF QueueSaved, EndWrite, Fresh
<1>7. CASE QueueNotSaved
  BY <1>7 DEF QueueNotSaved, EndWrite, Fresh, card
<1>8. CASE ScanBegin
  BY <1>8 DEF ScanBegin, SdFree, card, writer
<1>9. CASE \E i \in Id : ScanSent(i)
  BY <1>9 DEF ScanSent, Scanning, Readable, writer
<1>10. CASE \E i \in Id : ScanPick(i)
  BY <1>10 DEF ScanPick, Scanning, Readable, card, writer
<1>11. CASE \E i \in Id : ScanSkip(i)
  BY <1>11 DEF ScanSkip, Scanning, Readable, card, writer
<1>12. CASE \E i \in Id : ScanStale(i)
  BY <1>12 DEF ScanStale, Scanning, Readable, BeginWrite, card
<1>13. CASE ScanStaleWritten
  BY <1>13 DEF ScanStaleWritten, Written, EndWrite, Fresh
<1>14. CASE \E i \in Id : ScanCorrupt(i)
  BY <1>14 DEF ScanCorrupt, Scanning, SetAside, writer
<1>15. CASE ScanEnd
  BY <1>15 DEF ScanEnd, card, writer
<1>16. CASE LockTimeout
  BY <1>16 DEF LockTimeout, ToIdle, card, writer
<1>17. CASE ReadPicked
  BY <1>17 DEF ReadPicked, ToIdle, SdFree, MailerInSd, Readable, card, writer
<1>18. CASE ClaimBegin
  BY <1>18 DEF ClaimBegin, BeginWrite, Claimed, Goto, SdFree, MailerInSd
<1>19. CASE ClaimEnd
  BY <1>19 DEF ClaimEnd, Written, EndWrite, Fresh, Goto, ToIdle, card
<1>20. CASE SmtpNoLink
  BY <1>20 DEF SmtpNoLink, Goto, card, writer
<1>21. CASE SmtpOpen
  BY <1>21 DEF SmtpOpen, Goto, card, writer
<1>22. CASE SmtpRefused
  BY <1>22 DEF SmtpRefused, Goto, card, writer
<1>23. CASE SmtpDelivered
  BY <1>23 DEF SmtpDelivered, Goto, card, writer
<1>24. CASE MarkSentBegin
  BY <1>24 DEF MarkSentBegin, Goto, SdFree, MailerInSd, writer
<1>25. CASE MarkHash
  BY <1>25 DEF MarkHash, Goto, writer
<1>26. CASE MarkPending
  BY <1>26 DEF MarkPending, Goto, writer
<1>27. CASE MarkQueue
  BY <1>27 DEF MarkQueue, ToIdle, writer
<1>28. CASE RetryBegin
  BY <1>28 DEF RetryBegin, BeginWrite, Goto, SdFree, MailerInSd, card
<1>29. CASE RetryEnd
  BY <1>29 DEF RetryEnd, Written, EndWrite, Fresh, ToIdle, card
<1>30. CASE PermBegin
  BY <1>30 DEF PermBegin, Goto, SdFree, MailerInSd, writer
<1>31. CASE PermEnd
  BY <1>31 DEF PermEnd, ToIdle, writer
<1>32. CASE \E i \in Id : RecoverTidy(i)
  BY <1>32 DEF RecoverTidy, writer, mailer
<1>33. CASE \E i \in Id : RecoverSent(i)
  BY <1>33 DEF RecoverSent, Recovering, writer
<1>34. CASE \E i \in Id : RecoverKeep(i)
  BY <1>34 DEF RecoverKeep, Recovering, Readable, BeginWrite, writer
<1>35. CASE RecoverWritten
  BY <1>35 DEF RecoverWritten, Written, EndWrite, Fresh
<1>36. CASE \E i \in Id : RecoverCorrupt(i)
  BY <1>36 DEF RecoverCorrupt, Recovering, SetAside, writer
<1>37. CASE RecoverEnd
  BY <1>37 DEF RecoverEnd, card, writer
<1>38. CASE Reboot
  BY <1>38 DEF Reboot, Fresh, card
<1>39. CASE UNCHANGED vars
  BY <1>39 DEF vars, card, writer, mailer, history
<1>. QED
  BY <1>1, <1>2, <1>3, <1>4, <1>5, <1>6, <1>7, <1>8, <1>9, <1>10, <1>11, <1>12, <1>13,
     <1>14, <1>15, <1>16, <1>17, <1>18, <1>19, <1>20, <1>21, <1>22, <1>23, <1>24, <1>25,
     <1>26, <1>27, <1>28, <1>29, <1>30, <1>31, <1>32, <1>33, <1>34, <1>35, <1>36, <1>37,
     <1>38, <1>39 DEF Next, writeQueuedMailLocked,
     queueEmail, processQueue, getNextQueuePath, claimForSend, sendEmailMessage, markSent,
     scheduleRetry, markPermanentFailure, recoverEmailQueue

\* A .pending marker blocks a text only while a mail stands behind it, or after
\* a recorded leak (recoverEmailQueue, markPermanentFailure).
THEOREM MarkersAreBacked == Spec => []PendingBacked
<1>1. Init => CardInv /\ Backed
  BY FileAssumption
  DEF Init, CardInv, OnCard, CutOnly, ClaimRecord, Delivered, ClaimBeforeSend, AcceptedNotLost, Busy,
      Backed, PendingBacked
<1>2. Backed => PendingBacked
  BY DEF Backed
<1>. QED
  BY <1>1, <1>2, TypeInit, TypeNext, CardNext, BackedNext, PTL DEF Spec

------------------------------------------------------------------------------
\* The claim of the mail in hand is on the card and its session not yet settled.
Claiming == {"claimed", "smtp", "sent", "markHash", "markPending", "markQueue", "failed"}
InHand(i) == i = cur /\ (epc \in Claiming \/ (epc = "claim" /\ wpc \in {"tidy", "ok"}))

\* What the files and the writer's record say of the sessions begun.
Counts ==
  /\ AttemptsCounted
  /\ wpc # "idle" /\ wrec \in Entry => attempts[wid] <= Tried(wrec)
  /\ wpc = "swap" /\ bak[wid] \in Entry => attempts[wid] <= Tried(bak[wid])
  /\ epc \in {"read", "claim", "claimed"} => attempts[cur] <= curRetry
  /\ epc \in {"smtp", "failed"} => attempts[cur] <= curRetry + 1
  /\ \A i \in Id \ used : attempts[i] = 0

\* What the card shows of the mail in hand.
Shown ==
  /\ epc = "picked" => ~json[cur].inFlight
  /\ epc = "read" => json[cur] \in Entry /\ json[cur].retry = curRetry /\ ~json[cur].inFlight
  /\ epc = "claim" => wrec \in {Claimed(curRetry), Corrupt}
  /\ epc \in {"claimed", "smtp", "failed"} => json[cur] \in {Claimed(curRetry), Corrupt}

\* No count comes near the end of its eight bits.
Limit == MaxRetry - 1 + mishaps
Low ==
  /\ mishaps <= MaxMishap
  /\ \A i \in Id : json[i] \in Entry =>
       Tried(json[i]) <= Limit \/ (InHand(i) /\ Tried(json[i]) <= Limit + 1)
  /\ wpc # "idle" /\ wrec \in Entry =>
       Tried(wrec) <= Limit \/ (epc = "claim" /\ Tried(wrec) <= Limit + 1)
  /\ wpc = "swap" /\ bak[wid] \in Entry => Tried(bak[wid]) <= Limit
  /\ epc \in {"read", "claim", "claimed", "smtp", "failed"} => curRetry <= Limit
  /\ \A i \in Id : attempts[i] <= MaxRetry + mishaps

CountInv == Counts /\ Shown /\ Low

\* Far from its end a count that is stepped on is one more.
LEMMA NoWrap ==
  ASSUME MaxRetry + MaxMishap < RetryMod, mishaps \in Nat, mishaps <= MaxMishap, NEW r \in Nat, r <= Limit
  PROVE  Next8(r) = r + 1
BY RetryAssumption DEF Next8, Limit

LEMMA TriedFacts ==
  /\ Tried(Fresh) = 0
  /\ \A e \in Entry : /\ Tried(e) \in Nat /\ e.retry <= Tried(e)
                      /\ e.inFlight => Tried(e) = e.retry + 1
                      /\ ~e.inFlight => Tried(e) = e.retry
  /\ \A r \in 0 .. RetryMod - 1 : Tried(Claimed(r)) = r + 1 /\ Tried(Released(r)) = Next8(r)
BY Next8Range, RetryAssumption DEF Tried, Fresh, Claimed, Released, Entry

\* A claim that is released counts as before.
LEMMA ReleasedCounts ==
  ASSUME MaxRetry + MaxMishap < RetryMod, mishaps \in Nat, mishaps <= MaxMishap,
         NEW e \in Entry, e.inFlight, Tried(e) <= Limit
  PROVE  Released(e.retry) \in Entry /\ Tried(Released(e.retry)) = Tried(e)
<1>1. e.retry \in 0 .. RetryMod - 1
  BY EntryFacts
<1>2. Limit \in Int
  BY RetryAssumption DEF Limit
<1>3. e.retry <= Limit
  BY <1>1, <1>2, TriedFacts
<1>4. Next8(e.retry) = e.retry + 1
  BY <1>1, <1>3, NoWrap
<1>5. Tried(Released(e.retry)) = Next8(e.retry) /\ Tried(e) = e.retry + 1
  BY <1>1, TriedFacts
<1> QED BY <1>1, <1>4, <1>5, EntryFacts

LEMMA LowLimit ==
  ASSUME TypeOK, Low
  PROVE  /\ Limit \in Int
         /\ mishaps' = mishaps + 1 => Limit' = Limit + 1 /\ Limit' \in Int
         /\ \A i \in Id : json[i] \in Entry => Tried(json[i]) \in Nat /\ Tried(json[i]) <= Limit + 1
<1>1. Limit \in Int /\ (mishaps' = mishaps + 1 => Limit' = Limit + 1 /\ Limit' \in Int)
  BY RetryAssumption DEF TypeOK, Limit
<1>2. ASSUME NEW i \in Id, json[i] \in Entry PROVE Tried(json[i]) \in Nat /\ Tried(json[i]) <= Limit + 1
  <2>1. Tried(json[i]) <= Limit \/ Tried(json[i]) <= Limit + 1
    BY <1>2 DEF Low
  <2>2. Tried(json[i]) \in Nat
    BY <1>2, TriedFacts
  <2> QED BY <1>1, <2>1, <2>2
<1> QED BY <1>1, <1>2

LEMMA CountNext ==
  ASSUME MaxRetry + MaxMishap < RetryMod
  PROVE  TypeInv /\ CardInv /\ CountInv /\ [Next]_vars => CountInv'
<1>. SUFFICES ASSUME TypeInv, CardInv, CountInv, [Next]_vars PROVE CountInv'
  OBVIOUS
<1>. DEFINE N(r) == r <= Limit => Next8(r) = r + 1
<1>0. \A r \in 0 .. RetryMod - 1 : N(r)
  BY NoWrap, RetryAssumption DEF TypeInv, TypeOK, CountInv, Low
<1>. USE <1>0, HashAssumption, FileAssumption, RetryAssumption, EntryFacts, TriedFacts
     DEF CardInv, OnCard, CountInv, Limit, InHand, Claiming, AttemptsCounted,
         TypeInv, TypeOK, Sections, Cursor, Drawn, MailerInSd, Writing, Busy, Readable, WriterPc,
         card, writer, mailer, history
<1>1. CASE WriteTmp
  <2>. USE <1>1 DEF WriteTmp, WriteRest
  <2>1. Counts'
    BY DEF Counts, Shown, Low
  <2>2. Shown'
    BY DEF Shown
  <2>3. Low'
    BY DEF Counts, Shown, Low
  <2>. QED
    BY <2>1, <2>2, <2>3
<1>2. CASE WriteRotate
  <2>. USE <1>2 DEF WriteRotate, WriteRest
  <2>1. Counts'
    <3>1. AttemptsCounted'
      BY DEF Counts
    <3>2. wpc' = "swap" /\ bak'[wid'] \in Entry => attempts'[wid'] <= Tried(bak'[wid'])
      BY DEF Counts
    <3>. QED
      BY <3>1, <3>2 DEF Counts
  <2>2. Shown'
    BY DEF Shown
  <2>3. Low'
    BY DEF Counts, Shown, Low
  <2>. QED
    BY <2>1, <2>2, <2>3
<1>3. CASE WriteSwap
  <2>. USE <1>3 DEF WriteSwap, WriteRest
  <2>1. Counts'
    <3>1. json'[wid] \in Entry => attempts[wid] <= Tried(json'[wid])
      BY DEF Counts
    <3>2. AttemptsCounted'
      BY <3>1 DEF Counts
    <3>. QED
      BY <3>2 DEF Counts
  <2>2. Shown'
    BY DEF Shown
  <2>3. Low'
    BY DEF Counts, Shown, Low
  <2>. QED
    BY <2>1, <2>2, <2>3
<1>4. CASE WriteTidy
  <2>. USE <1>4 DEF WriteTidy, WriteRest
  <2>1. Counts'
    BY DEF Counts, Shown, Low
  <2>2. Shown'
    BY DEF Shown
  <2>3. Low'
    BY DEF Counts, Shown, Low
  <2>. QED
    BY <2>1, <2>2, <2>3
<1>5. CASE \E i \in Id : QueueBegin(i)
  <2>. USE <1>5 DEF QueueBegin, BeginWrite, SdFree, MailerInSd, card
  <2>1. Counts'
    BY DEF Counts, Shown, Low
  <2>2. Shown'
    BY DEF Shown
  <2>3. Low'
    BY DEF Counts, Shown, Low
  <2>. QED
    BY <2>1, <2>2, <2>3
<1>6. CASE QueueSaved
  <2>. USE <1>6 DEF QueueSaved, EndWrite
  <2>1. Counts'
    BY DEF Counts, Shown, Low
  <2>2. Shown'
    BY DEF Shown
  <2>3. Low'
    BY DEF Counts, Shown, Low
  <2>. QED
    BY <2>1, <2>2, <2>3
<1>7. CASE QueueNotSaved
  <2>. USE <1>7 DEF QueueNotSaved, EndWrite, card
  <2>1. Counts'
    BY DEF Counts, Shown, Low
  <2>2. Shown'
    BY DEF Shown
  <2>3. Low'
    BY DEF Counts, Shown, Low
  <2>. QED
    BY <2>1, <2>2, <2>3
<1>8. CASE ScanBegin
  <2>. USE <1>8 DEF ScanBegin, SdFree, card, writer
  <2>1. Counts'
    BY DEF Counts, Shown, Low
  <2>2. Shown'
    BY DEF Shown
  <2>3. Low'
    BY DEF Counts, Shown, Low
  <2>. QED
    BY <2>1, <2>2, <2>3
<1>9. CASE \E i \in Id : ScanSent(i)
  <2>. USE <1>9 DEF ScanSent, Scanning, Readable, writer
  <2>1. Counts'
    BY DEF Counts, Shown, Low
  <2>2. Shown'
    BY DEF Shown
  <2>3. Low'
    BY DEF Counts, Shown, Low
  <2>. QED
    BY <2>1, <2>2, <2>3
<1>10. CASE \E i \in Id : ScanPick(i)
  <2>. USE <1>10 DEF ScanPick, Scanning, Readable, card, writer
  <2>1. Counts'
    BY DEF Counts, Shown, Low
  <2>2. Shown'
    BY DEF Shown
  <2>3. Low'
    BY DEF Counts, Shown, Low
  <2>. QED
    BY <2>1, <2>2, <2>3
<1>11. CASE \E i \in Id : ScanSkip(i)
  <2>. USE <1>11 DEF ScanSkip, Scanning, Readable, card, writer
  <2>1. Counts'
    BY DEF Counts, Shown, Low
  <2>2. Shown'
    BY DEF Shown
  <2>3. Low'
    BY DEF Counts, Shown, Low
  <2>. QED
    BY <2>1, <2>2, <2>3
<1>12. CASE \E i \in Id : ScanStale(i)
  <2>1. PICK i \in Id : ScanStale(i)
    BY <1>12
  <2>2. Tried(json[i]) <= Limit
    BY <2>1 DEF ScanStale, Scanning, Low
  <2>3. json[i] \in Entry /\ mishaps \in Nat /\ mishaps <= MaxMishap
    BY <2>1 DEF ScanStale, Scanning, Low
  <2>4. json[i].inFlight => /\ Released(json[i].retry) \in Entry
                            /\ Tried(Released(json[i].retry)) = Tried(json[i])
    BY <2>2, <2>3, ReleasedCounts
  <2>. USE <2>1, <2>2, <2>4 DEF ScanStale, BeginWrite
  <2>5. Counts'
    BY DEF Counts
  <2>6. Shown'
    BY DEF Shown
  <2>7. Low'
    <3>1. (\A k \in Id : json[k] \in Entry =>
             Tried(json[k]) <= Limit \/ (InHand(k) /\ Tried(json[k]) <= Limit + 1))'
      <4>1. \A k \in Id : ~InHand(k)
        BY DEF Scanning
      <4>2. \A k \in Id : json[k] \in Entry => Tried(json[k]) <= Limit
        BY <4>1 DEF Low
      <4>3. json' = json /\ Limit' = Limit
        OBVIOUS
      <4>. HIDE DEF Limit, InHand
      <4>. QED
        BY <4>2, <4>3
    <3>2. (wpc # "idle" /\ wrec \in Entry =>
             Tried(wrec) <= Limit \/ (epc = "claim" /\ Tried(wrec) <= Limit + 1))'
      BY DEF Low
    <3>3. (wpc = "swap" /\ bak[wid] \in Entry => Tried(bak[wid]) <= Limit)'
      BY DEF Low
    <3>4. (epc \in {"read", "claim", "claimed", "smtp", "failed"} => curRetry <= Limit)'
      BY DEF Low
    <3>5. (mishaps <= MaxMishap /\ \A k \in Id : attempts[k] <= MaxRetry + mishaps)'
      BY DEF Low
    <3>. QED
      BY <3>1, <3>2, <3>3, <3>4, <3>5 DEF Low
  <2>. QED
    BY <2>5, <2>6, <2>7
<1>13. CASE ScanStaleWritten
  <2>. USE <1>13 DEF ScanStaleWritten, Written, EndWrite
  <2>1. Counts'
    BY DEF Counts, Shown, Low
  <2>2. Shown'
    BY DEF Shown
  <2>3. Low'
    BY DEF Counts, Shown, Low
  <2>. QED
    BY <2>1, <2>2, <2>3
<1>14. CASE \E i \in Id : ScanCorrupt(i)
  <2>. USE <1>14 DEF ScanCorrupt, Scanning, SetAside, writer
  <2>1. Counts'
    BY DEF Counts, Shown, Low
  <2>2. Shown'
    BY DEF Shown
  <2>3. Low'
    BY DEF Counts, Shown, Low
  <2>. QED
    BY <2>1, <2>2, <2>3
<1>15. CASE ScanEnd
  <2>. USE <1>15 DEF ScanEnd, card, writer
  <2>1. Counts'
    BY DEF Counts, Shown, Low
  <2>2. Shown'
    BY DEF Shown
  <2>3. Low'
    BY DEF Counts, Shown, Low
  <2>. QED
    BY <2>1, <2>2, <2>3
<1>16. CASE LockTimeout
  <2>. USE <1>16 DEF LockTimeout, ToIdle, card, writer
  <2>1. Counts'
    BY DEF Counts, Shown, Low
  <2>2. Shown'
    BY DEF Shown
  <2>3. mishaps \in Nat /\ mishaps' = mishaps + 1 /\ mishaps' <= MaxMishap
    BY DEF Low
  <2>4. \A i \in Id : json'[i] \in Entry => Tried(json'[i]) <= Limit'
    <3>1. json' = json
      OBVIOUS
    <3>. QED
      BY <2>3, <3>1, LowLimit
  <2>5. \A i \in Id : attempts'[i] <= MaxRetry + mishaps'
    BY <2>3 DEF Low
  <2>0. /\ Limit \in Int /\ Limit' = Limit + 1
        /\ wrec \in Entry => Tried(wrec) \in Nat
        /\ bak[wid] \in Entry => Tried(bak[wid]) \in Nat
    BY <2>3, LowLimit
  <2>6. (wpc # "idle" /\ wrec \in Entry =>
           Tried(wrec) <= Limit \/ (epc = "claim" /\ Tried(wrec) <= Limit + 1))'
    <3>1. wpc # "idle" /\ wrec \in Entry => Tried(wrec) <= Limit
      BY DEF Low
    <3>. HIDE DEF Limit
    <3>. QED
      BY <2>0, <3>1
  <2>7. (wpc = "swap" /\ bak[wid] \in Entry => Tried(bak[wid]) <= Limit)'
    <3>1. wpc = "swap" /\ bak[wid] \in Entry => Tried(bak[wid]) <= Limit
      BY DEF Low
    <3>. HIDE DEF Limit
    <3>. QED
      BY <2>0, <3>1
  <2>8. (epc \in {"read", "claim", "claimed", "smtp", "failed"} => curRetry <= Limit)'
    OBVIOUS
  <2>9. Low'
    BY <2>3, <2>4, <2>5, <2>6, <2>7, <2>8 DEF Low
  <2>. QED
    BY <2>1, <2>2, <2>9
<1>17. CASE ReadPicked
  <2>. USE <1>17 DEF ReadPicked, ToIdle, SdFree, card, writer
  <2>1. Counts'
    BY DEF Counts, Shown, Low
  <2>2. Shown'
    BY DEF Shown
  <2>3. json[cur] \in Entry /\ json[cur].retry <= Limit
    <3>1. json[cur] \in Entry /\ ~json[cur].inFlight /\ cur \in Id
      BY DEF Shown
    <3>2. Tried(json[cur]) <= Limit
      BY <3>1 DEF Low
    <3>3. json[cur].retry \in Nat /\ json[cur].retry <= Tried(json[cur]) /\ Tried(json[cur]) \in Nat
      BY <3>1
    <3>4. Limit \in Int
      BY LowLimit
    <3>. HIDE DEF Limit
    <3>. QED
      BY <3>1, <3>2, <3>3, <3>4
  <2>4. Low'
    BY <2>3 DEF Low
  <2>. QED
    BY <2>1, <2>2, <2>4
<1>18. CASE ClaimBegin
  <2>. USE <1>18 DEF ClaimBegin, BeginWrite, Goto, SdFree, MailerInSd
  <2>1. Counts'
    BY DEF Counts, Shown, Low
  <2>2. Shown'
    BY DEF Shown
  <2>3. Low'
    BY DEF Counts, Shown, Low
  <2>. QED
    BY <2>1, <2>2, <2>3
<1>19. CASE ClaimEnd
  <2>. USE <1>19 DEF ClaimEnd, Written, EndWrite, Goto, ToIdle, card
  <2>1. Counts'
    BY DEF Counts, Shown, Low
  <2>2. Shown'
    BY DEF Shown
  <2>3. Low'
    BY DEF Counts, Shown, Low
  <2>. QED
    BY <2>1, <2>2, <2>3
<1>20. CASE SmtpNoLink
  <2>. USE <1>20 DEF SmtpNoLink, Goto, card, writer
  <2>1. Counts'
    BY DEF Counts, Shown, Low
  <2>2. Shown'
    BY DEF Shown
  <2>3. Low'
    BY DEF Counts, Shown, Low
  <2>. QED
    BY <2>1, <2>2, <2>3
<1>21. CASE SmtpOpen
  <2>. USE <1>21 DEF SmtpOpen, Goto, card, writer
  <2>1. cur \in Id /\ cur \in used /\ attempts'[cur] = attempts[cur] + 1
        /\ \A i \in Id : i # cur => attempts'[i] = attempts[i]
    OBVIOUS
  <2>2. attempts'[cur] <= curRetry + 1 /\ curRetry <= Limit /\ wpc = "idle"
    BY <2>1 DEF Counts, Low
  <2>3. json[cur] \in Entry => Tried(json[cur]) = curRetry + 1
    BY DEF Shown
  <2>4. Counts'
    BY <2>1, <2>2, <2>3 DEF Counts
  <2>5. Shown'
    BY DEF Shown
  <2>6. Low'
    BY <2>1, <2>2 DEF Low
  <2>. QED
    BY <2>4, <2>5, <2>6
<1>22. CASE SmtpRefused
  <2>. USE <1>22 DEF SmtpRefused, Goto, card, writer
  <2>1. Counts'
    BY DEF Counts, Shown, Low
  <2>2. Shown'
    BY DEF Shown
  <2>3. Low'
    BY DEF Counts, Shown, Low
  <2>. QED
    BY <2>1, <2>2, <2>3
<1>23. CASE SmtpDelivered
  <2>. USE <1>23 DEF SmtpDelivered, Goto, card, writer
  <2>1. Counts'
    BY DEF Counts, Shown, Low
  <2>2. Shown'
    BY DEF Shown
  <2>3. Low'
    BY DEF Counts, Shown, Low
  <2>. QED
    BY <2>1, <2>2, <2>3
<1>24. CASE MarkSentBegin
  <2>. USE <1>24 DEF MarkSentBegin, Goto, SdFree, MailerInSd, writer
  <2>1. Counts'
    BY DEF Counts, Shown, Low
  <2>2. Shown'
    BY DEF Shown
  <2>3. Low'
    BY DEF Counts, Shown, Low
  <2>. QED
    BY <2>1, <2>2, <2>3
<1>25. CASE MarkHash
  <2>. USE <1>25 DEF MarkHash, Goto, writer
  <2>1. Counts'
    BY DEF Counts, Shown, Low
  <2>2. Shown'
    BY DEF Shown
  <2>3. Low'
    BY DEF Counts, Shown, Low
  <2>. QED
    BY <2>1, <2>2, <2>3
<1>26. CASE MarkPending
  <2>. USE <1>26 DEF MarkPending, Goto, writer
  <2>1. Counts'
    BY DEF Counts, Shown, Low
  <2>2. Shown'
    BY DEF Shown
  <2>3. Low'
    BY DEF Counts, Shown, Low
  <2>. QED
    BY <2>1, <2>2, <2>3
<1>27. CASE MarkQueue
  <2>. USE <1>27 DEF MarkQueue, ToIdle, writer
  <2>1. Counts'
    BY DEF Counts, Shown, Low
  <2>2. Shown'
    BY DEF Shown
  <2>3. Low'
    BY DEF Counts, Shown, Low
  <2>. QED
    BY <2>1, <2>2, <2>3
<1>28. CASE RetryBegin
  <2>. USE <1>28 DEF RetryBegin, BeginWrite, Goto, SdFree, MailerInSd, card
  <2>1. Counts'
    BY DEF Counts, Shown, Low
  <2>2. Shown'
    BY DEF Shown
  <2>3. Low'
    BY DEF Counts, Shown, Low
  <2>. QED
    BY <2>1, <2>2, <2>3
<1>29. CASE RetryEnd
  <2>. USE <1>29 DEF RetryEnd, Written, EndWrite, ToIdle, card
  <2>1. Counts'
    BY DEF Counts, Shown, Low
  <2>2. Shown'
    BY DEF Shown
  <2>3. Low'
    BY DEF Counts, Shown, Low
  <2>. QED
    BY <2>1, <2>2, <2>3
<1>30. CASE PermBegin
  <2>. USE <1>30 DEF PermBegin, Goto, SdFree, MailerInSd, writer
  <2>1. Counts'
    BY DEF Counts, Shown, Low
  <2>2. Shown'
    BY DEF Shown
  <2>3. Low'
    BY DEF Counts, Shown, Low
  <2>. QED
    BY <2>1, <2>2, <2>3
<1>31. CASE PermEnd
  <2>. USE <1>31 DEF PermEnd, ToIdle, writer
  <2>1. Counts'
    BY DEF Counts, Shown, Low
  <2>2. Shown'
    BY DEF Shown
  <2>3. Low'
    BY DEF Counts, Shown, Low
  <2>. QED
    BY <2>1, <2>2, <2>3
<1>32. CASE \E i \in Id : RecoverTidy(i)
  <2>. USE <1>32 DEF RecoverTidy, writer, mailer
  <2>1. Counts'
    BY DEF Counts, Shown, Low
  <2>2. Shown'
    BY DEF Shown
  <2>3. Low'
    BY DEF Counts, Shown, Low
  <2>. QED
    BY <2>1, <2>2, <2>3
<1>33. CASE \E i \in Id : RecoverSent(i)
  <2>. USE <1>33 DEF RecoverSent, Recovering, writer
  <2>1. Counts'
    BY DEF Counts, Shown, Low
  <2>2. Shown'
    BY DEF Shown
  <2>3. Low'
    BY DEF Counts, Shown, Low
  <2>. QED
    BY <2>1, <2>2, <2>3
<1>34. CASE \E i \in Id : RecoverKeep(i)
  <2>1. PICK i \in Id : RecoverKeep(i)
    BY <1>34
  <2>2. Tried(json[i]) <= Limit
    BY <2>1 DEF RecoverKeep, Recovering, Low
  <2>3. json[i] \in Entry /\ mishaps \in Nat /\ mishaps <= MaxMishap
    BY <2>1 DEF RecoverKeep, Recovering, Low
  <2>4. json[i].inFlight => /\ Released(json[i].retry) \in Entry
                            /\ Tried(Released(json[i].retry)) = Tried(json[i])
    BY <2>2, <2>3, ReleasedCounts
  <2>. USE <2>1, <2>2, <2>4 DEF RecoverKeep, BeginWrite
  <2>5. Counts'
    BY DEF Counts
  <2>6. Shown'
    BY DEF Shown
  <2>7. Low'
    <3>1. (\A k \in Id : json[k] \in Entry =>
             Tried(json[k]) <= Limit \/ (InHand(k) /\ Tried(json[k]) <= Limit + 1))'
      <4>1. \A k \in Id : ~InHand(k)
        BY DEF Recovering
      <4>2. \A k \in Id : json[k] \in Entry => Tried(json[k]) <= Limit
        BY <4>1 DEF Low
      <4>3. json' = json /\ Limit' = Limit
        OBVIOUS
      <4>. HIDE DEF Limit, InHand
      <4>. QED
        BY <4>2, <4>3
    <3>2. (wpc # "idle" /\ wrec \in Entry =>
             Tried(wrec) <= Limit \/ (epc = "claim" /\ Tried(wrec) <= Limit + 1))'
      BY DEF Low
    <3>3. (wpc = "swap" /\ bak[wid] \in Entry => Tried(bak[wid]) <= Limit)'
      BY DEF Low
    <3>4. (epc \in {"read", "claim", "claimed", "smtp", "failed"} => curRetry <= Limit)'
      BY DEF Low
    <3>5. (mishaps <= MaxMishap /\ \A k \in Id : attempts[k] <= MaxRetry + mishaps)'
      BY DEF Low
    <3>. QED
      BY <3>1, <3>2, <3>3, <3>4, <3>5 DEF Low
  <2>. QED
    BY <2>5, <2>6, <2>7
<1>35. CASE RecoverWritten
  <2>. USE <1>35 DEF RecoverWritten, Written, EndWrite
  <2>1. Counts'
    BY DEF Counts, Shown, Low
  <2>2. Shown'
    BY DEF Shown
  <2>3. Low'
    BY DEF Counts, Shown, Low
  <2>. QED
    BY <2>1, <2>2, <2>3
<1>36. CASE \E i \in Id : RecoverCorrupt(i)
  <2>. USE <1>36 DEF RecoverCorrupt, Recovering, SetAside, writer
  <2>1. Counts'
    BY DEF Counts, Shown, Low
  <2>2. Shown'
    BY DEF Shown
  <2>3. Low'
    BY DEF Counts, Shown, Low
  <2>. QED
    BY <2>1, <2>2, <2>3
<1>37. CASE RecoverEnd
  <2>. USE <1>37 DEF RecoverEnd, card, writer
  <2>1. Counts'
    BY DEF Counts, Shown, Low
  <2>2. Shown'
    BY DEF Shown
  <2>3. Low'
    BY DEF Counts, Shown, Low
  <2>. QED
    BY <2>1, <2>2, <2>3
<1>38. CASE Reboot
  <2>. USE <1>38 DEF Reboot, card
  <2>1. Counts'
    BY DEF Counts, Shown, Low
  <2>2. Shown'
    BY DEF Shown
  <2>3. mishaps \in Nat /\ mishaps' = mishaps + 1 /\ mishaps' <= MaxMishap
    BY DEF Low
  <2>4. \A i \in Id : json'[i] \in Entry => Tried(json'[i]) <= Limit'
    <3>1. json' = json
      OBVIOUS
    <3>. QED
      BY <2>3, <3>1, LowLimit
  <2>5. \A i \in Id : attempts'[i] <= MaxRetry + mishaps'
    BY <2>3 DEF Low
  <2>0. wpc' = "idle"
    OBVIOUS
  <2>6. (wpc # "idle" /\ wrec \in Entry =>
           Tried(wrec) <= Limit \/ (epc = "claim" /\ Tried(wrec) <= Limit + 1))'
    BY <2>0
  <2>7. (wpc = "swap" /\ bak[wid] \in Entry => Tried(bak[wid]) <= Limit)'
    BY <2>0
  <2>8. (epc \in {"read", "claim", "claimed", "smtp", "failed"} => curRetry <= Limit)'
    OBVIOUS
  <2>9. Low'
    BY <2>3, <2>4, <2>5, <2>6, <2>7, <2>8 DEF Low
  <2>. QED
    BY <2>1, <2>2, <2>9
<1>39. CASE UNCHANGED vars
  <2>. USE <1>39 DEF vars, card, writer, mailer, history
  <2>1. Counts'
    BY DEF Counts, Shown, Low
  <2>2. Shown'
    BY DEF Shown
  <2>3. Low'
    BY DEF Counts, Shown, Low
  <2>. QED
    BY <2>1, <2>2, <2>3
<1>. QED
  BY <1>1, <1>2, <1>3, <1>4, <1>5, <1>6, <1>7, <1>8, <1>9, <1>10, <1>11, <1>12, <1>13,
     <1>14, <1>15, <1>16, <1>17, <1>18, <1>19, <1>20, <1>21, <1>22, <1>23, <1>24, <1>25,
     <1>26, <1>27, <1>28, <1>29, <1>30, <1>31, <1>32, <1>33, <1>34, <1>35, <1>36, <1>37,
     <1>38, <1>39 DEF Next, writeQueuedMailLocked,
     queueEmail, processQueue, getNextQueuePath, claimForSend, sendEmailMessage, markSent,
     scheduleRetry, markPermanentFailure, recoverEmailQueue

LEMMA CountInit == Init => CardInv /\ CountInv
BY FileAssumption, RetryAssumption, HashAssumption
DEF Init, CardInv, OnCard, CutOnly, ClaimRecord, Delivered, ClaimBeforeSend, AcceptedNotLost, Busy,
    CountInv, Counts, Shown, Low, Limit, InHand, Claiming, AttemptsCounted, Readable

\* The count on the card is never behind the sessions begun, as long as there
\* are not so many mishaps that its eight bits overflow (claimForSend,
\* recoverEmailQueue, scheduleRetry).
THEOREM SessionsAreCounted ==
  ASSUME MaxRetry + MaxMishap < RetryMod
  PROVE  Spec => []AttemptsCounted
<1>1. CountInv => AttemptsCounted
  BY DEF CountInv, Counts
<1>. QED
  BY <1>1, CountInit, TypeInit, TypeNext, CardNext, CountNext, PTL DEF Spec

\* No mail is tried more often than MAX_RETRY_COUNT, and once more for each
\* restart or lock that was not obtained (processQueue, scheduleRetry).
THEOREM TriesAreBounded ==
  ASSUME MaxRetry + MaxMishap < RetryMod
  PROVE  Spec => [](\A i \in Id : attempts[i] <= MaxRetry + mishaps)
<1>1. CountInv => \A i \in Id : attempts[i] <= MaxRetry + mishaps
  BY DEF CountInv, Low
<1>. QED
  BY <1>1, CountInit, TypeInit, TypeNext, CardNext, CountNext, PTL DEF Spec

------------------------------------------------------------------------------
(***************************************************************************)
(* The refinement: the queue implements MailService, whatever of the card  *)
(* fails.  First what holds of the files.                                  *)
(***************************************************************************)

\* The queue has the mail's text where it can still be sent from.
KeptOn(i) == OnTry(i) \/ Readable(i) \/ OnSwap(i)

Booting == epc \in {"boot", "bootWrite"}

\* What goes wrong has its fault, and the mail in hand has its session and marker.
Blamed ==
  /\ \A i \in Id : Corrupt \in {json[i], bak[i]} => "short" \in Faults
  /\ wrec \in Entry \/ "short" \in Faults
  /\ wpc = "fail" => Faults \cap {"open", "rename"} # {}
  /\ Booting /\ mishaps = 0 => used = {}
  /\ epc = "smtp" => attempts[cur] > 0
  /\ epc \in {"markPending", "markQueue"} /\ "open" \notin Faults => HashOf[cur] \in okHash

\* A mail that is being queued has no file and no marker yet.
NewFile ==
  /\ \A i \in Id \ used : bak[i] = NoFile
  /\ qpc = "save" => bak[wid] = NoFile /\ HashOf[wid] \notin okHash
  /\ qpc = "save" /\ wpc \notin {"tidy", "ok"} => json[wid] = NoFile

InHandKept == epc \in Claiming => json[cur] \in {Claimed(curRetry), Corrupt}

\* A rewrite keeps the tries, and a claim is one more.
OldFile == IF wpc = "swap" THEN bak[wid] ELSE json[wid]
Rewritten ==
  /\ qpc = "save" => wrec \in {Fresh, Corrupt}
  /\ wpc \in {"tmp", "rotate", "swap"} /\ epc \in {"scanWrite", "bootWrite"} =>
       OldFile \in Entry /\ (wrec \in Entry => Tried(wrec) = Tried(OldFile))
  /\ wpc \in {"tmp", "rotate", "swap"} /\ epc = "claim" =>
       OldFile \in Entry /\ Tried(OldFile) = curRetry
  /\ epc = "retry" => \A e \in {wrec, json[cur], OldFile} : e \in Entry => Tried(e) = curRetry + 1

\* A text is kept once, and its markers say so, but for the text being queued,
\* what recovery has not yet come to, and a restart that could not put one back.
Marked ==
  /\ \A i \in Id : KeptOn(i) => \/ HashOf[i] \in pending \cup okHash
                                \/ qpc = "save" /\ i = wid
                                \/ Booting /\ i \notin seen
                                \/ epc = "markQueue" /\ i = cur
  /\ qpc = "save" => HashOf[wid] \notin pending

Single ==
  /\ \A i, j \in Id : KeptOn(i) /\ KeptOn(j) /\ HashOf[i] = HashOf[j] => i = j
  /\ epc = "perm" => \A i \in Id : KeptOn(i) => HashOf[i] # HashOf[cur]

Alone == ("open" \in Faults /\ mishaps > 0) \/ (Marked /\ Single)

ServiceInv == Blamed /\ NewFile /\ InHandKept /\ Rewritten /\ Alone

------------------------------------------------------------------------------
(* The parts of ServiceInv, one lemma each *)

LEMMA BlamedNext ==
  TypeInv /\ CardInv /\ Blamed /\ [Next]_vars => Blamed'
<1>. SUFFICES ASSUME TypeInv, CardInv, Blamed, [Next]_vars PROVE Blamed'
  OBVIOUS
<1>. USE FaultAssumption, FileAssumption, HashAssumption, EntryFacts, RetryAssumption
     DEF Blamed, Booting, CardInv, OnCard, FaultKind,
         TypeInv, TypeOK, Sections, Cursor, Drawn, MailerInSd, Writing, Busy, Readable,
         card, writer, mailer, history
<1>1. CASE WriteTmp
  BY <1>1 DEF WriteTmp, WriteRest
<1>2. CASE WriteRotate
  BY <1>2 DEF WriteRotate, WriteRest
<1>3. CASE WriteSwap
  BY <1>3 DEF WriteSwap, WriteRest
<1>4. CASE WriteTidy
  BY <1>4 DEF WriteTidy, WriteRest
<1>5. CASE \E i \in Id : QueueBegin(i)
  BY <1>5 DEF QueueBegin, BeginWrite, SdFree, MailerInSd, card, Duplicate
<1>6. CASE QueueSaved
  BY <1>6 DEF QueueSaved, EndWrite
<1>7. CASE QueueNotSaved
  BY <1>7 DEF QueueNotSaved, EndWrite, card
<1>8. CASE ScanBegin
  BY <1>8 DEF ScanBegin, SdFree, card, writer
<1>9. CASE \E i \in Id : ScanSent(i)
  BY <1>9 DEF ScanSent, Scanning, Readable, writer
<1>10. CASE \E i \in Id : ScanPick(i)
  BY <1>10 DEF ScanPick, Scanning, Readable, card, writer
<1>11. CASE \E i \in Id : ScanSkip(i)
  BY <1>11 DEF ScanSkip, Scanning, Readable, card, writer
<1>12. CASE \E i \in Id : ScanStale(i)
  BY <1>12 DEF ScanStale, Scanning, Readable, BeginWrite, card
<1>13. CASE ScanStaleWritten
  BY <1>13 DEF ScanStaleWritten, Written, EndWrite
<1>14. CASE \E i \in Id : ScanCorrupt(i)
  BY <1>14 DEF ScanCorrupt, Scanning, SetAside, writer
<1>15. CASE ScanEnd
  BY <1>15 DEF ScanEnd, card, writer
<1>16. CASE LockTimeout
  BY <1>16 DEF LockTimeout, ToIdle, card, writer
<1>17. CASE ReadPicked
  BY <1>17 DEF ReadPicked, ToIdle, SdFree, MailerInSd, Readable, card, writer
<1>18. CASE ClaimBegin
  BY <1>18 DEF ClaimBegin, BeginWrite, Goto, SdFree, MailerInSd
<1>19. CASE ClaimEnd
  BY <1>19 DEF ClaimEnd, Written, EndWrite, Goto, ToIdle, card
<1>20. CASE SmtpNoLink
  BY <1>20 DEF SmtpNoLink, Goto, card, writer
<1>21. CASE SmtpOpen
  BY <1>21 DEF SmtpOpen, Goto, card, writer
<1>22. CASE SmtpRefused
  BY <1>22 DEF SmtpRefused, Goto, card, writer
<1>23. CASE SmtpDelivered
  BY <1>23 DEF SmtpDelivered, Goto, card, writer
<1>24. CASE MarkSentBegin
  BY <1>24 DEF MarkSentBegin, Goto, SdFree, MailerInSd, writer
<1>25. CASE MarkHash
  BY <1>25 DEF MarkHash, Goto, writer
<1>26. CASE MarkPending
  BY <1>26 DEF MarkPending, Goto, writer
<1>27. CASE MarkQueue
  BY <1>27 DEF MarkQueue, ToIdle, writer
<1>28. CASE RetryBegin
  BY <1>28 DEF RetryBegin, BeginWrite, Goto, SdFree, MailerInSd, card
<1>29. CASE RetryEnd
  BY <1>29 DEF RetryEnd, Written, EndWrite, ToIdle, card
<1>30. CASE PermBegin
  BY <1>30 DEF PermBegin, Goto, SdFree, MailerInSd, writer
<1>31. CASE PermEnd
  BY <1>31 DEF PermEnd, ToIdle, writer
<1>32. CASE \E i \in Id : RecoverTidy(i)
  BY <1>32 DEF RecoverTidy, writer, mailer, HasLeftover
<1>33. CASE \E i \in Id : RecoverSent(i)
  BY <1>33 DEF RecoverSent, Recovering, writer, HasLeftover
<1>34. CASE \E i \in Id : RecoverKeep(i)
  BY <1>34 DEF RecoverKeep, Recovering, Readable, BeginWrite, writer, HasLeftover
<1>35. CASE RecoverWritten
  BY <1>35 DEF RecoverWritten, Written, EndWrite
<1>36. CASE \E i \in Id : RecoverCorrupt(i)
  BY <1>36 DEF RecoverCorrupt, Recovering, SetAside, writer, HasLeftover
<1>37. CASE RecoverEnd
  BY <1>37 DEF RecoverEnd, card, writer, HasLeftover
<1>38. CASE Reboot
  BY <1>38 DEF Reboot, card
<1>39. CASE UNCHANGED vars
  BY <1>39 DEF vars, card, writer, mailer, history
<1>. QED
  BY <1>1, <1>2, <1>3, <1>4, <1>5, <1>6, <1>7, <1>8, <1>9, <1>10, <1>11, <1>12, <1>13,
     <1>14, <1>15, <1>16, <1>17, <1>18, <1>19, <1>20, <1>21, <1>22, <1>23, <1>24, <1>25,
     <1>26, <1>27, <1>28, <1>29, <1>30, <1>31, <1>32, <1>33, <1>34, <1>35, <1>36, <1>37,
     <1>38, <1>39 DEF Next, writeQueuedMailLocked,
     queueEmail, processQueue, getNextQueuePath, claimForSend, sendEmailMessage, markSent,
     scheduleRetry, markPermanentFailure, recoverEmailQueue

LEMMA NewFileNext ==
  TypeInv /\ CardInv /\ NewFile /\ [Next]_vars => NewFile'
<1>. SUFFICES ASSUME TypeInv, CardInv, NewFile, [Next]_vars PROVE NewFile'
  OBVIOUS
<1>. USE FileAssumption, HashAssumption, EntryFacts
     DEF NewFile, Duplicate, CardInv, OnCard,
         TypeInv, TypeOK, Sections, Cursor, Drawn, MailerInSd, Writing, Busy, Readable,
         card, writer, mailer, history
<1>1. CASE WriteTmp
  BY <1>1 DEF WriteTmp, WriteRest
<1>2. CASE WriteRotate
  BY <1>2 DEF WriteRotate, WriteRest
<1>3. CASE WriteSwap
  BY <1>3 DEF WriteSwap, WriteRest
<1>4. CASE WriteTidy
  BY <1>4 DEF WriteTidy, WriteRest
<1>5. CASE \E i \in Id : QueueBegin(i)
  BY <1>5 DEF QueueBegin, BeginWrite, SdFree, MailerInSd, card, Duplicate
<1>6. CASE QueueSaved
  BY <1>6 DEF QueueSaved, EndWrite
<1>7. CASE QueueNotSaved
  BY <1>7 DEF QueueNotSaved, EndWrite, card
<1>8. CASE ScanBegin
  BY <1>8 DEF ScanBegin, SdFree, card, writer
<1>9. CASE \E i \in Id : ScanSent(i)
  BY <1>9 DEF ScanSent, Scanning, Readable, writer
<1>10. CASE \E i \in Id : ScanPick(i)
  BY <1>10 DEF ScanPick, Scanning, Readable, card, writer
<1>11. CASE \E i \in Id : ScanSkip(i)
  BY <1>11 DEF ScanSkip, Scanning, Readable, card, writer
<1>12. CASE \E i \in Id : ScanStale(i)
  BY <1>12 DEF ScanStale, Scanning, Readable, BeginWrite, card
<1>13. CASE ScanStaleWritten
  BY <1>13 DEF ScanStaleWritten, Written, EndWrite
<1>14. CASE \E i \in Id : ScanCorrupt(i)
  BY <1>14 DEF ScanCorrupt, Scanning, SetAside, writer
<1>15. CASE ScanEnd
  BY <1>15 DEF ScanEnd, card, writer
<1>16. CASE LockTimeout
  BY <1>16 DEF LockTimeout, ToIdle, card, writer
<1>17. CASE ReadPicked
  BY <1>17 DEF ReadPicked, ToIdle, SdFree, MailerInSd, Readable, card, writer
<1>18. CASE ClaimBegin
  BY <1>18 DEF ClaimBegin, BeginWrite, Goto, SdFree, MailerInSd
<1>19. CASE ClaimEnd
  BY <1>19 DEF ClaimEnd, Written, EndWrite, Goto, ToIdle, card
<1>20. CASE SmtpNoLink
  BY <1>20 DEF SmtpNoLink, Goto, card, writer
<1>21. CASE SmtpOpen
  BY <1>21 DEF SmtpOpen, Goto, card, writer
<1>22. CASE SmtpRefused
  BY <1>22 DEF SmtpRefused, Goto, card, writer
<1>23. CASE SmtpDelivered
  BY <1>23 DEF SmtpDelivered, Goto, card, writer
<1>24. CASE MarkSentBegin
  BY <1>24 DEF MarkSentBegin, Goto, SdFree, MailerInSd, writer
<1>25. CASE MarkHash
  BY <1>25 DEF MarkHash, Goto, writer
<1>26. CASE MarkPending
  BY <1>26 DEF MarkPending, Goto, writer
<1>27. CASE MarkQueue
  BY <1>27 DEF MarkQueue, ToIdle, writer
<1>28. CASE RetryBegin
  BY <1>28 DEF RetryBegin, BeginWrite, Goto, SdFree, MailerInSd, card
<1>29. CASE RetryEnd
  BY <1>29 DEF RetryEnd, Written, EndWrite, ToIdle, card
<1>30. CASE PermBegin
  BY <1>30 DEF PermBegin, Goto, SdFree, MailerInSd, writer
<1>31. CASE PermEnd
  BY <1>31 DEF PermEnd, ToIdle, writer
<1>32. CASE \E i \in Id : RecoverTidy(i)
  BY <1>32 DEF RecoverTidy, writer, mailer, HasLeftover
<1>33. CASE \E i \in Id : RecoverSent(i)
  BY <1>33 DEF RecoverSent, Recovering, writer, HasLeftover
<1>34. CASE \E i \in Id : RecoverKeep(i)
  BY <1>34 DEF RecoverKeep, Recovering, Readable, BeginWrite, writer, HasLeftover
<1>35. CASE RecoverWritten
  BY <1>35 DEF RecoverWritten, Written, EndWrite
<1>36. CASE \E i \in Id : RecoverCorrupt(i)
  BY <1>36 DEF RecoverCorrupt, Recovering, SetAside, writer, HasLeftover
<1>37. CASE RecoverEnd
  BY <1>37 DEF RecoverEnd, card, writer, HasLeftover
<1>38. CASE Reboot
  BY <1>38 DEF Reboot, card
<1>39. CASE UNCHANGED vars
  BY <1>39 DEF vars, card, writer, mailer, history
<1>. QED
  BY <1>1, <1>2, <1>3, <1>4, <1>5, <1>6, <1>7, <1>8, <1>9, <1>10, <1>11, <1>12, <1>13,
     <1>14, <1>15, <1>16, <1>17, <1>18, <1>19, <1>20, <1>21, <1>22, <1>23, <1>24, <1>25,
     <1>26, <1>27, <1>28, <1>29, <1>30, <1>31, <1>32, <1>33, <1>34, <1>35, <1>36, <1>37,
     <1>38, <1>39 DEF Next, writeQueuedMailLocked,
     queueEmail, processQueue, getNextQueuePath, claimForSend, sendEmailMessage, markSent,
     scheduleRetry, markPermanentFailure, recoverEmailQueue

LEMMA InHandNext ==
  TypeInv /\ CardInv /\ Shown /\ InHandKept /\ [Next]_vars => InHandKept'
<1>. SUFFICES ASSUME TypeInv, CardInv, Shown, InHandKept, [Next]_vars PROVE InHandKept'
  OBVIOUS
<1>. USE FileAssumption, EntryFacts
     DEF InHandKept, Claiming, Shown, CardInv, OnCard,
         TypeInv, TypeOK, Sections, Cursor, Drawn, MailerInSd, Writing, Busy, Readable,
         card, writer, mailer, history
<1>1. CASE WriteTmp
  BY <1>1 DEF WriteTmp, WriteRest
<1>2. CASE WriteRotate
  BY <1>2 DEF WriteRotate, WriteRest
<1>3. CASE WriteSwap
  BY <1>3 DEF WriteSwap, WriteRest
<1>4. CASE WriteTidy
  BY <1>4 DEF WriteTidy, WriteRest
<1>5. CASE \E i \in Id : QueueBegin(i)
  BY <1>5 DEF QueueBegin, BeginWrite, SdFree, MailerInSd, card, Duplicate
<1>6. CASE QueueSaved
  BY <1>6 DEF QueueSaved, EndWrite
<1>7. CASE QueueNotSaved
  BY <1>7 DEF QueueNotSaved, EndWrite, card
<1>8. CASE ScanBegin
  BY <1>8 DEF ScanBegin, SdFree, card, writer
<1>9. CASE \E i \in Id : ScanSent(i)
  BY <1>9 DEF ScanSent, Scanning, Readable, writer
<1>10. CASE \E i \in Id : ScanPick(i)
  BY <1>10 DEF ScanPick, Scanning, Readable, card, writer
<1>11. CASE \E i \in Id : ScanSkip(i)
  BY <1>11 DEF ScanSkip, Scanning, Readable, card, writer
<1>12. CASE \E i \in Id : ScanStale(i)
  BY <1>12 DEF ScanStale, Scanning, Readable, BeginWrite, card
<1>13. CASE ScanStaleWritten
  BY <1>13 DEF ScanStaleWritten, Written, EndWrite
<1>14. CASE \E i \in Id : ScanCorrupt(i)
  BY <1>14 DEF ScanCorrupt, Scanning, SetAside, writer
<1>15. CASE ScanEnd
  BY <1>15 DEF ScanEnd, card, writer
<1>16. CASE LockTimeout
  BY <1>16 DEF LockTimeout, ToIdle, card, writer
<1>17. CASE ReadPicked
  BY <1>17 DEF ReadPicked, ToIdle, SdFree, MailerInSd, Readable, card, writer
<1>18. CASE ClaimBegin
  BY <1>18 DEF ClaimBegin, BeginWrite, Goto, SdFree, MailerInSd
<1>19. CASE ClaimEnd
  BY <1>19 DEF ClaimEnd, Written, EndWrite, Goto, ToIdle, card
<1>20. CASE SmtpNoLink
  BY <1>20 DEF SmtpNoLink, Goto, card, writer
<1>21. CASE SmtpOpen
  BY <1>21 DEF SmtpOpen, Goto, card, writer
<1>22. CASE SmtpRefused
  BY <1>22 DEF SmtpRefused, Goto, card, writer
<1>23. CASE SmtpDelivered
  BY <1>23 DEF SmtpDelivered, Goto, card, writer
<1>24. CASE MarkSentBegin
  BY <1>24 DEF MarkSentBegin, Goto, SdFree, MailerInSd, writer
<1>25. CASE MarkHash
  BY <1>25 DEF MarkHash, Goto, writer
<1>26. CASE MarkPending
  BY <1>26 DEF MarkPending, Goto, writer
<1>27. CASE MarkQueue
  BY <1>27 DEF MarkQueue, ToIdle, writer
<1>28. CASE RetryBegin
  BY <1>28 DEF RetryBegin, BeginWrite, Goto, SdFree, MailerInSd, card
<1>29. CASE RetryEnd
  BY <1>29 DEF RetryEnd, Written, EndWrite, ToIdle, card
<1>30. CASE PermBegin
  BY <1>30 DEF PermBegin, Goto, SdFree, MailerInSd, writer
<1>31. CASE PermEnd
  BY <1>31 DEF PermEnd, ToIdle, writer
<1>32. CASE \E i \in Id : RecoverTidy(i)
  BY <1>32 DEF RecoverTidy, writer, mailer, HasLeftover
<1>33. CASE \E i \in Id : RecoverSent(i)
  BY <1>33 DEF RecoverSent, Recovering, writer, HasLeftover
<1>34. CASE \E i \in Id : RecoverKeep(i)
  BY <1>34 DEF RecoverKeep, Recovering, Readable, BeginWrite, writer, HasLeftover
<1>35. CASE RecoverWritten
  BY <1>35 DEF RecoverWritten, Written, EndWrite
<1>36. CASE \E i \in Id : RecoverCorrupt(i)
  BY <1>36 DEF RecoverCorrupt, Recovering, SetAside, writer, HasLeftover
<1>37. CASE RecoverEnd
  BY <1>37 DEF RecoverEnd, card, writer, HasLeftover
<1>38. CASE Reboot
  BY <1>38 DEF Reboot, card
<1>39. CASE UNCHANGED vars
  BY <1>39 DEF vars, card, writer, mailer, history
<1>. QED
  BY <1>1, <1>2, <1>3, <1>4, <1>5, <1>6, <1>7, <1>8, <1>9, <1>10, <1>11, <1>12, <1>13,
     <1>14, <1>15, <1>16, <1>17, <1>18, <1>19, <1>20, <1>21, <1>22, <1>23, <1>24, <1>25,
     <1>26, <1>27, <1>28, <1>29, <1>30, <1>31, <1>32, <1>33, <1>34, <1>35, <1>36, <1>37,
     <1>38, <1>39 DEF Next, writeQueuedMailLocked,
     queueEmail, processQueue, getNextQueuePath, claimForSend, sendEmailMessage, markSent,
     scheduleRetry, markPermanentFailure, recoverEmailQueue

LEMMA RewrittenNext ==
  ASSUME MaxRetry + MaxMishap < RetryMod
  PROVE  TypeInv /\ CardInv /\ CountInv /\ InHandKept /\ Rewritten /\ [Next]_vars => Rewritten'
<1>. SUFFICES ASSUME TypeInv, CardInv, CountInv, InHandKept, Rewritten, [Next]_vars PROVE Rewritten'
  OBVIOUS
<1>. USE FileAssumption, EntryFacts, TriedFacts
     DEF OldFile, Rewritten, InHandKept, Claiming, CountInv, Shown, CardInv, OnCard,
         TypeInv, TypeOK, Sections, Cursor, Drawn, MailerInSd, Writing, Busy, Readable,
         card, writer, mailer, history
<1>1. CASE WriteTmp
  BY <1>1 DEF WriteTmp, WriteRest
<1>2. CASE WriteRotate
  BY <1>2 DEF WriteRotate, WriteRest
<1>3. CASE WriteSwap
  BY <1>3 DEF WriteSwap, WriteRest
<1>4. CASE WriteTidy
  BY <1>4 DEF WriteTidy, WriteRest
<1>5. CASE \E i \in Id : QueueBegin(i)
  BY <1>5 DEF QueueBegin, BeginWrite, SdFree, MailerInSd, card, Duplicate
<1>6. CASE QueueSaved
  BY <1>6 DEF QueueSaved, EndWrite
<1>7. CASE QueueNotSaved
  BY <1>7 DEF QueueNotSaved, EndWrite, card
<1>8. CASE ScanBegin
  BY <1>8 DEF ScanBegin, SdFree, card, writer
<1>9. CASE \E i \in Id : ScanSent(i)
  BY <1>9 DEF ScanSent, Scanning, Readable, writer
<1>10. CASE \E i \in Id : ScanPick(i)
  BY <1>10 DEF ScanPick, Scanning, Readable, card, writer
<1>11. CASE \E i \in Id : ScanSkip(i)
  BY <1>11 DEF ScanSkip, Scanning, Readable, card, writer
<1>12. CASE \E i \in Id : ScanStale(i)
  <2>1. PICK i \in Id : ScanStale(i)
    BY <1>12
  <2>2. json[i] \in Entry /\ Tried(json[i]) <= Limit
    BY <2>1 DEF ScanStale, Scanning, Low, InHand, CountInv
  <2>3. json[i].inFlight => Tried(Released(json[i].retry)) = Tried(json[i])
    BY <2>2, ReleasedCounts DEF CountInv, Low
  <2>. QED
    BY <2>1, <2>2, <2>3 DEF ScanStale, Scanning, BeginWrite
<1>13. CASE ScanStaleWritten
  BY <1>13 DEF ScanStaleWritten, Written, EndWrite
<1>14. CASE \E i \in Id : ScanCorrupt(i)
  BY <1>14 DEF ScanCorrupt, Scanning, SetAside, writer
<1>15. CASE ScanEnd
  BY <1>15 DEF ScanEnd, card, writer
<1>16. CASE LockTimeout
  BY <1>16 DEF LockTimeout, ToIdle, card, writer
<1>17. CASE ReadPicked
  BY <1>17 DEF ReadPicked, ToIdle, SdFree, MailerInSd, Readable, card, writer
<1>18. CASE ClaimBegin
  <2>1. json[cur] \in Entry /\ ~json[cur].inFlight /\ json[cur].retry = curRetry
    BY <1>18 DEF ClaimBegin
  <2>. QED
    BY <1>18, <2>1 DEF ClaimBegin, BeginWrite, Goto, SdFree
<1>19. CASE ClaimEnd
  BY <1>19 DEF ClaimEnd, Written, EndWrite, Goto, ToIdle, card
<1>20. CASE SmtpNoLink
  BY <1>20 DEF SmtpNoLink, Goto, card, writer
<1>21. CASE SmtpOpen
  BY <1>21 DEF SmtpOpen, Goto, card, writer
<1>22. CASE SmtpRefused
  BY <1>22 DEF SmtpRefused, Goto, card, writer
<1>23. CASE SmtpDelivered
  BY <1>23 DEF SmtpDelivered, Goto, card, writer
<1>24. CASE MarkSentBegin
  BY <1>24 DEF MarkSentBegin, Goto, SdFree, MailerInSd, writer
<1>25. CASE MarkHash
  BY <1>25 DEF MarkHash, Goto, writer
<1>26. CASE MarkPending
  BY <1>26 DEF MarkPending, Goto, writer
<1>27. CASE MarkQueue
  BY <1>27 DEF MarkQueue, ToIdle, writer
<1>28. CASE RetryBegin
  <2>1. json[cur] \in {Claimed(curRetry), Corrupt} /\ cur \in Id /\ curRetry \in 0 .. RetryMod - 1
    BY <1>28 DEF RetryBegin
  <2>2. json[cur] \in Entry => Tried(json[cur]) = curRetry + 1
    BY <2>1
  <2>3. Tried(Released(curRetry)) = curRetry + 1
    BY <1>28, <2>1, NoWrap DEF RetryBegin, CountInv, Low
  <2>. QED
    BY <1>28, <2>2, <2>3 DEF RetryBegin, BeginWrite, Goto, SdFree
<1>29. CASE RetryEnd
  BY <1>29 DEF RetryEnd, Written, EndWrite, ToIdle, card
<1>30. CASE PermBegin
  BY <1>30 DEF PermBegin, Goto, SdFree, MailerInSd, writer
<1>31. CASE PermEnd
  BY <1>31 DEF PermEnd, ToIdle, writer
<1>32. CASE \E i \in Id : RecoverTidy(i)
  BY <1>32 DEF RecoverTidy, writer, mailer, HasLeftover
<1>33. CASE \E i \in Id : RecoverSent(i)
  BY <1>33 DEF RecoverSent, Recovering, writer, HasLeftover
<1>34. CASE \E i \in Id : RecoverKeep(i)
  <2>1. PICK i \in Id : RecoverKeep(i)
    BY <1>34
  <2>2. json[i] \in Entry /\ Tried(json[i]) <= Limit
    BY <2>1 DEF RecoverKeep, Recovering, Low, InHand, CountInv
  <2>3. json[i].inFlight => Tried(Released(json[i].retry)) = Tried(json[i])
    BY <2>2, ReleasedCounts DEF CountInv, Low
  <2>. QED
    BY <2>1, <2>2, <2>3 DEF RecoverKeep, Recovering, BeginWrite
<1>35. CASE RecoverWritten
  BY <1>35 DEF RecoverWritten, Written, EndWrite
<1>36. CASE \E i \in Id : RecoverCorrupt(i)
  BY <1>36 DEF RecoverCorrupt, Recovering, SetAside, writer, HasLeftover
<1>37. CASE RecoverEnd
  BY <1>37 DEF RecoverEnd, card, writer, HasLeftover
<1>38. CASE Reboot
  BY <1>38 DEF Reboot, card
<1>39. CASE UNCHANGED vars
  BY <1>39 DEF vars, card, writer, mailer, history
<1>. QED
  BY <1>1, <1>2, <1>3, <1>4, <1>5, <1>6, <1>7, <1>8, <1>9, <1>10, <1>11, <1>12, <1>13,
     <1>14, <1>15, <1>16, <1>17, <1>18, <1>19, <1>20, <1>21, <1>22, <1>23, <1>24, <1>25,
     <1>26, <1>27, <1>28, <1>29, <1>30, <1>31, <1>32, <1>33, <1>34, <1>35, <1>36, <1>37,
     <1>38, <1>39 DEF Next, writeQueuedMailLocked,
     queueEmail, processQueue, getNextQueuePath, claimForSend, sendEmailMessage, markSent,
     scheduleRetry, markPermanentFailure, recoverEmailQueue

\* A mail comes into keeping in one way only: queueEmail puts its file in place.
LEMMA KeptNext ==
  TypeInv /\ CardInv /\ Shown /\ NewFile /\ Rewritten /\ [Next]_vars =>
    \A k \in Id : KeptOn(k)' => KeptOn(k) \/ (qpc = "save" /\ wpc = "swap" /\ k = wid)
<1>. SUFFICES ASSUME TypeInv, CardInv, Shown, NewFile, Rewritten, [Next]_vars, NEW k \in Id, KeptOn(k)'
              PROVE  KeptOn(k) \/ (qpc = "save" /\ wpc = "swap" /\ k = wid)
  OBVIOUS
<1>. USE FileAssumption, EntryFacts
     DEF KeptOn, OnTry, OnSwap, NewFile, Rewritten, OldFile, Shown, CardInv, OnCard,
         TypeInv, TypeOK, Sections, Cursor, Drawn, MailerInSd, Writing, Busy, Readable,
         card, writer, mailer, history
<1>1. CASE WriteTmp
  BY <1>1 DEF WriteTmp, WriteRest
<1>2. CASE WriteRotate
  BY <1>2 DEF WriteRotate, WriteRest
<1>3. CASE WriteSwap
  BY <1>3 DEF WriteSwap, WriteRest
<1>4. CASE WriteTidy
  BY <1>4 DEF WriteTidy, WriteRest
<1>5. CASE \E i \in Id : QueueBegin(i)
  BY <1>5 DEF QueueBegin, BeginWrite, SdFree, MailerInSd, card, Duplicate
<1>6. CASE QueueSaved
  BY <1>6 DEF QueueSaved, EndWrite
<1>7. CASE QueueNotSaved
  BY <1>7 DEF QueueNotSaved, EndWrite, card
<1>8. CASE ScanBegin
  BY <1>8 DEF ScanBegin, SdFree, card, writer
<1>9. CASE \E i \in Id : ScanSent(i)
  BY <1>9 DEF ScanSent, Scanning, Readable, writer
<1>10. CASE \E i \in Id : ScanPick(i)
  BY <1>10 DEF ScanPick, Scanning, Readable, card, writer
<1>11. CASE \E i \in Id : ScanSkip(i)
  BY <1>11 DEF ScanSkip, Scanning, Readable, card, writer
<1>12. CASE \E i \in Id : ScanStale(i)
  BY <1>12 DEF ScanStale, Scanning, Readable, BeginWrite, card
<1>13. CASE ScanStaleWritten
  BY <1>13 DEF ScanStaleWritten, Written, EndWrite
<1>14. CASE \E i \in Id : ScanCorrupt(i)
  BY <1>14 DEF ScanCorrupt, Scanning, SetAside, writer
<1>15. CASE ScanEnd
  BY <1>15 DEF ScanEnd, card, writer
<1>16. CASE LockTimeout
  BY <1>16 DEF LockTimeout, ToIdle, card, writer
<1>17. CASE ReadPicked
  BY <1>17 DEF ReadPicked, ToIdle, SdFree, MailerInSd, Readable, card, writer
<1>18. CASE ClaimBegin
  BY <1>18 DEF ClaimBegin, BeginWrite, Goto, SdFree, MailerInSd
<1>19. CASE ClaimEnd
  BY <1>19 DEF ClaimEnd, Written, EndWrite, Goto, ToIdle, card
<1>20. CASE SmtpNoLink
  BY <1>20 DEF SmtpNoLink, Goto, card, writer
<1>21. CASE SmtpOpen
  BY <1>21 DEF SmtpOpen, Goto, card, writer
<1>22. CASE SmtpRefused
  BY <1>22 DEF SmtpRefused, Goto, card, writer
<1>23. CASE SmtpDelivered
  BY <1>23 DEF SmtpDelivered, Goto, card, writer
<1>24. CASE MarkSentBegin
  BY <1>24 DEF MarkSentBegin, Goto, SdFree, MailerInSd, writer
<1>25. CASE MarkHash
  BY <1>25 DEF MarkHash, Goto, writer
<1>26. CASE MarkPending
  BY <1>26 DEF MarkPending, Goto, writer
<1>27. CASE MarkQueue
  BY <1>27 DEF MarkQueue, ToIdle, writer
<1>28. CASE RetryBegin
  BY <1>28 DEF RetryBegin, BeginWrite, Goto, SdFree, MailerInSd, card
<1>29. CASE RetryEnd
  BY <1>29 DEF RetryEnd, Written, EndWrite, ToIdle, card
<1>30. CASE PermBegin
  BY <1>30 DEF PermBegin, Goto, SdFree, MailerInSd, writer
<1>31. CASE PermEnd
  BY <1>31 DEF PermEnd, ToIdle, writer
<1>32. CASE \E i \in Id : RecoverTidy(i)
  BY <1>32 DEF RecoverTidy, writer, mailer, HasLeftover
<1>33. CASE \E i \in Id : RecoverSent(i)
  BY <1>33 DEF RecoverSent, Recovering, writer, HasLeftover
<1>34. CASE \E i \in Id : RecoverKeep(i)
  BY <1>34 DEF RecoverKeep, Recovering, Readable, BeginWrite, writer, HasLeftover
<1>35. CASE RecoverWritten
  BY <1>35 DEF RecoverWritten, Written, EndWrite
<1>36. CASE \E i \in Id : RecoverCorrupt(i)
  BY <1>36 DEF RecoverCorrupt, Recovering, SetAside, writer, HasLeftover
<1>37. CASE RecoverEnd
  BY <1>37 DEF RecoverEnd, card, writer, HasLeftover
<1>38. CASE Reboot
  BY <1>38 DEF Reboot, card
<1>39. CASE UNCHANGED vars
  BY <1>39 DEF vars, card, writer, mailer, history
<1>. QED
  BY <1>1, <1>2, <1>3, <1>4, <1>5, <1>6, <1>7, <1>8, <1>9, <1>10, <1>11, <1>12, <1>13,
     <1>14, <1>15, <1>16, <1>17, <1>18, <1>19, <1>20, <1>21, <1>22, <1>23, <1>24, <1>25,
     <1>26, <1>27, <1>28, <1>29, <1>30, <1>31, <1>32, <1>33, <1>34, <1>35, <1>36, <1>37,
     <1>38, <1>39 DEF Next, writeQueuedMailLocked,
     queueEmail, processQueue, getNextQueuePath, claimForSend, sendEmailMessage, markSent,
     scheduleRetry, markPermanentFailure, recoverEmailQueue

\* What lets go of a mail for good, and what does not.
LEMMA LetGo ==
  ASSUME TypeInv, CardInv
  PROVE  /\ MarkQueue \/ PermBegin => \A k \in Id : k = cur => ~KeptOn(k)'
         /\ QueueSaved => HashOf[wid] \in pending' \/ \A k \in Id : k = wid => ~KeptOn(k)'
         /\ epc = "boot" => \A k \in Id : KeptOn(k) => Readable(k)
         /\ epc = "markPending" => KeptOn(cur)
<1>. USE FileAssumption
     DEF KeptOn, OnTry, OnSwap, CardInv, OnCard, TypeInv, TypeOK, Sections, Cursor, Drawn, MailerInSd, Writing,
         Busy, Readable, writer, mailer
<1>1. ASSUME MarkQueue PROVE \A k \in Id : k = cur => ~KeptOn(k)'
  BY <1>1 DEF MarkQueue, ToIdle
<1>2. ASSUME PermBegin PROVE \A k \in Id : k = cur => ~KeptOn(k)'
  BY <1>2 DEF PermBegin, Goto, SdFree
<1>3. ASSUME QueueSaved PROVE HashOf[wid] \in pending' \/ \A k \in Id : k = wid => ~KeptOn(k)'
  BY <1>3 DEF QueueSaved, EndWrite
<1>4. ASSUME epc = "boot" PROVE \A k \in Id : KeptOn(k) => Readable(k)
  BY <1>4
<1>5. ASSUME epc = "markPending" PROVE KeptOn(cur)
  BY <1>5
<1>. QED
  BY ONLY <1>1, <1>2, <1>3, <1>4, <1>5

LEMMA MarkedNext ==
  ASSUME "open" \notin Faults \/ mishaps = 0
  PROVE  TypeInv /\ CardInv /\ Shown /\ Blamed /\ NewFile /\ Rewritten /\ Marked /\ Single /\ [Next]_vars => Marked'
<1>. SUFFICES ASSUME TypeInv, CardInv, Shown, Blamed, NewFile, Rewritten, Marked, Single, [Next]_vars PROVE Marked'
  OBVIOUS
<1>. DEFINE Came(k) == qpc = "save" /\ wpc = "swap" /\ k = wid
<1>a. \A k \in Id : KeptOn(k)' => KeptOn(k) \/ Came(k)
  BY KeptNext
<1>b. ~KeptOn(wid) \/ ~(qpc = "save" /\ wpc = "fail")
  BY FileAssumption DEF KeptOn, OnTry, OnSwap, Readable, NewFile, TypeInv, Cursor
<1>. USE HashAssumption, <1>a
     DEF Marked, Single, Blamed, Booting,
         TypeInv, TypeOK, Sections, Cursor, Drawn, MailerInSd, Writing, Busy, Readable,
         card, writer, mailer, history
<1>1. CASE WriteTmp
  BY <1>1 DEF WriteTmp, WriteRest
<1>2. CASE WriteRotate
  BY <1>2 DEF WriteRotate, WriteRest
<1>3. CASE WriteSwap
  BY <1>3 DEF WriteSwap, WriteRest
<1>4. CASE WriteTidy
  BY <1>4 DEF WriteTidy, WriteRest
<1>5. CASE \E i \in Id : QueueBegin(i)
  BY <1>5 DEF QueueBegin, BeginWrite, SdFree, MailerInSd, card, Duplicate
<1>6. CASE QueueSaved
  <2>1. HashOf[wid] \in pending' \/ \A k \in Id : k = wid => ~KeptOn(k)'
    BY <1>6, LetGo
  <2>. QED
    BY <1>6, <2>1 DEF QueueSaved, EndWrite
<1>7. CASE QueueNotSaved
  BY <1>7, <1>b DEF QueueNotSaved, EndWrite, card
<1>8. CASE ScanBegin
  BY <1>8 DEF ScanBegin, SdFree, card, writer
<1>9. CASE \E i \in Id : ScanSent(i)
  BY <1>9 DEF ScanSent, Scanning, Readable, writer
<1>10. CASE \E i \in Id : ScanPick(i)
  BY <1>10 DEF ScanPick, Scanning, Readable, card, writer
<1>11. CASE \E i \in Id : ScanSkip(i)
  BY <1>11 DEF ScanSkip, Scanning, Readable, card, writer
<1>12. CASE \E i \in Id : ScanStale(i)
  BY <1>12 DEF ScanStale, Scanning, Readable, BeginWrite, card
<1>13. CASE ScanStaleWritten
  BY <1>13 DEF ScanStaleWritten, Written, EndWrite
<1>14. CASE \E i \in Id : ScanCorrupt(i)
  BY <1>14 DEF ScanCorrupt, Scanning, SetAside, writer
<1>15. CASE ScanEnd
  BY <1>15 DEF ScanEnd, card, writer
<1>16. CASE LockTimeout
  BY <1>16 DEF LockTimeout, ToIdle, card, writer
<1>17. CASE ReadPicked
  BY <1>17 DEF ReadPicked, ToIdle, SdFree, MailerInSd, Readable, card, writer
<1>18. CASE ClaimBegin
  BY <1>18 DEF ClaimBegin, BeginWrite, Goto, SdFree, MailerInSd
<1>19. CASE ClaimEnd
  BY <1>19 DEF ClaimEnd, Written, EndWrite, Goto, ToIdle, card
<1>20. CASE SmtpNoLink
  BY <1>20 DEF SmtpNoLink, Goto, card, writer
<1>21. CASE SmtpOpen
  BY <1>21 DEF SmtpOpen, Goto, card, writer
<1>22. CASE SmtpRefused
  BY <1>22 DEF SmtpRefused, Goto, card, writer
<1>23. CASE SmtpDelivered
  BY <1>23 DEF SmtpDelivered, Goto, card, writer
<1>24. CASE MarkSentBegin
  BY <1>24 DEF MarkSentBegin, Goto, SdFree, MailerInSd, writer
<1>25. CASE MarkHash
  BY <1>25 DEF MarkHash, Goto, writer
<1>26. CASE MarkPending
  <2>1. KeptOn(cur) /\ cur \in Id
    BY <1>26, LetGo DEF MarkPending
  <2>. QED
    BY <1>26, <2>1 DEF MarkPending, Goto, writer
<1>27. CASE MarkQueue
  <2>1. \A k \in Id : k = cur => ~KeptOn(k)'
    BY <1>27, LetGo
  <2>. QED
    BY <1>27, <2>1 DEF MarkQueue, ToIdle, writer
<1>28. CASE RetryBegin
  BY <1>28 DEF RetryBegin, BeginWrite, Goto, SdFree, MailerInSd, card
<1>29. CASE RetryEnd
  BY <1>29 DEF RetryEnd, Written, EndWrite, ToIdle, card
<1>30. CASE PermBegin
  BY <1>30 DEF PermBegin, Goto, SdFree, MailerInSd, writer
<1>31. CASE PermEnd
  BY <1>31 DEF PermEnd, ToIdle, writer
<1>32. CASE \E i \in Id : RecoverTidy(i)
  BY <1>32 DEF RecoverTidy, writer, mailer, HasLeftover
<1>33. CASE \E i \in Id : RecoverSent(i)
  BY <1>33 DEF RecoverSent, Recovering, writer, HasLeftover
<1>34. CASE \E i \in Id : RecoverKeep(i)
  BY <1>34 DEF RecoverKeep, Recovering, Readable, BeginWrite, writer, HasLeftover
<1>35. CASE RecoverWritten
  BY <1>35 DEF RecoverWritten, Written, EndWrite
<1>36. CASE \E i \in Id : RecoverCorrupt(i)
  <2>1. PICK i \in Id : RecoverCorrupt(i)
    BY <1>36
  <2>2. json[i] = Corrupt
    BY <2>1 DEF RecoverCorrupt, Recovering
  <2>3. ~KeptOn(i)
    BY <2>1, <2>2, LetGo, FileAssumption DEF RecoverCorrupt, Recovering
  <2>. QED
    BY <2>1, <2>3 DEF RecoverCorrupt, Recovering, SetAside, writer, HasLeftover
<1>37. CASE RecoverEnd
  <2>1. \A k \in Id : KeptOn(k) => Readable(k) /\ json[k] # NoFile
    BY <1>37, LetGo, FileAssumption DEF RecoverEnd
  <2>. QED
    BY <1>37, <2>1 DEF RecoverEnd, card, writer, HasLeftover
<1>38. CASE Reboot
  BY <1>38 DEF Reboot, card
<1>39. CASE UNCHANGED vars
  BY <1>39 DEF vars, card, writer, mailer, history
<1>. QED
  BY <1>1, <1>2, <1>3, <1>4, <1>5, <1>6, <1>7, <1>8, <1>9, <1>10, <1>11, <1>12, <1>13,
     <1>14, <1>15, <1>16, <1>17, <1>18, <1>19, <1>20, <1>21, <1>22, <1>23, <1>24, <1>25,
     <1>26, <1>27, <1>28, <1>29, <1>30, <1>31, <1>32, <1>33, <1>34, <1>35, <1>36, <1>37,
     <1>38, <1>39 DEF Next, writeQueuedMailLocked,
     queueEmail, processQueue, getNextQueuePath, claimForSend, sendEmailMessage, markSent,
     scheduleRetry, markPermanentFailure, recoverEmailQueue

\* A mail is given up on by PermBegin only.
LEMMA IntoPerm ==
  TypeInv /\ [Next]_vars =>
    (epc' = "perm" => (epc = "perm" /\ cur' = cur) \/ PermBegin)
<1>. SUFFICES ASSUME TypeInv, [Next]_vars 
              PROVE  epc' = "perm" => (epc = "perm" /\ cur' = cur) \/ PermBegin
  OBVIOUS
<1>. USE DEF card, writer, mailer, history
<1>1. CASE WriteTmp
  BY <1>1 DEF WriteTmp, WriteRest
<1>2. CASE WriteRotate
  BY <1>2 DEF WriteRotate, WriteRest
<1>3. CASE WriteSwap
  BY <1>3 DEF WriteSwap, WriteRest
<1>4. CASE WriteTidy
  BY <1>4 DEF WriteTidy, WriteRest
<1>5. CASE \E i \in Id : QueueBegin(i)
  BY <1>5 DEF QueueBegin, BeginWrite, SdFree, MailerInSd, card, Duplicate
<1>6. CASE QueueSaved
  BY <1>6 DEF QueueSaved, EndWrite
<1>7. CASE QueueNotSaved
  BY <1>7 DEF QueueNotSaved, EndWrite, card
<1>8. CASE ScanBegin
  BY <1>8 DEF ScanBegin, SdFree, card, writer
<1>9. CASE \E i \in Id : ScanSent(i)
  BY <1>9 DEF ScanSent, Scanning, Readable, writer
<1>10. CASE \E i \in Id : ScanPick(i)
  BY <1>10 DEF ScanPick, Scanning, Readable, card, writer
<1>11. CASE \E i \in Id : ScanSkip(i)
  BY <1>11 DEF ScanSkip, Scanning, Readable, card, writer
<1>12. CASE \E i \in Id : ScanStale(i)
  BY <1>12 DEF ScanStale, Scanning, Readable, BeginWrite, card
<1>13. CASE ScanStaleWritten
  BY <1>13 DEF ScanStaleWritten, Written, EndWrite
<1>14. CASE \E i \in Id : ScanCorrupt(i)
  BY <1>14 DEF ScanCorrupt, Scanning, SetAside, writer
<1>15. CASE ScanEnd
  BY <1>15 DEF ScanEnd, card, writer
<1>16. CASE LockTimeout
  BY <1>16 DEF LockTimeout, ToIdle, card, writer
<1>17. CASE ReadPicked
  BY <1>17 DEF ReadPicked, ToIdle, SdFree, MailerInSd, Readable, card, writer
<1>18. CASE ClaimBegin
  BY <1>18 DEF ClaimBegin, BeginWrite, Goto, SdFree, MailerInSd
<1>19. CASE ClaimEnd
  BY <1>19 DEF ClaimEnd, Written, EndWrite, Goto, ToIdle, card
<1>20. CASE SmtpNoLink
  BY <1>20 DEF SmtpNoLink, Goto, card, writer
<1>21. CASE SmtpOpen
  BY <1>21 DEF SmtpOpen, Goto, card, writer
<1>22. CASE SmtpRefused
  BY <1>22 DEF SmtpRefused, Goto, card, writer
<1>23. CASE SmtpDelivered
  BY <1>23 DEF SmtpDelivered, Goto, card, writer
<1>24. CASE MarkSentBegin
  BY <1>24 DEF MarkSentBegin, Goto, SdFree, MailerInSd, writer
<1>25. CASE MarkHash
  BY <1>25 DEF MarkHash, Goto, writer
<1>26. CASE MarkPending
  BY <1>26 DEF MarkPending, Goto, writer
<1>27. CASE MarkQueue
  BY <1>27 DEF MarkQueue, ToIdle, writer
<1>28. CASE RetryBegin
  BY <1>28 DEF RetryBegin, BeginWrite, Goto, SdFree, MailerInSd, card
<1>29. CASE RetryEnd
  BY <1>29 DEF RetryEnd, Written, EndWrite, ToIdle, card
<1>30. CASE PermBegin
  BY <1>30 DEF PermBegin, Goto, SdFree, MailerInSd, writer
<1>31. CASE PermEnd
  BY <1>31 DEF PermEnd, ToIdle, writer
<1>32. CASE \E i \in Id : RecoverTidy(i)
  BY <1>32 DEF RecoverTidy, writer, mailer, HasLeftover
<1>33. CASE \E i \in Id : RecoverSent(i)
  BY <1>33 DEF RecoverSent, Recovering, writer, HasLeftover
<1>34. CASE \E i \in Id : RecoverKeep(i)
  BY <1>34 DEF RecoverKeep, Recovering, Readable, BeginWrite, writer, HasLeftover
<1>35. CASE RecoverWritten
  BY <1>35 DEF RecoverWritten, Written, EndWrite
<1>36. CASE \E i \in Id : RecoverCorrupt(i)
  BY <1>36 DEF RecoverCorrupt, Recovering, SetAside, writer, HasLeftover
<1>37. CASE RecoverEnd
  BY <1>37 DEF RecoverEnd, card, writer, HasLeftover
<1>38. CASE Reboot
  BY <1>38 DEF Reboot, card
<1>39. CASE UNCHANGED vars
  BY <1>39 DEF vars, card, writer, mailer, history
<1>. QED
  BY <1>1, <1>2, <1>3, <1>4, <1>5, <1>6, <1>7, <1>8, <1>9, <1>10, <1>11, <1>12, <1>13,
     <1>14, <1>15, <1>16, <1>17, <1>18, <1>19, <1>20, <1>21, <1>22, <1>23, <1>24, <1>25,
     <1>26, <1>27, <1>28, <1>29, <1>30, <1>31, <1>32, <1>33, <1>34, <1>35, <1>36, <1>37,
     <1>38, <1>39 DEF Next, writeQueuedMailLocked,
     queueEmail, processQueue, getNextQueuePath, claimForSend, sendEmailMessage, markSent,
     scheduleRetry, markPermanentFailure, recoverEmailQueue

LEMMA SingleNext ==
  ASSUME "open" \notin Faults \/ mishaps = 0
  PROVE  TypeInv /\ CardInv /\ Shown /\ Blamed /\ NewFile /\ Rewritten /\ Marked /\ Single /\ [Next]_vars => Single'
<1>. SUFFICES ASSUME TypeInv, CardInv, Shown, Blamed, NewFile, Rewritten, Marked, Single, [Next]_vars PROVE Single'
  OBVIOUS
<1>. DEFINE Came(k) == qpc = "save" /\ wpc = "swap" /\ k = wid
<1>1. \A k \in Id : KeptOn(k)' => KeptOn(k) \/ Came(k)
  BY KeptNext
<1>2. \A i, k \in Id : Came(k) /\ KeptOn(i) /\ i # k => HashOf[i] # HashOf[k]
  BY DEF Marked, NewFile, Booting, TypeInv, Sections, MailerInSd
<1>3. ASSUME NEW i \in Id, NEW j \in Id, KeptOn(i)', KeptOn(j)', HashOf[i] = HashOf[j] PROVE i = j
  BY <1>1, <1>2, <1>3 DEF Single
<1>4. ASSUME epc' = "perm", NEW i \in Id, KeptOn(i)' PROVE HashOf[i] # HashOf[cur']
  <2>1. CASE epc = "perm" /\ cur' = cur
    <3>1. KeptOn(i)
      BY <1>1, <1>4, <2>1 DEF TypeInv, Sections, MailerInSd
    <3>. QED
      BY <2>1, <3>1 DEF Single
  <2>2. CASE PermBegin
    <3>1. i # cur
      BY <1>4, <2>2, LetGo
    <3>2. KeptOn(i) /\ KeptOn(cur) /\ cur \in Id /\ cur' = cur
      BY <1>1, <1>4, <2>2 DEF PermBegin, Goto, SdFree, KeptOn, OnTry, TypeInv, TypeOK, Cursor, Busy
    <3>. QED
      BY <3>1, <3>2 DEF Single
  <2>. QED
    BY <1>4, <2>1, <2>2, IntoPerm
<1>. QED
  BY <1>3, <1>4 DEF Single

------------------------------------------------------------------------------
(* Every step is one of the service's or changes nothing it shows. *)

Mail == [i \in Id |-> Keeping(i)]

LEMMA KeepingFacts ==
  ASSUME TypeOK, NEW i \in Id
  PROVE  /\ KeptOn(i) <=> Keeping(i) \notin {New, Gone}
         /\ KeptOn(i) => Keeping(i) \in Nat
         /\ OnTry(i) => KeptOn(i) /\ Keeping(i) = curRetry + 1
         /\ ~OnTry(i) /\ Readable(i) => KeptOn(i) /\ Keeping(i) = Tried(json[i])
         /\ Keeping(i) # Gone <=> KeptOn(i) \/ Unsaved(i)
BY StatusAssumption, TriedFacts, RetryAssumption DEF TypeOK, Keeping, KeptOn, Readable, OnSwap

\* Nothing of what the service shows changes.
Quiet == UNCHANGED <<accepted, attempts, delivered, okHash, mishaps>> /\ \A k \in Id : Keeping(k)' = Keeping(k)

LEMMA Shows == Quiet => UNCHANGED Service!vars
BY DEF Service!vars, Quiet

\* Only one mail changes.
Only(i) == UNCHANGED <<accepted, attempts, delivered, okHash, mishaps>> /\ \A k \in Id \ {i} : Keeping(k)' = Keeping(k)

LEMMA OneShows ==
  ASSUME NEW i \in Id, \A k \in Id \ {i} : Keeping(k)' = Keeping(k)
  PROVE  Mail' = [Mail EXCEPT ![i] = Keeping(i)']
BY DEF Mail

LEMMA AllShow ==
  ASSUME \A k \in Id : Keeping(k)' = Keeping(k)
  PROVE  Mail' = Mail
BY DEF Mail

LEMMA MapTake ==
  ASSUME TypeOK, NEW i \in Id, Only(i), Keeping(i) = New, Keeping(i)' = 0, HashOf[i] \notin okHash,
         (\A k \in Id : KeptOn(k) => HashOf[k] # HashOf[i]) \/ ("open" \in Faults /\ mishaps > 0)
  PROVE  Service!Next
<1>1. Mail' = [Mail EXCEPT ![i] = 0]
  BY OneShows DEF Only
<1>2. Service!Take(i)
  BY <1>1, KeepingFacts DEF Service!Take, Service!Settled, Service!Kept, Mail, Only
<1>. QED
  BY <1>2 DEF Service!Next

LEMMA MapAccept ==
  ASSUME TypeOK, NEW i \in Id, \A k \in Id : Keeping(k)' = Keeping(k), accepted' = accepted \cup {i},
         UNCHANGED <<attempts, delivered, okHash, mishaps>>,
         Keeping(i) = 0 \/ (Keeping(i) = Gone /\ "short" \in Faults)
  PROVE  Service!Next
<1>1. Mail' = Mail
  BY AllShow
<1>2. Service!Accept(i)
  BY <1>1 DEF Service!Accept, Mail
<1>. QED
  BY <1>2 DEF Service!Next

LEMMA MapTry ==
  ASSUME TypeOK, NEW i \in Id, Only(i), KeptOn(i), Keeping(i)' = Keeping(i) + 1,
         HashOf[i] \notin okHash, Keeping(i) < MaxRetry + mishaps
  PROVE  Service!Next
<1>1. Mail' = [Mail EXCEPT ![i] = Mail[i] + 1]
  BY OneShows DEF Mail, Only
<1>2. Service!Try(i)
  BY <1>1, KeepingFacts DEF Service!Try, Service!Settled, Service!Kept, Mail, Only
<1>. QED
  BY <1>2 DEF Service!Next

LEMMA MapOpen ==
  ASSUME TypeOK, NEW i \in Id, KeptOn(i), attempts[i] < Keeping(i), attempts' = [attempts EXCEPT ![i] = @ + 1],
         UNCHANGED <<accepted, delivered, okHash, mishaps>>, \A k \in Id : Keeping(k)' = Keeping(k)
  PROVE  Service!Next
<1>1. Mail' = Mail
  BY AllShow
<1>2. Service!Open(i)
  BY <1>1, KeepingFacts DEF Service!Open, Service!Kept, Mail
<1>. QED
  BY <1>2 DEF Service!Next

LEMMA MapDeliver ==
  ASSUME TypeOK, NEW i \in Id, KeptOn(i), attempts[i] > 0, delivered' = delivered \cup {HashOf[i]},
         UNCHANGED <<accepted, attempts, okHash, mishaps>>, \A k \in Id : Keeping(k)' = Keeping(k)
  PROVE  Service!Next
<1>1. Mail' = Mail
  BY AllShow
<1>2. Service!Deliver(i)
  BY <1>1, KeepingFacts DEF Service!Deliver, Service!Kept, Mail
<1>. QED
  BY <1>2 DEF Service!Next

LEMMA MapSettle ==
  ASSUME TypeOK, NEW i \in Id, KeptOn(i), HashOf[i] \in delivered, okHash' = okHash \cup {HashOf[i]},
         UNCHANGED <<accepted, attempts, delivered, mishaps>>, \A k \in Id : Keeping(k)' = Keeping(k)
  PROVE  Service!Next
<1>1. Mail' = Mail
  BY AllShow
<1>2. Service!Settle(i)
  BY <1>1, KeepingFacts DEF Service!Settle, Service!Kept, Mail
<1>. QED
  BY <1>2 DEF Service!Next

LEMMA MapLeave ==
  ASSUME TypeOK, NEW i \in Id, Only(i), Keeping(i)' = Gone,
         \/ KeptOn(i) /\ HashOf[i] \in delivered /\ (HashOf[i] \in okHash \/ "open" \in Faults)
         \/ KeptOn(i) /\ Keeping(i) >= MaxRetry
         \/ Keeping(i) # Gone /\ Faults \cap {"open", "short", "rename"} # {}
  PROVE  Service!Next
<1>1. Mail' = [Mail EXCEPT ![i] = Gone]
  BY OneShows DEF Only
<1>2. Mail[i] = Keeping(i) /\ (KeptOn(i) => Service!Kept(i))
  BY KeepingFacts DEF Service!Kept, Mail
<1>. USE <1>1, <1>2 DEF Service!Leave, Service!Settled, Mail, Only
<1>3. CASE KeptOn(i) /\ HashOf[i] \in delivered /\ (HashOf[i] \in okHash \/ "open" \in Faults)
  <2>1. Service!Release(i)
    BY <1>3 DEF Service!Release
  <2>. QED
    BY <2>1 DEF Service!Next
<1>4. CASE KeptOn(i) /\ Keeping(i) >= MaxRetry
  <2>1. Service!GiveUp(i)
    BY <1>4 DEF Service!GiveUp
  <2>. QED
    BY <2>1 DEF Service!Next
<1>5. CASE Keeping(i) # Gone /\ Faults \cap {"open", "short", "rename"} # {}
  <2>1. Service!Spoil(i)
    BY <1>5 DEF Service!Spoil, Service!CardFails
  <2>. QED
    BY <2>1 DEF Service!Next
<1>. QED
  BY <1>3, <1>4, <1>5

LEMMA MapMishap ==
  ASSUME TypeOK, mishaps' = mishaps + 1, UNCHANGED <<accepted, attempts, delivered, okHash>>,
         \A k \in Id : Keeping(k)' \in {Keeping(k), Gone},
         \A i, j \in Id : KeptOn(i) /\ KeptOn(j) /\ Keeping(i)' # Keeping(i) /\ Keeping(j)' # Keeping(j) => i = j
  PROVE  Service!Next
<1>. DEFINE S == {k \in Id : Keeping(k)' # Keeping(k)}
<1>1. \A i, j \in S : Service!Kept(i) /\ Service!Kept(j) => i = j
  BY KeepingFacts DEF Service!Kept
<1>2. Mail' = [i \in Id |-> IF i \in S THEN Gone ELSE Mail[i]]
  BY DEF Mail
<1>3. Service!Mishap
  BY <1>1, <1>2 DEF Service!Mishap, Mail
<1>. QED
  BY <1>3 DEF Service!Next

LEMMA MapInit == Init => Service!Init
BY FileAssumption, StatusAssumption
DEF Init, Service!Init, Keeping, Readable, OnTry, OnSwap, Unsaved

\* Every step of the queue is one of the service, or changes nothing it shows.
LEMMA MapNext ==
  ASSUME MaxRetry + MaxMishap < RetryMod
  PROVE  TypeInv /\ CardInv /\ Recorded /\ CountInv /\ ServiceInv /\ [Next]_vars => [Service!Next]_(Service!vars)
<1>. SUFFICES ASSUME TypeInv, CardInv, Recorded, CountInv, ServiceInv, [Next]_vars
              PROVE  Quiet \/ Service!Next
  BY Shows
<1>. USE FileAssumption, EntryFacts
     DEF Keeping, OnTry, OnSwap, Unsaved, Quiet, ServiceInv, NewFile, CountInv, Shown, CardInv, OnCard,
         TypeInv, TypeOK, Sections, Cursor, Drawn, MailerInSd, Writing, Busy, Readable,
         card, writer, mailer, history
<1>1. CASE WriteTmp
  <2>. USE <1>1 DEF WriteTmp, WriteRest
  <2>1. CASE wpc' = "fail" /\ qpc = "save"
    <3>1. wid \in Id /\ Keeping(wid) = New /\ "open" \in Faults
      BY <2>1
    <3>2. PICK i \in Id : i = wid
      BY <3>1
    <3>3. Keeping(i)' = Gone /\ Only(i)
      BY <2>1, <3>2 DEF Only
    <3>. QED
      BY <3>1, <3>2, <3>3, MapLeave, StatusAssumption
  <2>2. CASE ~(wpc' = "fail" /\ qpc = "save")
    BY <2>2
  <2>. QED
    BY <2>1, <2>2
<1>2. CASE WriteRotate
  BY <1>2 DEF WriteRotate, WriteRest
<1>3. CASE WriteSwap
  <2>. USE <1>3 DEF WriteSwap, WriteRest
  <2>1. PICK i \in Id : i = wid
    OBVIOUS
  <2>2. Only(i)
    BY <2>1 DEF Only
  <2>3. wpc' = "fail" => "rename" \in Faults
    OBVIOUS
  <2>4. wpc' = "tidy" /\ wrec \notin Entry => "short" \in Faults
    BY DEF Blamed
  <2>5. CASE qpc = "save"
    <3>1. Keeping(i) = New /\ HashOf[i] = HashOf[wid]
      BY <2>1, <2>5
    <3>2. CASE wpc' = "tidy" /\ wrec \in Entry
      <4>1. Keeping(i)' = 0
        BY <2>1, <2>5, <3>2, TriedFacts DEF Rewritten
      <4>2. HashOf[i] \notin okHash
        BY <2>1, <2>5 DEF NewFile
      <4>3. (\A k \in Id : KeptOn(k) => HashOf[k] # HashOf[i]) \/ ("open" \in Faults /\ mishaps > 0)
        BY <2>1, <2>5, <3>1, KeepingFacts DEF Alone, Marked, Booting
      <4>. QED
        BY <2>2, <3>1, <4>1, <4>2, <4>3, MapTake
    <3>3. CASE ~(wpc' = "tidy" /\ wrec \in Entry)
      <4>1. Keeping(i)' = Gone
        BY <2>1, <2>5, <3>3 DEF Rewritten
      <4>. QED
        BY <2>2, <2>3, <2>4, <3>1, <3>3, <4>1, MapLeave, StatusAssumption
    <3>. QED
      BY <3>2, <3>3
  <2>6. CASE epc = "claim"
    <3>1. bak[i] \in Entry /\ Tried(bak[i]) = curRetry /\ i = cur
      BY <2>1, <2>6 DEF Rewritten, OldFile
    <3>2. KeptOn(i) /\ Keeping(i) = curRetry
      BY <2>1, <2>6, <3>1 DEF KeptOn
    <3>3. CASE wpc' = "tidy"
      <4>1. Keeping(i)' = curRetry + 1
        BY <2>6, <3>1, <3>3
      <4>2. curRetry < MaxRetry + mishaps
        BY <2>6, RetryAssumption DEF Low, Limit
      <4>3. HashOf[i] \notin okHash
        BY <2>6, <3>1 DEF Recorded
      <4>. QED
        BY <2>2, <3>2, <4>1, <4>2, <4>3, MapTry
    <3>4. CASE wpc' # "tidy"
      <4>1. Keeping(i)' = Keeping(i) \/ Keeping(i)' = Gone
        BY <2>1, <2>6, <3>1, <3>2, <3>4
      <4>2. Keeping(i)' = Gone => Service!Next
        BY <2>2, <2>3, <3>2, <3>4, KeepingFacts, MapLeave
      <4>. QED
        BY <2>2, <4>1, <4>2 DEF Only
    <3>. QED
      BY <3>3, <3>4
  <2>7. CASE epc \in {"scanWrite", "bootWrite"}
    <3>1. bak[i] \in Entry /\ (wrec \in Entry => Tried(wrec) = Tried(bak[i]))
      BY <2>1, <2>7 DEF Rewritten, OldFile
    <3>2. KeptOn(i) /\ Keeping(i) = Tried(bak[i])
      BY <2>1, <2>7, <3>1 DEF KeptOn
    <3>3. Keeping(i)' = Keeping(i) \/ (Keeping(i)' = Gone /\ ~(wpc' = "tidy" /\ wrec \in Entry))
      BY <2>1, <2>7, <3>1, <3>2
    <3>4. Keeping(i)' = Gone /\ ~(wpc' = "tidy" /\ wrec \in Entry) => Service!Next
      BY <2>2, <2>3, <2>4, <3>2, KeepingFacts, MapLeave
    <3>. QED
      BY <2>2, <3>3, <3>4 DEF Only
  <2>8. CASE epc = "retry"
    <3>1. Keeping(i)' = Keeping(i)
      BY <2>1, <2>8
    <3>. QED
      BY <2>2, <3>1 DEF Only
  <2>. QED
    BY <2>5, <2>6, <2>7, <2>8
<1>4. CASE WriteTidy
  BY <1>4 DEF WriteTidy, WriteRest
<1>5. CASE \E i \in Id : QueueBegin(i)
  BY <1>5 DEF QueueBegin, BeginWrite, SdFree, MailerInSd, card, Duplicate
<1>6. CASE QueueSaved
  <2>. USE <1>6 DEF QueueSaved, EndWrite
  <2>1. PICK i \in Id : i = wid
    OBVIOUS
  <2>2. CASE accepted' = accepted \cup {wid} /\ json' = json
    <3>1. \A k \in Id : Keeping(k)' = Keeping(k)
      BY <2>2
    <3>2. Keeping(i) = 0 \/ (Keeping(i) = Gone /\ "short" \in Faults)
      BY <2>1, <2>2, TriedFacts DEF Rewritten, Blamed
    <3>. QED
      BY <2>1, <2>2, <3>1, <3>2, MapAccept
  <2>3. CASE "open" \in Faults /\ json' = [json EXCEPT ![wid] = NoFile] /\ UNCHANGED accepted
    <3>1. Only(i) /\ Keeping(i)' = Gone
      BY <2>1, <2>3 DEF Only
    <3>2. Keeping(i) # Gone => Service!Next
      BY <2>3, <3>1, MapLeave
    <3>. QED
      BY <3>1, <3>2 DEF Only
  <2>. QED
    BY <2>2, <2>3
<1>7. CASE QueueNotSaved
  BY <1>7 DEF QueueNotSaved, EndWrite, card
<1>8. CASE ScanBegin
  BY <1>8 DEF ScanBegin, SdFree, card, writer
<1>9. CASE \E i \in Id : ScanSent(i)
  <2>1. PICK i \in Id : ScanSent(i)
    BY <1>9
  <2>2. KeptOn(i) /\ HashOf[i] \in okHash /\ HashOf[i] \in delivered
    BY <2>1 DEF ScanSent, Scanning, KeptOn, Delivered
  <2>3. Only(i) /\ Keeping(i)' = Gone
    BY <2>1 DEF ScanSent, Scanning, Only, HasLeftover
  <2>. QED
    BY <2>2, <2>3, MapLeave
<1>10. CASE \E i \in Id : ScanPick(i)
  BY <1>10 DEF ScanPick, Scanning, Readable, card, writer
<1>11. CASE \E i \in Id : ScanSkip(i)
  BY <1>11 DEF ScanSkip, Scanning, Readable, card, writer
<1>12. CASE \E i \in Id : ScanStale(i)
  BY <1>12 DEF ScanStale, Scanning, Readable, BeginWrite, card
<1>13. CASE ScanStaleWritten
  BY <1>13 DEF ScanStaleWritten, Written, EndWrite
<1>14. CASE \E i \in Id : ScanCorrupt(i)
  <2>1. PICK i \in Id : ScanCorrupt(i)
    BY <1>14
  <2>2. Only(i) /\ Keeping(i)' \in {Keeping(i), Gone}
    BY <2>1 DEF ScanCorrupt, Scanning, SetAside, Only, HasLeftover
  <2>3. Keeping(i) # Gone => "open" \in Faults
    BY <2>1 DEF ScanCorrupt, Scanning
  <2>4. Keeping(i) # Gone /\ Keeping(i)' = Gone => Service!Next
    BY <2>2, <2>3, MapLeave
  <2>. QED
    BY <2>2, <2>4 DEF Only
<1>15. CASE ScanEnd
  BY <1>15 DEF ScanEnd, card, writer
<1>16. CASE LockTimeout
  <2>1. json[cur] \in Entry /\ OnTry(cur) => Tried(json[cur]) = curRetry + 1
    BY <1>16, TriedFacts DEF LockTimeout, InHandKept, Claiming
  <2>2. \A k \in Id : k # cur => Keeping(k)' = Keeping(k)
    BY <1>16 DEF LockTimeout, ToIdle
  <2>3. \A k \in Id : k = cur => Keeping(k)' \in {Keeping(k), Gone}
    BY <1>16, <2>1 DEF LockTimeout, ToIdle
  <2>. QED
    BY <1>16, <2>2, <2>3, MapMishap DEF LockTimeout
<1>17. CASE ReadPicked
  BY <1>17 DEF ReadPicked, ToIdle, SdFree, MailerInSd, Readable, card, writer
<1>18. CASE ClaimBegin
  BY <1>18 DEF ClaimBegin, BeginWrite, Goto, SdFree, MailerInSd
<1>19. CASE ClaimEnd
  BY <1>19 DEF ClaimEnd, Written, EndWrite, Goto, ToIdle, card
<1>20. CASE SmtpNoLink
  BY <1>20 DEF SmtpNoLink, Goto, card, writer
<1>21. CASE SmtpOpen
  <2>1. PICK i \in Id : i = cur
    BY <1>21 DEF SmtpOpen
  <2>2. KeptOn(i) /\ Keeping(i) = curRetry + 1
    BY <1>21, <2>1 DEF SmtpOpen, KeptOn
  <2>3. attempts[i] < Keeping(i)
    BY <1>21, <2>1, <2>2 DEF SmtpOpen, Counts
  <2>4. \A k \in Id : Keeping(k)' = Keeping(k)
    BY <1>21 DEF SmtpOpen, Goto
  <2>. QED
    BY <1>21, <2>1, <2>2, <2>3, <2>4, MapOpen DEF SmtpOpen
<1>22. CASE SmtpRefused
  BY <1>22 DEF SmtpRefused, Goto, card, writer
<1>23. CASE SmtpDelivered
  <2>1. PICK i \in Id : i = cur
    BY <1>23 DEF SmtpDelivered
  <2>2. KeptOn(i) /\ attempts[i] > 0
    BY <1>23, <2>1 DEF SmtpDelivered, KeptOn, Blamed
  <2>3. \A k \in Id : Keeping(k)' = Keeping(k)
    BY <1>23 DEF SmtpDelivered, Goto
  <2>. QED
    BY <1>23, <2>1, <2>2, <2>3, MapDeliver DEF SmtpDelivered
<1>24. CASE MarkSentBegin
  BY <1>24 DEF MarkSentBegin, Goto, SdFree, MailerInSd, writer
<1>25. CASE MarkHash
  <2>1. PICK i \in Id : i = cur
    BY <1>25 DEF MarkHash
  <2>2. KeptOn(i) /\ HashOf[i] \in delivered
    BY <1>25, <2>1 DEF MarkHash, KeptOn, Delivered
  <2>3. \A k \in Id : Keeping(k)' = Keeping(k)
    BY <1>25 DEF MarkHash, Goto
  <2>4. okHash' = okHash \cup {HashOf[i]} => Service!Next
    BY <1>25, <2>2, <2>3, MapSettle DEF MarkHash
  <2>. QED
    BY <1>25, <2>1, <2>3, <2>4 DEF MarkHash
<1>26. CASE MarkPending
  BY <1>26 DEF MarkPending, Goto, writer
<1>27. CASE MarkQueue
  <2>1. PICK i \in Id : i = cur
    BY <1>27 DEF MarkQueue
  <2>2. KeptOn(i) /\ HashOf[i] \in delivered /\ (HashOf[i] \in okHash \/ "open" \in Faults)
    BY <1>27, <2>1 DEF MarkQueue, KeptOn, Delivered, Blamed
  <2>3. Only(i) /\ Keeping(i)' = Gone
    BY <1>27, <2>1 DEF MarkQueue, ToIdle, Only
  <2>. QED
    BY <2>2, <2>3, MapLeave
<1>28. CASE RetryBegin
  BY <1>28 DEF RetryBegin, BeginWrite, Goto, SdFree, MailerInSd, card
<1>29. CASE RetryEnd
  <2>1. PICK i \in Id : i = cur
    BY <1>29 DEF RetryEnd
  <2>2. KeptOn(i) /\ Keeping(i) = curRetry + 1
    BY <1>29, <2>1 DEF RetryEnd, KeptOn
  <2>3. Only(i)
    BY <1>29, <2>1 DEF RetryEnd, EndWrite, ToIdle, Only
  <2>4. CASE json[cur] \in Entry
    <3>1. Keeping(i)' = Keeping(i)
      BY <1>29, <2>1, <2>2, <2>4 DEF RetryEnd, EndWrite, ToIdle, Rewritten
    <3>. QED
      BY <2>3, <3>1 DEF Only
  <2>5. CASE json[cur] \notin Entry
    <3>1. Keeping(i)' = Gone
      BY <1>29, <2>1, <2>5 DEF RetryEnd, EndWrite, ToIdle
    <3>2. Faults \cap {"open", "short", "rename"} # {}
      BY <1>29, <2>5 DEF RetryEnd, Written, Blamed
    <3>. QED
      BY <2>2, <2>3, <3>1, <3>2, KeepingFacts, MapLeave
  <2>. QED
    BY <2>4, <2>5
<1>30. CASE PermBegin
  <2>1. PICK i \in Id : i = cur
    BY <1>30 DEF PermBegin
  <2>2. KeptOn(i) /\ Keeping(i) = curRetry + 1
    BY <1>30, <2>1 DEF PermBegin, KeptOn
  <2>3. curRetry <= Limit
    BY <1>30 DEF PermBegin, Low
  <2>4. Keeping(i) >= MaxRetry
    BY <1>30, <2>2, <2>3, NoWrap DEF PermBegin, Low
  <2>5. Only(i) /\ Keeping(i)' = Gone
    BY <1>30, <2>1 DEF PermBegin, Goto, Only, SdFree
  <2>. QED
    BY <2>2, <2>4, <2>5, MapLeave
<1>31. CASE PermEnd
  BY <1>31 DEF PermEnd, ToIdle, writer
<1>32. CASE \E i \in Id : RecoverTidy(i)
  BY <1>32 DEF RecoverTidy, writer, mailer, HasLeftover
<1>33. CASE \E i \in Id : RecoverSent(i)
  <2>1. PICK i \in Id : RecoverSent(i)
    BY <1>33
  <2>2. KeptOn(i) /\ HashOf[i] \in okHash /\ HashOf[i] \in delivered
    BY <2>1 DEF RecoverSent, Recovering, KeptOn, Delivered
  <2>3. Only(i) /\ Keeping(i)' = Gone
    BY <2>1 DEF RecoverSent, Recovering, Only, HasLeftover
  <2>. QED
    BY <2>2, <2>3, MapLeave
<1>34. CASE \E i \in Id : RecoverKeep(i)
  BY <1>34 DEF RecoverKeep, Recovering, Readable, BeginWrite, writer, HasLeftover
<1>35. CASE RecoverWritten
  BY <1>35 DEF RecoverWritten, Written, EndWrite
<1>36. CASE \E i \in Id : RecoverCorrupt(i)
  <2>1. PICK i \in Id : RecoverCorrupt(i)
    BY <1>36
  <2>2. Only(i) /\ Keeping(i)' \in {Keeping(i), Gone}
    BY <2>1 DEF RecoverCorrupt, Recovering, SetAside, Only, HasLeftover
  <2>3. Keeping(i) # Gone => "open" \in Faults
    BY <2>1 DEF RecoverCorrupt, Recovering
  <2>4. Keeping(i) # Gone /\ Keeping(i)' = Gone => Service!Next
    BY <2>2, <2>3, MapLeave
  <2>. QED
    BY <2>2, <2>4 DEF Only
<1>37. CASE RecoverEnd
  BY <1>37 DEF RecoverEnd, card, writer, HasLeftover
<1>38. CASE Reboot
  <2>. USE <1>38 DEF Reboot
  <2>1. \A k \in Id : OnTry(k) /\ Readable(k) => Tried(json[k]) = curRetry + 1
    BY TriedFacts DEF InHandKept, Claiming, Rewritten
  <2>2. \A k \in Id : Readable(k) => Keeping(k)' = Keeping(k)
    BY <2>1
  <2>3. \A k \in Id : ~Readable(k) => Keeping(k)' \in {Keeping(k), Gone}
    OBVIOUS
  <2>4. \A i, j \in Id : OnTry(i) /\ OnSwap(j) => i = j
    OBVIOUS
  <2>5. \A i, j \in Id : KeptOn(i) /\ KeptOn(j) /\ ~Readable(i) /\ ~Readable(j) => i = j
    BY <2>4 DEF KeptOn
  <2>. QED
    BY <2>2, <2>3, <2>5, MapMishap
<1>39. CASE UNCHANGED vars
  BY <1>39 DEF vars, card, writer, mailer, history
<1>. QED
  BY <1>1, <1>2, <1>3, <1>4, <1>5, <1>6, <1>7, <1>8, <1>9, <1>10, <1>11, <1>12, <1>13,
     <1>14, <1>15, <1>16, <1>17, <1>18, <1>19, <1>20, <1>21, <1>22, <1>23, <1>24, <1>25,
     <1>26, <1>27, <1>28, <1>29, <1>30, <1>31, <1>32, <1>33, <1>34, <1>35, <1>36, <1>37,
     <1>38, <1>39 DEF Next, writeQueuedMailLocked,
     queueEmail, processQueue, getNextQueuePath, claimForSend, sendEmailMessage, markSent,
     scheduleRetry, markPermanentFailure, recoverEmailQueue

\* Mishaps are only added.
LEMMA MishapsGrow ==
  TypeInv /\ [Next]_vars => mishaps' \in {mishaps, mishaps + 1}
<1>. SUFFICES ASSUME TypeInv, [Next]_vars PROVE mishaps' \in {mishaps, mishaps + 1}
  OBVIOUS
<1>. USE DEF card, writer, mailer, history
<1>1. CASE WriteTmp
  BY <1>1 DEF WriteTmp, WriteRest
<1>2. CASE WriteRotate
  BY <1>2 DEF WriteRotate, WriteRest
<1>3. CASE WriteSwap
  BY <1>3 DEF WriteSwap, WriteRest
<1>4. CASE WriteTidy
  BY <1>4 DEF WriteTidy, WriteRest
<1>5. CASE \E i \in Id : QueueBegin(i)
  BY <1>5 DEF QueueBegin, BeginWrite, SdFree, MailerInSd, card, Duplicate
<1>6. CASE QueueSaved
  BY <1>6 DEF QueueSaved, EndWrite
<1>7. CASE QueueNotSaved
  BY <1>7 DEF QueueNotSaved, EndWrite, card
<1>8. CASE ScanBegin
  BY <1>8 DEF ScanBegin, SdFree, card, writer
<1>9. CASE \E i \in Id : ScanSent(i)
  BY <1>9 DEF ScanSent, Scanning, Readable, writer
<1>10. CASE \E i \in Id : ScanPick(i)
  BY <1>10 DEF ScanPick, Scanning, Readable, card, writer
<1>11. CASE \E i \in Id : ScanSkip(i)
  BY <1>11 DEF ScanSkip, Scanning, Readable, card, writer
<1>12. CASE \E i \in Id : ScanStale(i)
  BY <1>12 DEF ScanStale, Scanning, Readable, BeginWrite, card
<1>13. CASE ScanStaleWritten
  BY <1>13 DEF ScanStaleWritten, Written, EndWrite
<1>14. CASE \E i \in Id : ScanCorrupt(i)
  BY <1>14 DEF ScanCorrupt, Scanning, SetAside, writer
<1>15. CASE ScanEnd
  BY <1>15 DEF ScanEnd, card, writer
<1>16. CASE LockTimeout
  BY <1>16 DEF LockTimeout, ToIdle, card, writer
<1>17. CASE ReadPicked
  BY <1>17 DEF ReadPicked, ToIdle, SdFree, MailerInSd, Readable, card, writer
<1>18. CASE ClaimBegin
  BY <1>18 DEF ClaimBegin, BeginWrite, Goto, SdFree, MailerInSd
<1>19. CASE ClaimEnd
  BY <1>19 DEF ClaimEnd, Written, EndWrite, Goto, ToIdle, card
<1>20. CASE SmtpNoLink
  BY <1>20 DEF SmtpNoLink, Goto, card, writer
<1>21. CASE SmtpOpen
  BY <1>21 DEF SmtpOpen, Goto, card, writer
<1>22. CASE SmtpRefused
  BY <1>22 DEF SmtpRefused, Goto, card, writer
<1>23. CASE SmtpDelivered
  BY <1>23 DEF SmtpDelivered, Goto, card, writer
<1>24. CASE MarkSentBegin
  BY <1>24 DEF MarkSentBegin, Goto, SdFree, MailerInSd, writer
<1>25. CASE MarkHash
  BY <1>25 DEF MarkHash, Goto, writer
<1>26. CASE MarkPending
  BY <1>26 DEF MarkPending, Goto, writer
<1>27. CASE MarkQueue
  BY <1>27 DEF MarkQueue, ToIdle, writer
<1>28. CASE RetryBegin
  BY <1>28 DEF RetryBegin, BeginWrite, Goto, SdFree, MailerInSd, card
<1>29. CASE RetryEnd
  BY <1>29 DEF RetryEnd, Written, EndWrite, ToIdle, card
<1>30. CASE PermBegin
  BY <1>30 DEF PermBegin, Goto, SdFree, MailerInSd, writer
<1>31. CASE PermEnd
  BY <1>31 DEF PermEnd, ToIdle, writer
<1>32. CASE \E i \in Id : RecoverTidy(i)
  BY <1>32 DEF RecoverTidy, writer, mailer, HasLeftover
<1>33. CASE \E i \in Id : RecoverSent(i)
  BY <1>33 DEF RecoverSent, Recovering, writer, HasLeftover
<1>34. CASE \E i \in Id : RecoverKeep(i)
  BY <1>34 DEF RecoverKeep, Recovering, Readable, BeginWrite, writer, HasLeftover
<1>35. CASE RecoverWritten
  BY <1>35 DEF RecoverWritten, Written, EndWrite
<1>36. CASE \E i \in Id : RecoverCorrupt(i)
  BY <1>36 DEF RecoverCorrupt, Recovering, SetAside, writer, HasLeftover
<1>37. CASE RecoverEnd
  BY <1>37 DEF RecoverEnd, card, writer, HasLeftover
<1>38. CASE Reboot
  BY <1>38 DEF Reboot, card
<1>39. CASE UNCHANGED vars
  BY <1>39 DEF vars, card, writer, mailer, history
<1>. QED
  BY <1>1, <1>2, <1>3, <1>4, <1>5, <1>6, <1>7, <1>8, <1>9, <1>10, <1>11, <1>12, <1>13,
     <1>14, <1>15, <1>16, <1>17, <1>18, <1>19, <1>20, <1>21, <1>22, <1>23, <1>24, <1>25,
     <1>26, <1>27, <1>28, <1>29, <1>30, <1>31, <1>32, <1>33, <1>34, <1>35, <1>36, <1>37,
     <1>38, <1>39 DEF Next, writeQueuedMailLocked,
     queueEmail, processQueue, getNextQueuePath, claimForSend, sendEmailMessage, markSent,
     scheduleRetry, markPermanentFailure, recoverEmailQueue

LEMMA ServiceInit == Init => ServiceInv
<1>. SUFFICES ASSUME Init PROVE ServiceInv
  OBVIOUS
<1>1. \A i \in Id : ~KeptOn(i)
  BY FileAssumption DEF Init, KeptOn, OnTry, OnSwap, Readable
<1>. QED
  BY <1>1, FileAssumption, EntryFacts
  DEF Init, ServiceInv, Blamed, NewFile, InHandKept, Rewritten, Alone, Marked, Single, Claiming

\* Whether a text is kept once is kept up from one step to the next.
LEMMA AloneNext ==
  TypeInv /\ CardInv /\ Shown /\ Blamed /\ NewFile /\ Rewritten /\ Alone /\ [Next]_vars => Alone'
<1>. SUFFICES ASSUME TypeInv, CardInv, Shown, Blamed, NewFile, Rewritten, Alone, [Next]_vars PROVE Alone'
  OBVIOUS
<1>1. CASE "open" \in Faults /\ mishaps > 0
  <2>1. mishaps' \in {mishaps, mishaps + 1}
    BY MishapsGrow
  <2>2. mishaps \in Nat
    BY DEF TypeInv, TypeOK
  <2>. QED
    BY <1>1, <2>1, <2>2 DEF Alone
<1>2. CASE ~("open" \in Faults /\ mishaps > 0)
  <2>1. Marked /\ Single /\ ("open" \notin Faults \/ mishaps = 0)
    BY <1>2 DEF Alone, TypeInv, TypeOK
  <2>2. Marked' /\ Single'
    BY <2>1, MarkedNext, SingleNext
  <2>. QED
    BY <2>2 DEF Alone
<1>. QED
  BY <1>1, <1>2

LEMMA ServiceNext ==
  ASSUME MaxRetry + MaxMishap < RetryMod
  PROVE  TypeInv /\ CardInv /\ CountInv /\ ServiceInv /\ [Next]_vars => ServiceInv'
BY BlamedNext, NewFileNext, InHandNext, RewrittenNext, AloneNext DEF ServiceInv, CountInv

\* What the theorems about MailService need of a reachable state.
QueueInv == TypeInv /\ CardInv /\ Recorded /\ NoSilentDuplicate /\ CountInv /\ ServiceInv

LEMMA QueueInvAlways ==
  ASSUME MaxRetry + MaxMishap < RetryMod
  PROVE  Spec => []QueueInv
<1>1. Init => QueueInv
  BY TypeInit, CountInit, ServiceInit DEF Init, Recorded, NoSilentDuplicate, QueueInv
<1>2. QueueInv /\ [Next]_vars => QueueInv'
  BY TypeNext, CardNext, RecordedNext, CountNext, ServiceNext DEF QueueInv
<1>. QED
  BY <1>1, <1>2, PTL DEF Spec

\* The files and tasks of the queue implement the promise of MailService, whatever
\* the card does (Implements).
THEOREM QueueImplementsService ==
  ASSUME MaxRetry + MaxMishap < RetryMod
  PROVE  Spec => Implements
<1>1. Spec => []QueueInv
  BY QueueInvAlways
<1>2. QueueInv /\ [Next]_vars => [Service!Next]_(Service!vars)
  BY MapNext DEF QueueInv
<1>. QED
  BY <1>1, <1>2, MapInit, PTL DEF Spec, Implements, Service!Spec

\* While files can be opened, a text stands in the queue once: queueEmail takes no
\* second one, before and after any number of restarts (queueEmail, recoverEmailQueue).
THEOREM TextsKeptOnce ==
  ASSUME MaxRetry + MaxMishap < RetryMod, "open" \notin Faults
  PROVE  Spec => [](\A i, j \in Id : KeptOn(i) /\ KeptOn(j) /\ HashOf[i] = HashOf[j] => i = j)
<1>1. Spec => []QueueInv
  BY QueueInvAlways
<1>2. QueueInv => \A i, j \in Id : KeptOn(i) /\ KeptOn(j) /\ HashOf[i] = HashOf[j] => i = j
  BY DEF QueueInv, ServiceInv, Alone, Single
<1>. QED
  BY <1>1, <1>2, PTL

\* A mail that has left the queue does not come back, from no .bak, .tmp or claim a
\* restart or a failed operation left behind (writeQueuedMailLocked, recoverEmailQueue).
THEOREM GoneStaysGone ==
  ASSUME MaxRetry + MaxMishap < RetryMod
  PROVE  Spec => [][\A i \in Id : Keeping(i) = Gone => Keeping(i)' = Gone]_vars
<1>1. Spec => []QueueInv
  BY QueueInvAlways
<1>2. QueueInv /\ [Next]_vars => [\A i \in Id : Keeping(i) = Gone => Keeping(i)' = Gone]_vars
  <2>1. SUFFICES ASSUME QueueInv, [Next]_vars, NEW i \in Id, Keeping(i) = Gone PROVE Keeping(i)' = Gone
    OBVIOUS
  <2>2. [Service!Next]_(Service!vars)
    BY <2>1, MapNext DEF QueueInv
  <2>3. Mail[i] = Gone /\ Mail'[i] = Keeping(i)' /\ Mail = [k \in Id |-> Keeping(k)]
    BY <2>1 DEF Mail
  <2>4. CASE UNCHANGED Service!vars
    BY <2>3, <2>4 DEF Service!vars, Mail
  <2>5. CASE Service!Mishap
    BY <2>3, <2>5 DEF Service!Mishap, Mail
  <2>6. CASE \E k \in Id : Service!Take(k) \/ Service!Accept(k) \/ Service!Try(k) \/ Service!Open(k) \/ Service!Deliver(k)
                             \/ Service!Settle(k) \/ Service!Release(k) \/ Service!GiveUp(k) \/ Service!Spoil(k)
    <3>1. PICK k \in Id : \/ Mail' = Mail \/ Mail' = [Mail EXCEPT ![k] = Gone]
                          \/ (Mail[k] # Gone /\ \E n : Mail' = [Mail EXCEPT ![k] = n])
      BY <2>6, StatusAssumption DEF Service!Take, Service!Accept, Service!Try, Service!Open, Service!Deliver,
         Service!Settle, Service!Release, Service!GiveUp, Service!Spoil, Service!Leave, Service!Kept, Mail
    <3>. QED
      BY <2>3, <3>1 DEF Mail
  <2>. QED
    BY <2>2, <2>4, <2>5, <2>6 DEF Service!Next
<1>. QED
  BY <1>1, <1>2, PTL DEF Spec
==============================================================================
