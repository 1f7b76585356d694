--------------------------- MODULE MailQueueService ---------------------------
(***************************************************************************)
(* The queue on the card implements the promise of MailService: the files  *)
(* of a mail, with the claim written into them, count its tries.           *)
(***************************************************************************)
EXTENDS MailQueue

CONSTANTS New, Gone

ASSUME StatusAssumption == New \notin Nat /\ Gone \notin Nat /\ New # Gone

\* A claim is a try that is not yet counted.
Tried(e) == e.retry + (IF e.inFlight THEN 1 ELSE 0)

\* emailTask has the text in RAM and a try of it begun, whatever its file says.
OnTry(i) ==
  i = cur /\ \/ epc \in {"claimed", "smtp", "sent", "markHash", "markPending", "markQueue",
                         "failed", "retry"}
             \/ epc = "claim" /\ wpc \in {"tidy", "ok"}

\* The writer has set the old file aside and will put it back or replace it.
OnSwap(i) == i = wid /\ wpc = "swap" /\ bak[i] \in Entry

\* Not drawn yet, or queueEmail has not yet put its file in place.
Unsaved(i) == i \notin used \/ (qpc = "save" /\ i = wid /\ wpc \in {"tmp", "rotate", "swap"})

\* Nothing puts a .bak back once its write is over: it keeps no mail.
Keeping(i) ==
  IF OnTry(i) THEN curRetry + 1
  ELSE IF Readable(i) THEN Tried(json[i])
  ELSE IF OnSwap(i) THEN Tried(bak[i])
  ELSE IF Unsaved(i) THEN New ELSE Gone

Service == INSTANCE MailService WITH mail <- [i \in Id |-> Keeping(i)], settled <- okHash

\* Whatever order its tasks, its card operations and its reboots come in, the
\* queue keeps the promise: a text enters once while it is kept, leaves only
\* because it is settled or after MAX_RETRY_COUNT tries, a restart costs at most one mail
\* and buys at most one try, and an operation of the card that fails costs its own
\* mail only (queueEmail, processQueue, recoverEmailQueue).
Implements == Service!Spec

\* Every mail leaves the queue: a mail that is kept is one day kept no more, neither in
\* its file nor in the file that is set aside while it is rewritten, and with Implements
\* it then is settled, given up on or lost to one of the named mishaps.  None is claimed
\* for ever or tried again for ever (processQueue, releaseStaleInFlight).
EveryMailLeavesQueue == \A i \in Id : Keeping(i) \notin {New, Gone} ~> Keeping(i) = Gone

===============================================================================
