----------------------------- MODULE RetryClock -----------------------------
(***************************************************************************)
(* The clock side of the mail queue, which MailQueue leaves out: how long  *)
(* one mail waits between its sessions.  Back-off and stale test compare   *)
(* two numbers on the card with millis(), a 32-bit counter that wraps      *)
(* after 49.7 days and starts at 0 after every restart, while the card     *)
(* keeps what an earlier count wrote.                                      *)
(*                                                                         *)
(* One tick is as many milliseconds as the constants choose.  The mail is  *)
(* queued, in a session, or claimed: its file says inFlight although no    *)
(* session is open.                                                        *)
(***************************************************************************)
EXTENDS Integers

CONSTANTS
  Mod,         \* millis() and the stored times are uint32_t: 2^32
  RetryMod,    \* QueuedMail.retry is a uint8_t: 256
  Base, Max,   \* QUEUE_BASE_BACKOFF_MS, QUEUE_MAX_BACKOFF_MS
  Stale,       \* QUEUE_STALE_INFLIGHT_MS
  MaxRetry,    \* MAX_RETRY_COUNT
  MaxRestart,  \* bound: restarts in one behaviour
  Horizon      \* bound: since counts no further

ASSUME ClockAssumption ==
  /\ Mod \in Nat \ {0} /\ RetryMod \in Nat \ {0} /\ MaxRetry \in Nat \ {0}
  /\ Base \in Nat \ {0} /\ Max \in Nat \ {0} /\ Stale \in Nat \ {0}
  /\ Base <= Max /\ 2 * Max < Mod /\ 2 * Stale < Mod /\ MaxRetry < RetryMod
  /\ MaxRestart \in Nat /\ Horizon \in Nat /\ Max < Horizon /\ Stale < Horizon

VARIABLES
  now,                \* millis()
  phase,              \* "queued", "session", "claimed" or "left"
  retry, next, last,  \* retry, nextDelayMs, lastAttemptMs in the mail's file
  (* history *)
  since,      \* ticks since the mail was scheduled or claimed
  wrapped,    \* nextDelayMs passed Mod when it was computed, and now has not
  overslept,  \* millis() wrapped while the mail was due
  restarted,  \* a restart since the mail was scheduled
  restarts

file    == <<phase, retry, next, last>>
history == <<since, wrapped, overslept, restarted, restarts>>
vars    == <<now, file, history>>

Time == 0 .. Mod - 1

TypeOK ==
  /\ now \in Time /\ phase \in {"queued", "session", "claimed", "left"}
  /\ retry \in 0 .. RetryMod - 1 /\ next \in Time /\ last \in Time
  /\ since \in 0 .. Horizon /\ restarts \in 0 .. MaxRestart
  /\ wrapped \in BOOLEAN /\ overslept \in BOOLEAN /\ restarted \in BOOLEAN

------------------------------------------------------------------------------
Overflowing(d) == (2 * d) % Mod                          \* mutant of Doubled
Doubled(d)     == IF d >= Max \div 2 THEN Max ELSE 2 * d

\* The loop of retryDelayMs, by the number of its rounds.
retryDelayMs[r \in 0 .. RetryMod - 1] ==
  IF r <= 1 THEN Base ELSE Doubled(retryDelayMs[r - 1])

\* doc["nextDelayMs"] | 0 reads an int: what does not fit becomes the default.
Stored(t) == IF t < Mod \div 2 THEN t ELSE 0

AtOnce(r)    == now                                      \* mutant of After
After(r)     == (now + retryDelayMs[r]) % Mod

DueLater == retry = 0 \/ now > Stored(next)              \* mutant of isDue
DueFresh == retry = 0                                    \* mutant of isDue
isDue    == retry = 0 \/ now >= Stored(next)

StaleNext == (now - Stored(next)) % Mod > Stale          \* mutant of IsStale
IsStale   == (now - Stored(last)) % Mod > Stale

\* A mail may be queued at any time.
Init ==
  /\ now \in Time /\ phase = "queued" /\ retry = 0 /\ next = 0 /\ last = 0
  /\ since = 0 /\ wrapped = FALSE /\ overslept = FALSE /\ restarted = FALSE
  /\ restarts = 0

\* The mail goes back to the queue with one more retry and a new back-off.
Schedule ==
  /\ phase' = "queued" /\ retry' = (retry + 1) % RetryMod /\ next' = After(retry')
  /\ since' = 0 /\ wrapped' = (next' < now) /\ overslept' = FALSE /\ restarted' = FALSE

------------------------------------------------------------------------------
Tick ==
  /\ phase # "left"
  /\ now' = (now + 1) % Mod
  /\ since' = IF since < Horizon THEN since + 1 ELSE since
  /\ wrapped' = (wrapped /\ now' # 0)
  /\ overslept' = (overslept \/ (now' = 0 /\ phase = "queued" /\ isDue /\ ~wrapped))
  /\ UNCHANGED <<file, restarted, restarts>>

\* getNextQueuePath picks the mail and claimForSend writes its claim.
claimForSend ==
  /\ phase = "queued" /\ isDue
  /\ phase' = "session" /\ next' = Stored(next) /\ last' = now /\ since' = 0
  /\ UNCHANGED <<now, retry, wrapped, overslept, restarted, restarts>>

\* markSent, or markPermanentFailure once the retries are used up.
Leave ==
  /\ phase = "session" /\ phase' = "left"
  /\ UNCHANGED <<now, retry, next, last, history>>

scheduleRetry ==
  /\ phase = "session" /\ (retry + 1) % RetryMod < MaxRetry
  /\ Schedule /\ last' = now
  /\ UNCHANGED <<now, restarts>>

\* The lock or the card refuses the outcome of a failed session.
Unwritten ==
  /\ phase = "session" /\ phase' = "claimed"
  /\ UNCHANGED <<now, retry, next, last, history>>

\* The scan meets a claim that has grown stale.
ReleaseStale ==
  /\ phase = "claimed" /\ IsStale
  /\ Schedule /\ last' = Stored(last)
  /\ UNCHANGED <<now, restarts>>

\* recoverEmailQueue runs when millis() has just begun; a claim of the time
\* before, session or not, is released with a back-off from then on.
Restart ==
  /\ phase # "left" /\ restarts < MaxRestart /\ restarts' = restarts + 1
  /\ now' = 0
  /\ IF phase = "queued"
     THEN restarted' = TRUE /\ UNCHANGED <<file, since, wrapped, overslept>>
     ELSE /\ phase' = "queued" /\ retry' = (retry + 1) % RetryMod
          /\ next' = retryDelayMs[retry'] /\ last' = Stored(last)
          /\ since' = 0 /\ wrapped' = FALSE /\ overslept' = FALSE /\ restarted' = FALSE

------------------------------------------------------------------------------
Next ==
  \/ Tick \/ claimForSend \/ Leave \/ scheduleRetry \/ Unwritten \/ ReleaseStale \/ Restart

Spec     == Init /\ [][Next]_vars
FairSpec == Spec /\ WF_vars(Tick)

------------------------------------------------------------------------------
(* Properties *)

DelayAsStated(r) ==
  /\ retryDelayMs[r] \in Base .. Max
  /\ r > 0 => retryDelayMs[r] = IF Base * 2^(r - 1) < Max THEN Base * 2^(r - 1) ELSE Max

\* retryDelayMs doubles the base once per earlier retry, up to the maximum,
\* and never overflows its 32 bits on the way, for every count a mail gets to:
\* stale releases and restarts drive it beyond MAX_RETRY_COUNT and round.
\* (An odd maximum would be jumped to from the step just below it.)
BackoffDoubles == DelayAsStated(retry)

\* A retried mail is not picked before its back-off has passed, whatever
\* restarts do to millis(), unless the back-off reached across the wrap or
\* its end does not fit into the int it is read as.
BackoffKept ==
  [][phase = "queued" /\ phase' = "session" =>
       \/ retry = 0 \/ since >= retryDelayMs[retry]
       \/ wrapped \/ next >= Mod \div 2]_vars

\* Once its back-off has passed a mail is due, unless a restart put millis()
\* back or nobody looked while it was due until millis() wrapped.
DueOnTime ==
  phase = "queued" /\ retry > 0 /\ since >= retryDelayMs[retry] /\ ~restarted /\ ~overslept
    => isDue

\* A claim is released by the scan only after it has been stale for real,
\* across the wrap too, unless its time does not fit into an int.
StaleKept ==
  [][phase = "claimed" /\ phase' = "queued" /\ restarts' = restarts =>
       since > Stale \/ last >= Mod \div 2]_vars

\* Every wait ends: a queued mail becomes due and a claim grows stale, also
\* after wraps and any finite number of restarts.
WaitEnds ==
  /\ phase = "queued"  ~> isDue \/ phase # "queued"
  /\ phase = "claimed" ~> IsStale \/ phase # "claimed"

==============================================================================
