----------------------------- MODULE MailService -----------------------------
(***************************************************************************)
(* What the mail queue promises to the tasks that call queueEmail, without *)
(* its files, its tasks and its locks.  A mail is new, gone or in the      *)
(* service's keeping; in its keeping it is known by the number of times    *)
(* the service has set out to send it.  Faults says which operations of    *)
(* the card may fail; what that costs is in the actions that ask for it.   *)
(***************************************************************************)
EXTENDS Integers

CONSTANTS Id, HashOf, MaxRetry, Faults, New, Gone

VARIABLES
  mail,       \* for each Id: New, Gone, or how often it was tried
  accepted,   \* mails the service said yes to
  attempts,   \* sessions with a server begun for each Id
  delivered,  \* texts a server has
  settled,    \* texts the service knows a server has
  mishaps     \* restarts and lock timeouts so far

vars == <<mail, accepted, attempts, delivered, settled, mishaps>>

Kept(i)    == mail[i] \notin {New, Gone}
Leave(i)   == mail' = [mail EXCEPT ![i] = Gone]
Settled(i) == HashOf[i] \in settled
CardFails  == Faults \cap {"open", "short", "rename"} # {}

Init ==
  /\ mail = [i \in Id |-> New] /\ attempts = [i \in Id |-> 0]
  /\ accepted = {} /\ delivered = {} /\ settled = {} /\ mishaps = 0

\* A text is taken once, and not again while it is kept or after it was sent,
\* unless a restart could not put its marker back.
Take(i) ==
  /\ mail[i] = New /\ ~Settled(i)
  /\ \/ \A j \in Id : Kept(j) => HashOf[j] # HashOf[i]
     \/ "open" \in Faults /\ mishaps > 0
  /\ mail' = [mail EXCEPT ![i] = 0]
  /\ UNCHANGED <<accepted, attempts, delivered, settled, mishaps>>

\* A yes means that the mail is kept, unless its text was cut short.
Accept(i) ==
  /\ mail[i] = 0 \/ (mail[i] = Gone /\ "short" \in Faults)
  /\ accepted' = accepted \cup {i}
  /\ UNCHANGED <<mail, attempts, delivered, settled, mishaps>>

\* Each mishap may buy one try beyond the limit.
Try(i) ==
  /\ Kept(i) /\ ~Settled(i) /\ mail[i] < MaxRetry + mishaps
  /\ mail' = [mail EXCEPT ![i] = @ + 1]
  /\ UNCHANGED <<accepted, attempts, delivered, settled, mishaps>>

\* No session is begun without a try.
Open(i) ==
  /\ Kept(i) /\ attempts[i] < mail[i]
  /\ attempts' = [attempts EXCEPT ![i] = @ + 1]
  /\ UNCHANGED <<mail, accepted, delivered, settled, mishaps>>

\* A text reaches a server in a session of a mail that holds it.
Deliver(i) ==
  /\ Kept(i) /\ attempts[i] > 0
  /\ delivered' = delivered \cup {HashOf[i]}
  /\ UNCHANGED <<mail, accepted, attempts, settled, mishaps>>

Settle(i) ==
  /\ Kept(i) /\ HashOf[i] \in delivered
  /\ settled' = settled \cup {HashOf[i]}
  /\ UNCHANGED <<mail, accepted, attempts, delivered, mishaps>>

\* What is delivered is settled first, where the marker can be written.
Release(i) ==
  /\ Kept(i) /\ HashOf[i] \in delivered /\ (Settled(i) \/ "open" \in Faults)
  /\ Leave(i) /\ UNCHANGED <<accepted, attempts, delivered, settled, mishaps>>

\* A mail is given up on after MAX_RETRY_COUNT tries and not before.
GiveUp(i) ==
  /\ Kept(i) /\ mail[i] >= MaxRetry
  /\ Leave(i) /\ UNCHANGED <<accepted, attempts, delivered, settled, mishaps>>

\* An operation of the card that fails costs at most the mail whose file it is.
Spoil(i) ==
  /\ CardFails /\ mail[i] # Gone
  /\ Leave(i) /\ UNCHANGED <<accepted, attempts, delivered, settled, mishaps>>

\* A restart costs at most one mail, and the call it interrupts its name.
Mishap ==
  /\ mishaps' = mishaps + 1
  /\ \E S \in SUBSET Id :
       /\ \A i, j \in S : Kept(i) /\ Kept(j) => i = j
       /\ mail' = [i \in Id |-> IF i \in S THEN Gone ELSE mail[i]]
  /\ UNCHANGED <<accepted, attempts, delivered, settled>>

Next ==
  \/ Mishap
  \/ \E i \in Id : Take(i) \/ Accept(i) \/ Try(i) \/ Open(i) \/ Deliver(i) \/ Settle(i)
                     \/ Release(i) \/ GiveUp(i) \/ Spoil(i)

Spec == Init /\ [][Next]_vars

==============================================================================
