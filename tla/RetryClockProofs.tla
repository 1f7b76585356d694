-------------------------- MODULE RetryClockProofs --------------------------
(***************************************************************************)
(* Proofs about RetryClock for every clock, limit and number of restarts.  *)
(* retryDelayMs is recursive: that the function exists, and what it is,    *)
(* follows by induction on the number of retries, which is carried out on  *)
(* sets of numbers (AllNaturals).                                          *)
(***************************************************************************)
EXTENDS RetryClock, WellFoundedInduction, FiniteSetTheorems, TLAPS

\* The end of the back-off, counted on from where millis() stands.
End == IF wrapped THEN next + Mod ELSE next

\* No retried mail has less to wait for than its back-off has left.
Remaining ==
  phase = "queued" /\ retry > 0 =>
    since >= retryDelayMs[retry] \/ End - now >= retryDelayMs[retry] - since

\* With an undisturbed clock it has exactly that, until since stops counting.
Exact ==
  phase = "queued" /\ retry > 0 /\ ~restarted /\ ~overslept =>
    IF since < Horizon THEN End - now = retryDelayMs[retry] - since
                       ELSE now >= next /\ ~wrapped

\* since counts what millis() shows since the claim.
ClaimAge ==
  phase \in {"session", "claimed"} => since = Horizon \/ (now - last) % Mod <= since

Inv == TypeOK /\ Remaining /\ Exact /\ ClaimAge

\* The two parts of TypeOK, for the two provers that take them.
Flags   == wrapped \in BOOLEAN /\ overslept \in BOOLEAN /\ restarted \in BOOLEAN
Numbers ==
  /\ now \in Time /\ phase \in {"queued", "session", "claimed", "left"}
  /\ retry \in 0 .. RetryMod - 1 /\ next \in Time /\ last \in Time
  /\ since \in 0 .. Horizon /\ restarts \in 0 .. MaxRestart

\* What the proofs know of retryDelayMs.
Delays == \A r \in 0 .. RetryMod - 1 :
            retryDelayMs[r] \in Nat /\ 1 <= retryDelayMs[r] /\ retryDelayMs[r] <= Max

------------------------------------------------------------------------------
(* Arithmetic *)

LEMMA ModRange == ASSUME NEW m \in Nat \ {0}, NEW x \in Int PROVE x % m \in 0 .. m - 1
  BY SMT

LEMMA ModSmall == ASSUME NEW m \in Nat \ {0}, NEW x \in 0 .. m - 1 PROVE x % m = x
  BY SMT

LEMMA ModOnce == ASSUME NEW m \in Nat \ {0}, NEW x \in m .. 2 * m - 1 PROVE x % m = x - m
  BY SMT

LEMMA ModUnder == ASSUME NEW m \in Nat \ {0}, NEW x \in Int, -m <= x, x < 0
                  PROVE  x % m = x + m
  BY SMT

\* A set of numbers has a least one (NatLessThanWellFounded says it of relations).
LEMMA LeastNatural == ASSUME NEW T, T \subseteq Nat, T # {}
                      PROVE  \E x \in T : \A y \in T : x <= y
<1> DEFINE R == OpToRel(<, Nat)
<1>1. IsWellFoundedOn(R, Nat)
  BY NatLessThanWellFounded
<1>2. \A a, b \in Nat : a < b => <<a, b>> \in R
  BY DEF OpToRel
<1> HIDE DEF R
<1>3. PICK x \in T : \A y \in T : ~ (<<y, x>> \in R)
  BY <1>1, WFMin
<1>4. \A y \in T : x <= y
  <2> TAKE y \in T
  <2>1. x \in Nat /\ y \in Nat
    OBVIOUS
  <2>2. ~(y < x)
    BY <1>2, <1>3, <2>1, Zenon
  <2> QED BY <2>1, <2>2
<1> QED BY <1>4

\* Induction, for the numbers that have what is to be proved.
LEMMA AllNaturals == ASSUME NEW S, 0 \in S, \A n \in Nat : n \in S => n + 1 \in S
                     PROVE  Nat \subseteq S
<1> SUFFICES ASSUME Nat \ S # {} PROVE FALSE
  OBVIOUS
<1>1. PICK x \in Nat \ S : \A y \in Nat \ S : x <= y
  BY LeastNatural, Nat \ S \subseteq Nat, Zenon
<1>2. x # 0 /\ x - 1 \in Nat /\ x - 1 < x /\ x - 1 + 1 = x
  BY <1>1
<1>3. x - 1 \in S
  BY <1>1, <1>2
<1> QED BY <1>1, <1>2, <1>3

\* No prover has rules for ^: 2^n is the number of subsets of 1 .. n.
LEMMA TwoPower == \A n \in Nat : 2 ^ n \in Nat \ {0} /\ 2 ^ (n + 1) = 2 * 2 ^ n
<1> SUFFICES ASSUME NEW n \in Nat PROVE 2 ^ n \in Nat \ {0} /\ 2 ^ (n + 1) = 2 * 2 ^ n
  OBVIOUS
<1> DEFINE A    == SUBSET (1 .. n)
           With(X) == X \cup {n + 1}
           f    == [X \in A |-> With(X)]
           B    == {f[X] : X \in A}
<1>1. IsFiniteSet(A) /\ Cardinality(A) = 2 ^ n
  <2>1. IsFiniteSet(1 .. n) /\ Cardinality(1 .. n) = n
    BY FS_Interval
  <2> QED BY <2>1, FS_SUBSET
<1>2. IsFiniteSet(SUBSET (1 .. n + 1)) /\ Cardinality(SUBSET (1 .. n + 1)) = 2 ^ (n + 1)
  <2>1. IsFiniteSet(1 .. n + 1) /\ Cardinality(1 .. n + 1) = n + 1
    BY FS_Interval
  <2> QED BY <2>1, FS_SUBSET
<1>3. \A X \in A : X \subseteq 1 .. n /\ n + 1 \notin X
  OBVIOUS
<1>4. f \in Bijection(A, B)
  <2>1. ASSUME NEW X \in A, NEW Y \in A, f[X] = f[Y] PROVE X = Y
    <3>1. X \cup {n + 1} = Y \cup {n + 1}
      BY <2>1
    <3>2. \A z : z \in X <=> z \in Y
      BY <1>3, <3>1, Zenon
    <3> QED BY <3>2, Zenon
  <2>2. f \in [A -> B]
    OBVIOUS
  <2>3. \A Z \in B : \E X \in A : f[X] = Z
    OBVIOUS
  <2>4. IsInjective(f)
    <3> HIDE DEF A
    <3> QED BY <2>1, Zenon DEF IsInjective
  <2> QED BY <2>2, <2>3, <2>4, Zenon DEF Bijection, Injection, Surjection
<1>5. IsFiniteSet(B) /\ Cardinality(B) = 2 ^ n
  BY <1>1, <1>4, FS_Bijection DEF ExistsBijection
<1>6. SUBSET (1 .. n + 1) = A \cup B
  <2>1. ASSUME NEW Z \in SUBSET (1 .. n + 1) PROVE Z \in A \cup B
    <3>1. CASE n + 1 \in Z
      <4>1. Z \ {n + 1} \in A
        BY SMT
      <4>2. (Z \ {n + 1}) \cup {n + 1} = Z
        BY <3>1
      <4>3. f[Z \ {n + 1}] = Z
        BY <4>1, <4>2, Zenon
      <4> QED BY <4>1, <4>3, Zenon
    <3>2. CASE n + 1 \notin Z
      <4>1. \A z \in Z : z \in 1 .. n
        BY <3>2
      <4> QED BY <4>1, Zenon
    <3> QED BY <3>1, <3>2
  <2>2. ASSUME NEW Z \in B PROVE Z \in SUBSET (1 .. n + 1)
    <3>1. PICK X \in A : Z = With(X)
      BY <2>2
    <3> QED BY <3>1
  <2>3. A \subseteq SUBSET (1 .. n + 1)
    OBVIOUS
  <2> QED BY <2>1, <2>2, <2>3
<1>7. A \cap B = {}
  <2> SUFFICES ASSUME NEW Z \in A, Z \in B PROVE FALSE
    OBVIOUS
  <2>1. PICK X \in A : Z = With(X)
    OBVIOUS
  <2> QED BY <1>3, <2>1
<1>8. Cardinality(A \cup B) = 2 ^ n + 2 ^ n
  <2> HIDE DEF A, B
  <2>1. Cardinality(A \cap B) = 0
    BY <1>7, FS_EmptySet
  <2>2. 2 ^ n \in Nat
    BY <1>1, FS_CardinalityType
  <2>3. Cardinality(A \cup B) = 2 ^ n + 2 ^ n - 0
    BY <1>1, <1>5, <2>1, FS_Union
  <2> QED BY <2>2, <2>3
<1>9. 2 ^ n \in Nat \ {0}
  <2>1. 2 ^ n \in Nat
    BY <1>1, FS_CardinalityType
  <2>2. A # {}
    <3>1. {} \in A
      OBVIOUS
    <3> QED BY <3>1
  <2>3. Cardinality(A) # 0
    BY <1>1, <2>2, FS_EmptySet
  <2> QED BY <1>1, <2>1, <2>3
<1>10. 2 ^ (n + 1) = 2 ^ n + 2 ^ n
  BY <1>2, <1>6, <1>8, Zenon
<1>11. \A p \in Nat : p + p = 2 * p
  OBVIOUS
<1>12. 2 ^ n \in Nat
  BY <1>9, Zenon
<1> QED BY <1>9, <1>10, <1>11, <1>12, Zenon

------------------------------------------------------------------------------
(* The back-off *)

\* f is what retryDelayMs computes, for retries up to n.
DelayUpTo(n, f) == f = [r \in 0 .. n |-> IF r <= 1 THEN Base ELSE Doubled(f[r - 1])]

\* Such a function exists: the one for n + 1 continues the one for n.
LEMMA DelayLoop == \A n \in Nat : \E f : DelayUpTo(n, f)
<1> DEFINE S == {n \in Nat : \E f : DelayUpTo(n, f)}
<1>1. 0 \in S
  <2> DEFINE f == [r \in 0 .. 0 |-> Base]
  <2>1. f = [r \in 0 .. 0 |-> IF r <= 1 THEN Base ELSE Doubled(f[r - 1])]
    BY SMT
  <2> QED BY <2>1 DEF DelayUpTo
<1>2. ASSUME NEW n \in Nat, n \in S PROVE n + 1 \in S
  <2>1. PICK f : DelayUpTo(n, f)
    BY <1>2
  <2> DEFINE D == 0 .. n + 1
             g == [r \in D |-> IF r \in 0 .. n THEN f[r] ELSE IF r <= 1 THEN Base ELSE Doubled(f[n])]
             h == [r \in D |-> IF r <= 1 THEN Base ELSE Doubled(g[r - 1])]
  <2>2. ASSUME NEW r \in D PROVE g[r] = h[r]
    <3>1. CASE r \in 0 .. n
      <4>1. g[r] = IF r <= 1 THEN Base ELSE Doubled(f[r - 1])
        BY <2>1, <3>1 DEF DelayUpTo
      <4>2. r > 1 => r - 1 \in 0 .. n /\ r - 1 \in D
        BY <3>1
      <4> QED BY <4>1, <4>2
    <3>2. CASE r = n + 1
      <4>1. ~(r \in 0 .. n) /\ r - 1 = n /\ n \in 0 .. n /\ n \in D
        BY <3>2
      <4> QED BY <4>1
    <3> QED BY <3>1, <3>2
  <2>3. g = h
    BY <2>2
  <2> HIDE DEF g
  <2>4. DelayUpTo(n + 1, g)
    BY <2>3 DEF DelayUpTo
  <2> QED BY <2>4
<1> HIDE DEF S
<1>3. Nat \subseteq S
  BY <1>1, <1>2, AllNaturals
<1> QED BY <1>3 DEF S

\* So retryDelayMs, chosen among the functions that solve its equation, solves it.
LEMMA DelayRound == \A r \in 0 .. RetryMod - 1 :
  retryDelayMs[r] = IF r <= 1 THEN Base ELSE Doubled(retryDelayMs[r - 1])
<1>1. PICK f : DelayUpTo(RetryMod - 1, f)
  BY DelayLoop, ClockAssumption
<1>2. DelayUpTo(RetryMod - 1, retryDelayMs)
  BY <1>1, Zenon DEF DelayUpTo, retryDelayMs
<1> QED BY <1>2 DEF DelayUpTo

\* No back-off leaves its limits, whatever uint8_t the file holds.
LEMMA DelaysInRange == \A r \in 0 .. RetryMod - 1 : retryDelayMs[r] \in Base .. Max
<1> DEFINE S == {n \in Nat : n <= RetryMod - 1 => retryDelayMs[n] \in Base .. Max}
<1>1. 0 \in S
  BY DelayRound, ClockAssumption
<1>2. ASSUME NEW n \in Nat, n \in S PROVE n + 1 \in S
  <2> SUFFICES ASSUME n + 1 <= RetryMod - 1 PROVE retryDelayMs[n + 1] \in Base .. Max
    OBVIOUS
  <2>1. n + 1 \in 0 .. RetryMod - 1 /\ n <= RetryMod - 1 /\ n + 1 - 1 = n
    BY ClockAssumption
  <2>2. retryDelayMs[n + 1] = IF n + 1 <= 1 THEN Base ELSE Doubled(retryDelayMs[n])
    BY <2>1, DelayRound
  <2>3. retryDelayMs[n] \in Base .. Max
    BY <1>2, <2>1
  <2> QED BY <2>2, <2>3, ClockAssumption DEF Doubled
<1> HIDE DEF S
<1>3. Nat \subseteq S
  BY <1>1, <1>2, AllNaturals
<1> QED BY <1>3, ClockAssumption DEF S

LEMMA DelaysPositive == Delays
BY DelaysInRange, ClockAssumption DEF Delays

\* QUEUE_MAX_BACKOFF_MS is even; halved and doubled it is itself.
MaxEven == Max % 2 = 0

DelayDoubles == \A r \in 0 .. RetryMod - 1 : DelayAsStated(r)

\* Every back-off is the one its property states, by induction on the retries.
LEMMA DelaysAsStated == ASSUME MaxEven PROVE DelayDoubles
<1> DEFINE P(d, p) == d = IF Base * p < Max THEN Base * p ELSE Max
           S == {n \in Nat : n + 1 <= RetryMod - 1 => P(retryDelayMs[n + 1], 2 ^ n)}
<1>1. 0 \in S
  <2> SUFFICES ASSUME 1 <= RetryMod - 1 PROVE P(retryDelayMs[1], 2 ^ 0)
    OBVIOUS
  <2>1. retryDelayMs[1] = Base
    BY DelayRound, ClockAssumption
  <2>2. 2 ^ 0 = 1
    OBVIOUS
  <2>3. P(Base, 1)
    BY ClockAssumption
  <2> QED BY <2>1, <2>2, <2>3, Zenon
<1>2. ASSUME NEW n \in Nat, n \in S PROVE n + 1 \in S
  <2> SUFFICES ASSUME n + 2 <= RetryMod - 1 PROVE P(retryDelayMs[n + 2], 2 ^ (n + 1))
    <3>1. n + 1 + 1 = n + 2
      OBVIOUS
    <3> QED BY <3>1
  <2>1. n + 2 \in 0 .. RetryMod - 1 /\ n + 1 \in 0 .. RetryMod - 1 /\ n + 2 - 1 = n + 1 /\ n + 2 > 1
    BY ClockAssumption
  <2>2. retryDelayMs[n + 2] = Doubled(retryDelayMs[n + 1])
    BY <2>1, DelayRound
  <2>3. P(retryDelayMs[n + 1], 2 ^ n)
    BY <1>2, <2>1
  <2>4. \A p \in Nat \ {0} : \A d : P(d, p) => P(Doubled(d), 2 * p)
    <3> SUFFICES ASSUME NEW p \in Nat \ {0}, NEW d, P(d, p) PROVE P(Doubled(d), 2 * p)
      OBVIOUS
    <3> DEFINE q == Base * p
    <3>1. q \in Nat /\ Base * (2 * p) = 2 * q
      BY ClockAssumption
    <3> HIDE DEF q
    <3>2. d = IF q < Max THEN q ELSE Max
      BY DEF q
    <3>3. PICK m \in Nat : Max = 2 * m
      BY ClockAssumption DEF MaxEven
    <3>4. Max \div 2 = m
      BY <3>3
    <3>5. Doubled(d) = IF 2 * q < Max THEN 2 * q ELSE Max
      BY <3>1, <3>2, <3>3, <3>4 DEF Doubled
    <3> QED BY <3>1, <3>5
  <2> HIDE DEF P
  <2>5. P(Doubled(retryDelayMs[n + 1]), 2 * 2 ^ n)
    BY <2>3, <2>4, TwoPower, Zenon
  <2> QED BY <2>2, <2>5, TwoPower, Zenon
<1> HIDE DEF S
<1>3. Nat \subseteq S
  BY <1>1, <1>2, AllNaturals
<1>4. ASSUME NEW r \in 0 .. RetryMod - 1, r > 0 PROVE P(retryDelayMs[r], 2 ^ (r - 1))
  <2>1. r - 1 \in Nat /\ r - 1 + 1 = r /\ r <= RetryMod - 1
    BY <1>4, ClockAssumption
  <2>2. r - 1 \in S
    BY <1>3, <2>1
  <2> QED BY <2>1, <2>2, Zenon DEF S
<1> QED BY <1>4, DelaysInRange, Zenon DEF DelayDoubles, DelayAsStated

------------------------------------------------------------------------------
(* The clock *)

\* What is read back is a time, and never a later one.
LEMMA StoredEarlier == ASSUME NEW t \in Time PROVE Stored(t) \in Time /\ Stored(t) <= t
  BY ClockAssumption DEF Stored, Time

LEMMA RetryNext == ASSUME NEW r \in 0 .. RetryMod - 1 PROVE (r + 1) % RetryMod \in 0 .. RetryMod - 1
<1>1. RetryMod \in Nat \ {0} /\ r + 1 \in Int
  BY ClockAssumption
<1> QED BY <1>1, ModRange

\* One tick of millis().
LEMMA Ticked ==
  ASSUME TypeOK, Tick
  PROVE  IF now = Mod - 1 THEN now' = 0 ELSE now' = now + 1
<1> now \in 0 .. Mod - 1 /\ Mod \in Nat \ {0} /\ now' = (now + 1) % Mod
  BY ClockAssumption DEF TypeOK, Time, Tick
<1>1. CASE now = Mod - 1
  BY <1>1, ModOnce
<1>2. CASE now # Mod - 1
  BY <1>2, ModSmall
<1> QED BY <1>1, <1>2

\* The end of a back-off computed now.
LEMMA AfterEnd ==
  ASSUME Delays, TypeOK, NEW r \in 0 .. RetryMod - 1
  PROVE  /\ After(r) \in Time
         /\ IF After(r) < now THEN After(r) + Mod - now = retryDelayMs[r]
                              ELSE After(r) - now = retryDelayMs[r]
<1> DEFINE d == retryDelayMs[r]
           x == now + d
<1>1. d \in Nat /\ 1 <= d /\ d < Mod /\ now \in 0 .. Mod - 1 /\ Mod \in Nat \ {0}
  BY ClockAssumption DEF Delays, TypeOK, Time
<1>2. After(r) = x % Mod /\ x = now + d
  BY DEF After
<1> SUFFICES /\ After(r) \in 0 .. Mod - 1
             /\ IF After(r) < now THEN After(r) + Mod - now = d ELSE After(r) - now = d
  BY DEF Time
<1> HIDE DEF d, x
<1>3. CASE x < Mod
  <2>1. x \in 0 .. Mod - 1
    BY <1>1, <1>2, <1>3
  <2>2. After(r) = x
    BY <1>1, <1>2, <2>1, ModSmall
  <2> QED BY <1>1, <1>2, <2>1, <2>2
<1>4. CASE x >= Mod
  <2>1. x \in Mod .. 2 * Mod - 1
    BY <1>1, <1>2, <1>4
  <2>2. After(r) = x - Mod
    BY <1>1, <1>2, <2>1, ModOnce
  <2> QED BY <1>1, <1>2, <2>1, <2>2
<1>5. x < Mod \/ x >= Mod
  BY <1>1, <1>2
<1> QED BY <1>3, <1>4, <1>5

------------------------------------------------------------------------------
(* The invariant *)

LEMMA InitInv == Init => Inv
<1> SUFFICES ASSUME Init PROVE Inv
  OBVIOUS
<1> USE ClockAssumption DEF Init
<1>1. TypeOK
  <2>1. Flags
    BY Zenon DEF Flags
  <2>2. Numbers
    BY DEF Numbers, Time
  <2> QED BY <2>1, <2>2 DEF TypeOK, Flags, Numbers
<1>2. Remaining /\ Exact /\ ClaimAge
  BY DEF Remaining, Exact, ClaimAge
<1> QED BY <1>1, <1>2 DEF Inv

\* A mail that is scheduled waits for its whole back-off.
LEMMA ScheduledInv ==
  ASSUME Delays, TypeOK, Schedule, last' \in Time, UNCHANGED <<now, restarts>>
  PROVE  Inv'
<1>1. retry' \in 0 .. RetryMod - 1
  BY RetryNext DEF Schedule, TypeOK
<1>2. next' = After(retry')
  BY DEF Schedule
<1>3. next' \in Time /\ IF next' < now THEN next' + Mod - now = retryDelayMs[retry']
                                       ELSE next' - now = retryDelayMs[retry']
  BY <1>1, <1>2, AfterEnd
<1>4. phase' = "queued" /\ since' = 0 /\ wrapped' = (next' < now)
        /\ overslept' = FALSE /\ restarted' = FALSE
  BY DEF Schedule
<1>5. TypeOK'
  <2>1. Flags'
    <3>1. (next' < now) \in BOOLEAN
      BY SMT
    <3> QED BY <1>4, <3>1, Zenon DEF Flags
  <2>2. Numbers'
    BY <1>1, <1>3, <1>4, ClockAssumption DEF TypeOK, Time, Numbers
  <2> QED BY <2>1, <2>2 DEF TypeOK, Flags, Numbers
<1>6. End' - now' = retryDelayMs[retry']
  <2>1. CASE next' < now
    <3>1. End' = next' + Mod
      BY <1>4, <2>1, Zenon DEF End
    <3>2. next' + Mod - now = retryDelayMs[retry'] /\ now' = now
      BY <1>3, <2>1
    <3>3. next' \in Int /\ now \in Int /\ Mod \in Int /\ retryDelayMs[retry'] \in Int
      BY <1>1, <1>3, ClockAssumption DEF TypeOK, Time, Delays
    <3> QED BY <3>1, <3>2, <3>3
  <2>2. CASE ~(next' < now)
    <3>1. End' = next'
      BY <1>4, <2>2, Zenon DEF End
    <3> QED BY <1>3, <2>2, <3>1
  <2> QED BY <2>1, <2>2
<1>7. retryDelayMs[retry'] \in Nat
  BY <1>1 DEF Delays
<1> QED BY <1>4, <1>5, <1>6, <1>7, ClockAssumption DEF Inv, Remaining, Exact, ClaimAge

LEMMA TickInv == ASSUME Delays, Inv, Tick PROVE Inv'
<1> USE ClockAssumption
<1>1. TypeOK /\ now \in 0 .. Mod - 1 /\ Mod \in Nat \ {0} /\ since \in 0 .. Horizon
        /\ next \in 0 .. Mod - 1 /\ last \in 0 .. Mod - 1
  BY DEF Inv, TypeOK, Time
<1>2. IF now = Mod - 1 THEN now' = 0 ELSE now' = now + 1
  BY <1>1, Ticked
<1>3. UNCHANGED <<phase, retry, next, last, restarted, restarts>>
  BY DEF Tick, file
<1>4. since' = IF since < Horizon THEN since + 1 ELSE since
  BY DEF Tick
<1>5. wrapped' = (wrapped /\ now' # 0)
  BY DEF Tick
<1>6. TypeOK'
  BY <1>1, <1>2, <1>3, <1>4, <1>5 DEF Tick, TypeOK, Time
<1>7. ASSUME phase = "queued", retry > 0
      PROVE  retryDelayMs[retry] \in Nat /\ retryDelayMs[retry] < Horizon
               /\ 1 <= retryDelayMs[retry] /\ retryDelayMs[retry] < Mod
  BY <1>1 DEF Delays, TypeOK
<1>8. Remaining'
  <2> SUFFICES ASSUME phase = "queued", retry > 0
               PROVE  since' >= retryDelayMs[retry] \/ End' - now' >= retryDelayMs[retry] - since'
    BY <1>3 DEF Remaining
  <2>1. since >= retryDelayMs[retry] \/ End - now >= retryDelayMs[retry] - since
    BY DEF Inv, Remaining
  <2>2. wrapped \in BOOLEAN /\ wrapped' \in BOOLEAN
    BY <1>1, <1>6 DEF TypeOK
  <2> QED BY <1>1, <1>2, <1>3, <1>4, <1>5, <1>7, <2>1, <2>2 DEF End
<1>9. Exact'
  <2> SUFFICES ASSUME phase = "queued", retry > 0, ~restarted, ~overslept'
               PROVE  IF since' < Horizon THEN End' - now' = retryDelayMs[retry] - since'
                                          ELSE now' >= next /\ ~wrapped'
    BY <1>3 DEF Exact
  <2>1. ~overslept /\ ~(now' = 0 /\ isDue /\ ~wrapped)
    BY DEF Tick
  <2>2. IF since < Horizon THEN End - now = retryDelayMs[retry] - since
                           ELSE now >= next /\ ~wrapped
    BY <2>1 DEF Inv, Exact
  <2>3. wrapped \in BOOLEAN
    BY <1>1 DEF TypeOK
  <2>delay. retryDelayMs[retry] \in Nat
    BY <1>7
  <2>4. now = Mod - 1 => isDue
    BY <1>1, StoredEarlier DEF isDue, Time
  <2>5. now = Mod - 1 => wrapped
    BY <1>2, <2>1, <2>4
  <2>6. CASE wrapped
    <3>1. End = next + Mod /\ since < Horizon
      BY <1>1, <2>2, <2>6 DEF End
    <3>2. next + Mod - now = retryDelayMs[retry] - since
      <4>1. End - now = retryDelayMs[retry] - since
        BY <2>2, <3>1
      <4> QED BY <1>1, <2>delay, <3>1, <4>1
    <3>3. since' = since + 1 /\ since' < Horizon
      BY <1>1, <1>4, <1>7, <3>1, <3>2
    <3>4. CASE now = Mod - 1
      <4>1. now' = 0 /\ End' = next
        BY <1>2, <1>3, <1>5, <3>4 DEF End
      <4>2. next - 0 = retryDelayMs[retry] - (since + 1)
        BY <1>1, <2>delay, <3>2, <3>4
      <4> QED BY <3>3, <4>1, <4>2
    <3>5. CASE now # Mod - 1
      <4>1. now' = now + 1 /\ now' # 0
        BY <1>1, <1>2, <3>5
      <4>2. End' = next + Mod
        BY <1>3, <1>5, <2>6, <4>1 DEF End
      <4> QED BY <1>1, <1>7, <3>2, <3>3, <4>1, <4>2
    <3> QED BY <3>4, <3>5
  <2>7. CASE ~wrapped
    <3>1. End = next /\ End' = next /\ ~wrapped' /\ now' = now + 1
      BY <1>2, <1>3, <1>5, <2>5, <2>7 DEF End
    <3>2. IF since < Horizon THEN next - now = retryDelayMs[retry] - since ELSE now >= next
      BY <2>2, <3>1
    <3>3. IF since' < Horizon THEN next - now' = retryDelayMs[retry] - since' ELSE now' >= next
      BY <1>1, <1>4, <1>7, <3>1, <3>2
    <3> QED BY <3>1, <3>3
  <2> QED BY <2>6, <2>7
<1>10. ClaimAge'
  <2> SUFFICES ASSUME phase \in {"session", "claimed"}
               PROVE  since' = Horizon \/ (now' - last) % Mod <= since'
    BY <1>3 DEF ClaimAge
  <2>1. since = Horizon \/ (now - last) % Mod <= since
    BY DEF Inv, ClaimAge
  <2>2. (now' - last) % Mod <= ((now - last) % Mod) + 1
    <3>1. CASE now >= last /\ now # Mod - 1
      BY <1>1, <1>2, <3>1, ModSmall
    <3>2. CASE now < last
      <4>1. (now - last) % Mod = now - last + Mod
        BY <1>1, <3>2, ModUnder
      <4>2. CASE now + 1 < last
        BY <1>1, <1>2, <3>2, <4>1, <4>2, ModUnder
      <4>3. CASE now + 1 = last
        BY <1>1, <1>2, <3>2, <4>1, <4>3, ModSmall
      <4> QED BY <1>1, <3>2, <4>2, <4>3
    <3>3. CASE now = Mod - 1 /\ now >= last
      <4>1. (now - last) % Mod = Mod - 1 - last
        BY <1>1, <3>3, ModSmall
      <4>2. CASE last = 0
        BY <1>1, <1>2, <3>3, <4>1, <4>2, ModSmall
      <4>3. CASE last # 0
        BY <1>1, <1>2, <3>3, <4>1, <4>3, ModUnder
      <4> QED BY <4>2, <4>3
    <3> QED BY <1>1, <3>1, <3>2, <3>3
  <2>3. (now - last) % Mod \in Nat /\ (now' - last) % Mod \in Nat
    <3>1. now - last \in Int /\ now' - last \in Int
      BY <1>1, <1>2
    <3>2. (now - last) % Mod \in 0 .. Mod - 1 /\ (now' - last) % Mod \in 0 .. Mod - 1
      BY <1>1, <3>1, ModRange
    <3> QED BY <3>2
  <2> QED BY <1>1, <1>4, <2>1, <2>2, <2>3
<1> QED BY <1>6, <1>8, <1>9, <1>10 DEF Inv

LEMMA NextInv == ASSUME Delays, Inv, [Next]_vars PROVE Inv'
<1> USE ClockAssumption
<1>1. TypeOK
  BY DEF Inv
<1>2. CASE Tick
  BY <1>2, TickInv
<1>3. CASE claimForSend
  <2>1. TypeOK'
    BY <1>1, <1>3, StoredEarlier DEF claimForSend, TypeOK
  <2>2. now' - last' = 0 /\ since' = 0 /\ phase' = "session" /\ Mod \in Nat \ {0}
    BY <1>1, <1>3 DEF claimForSend, TypeOK, Time
  <2>3. (now' - last') % Mod = 0
    BY <2>2, ModSmall
  <2> QED BY <2>1, <2>2, <2>3 DEF Inv, Remaining, Exact, ClaimAge
<1>4. CASE Leave \/ Unwritten
  BY <1>1, <1>4 DEF Leave, Unwritten, Inv, TypeOK, Remaining, Exact, ClaimAge, history
<1>5. CASE scheduleRetry
  BY <1>1, <1>5, ScheduledInv DEF scheduleRetry, TypeOK
<1>6. CASE ReleaseStale
  BY <1>1, <1>6, ScheduledInv, StoredEarlier DEF ReleaseStale, TypeOK
<1>7. CASE Restart
  <2>1. CASE phase = "queued"
    <3>1. TypeOK'
      BY <1>1, <1>7, <2>1 DEF Restart, TypeOK, Time, file
    <3>2. now' = 0 /\ restarted' /\ UNCHANGED <<phase, retry, next, since, wrapped>>
      BY <1>7, <2>1 DEF Restart, file
    <3>3. now \in Nat /\ next \in Nat /\ wrapped \in BOOLEAN /\ Mod \in Nat
            /\ since \in Nat /\ retryDelayMs[retry] \in Nat
      BY <1>1 DEF TypeOK, Time, Delays
    <3>4. Remaining'
      BY <3>2, <3>3 DEF Inv, Remaining, End
    <3> QED BY <2>1, <3>1, <3>2, <3>4 DEF Inv, Exact, ClaimAge
  <2>2. CASE phase # "queued"
    <3>1. retry' \in 0 .. RetryMod - 1 /\ next' = retryDelayMs[retry']
      BY <1>1, <1>7, <2>2, RetryNext DEF Restart, TypeOK
    <3>2. next' \in Time /\ retryDelayMs[retry'] \in Nat
      BY <3>1 DEF Delays, Time
    <3>3. now' = 0 /\ phase' = "queued" /\ since' = 0 /\ ~wrapped' /\ last' = Stored(last)
      BY <1>7, <2>2 DEF Restart
    <3>4. TypeOK'
      <4>1. Flags'
        BY <1>7, <2>2, Zenon DEF Restart, Flags
      <4>2. 0 \in Time /\ last' \in Time
        BY <1>1, <3>3, StoredEarlier DEF TypeOK, Time
      <4>3. Numbers'
        BY <1>1, <1>7, <3>1, <3>2, <3>3, <4>2 DEF Restart, TypeOK, Numbers
      <4> QED BY <4>1, <4>3 DEF TypeOK, Flags, Numbers
    <3> QED BY <3>1, <3>2, <3>3, <3>4 DEF Inv, Remaining, Exact, ClaimAge, End
  <2> QED BY <2>1, <2>2
<1>8. CASE UNCHANGED vars
  BY <1>8 DEF Inv, TypeOK, Remaining, Exact, ClaimAge, End, vars, file, history
<1> QED BY <1>2, <1>3, <1>4, <1>5, <1>6, <1>7, <1>8 DEF Next

LEMMA InvAlways == Spec => []Inv
<1>1. Inv /\ [Next]_vars => Inv'
  BY NextInv, DelaysPositive
<1> QED BY InitInv, <1>1, PTL DEF Spec

------------------------------------------------------------------------------
(* The theorems *)

\* The type invariant, for every clock and limit.
THEOREM TypeCorrect == Spec => []TypeOK
<1>1. Inv => TypeOK
  BY DEF Inv
<1> QED BY <1>1, InvAlways, PTL

\* With the even maximum of config.h the back-off of a mail is the base, doubled for every
\* retry after the first and cut off at the maximum, whatever count its file holds.
THEOREM BackoffAsStated == ASSUME MaxEven PROVE Spec => []BackoffDoubles
<1>1. DelayDoubles
  BY DelaysAsStated
<1>2. Inv => BackoffDoubles
  BY <1>1 DEF Inv, TypeOK, DelayDoubles, BackoffDoubles
<1> QED BY <1>2, InvAlways, PTL

\* Without a restart and with somebody looking a back-off never lasts too
\* long: isDue holds once it has passed, also across the wrap of millis().
THEOREM DueInTime == Spec => []DueOnTime
<1>1. Delays
  BY DelaysPositive
<1>2. ASSUME Inv PROVE DueOnTime
  <2> SUFFICES ASSUME phase = "queued", retry > 0, since >= retryDelayMs[retry],
                      ~restarted, ~overslept
               PROVE  isDue
    BY DEF DueOnTime
  <2>1. now \in 0 .. Mod - 1 /\ next \in Time /\ since \in Nat /\ wrapped \in BOOLEAN
          /\ Mod \in Nat
    BY <1>2, ClockAssumption DEF Inv, TypeOK, Time
  <2>2. retryDelayMs[retry] \in Nat
    BY <1>1, <1>2 DEF Delays, Inv, TypeOK
  <2>3. now >= next
    BY <1>2, <2>1, <2>2 DEF Inv, Exact, End, Time
  <2> QED BY <2>1, <2>3, StoredEarlier DEF isDue, Time
<1> QED BY <1>1, <1>2, InvAlways, PTL

\* No back-off is cut short: neither by restarts nor by a wrap after it was
\* computed, as long as its end is a number the code reads back.
THEOREM BackoffNotCut == Spec => BackoffKept
<1>1. Delays
  BY DelaysPositive
<1>2. ASSUME Inv, [Next]_vars
      PROVE  [phase = "queued" /\ phase' = "session" =>
                \/ retry = 0 \/ since >= retryDelayMs[retry]
                \/ wrapped \/ next >= Mod \div 2]_vars
  <2> SUFFICES ASSUME Next, phase = "queued", phase' = "session", retry # 0, ~wrapped,
                      ~(next >= Mod \div 2)
               PROVE  since >= retryDelayMs[retry]
    BY <1>2
  <2>1. isDue
    BY DEF Next, Tick, claimForSend, Leave, scheduleRetry, Unwritten, ReleaseStale,
           Restart, Schedule, file
  <2>2. now \in Nat /\ next \in Nat /\ since \in Nat /\ retry \in Nat
          /\ Mod \in Nat
    BY <1>2, ClockAssumption DEF Inv, TypeOK, Time
  <2>3. retryDelayMs[retry] \in Nat
    BY <1>1, <1>2 DEF Delays, Inv, TypeOK
  <2>4. Stored(next) = next
    BY <2>2 DEF Stored
  <2>5. now >= next
    BY <2>1, <2>4 DEF isDue
  <2>6. since >= retryDelayMs[retry] \/ next - now >= retryDelayMs[retry] - since
    BY <1>2, <2>2 DEF Inv, Remaining, End
  <2> QED BY <2>2, <2>3, <2>5, <2>6
<1> QED BY <1>1, <1>2, InvAlways, PTL DEF Spec, BackoffKept

\* A claim is released by the scan only after QUEUE_STALE_INFLIGHT_MS.
THEOREM ClaimKeptWhileFresh == Spec => StaleKept
<1>1. Delays
  BY DelaysPositive
<1>2. ASSUME Inv, [Next]_vars
      PROVE  [phase = "claimed" /\ phase' = "queued" /\ restarts' = restarts =>
                since > Stale \/ last >= Mod \div 2]_vars
  <2> SUFFICES ASSUME Next, phase = "claimed", phase' = "queued", restarts' = restarts,
                      ~(last >= Mod \div 2)
               PROVE  since > Stale
    BY <1>2
  <2>1. IsStale
    <3>1. restarts \in Nat
      BY <1>2, ClockAssumption DEF Inv, TypeOK
    <3> QED BY <3>1 DEF Next, Tick, claimForSend, Leave, scheduleRetry, Unwritten,
                ReleaseStale, Restart, file
  <2>2. now \in Int /\ last \in Nat /\ since \in Nat /\ Mod \in Nat \ {0}
    BY <1>2, ClockAssumption DEF Inv, TypeOK, Time
  <2>3. Stored(last) = last
    BY <2>2 DEF Stored
  <2>4. (now - last) % Mod > Stale
    BY <2>1, <2>3 DEF IsStale
  <2>5. since = Horizon \/ (now - last) % Mod <= since
    BY <1>2 DEF Inv, ClaimAge
  <2>6. (now - last) % Mod \in Int
    BY <2>2, ModRange
  <2> QED BY <2>2, <2>4, <2>5, <2>6, ClockAssumption
<1> QED BY <1>1, <1>2, InvAlways, PTL DEF Spec, StaleKept

==============================================================================
