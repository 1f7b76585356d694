------------------------- MODULE StorageLocksProofs -------------------------
(***************************************************************************)
(* Theorems about StorageLocks, for any tasks and any sections they enter. *)
(* The inductive invariant LockInv says that a mutex is held by one call   *)
(* and owned by its task, that an owned mutex is held by some call, and    *)
(* that a log inside a section of the bus never gets in.                   *)
(***************************************************************************)
EXTENDS StorageLocks, TLAPS

HolderOwns == \A c \in Call, m \in Mutex : Holds(c, m) => owner[m] = c[1]
OwnedHeld  == \A m \in Mutex : owner[m] # Free => \E c \in Call : Holds(c, m)
OneHolder  == \A c, d \in Call, m \in Mutex : Holds(c, m) /\ Holds(d, m) => c = d

LockInv == TypeOK /\ HolderOwns /\ OwnedHeld /\ OneHolder /\ LogInBusRefused

------------------------------------------------------------------------------
(* Calls *)

\* A call is a pair of its task and its place, and awaits no other mutexes
\* than the three.
LEMMA Calls ==
  ASSUME LockInv, NEW c \in Call
  PROVE  /\ c = <<c[1], c[2]>> /\ c[1] \in Task /\ c[2] \in {"section", "log"}
         /\ Outer(c) \in {"sd", "eth"} /\ Outer(c) \in Mutex /\ "spi" \in Mutex
         /\ c[1] # Free
<1>1. c = <<c[1], c[2]>> /\ c[1] \in Task /\ c[2] \in {"section", "log"}
  BY DEF Call
<1>2. job[c[1]] \in Job
  BY <1>1 DEF LockInv, TypeOK
<1>3. Outer(c) \in {"sd", "eth"}
  BY <1>2 DEF Outer, Job
<1> QED
  BY <1>1, <1>3, JobsAssumption DEF Mutex

\* What a call that moves on changes: its own stage and what it holds.
LEMMA Moves ==
  ASSUME LockInv, NEW c \in Call, NEW s \in Stage, Set(c, s), UNCHANGED job
  PROVE  /\ at' \in [Call -> Stage] /\ at'[c] = s
         /\ \A d \in Call : d # c => at'[d] = at[d]
         /\ \A d \in Call, m \in Mutex : d # c => (Holds(d, m)' <=> Holds(d, m))
         /\ \A m \in Mutex : Holds(c, m)' <=> \/ m = Outer(c) /\ s \in {"spi", "in", "half"}
                                              \/ m = "spi" /\ s = "in"
<1>1. /\ at' \in [Call -> Stage] /\ at'[c] = s
      /\ \A d \in Call : d # c => at'[d] = at[d]
  BY DEF LockInv, TypeOK, Set
<1>2. \A d \in Call : Outer(d)' = Outer(d)
  BY DEF Outer
<1> QED
  BY <1>1, <1>2 DEF Holds

\* A mutex taken by a call that moves on from a stage in which it held fewer.
LEMMA Taking ==
  ASSUME LockInv, NEW c \in Call, NEW s \in Stage, NEW m0 \in Mutex,
         Set(c, s), UNCHANGED job, Take(c, m0), ~Holds(c, m0),
         \A m \in Mutex : Holds(c, m)' <=> Holds(c, m) \/ m = m0
  PROVE  HolderOwns' /\ OwnedHeld' /\ OneHolder' /\ owner' \in [Mutex -> Task \cup {Free}]
<1>1. /\ \A d \in Call, m \in Mutex : d # c => (Holds(d, m)' <=> Holds(d, m))
  BY Moves
<1>2. /\ owner' \in [Mutex -> Task \cup {Free}] /\ owner[m0] = Free /\ owner'[m0] = c[1]
      /\ \A m \in Mutex : m # m0 => owner'[m] = owner[m]
  BY Calls DEF Take, LockInv, TypeOK
<1>3. \A d \in Call : ~Holds(d, m0)
  BY <1>2, Calls DEF LockInv, HolderOwns
<1>4. HolderOwns'
  BY <1>1, <1>2, <1>3 DEF LockInv, HolderOwns
<1>5. OwnedHeld'
  BY <1>1, <1>2, <1>3 DEF LockInv, OwnedHeld
<1>6. OneHolder'
  BY <1>1, <1>2, <1>3 DEF LockInv, OneHolder
<1> QED
  BY <1>2, <1>4, <1>5, <1>6

\* A mutex given by the call that holds it.
LEMMA Giving ==
  ASSUME LockInv, NEW c \in Call, NEW s \in Stage, NEW m0 \in Mutex,
         Set(c, s), UNCHANGED job, Give(m0), Holds(c, m0),
         \A m \in Mutex : Holds(c, m)' <=> Holds(c, m) /\ m # m0
  PROVE  HolderOwns' /\ OwnedHeld' /\ OneHolder' /\ owner' \in [Mutex -> Task \cup {Free}]
<1>1. /\ \A d \in Call, m \in Mutex : d # c => (Holds(d, m)' <=> Holds(d, m))
  BY Moves
<1>2. /\ owner' \in [Mutex -> Task \cup {Free}] /\ owner'[m0] = Free
      /\ \A m \in Mutex : m # m0 => owner'[m] = owner[m]
  BY DEF Give, LockInv, TypeOK
<1>3. \A d \in Call : d # c => ~Holds(d, m0)
  BY DEF LockInv, OneHolder
<1>4. HolderOwns'
  BY <1>1, <1>2, <1>3 DEF LockInv, HolderOwns
<1>5. OwnedHeld'
  BY <1>1, <1>2, <1>3 DEF LockInv, OwnedHeld
<1>6. OneHolder'
  BY <1>1, <1>2, <1>3 DEF LockInv, OneHolder
<1> QED
  BY <1>2, <1>4, <1>5, <1>6

\* A call that moves without a mutex, taking up or giving up nothing.
LEMMA Waiting ==
  ASSUME LockInv, NEW c \in Call, NEW s \in Stage, Set(c, s), UNCHANGED <<owner, job>>,
         at[c] \in {"out", "outer"}, s \in {"out", "outer"}
  PROVE  HolderOwns' /\ OwnedHeld' /\ OneHolder' /\ owner' \in [Mutex -> Task \cup {Free}]
<1>1. \A d \in Call, m \in Mutex : Holds(d, m)' <=> Holds(d, m)
  BY Moves DEF Holds
<1> QED
  BY <1>1 DEF LockInv, TypeOK, HolderOwns, OwnedHeld, OneHolder

------------------------------------------------------------------------------
(* Steps *)

\* The initial state satisfies the invariant.
LEMMA LockInit == Init => LockInv
<1> SUFFICES ASSUME Init PROVE LockInv
  OBVIOUS
<1> DEFINE j0 == [outer |-> "sd", forever |-> FALSE, logs |-> FALSE]
<1>1. j0 \in Job
  BY DEF Job
<1>2. \A t \in Task : job[t] = j0
  BY DEF Init
<1>3. at = [c \in Call |-> "out"] /\ owner = [m \in Mutex |-> Free]
  BY DEF Init
<1>4. job \in [Task -> Job]
  BY <1>1, <1>2 DEF Init
<1>5. \A t \in Task : Log(t) \in Call
  BY DEF Log, Call
<1>6. TypeOK
  BY <1>3, <1>4, <1>5 DEF TypeOK, Stage
<1>7. \A c \in Call, m \in Mutex : ~Holds(c, m)
  BY <1>3 DEF Holds
<1> QED
  BY <1>3, <1>5, <1>6, <1>7
  DEF LockInv, HolderOwns, OwnedHeld, OneHolder, LogInBusRefused


\* The rest of the invariant after a step of one call: the stages keep to
\* their order, if the call is no log that gets in and no section that leaves
\* while its log is pending.
LEMMA Staged ==
  ASSUME LockInv, NEW c \in Call, NEW s \in Stage, Set(c, s), UNCHANGED job,
         c[2] = "log" => s \notin {"in", "half"} /\ at[c] # "out",
         c[2] = "section" => s = "in" \/ at[Log(c[1])] = "out"
  PROVE  /\ job' \in [Task -> Job] /\ at' \in [Call -> Stage]
         /\ \A t \in Task : at'[Log(t)] # "out" => at'[<<t, "section">>] = "in"
         /\ LogInBusRefused'
<1>1. /\ at' \in [Call -> Stage] /\ at'[c] = s
      /\ \A d \in Call : d # c => at'[d] = at[d]
  BY Moves
<1>2. \A t \in Task : Log(t) \in Call /\ <<t, "section">> \in Call /\ Log(t) # <<t, "section">>
  BY DEF Log, Call
<1>3. c = <<c[1], c[2]>> /\ c[2] \in {"section", "log"} /\ c[1] \in Task
  BY Calls
<1>4. ASSUME NEW t \in Task, at'[Log(t)] # "out"
      PROVE  at'[<<t, "section">>] = "in"
  <2>1. CASE c = Log(t)
    BY <1>1, <1>2, <2>1 DEF LockInv, TypeOK, Log
  <2>2. CASE c = <<t, "section">>
    BY <1>1, <1>2, <1>4, <2>2
  <2>3. CASE c # Log(t) /\ c # <<t, "section">>
    BY <1>1, <1>2, <1>4, <2>3 DEF LockInv, TypeOK
  <2> QED
    BY <2>1, <2>2, <2>3
<1>5. ASSUME NEW t \in Task PROVE at'[Log(t)] \notin {"in", "half"}
  <2>1. CASE c = Log(t)
    BY <1>1, <2>1 DEF Log
  <2>2. CASE c # Log(t)
    BY <1>1, <1>2, <2>2 DEF LockInv, LogInBusRefused
  <2> QED
    BY <2>1, <2>2
<1> QED
  BY <1>1, <1>4, <1>5 DEF LockInv, TypeOK, LogInBusRefused, Log

\* A pending log has its task's section inside, so spiMutex is not free.
LEMMA LoggerInside ==
  ASSUME LockInv, NEW t \in Task, at[Log(t)] # "out"
  PROVE  at[<<t, "section">>] = "in" /\ owner["spi"] # Free
<1>1. at[<<t, "section">>] = "in"
  BY DEF LockInv, TypeOK
<1>2. <<t, "section">> \in Call /\ Holds(<<t, "section">>, "spi")
  BY <1>1 DEF Call, Holds
<1> QED
  BY <1>1, <1>2, Calls DEF LockInv, HolderOwns

\* Each action keeps the invariant.
LEMMA LockNext == LockInv /\ [Next]_vars => LockInv'
<1> SUFFICES ASSUME LockInv, [Next]_vars PROVE LockInv'
  OBVIOUS
<1>1. ASSUME NEW t \in Task, Enter(t) PROVE LockInv'
  <2> DEFINE c == <<t, "section">>
  <2>1. c \in Call /\ Log(t) \in Call /\ c # Log(t)
    BY DEF Call, Log
  <2>2. /\ at[c] = "out" /\ at' = [at EXCEPT ![c] = "outer"] /\ owner' = owner
        /\ at[Log(t)] = "out"
    BY <1>1 DEF Enter, Set, LockInv, TypeOK
  <2>3. PICK j \in Jobs[t] : job' = [job EXCEPT ![t] = j]
    BY <1>1 DEF Enter
  <2>4. j \in Job
    BY JobsAssumption
  <2>5. job' \in [Task -> Job] /\ at' \in [Call -> Stage]
    BY <2>1, <2>2, <2>3, <2>4 DEF LockInv, TypeOK, Stage
  <2>6. at'[c] = "outer" /\ \A d \in Call : d # c => at'[d] = at[d]
    BY <2>1, <2>2 DEF LockInv, TypeOK
  <2>7. ASSUME NEW d \in Call, d # c PROVE at[d] = "out" \/ Outer(d)' = Outer(d)
    <3>1. d = <<d[1], d[2]>> /\ d[1] \in Task /\ d[2] \in {"section", "log"}
      BY Calls
    <3>2. CASE d[1] = t
      BY <2>7, <3>1, <3>2 DEF Outer
    <3>3. CASE d[1] # t
      BY <2>3, <3>1, <3>3 DEF Outer, LockInv, TypeOK
    <3> QED
      BY <3>2, <3>3
  <2>8. \A d \in Call, m \in Mutex : Holds(d, m)' <=> Holds(d, m)
    BY <2>1, <2>2, <2>6, <2>7 DEF Holds
  <2>9. HolderOwns' /\ OwnedHeld' /\ OneHolder'
    BY <2>2, <2>8 DEF LockInv, HolderOwns, OwnedHeld, OneHolder
  <2>10. \A u \in Task : /\ at'[Log(u)] = at[Log(u)]
                         /\ at[<<u, "section">>] = "in" => at'[<<u, "section">>] = "in"
    BY <2>2, <2>6 DEF Log, Call
  <2> QED
    BY <2>2, <2>5, <2>9, <2>10 DEF LockInv, TypeOK, LogInBusRefused
<1>2. ASSUME NEW t \in Task, writeLog(t) PROVE LockInv'
  <2> DEFINE c == Log(t)
  <2>1. c \in Call /\ <<t, "section">> \in Call /\ c # <<t, "section">>
    BY DEF Call, Log
  <2>2. /\ at[<<t, "section">>] = "in" /\ at[c] = "out" /\ owner' = owner
        /\ at' = [at EXCEPT ![c] = "outer"] /\ job' = [job EXCEPT ![t].logs = FALSE]
    BY <1>2 DEF writeLog, Set
  <2>3. job' \in [Task -> Job] /\ \A u \in Task : job'[u].outer = job[u].outer
    BY <2>2 DEF LockInv, TypeOK, Job
  <2>4. /\ at' \in [Call -> Stage] /\ at'[c] = "outer"
        /\ \A d \in Call : d # c => at'[d] = at[d]
    BY <2>1, <2>2 DEF LockInv, TypeOK, Stage
  <2>5. \A d \in Call : Outer(d)' = Outer(d)
    BY <2>3, Calls DEF Outer
  <2>6. \A d \in Call, m \in Mutex : Holds(d, m)' <=> Holds(d, m)
    BY <2>2, <2>4, <2>5 DEF Holds
  <2>7. HolderOwns' /\ OwnedHeld' /\ OneHolder'
    BY <2>2, <2>6 DEF LockInv, HolderOwns, OwnedHeld, OneHolder
  <2>8. \A u \in Task : /\ u # t => at'[Log(u)] = at[Log(u)]
                        /\ at'[<<u, "section">>] = at[<<u, "section">>]
    BY <2>4 DEF Log, Call
  <2> QED
    BY <2>2, <2>3, <2>4, <2>7, <2>8 DEF LockInv, TypeOK, LogInBusRefused
<1>3. ASSUME NEW c \in Call, TakeOuter(c) PROVE LockInv'
  <2>1. at[c] = "outer" /\ Take(c, Outer(c)) /\ Set(c, "spi") /\ UNCHANGED job /\ "spi" \in Stage
    BY <1>3 DEF TakeOuter, Stage
  <2>2. ~Holds(c, Outer(c)) /\ \A m \in Mutex : Holds(c, m)' <=> Holds(c, m) \/ m = Outer(c)
    BY <2>1, Moves DEF Holds
  <2>3. HolderOwns' /\ OwnedHeld' /\ OneHolder' /\ owner' \in [Mutex -> Task \cup {Free}]
    BY <2>1, <2>2, Taking, Calls
  <2>4. c[2] = "section" => at[Log(c[1])] = "out"
    BY <2>1, Calls DEF LockInv, TypeOK
  <2> QED
    BY <2>1, <2>3, <2>4, Staged DEF LockInv, TypeOK
<1>4. ASSUME NEW c \in Call, OuterTimeout(c) PROVE LockInv'
  <2>1. at[c] = "outer" /\ Set(c, "out") /\ UNCHANGED <<owner, job>> /\ "out" \in Stage
    BY <1>4 DEF OuterTimeout, Stage
  <2>2. HolderOwns' /\ OwnedHeld' /\ OneHolder' /\ owner' \in [Mutex -> Task \cup {Free}]
    BY <2>1, Waiting
  <2>3. c[2] = "section" => at[Log(c[1])] = "out"
    BY <2>1, Calls DEF LockInv, TypeOK
  <2> QED
    BY <2>1, <2>2, <2>3, Staged DEF LockInv, TypeOK
<1>5. ASSUME NEW c \in Call, TakeSpi(c) PROVE LockInv'
  <2>1. at[c] = "spi" /\ Take(c, "spi") /\ Set(c, "in") /\ UNCHANGED job /\ "in" \in Stage
    BY <1>5 DEF TakeSpi, Stage
  <2>2. ~Holds(c, "spi") /\ \A m \in Mutex : Holds(c, m)' <=> Holds(c, m) \/ m = "spi"
    BY <2>1, Moves, Calls DEF Holds
  <2>3. HolderOwns' /\ OwnedHeld' /\ OneHolder' /\ owner' \in [Mutex -> Task \cup {Free}]
    BY <2>1, <2>2, Taking, Calls
  <2>4. c[2] # "log"
    BY <2>1, LoggerInside, Calls DEF Take, Log
  <2> QED
    BY <2>1, <2>3, <2>4, Staged DEF LockInv, TypeOK
<1>6. ASSUME NEW c \in Call, SpiTimeout(c) PROVE LockInv'
  <2>1. at[c] = "spi" /\ Give(Outer(c)) /\ Set(c, "out") /\ UNCHANGED job /\ "out" \in Stage
    BY <1>6 DEF SpiTimeout, Stage
  <2>2. Holds(c, Outer(c)) /\ \A m \in Mutex : Holds(c, m)' <=> Holds(c, m) /\ m # Outer(c)
    BY <2>1, Moves, Calls DEF Holds
  <2>3. HolderOwns' /\ OwnedHeld' /\ OneHolder' /\ owner' \in [Mutex -> Task \cup {Free}]
    BY <2>1, <2>2, Giving, Calls
  <2>4. c[2] = "section" => at[Log(c[1])] = "out"
    BY <2>1, Calls DEF LockInv, TypeOK
  <2> QED
    BY <2>1, <2>3, <2>4, Staged DEF LockInv, TypeOK
<1>7. ASSUME NEW c \in Call, unlockSPI(c) PROVE LockInv'
  <2>1. /\ at[c] = "in" /\ Give("spi") /\ Set(c, "half") /\ UNCHANGED job /\ "half" \in Stage
        /\ c[2] = "section" => at[Log(c[1])] = "out"
    BY <1>7 DEF unlockSPI, Stage
  <2>2. Holds(c, "spi") /\ \A m \in Mutex : Holds(c, m)' <=> Holds(c, m) /\ m # "spi"
    BY <2>1, Moves, Calls DEF Holds
  <2>3. HolderOwns' /\ OwnedHeld' /\ OneHolder' /\ owner' \in [Mutex -> Task \cup {Free}]
    BY <2>1, <2>2, Giving, Calls
  <2>4. c[2] # "log"
    BY <2>1, Calls DEF LockInv, LogInBusRefused, Log
  <2> QED
    BY <2>1, <2>3, <2>4, Staged DEF LockInv, TypeOK
<1>8. ASSUME NEW c \in Call, GiveOuter(c) PROVE LockInv'
  <2>1. at[c] = "half" /\ Give(Outer(c)) /\ Set(c, "out") /\ UNCHANGED job /\ "out" \in Stage
    BY <1>8 DEF GiveOuter, Stage
  <2>2. Holds(c, Outer(c)) /\ \A m \in Mutex : Holds(c, m)' <=> Holds(c, m) /\ m # Outer(c)
    BY <2>1, Moves, Calls DEF Holds
  <2>3. HolderOwns' /\ OwnedHeld' /\ OneHolder' /\ owner' \in [Mutex -> Task \cup {Free}]
    BY <2>1, <2>2, Giving, Calls
  <2>4. c[2] = "section" => at[Log(c[1])] = "out"
    BY <2>1, Calls DEF LockInv, TypeOK
  <2> QED
    BY <2>1, <2>3, <2>4, Staged DEF LockInv, TypeOK
<1>9. CASE UNCHANGED vars
  BY <1>9 DEF vars, LockInv, TypeOK, HolderOwns, OwnedHeld, OneHolder, LogInBusRefused, Holds, Outer
<1> QED
  BY <1>1, <1>2, <1>3, <1>4, <1>5, <1>6, <1>7, <1>8, <1>9 DEF Next, Obtain, GoOn

\* The invariant holds in every reachable state.
LEMMA LockInvariant == Spec => []LockInv
  BY LockInit, LockNext, PTL DEF Spec

------------------------------------------------------------------------------
(* Theorems *)

\* The locks' state is well typed; a log is on its way only inside a section.
THEOREM TypeCorrect == Spec => []TypeOK
<1>1. LockInv => TypeOK
  BY DEF LockInv
<1> QED
  BY <1>1, LockInvariant, PTL

\* lockSD and lockEthernetBus exclude each other through spiMutex.
THEOREM Exclusive == Spec => []SectionsExclusive
<1>1. LockInv => SectionsExclusive
  BY DEF LockInv, OneHolder, SectionsExclusive, Holds, Mutex
<1> QED
  BY <1>1, LockInvariant, PTL

\* A task owns exactly the mutexes its calls account for, timeouts included.
THEOREM NothingLeaks == Spec => []NoLeak
<1>1. LockInv => NoLeak
  BY JobsAssumption DEF LockInv, HolderOwns, OwnedHeld, NoLeak
<1> QED
  BY <1>1, LockInvariant, PTL

\* A writeLog inside a section of the bus never reaches the card.
THEOREM LogsAreRefused == Spec => []LogInBusRefused
<1>1. LockInv => LogInBusRefused
  BY DEF LockInv
<1> QED
  BY <1>1, LockInvariant, PTL

\* A task that waits without a timeout in a section of its own holds no
\* spiMutex, so who owns that mutex waits with a timeout or not at all, and
\* who owns another waits for it: no circle is without a timeout.
THEOREM CirclesEnd == Spec => []NoEndlessCircle
<1>1. ASSUME LockInv PROVE NoEndlessCircle
  <2>1. SUFFICES ASSUME NEW S \in SUBSET Task, S # {},
                        \A t \in S : \E c \in Call, m \in Mutex :
                          c[1] = t /\ Forever(c) /\ Awaits(c, m) /\ owner[m] \in S
                 PROVE  FALSE
    BY DEF NoEndlessCircle
  <2>2. ASSUME NEW t \in S
        PROVE  /\ at[<<t, "section">>] \in {"outer", "spi"} /\ at[Log(t)] = "out"
               /\ \E m \in Mutex : Awaits(<<t, "section">>, m) /\ owner[m] \in S
    <3>1. PICK c \in Call, m \in Mutex : c[1] = t /\ Forever(c) /\ Awaits(c, m) /\ owner[m] \in S
      BY <2>1, <2>2
    <3>2. c = <<t, "section">>
      BY <1>1, <3>1, Calls DEF Forever
    <3>3. at[<<t, "section">>] \in {"outer", "spi"}
      BY <3>1, <3>2 DEF Awaits
    <3>4. at[Log(t)] = "out"
      BY <1>1, <2>1, <3>3 DEF LockInv, TypeOK
    <3> QED
      BY <3>1, <3>2, <3>3, <3>4
  <2>3. ASSUME NEW t \in S, NEW m \in Mutex, owner[m] = t
        PROVE  Holds(<<t, "section">>, m)
    <3>1. t \in Task /\ t # Free
      BY <2>1, JobsAssumption
    <3>2. PICK c \in Call : Holds(c, m)
      BY <1>1, <2>3, <3>1 DEF LockInv, OwnedHeld
    <3>3. c[1] = t
      BY <1>1, <2>3, <3>2 DEF LockInv, HolderOwns
    <3>4. c = <<t, "section">> \/ c = Log(t)
      BY <1>1, <3>3, Calls DEF Log
    <3> QED
      BY <2>2, <3>2, <3>4 DEF Holds
  <2>4. ASSUME NEW t \in S PROVE owner["spi"] # t
    <3>1. <<t, "section">> \in Call
      BY <2>1 DEF Call
    <3>2. ~Holds(<<t, "section">>, "spi")
      BY <1>1, <2>2, <3>1, Calls DEF Holds
    <3> QED
      BY <2>3, <3>2 DEF Mutex
  <2>5. PICK t \in S : TRUE
    BY <2>1
  <2>6. PICK m \in Mutex : Awaits(<<t, "section">>, m) /\ owner[m] \in S
    BY <2>2
  <2>7. m # "spi" /\ Holds(<<owner[m], "section">>, m)
    BY <2>3, <2>4, <2>6
  <2>8. at[<<owner[m], "section">>] = "spi"
    BY <2>2, <2>6, <2>7 DEF Holds
  <2>9. owner["spi"] \in S
    <3>1. PICK k \in Mutex : Awaits(<<owner[m], "section">>, k) /\ owner[k] \in S
      BY <2>2, <2>6
    <3> QED
      BY <2>8, <3>1 DEF Awaits
  <2> QED
    BY <2>4, <2>9
<1> QED
  BY <1>1, LockInvariant, PTL

==============================================================================
