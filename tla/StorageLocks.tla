---------------------------- MODULE StorageLocks ----------------------------
(***************************************************************************)
(* The mutexes of vao23.ino and the tasks that take them.  lockSD takes    *)
(* sdMutex and then spiMutex, lockEthernetBus takes ethMutex and then      *)
(* spiMutex; both give back in the other order and may time out at either. *)
(* FreeRTOS mutexes made by xSemaphoreCreateMutex are not recursive.       *)
(*                                                                         *)
(* A task is in at most one locked section at a time, but writeLog, which  *)
(* takes lockSD itself, is called inside two sections of the Ethernet bus. *)
(* What is done in a section is left to MailQueue and DetectorStore, which *)
(* rely on SectionsExclusive.  emailMutex is taken by one task only and    *)
(* left out.                                                               *)
(***************************************************************************)
EXTENDS Integers

CONSTANTS
  Task,
  Jobs,  \* the kinds of section each task enters
  Free

\* outer: sdMutex or ethMutex; forever: portMAX_DELAY; logs: writeLog inside.
Job == [outer : {"sd", "eth"}, forever : BOOLEAN, logs : BOOLEAN]

ASSUME JobsAssumption ==
  /\ Free \notin Task /\ \A t \in Task : Jobs[t] \subseteq Job
  /\ \A t \in Task : \A j \in Jobs[t] : ~(j.forever /\ j.logs)

VARIABLES
  owner,  \* of each mutex
  job,    \* the section a task is in or was in last
  at      \* how far a task is with its section and with a writeLog in it

vars == <<owner, job, at>>

Mutex == {"sd", "eth", "spi"}
Call  == Task \X {"section", "log"}
Stage == {"out", "outer", "spi", "in", "half"}

Log(t) == <<t, "log">>

TypeOK ==
  /\ owner \in [Mutex -> Task \cup {Free}]
  /\ job \in [Task -> Job] /\ at \in [Call -> Stage]
  /\ \A t \in Task : at[Log(t)] # "out" => at[<<t, "section">>] = "in"

------------------------------------------------------------------------------
Outer(c) == IF c[2] = "log" THEN "sd" ELSE job[c[1]].outer

LogWaits(c) == c[2] = "log" \/ job[c[1]].forever         \* mutant of Forever
Forever(c)  == c[2] = "section" /\ job[c[1]].forever

Set(c, stage)  == at' = [at EXCEPT ![c] = stage]
Take(c, m)     == owner[m] = Free /\ owner' = [owner EXCEPT ![m] = c[1]]
Give(m)        == owner' = [owner EXCEPT ![m] = Free]
TimesOut(c, m) == ~Forever(c) /\ owner[m] # Free

Init ==
  /\ owner = [m \in Mutex |-> Free]
  /\ job \in [Task -> {[outer |-> "sd", forever |-> FALSE, logs |-> FALSE]}]
  /\ at = [c \in Call |-> "out"]

Enter(t) ==
  /\ at[<<t, "section">>] = "out" /\ Set(<<t, "section">>, "outer")
  /\ \E j \in Jobs[t] : job' = [job EXCEPT ![t] = j]
  /\ UNCHANGED owner

\* writeLog while the bus is held, at most once in a section.
writeLog(t) ==
  /\ at[<<t, "section">>] = "in" /\ at[Log(t)] = "out" /\ job[t].logs
  /\ job' = [job EXCEPT ![t].logs = FALSE] /\ Set(Log(t), "outer")
  /\ UNCHANGED owner

TakeOuter(c) ==
  /\ at[c] = "outer" /\ Take(c, Outer(c)) /\ Set(c, "spi") /\ UNCHANGED job

OuterTimeout(c) ==
  /\ at[c] = "outer" /\ TimesOut(c, Outer(c)) /\ Set(c, "out") /\ UNCHANGED <<owner, job>>

\* mutant of TakeSpi: spiMutex as a recursive mutex
TakeAgain(c) ==
  /\ at[c] = "spi" /\ owner["spi"] \in {Free, c[1]}
  /\ owner' = [owner EXCEPT !["spi"] = c[1]] /\ Set(c, "in") /\ UNCHANGED job

\* lockSPI
TakeSpi(c) ==
  /\ at[c] = "spi" /\ Take(c, "spi") /\ Set(c, "in") /\ UNCHANGED job

\* mutants of SpiTimeout: the first mutex is kept; unlockSD instead of a give
KeepOuter(c) ==
  /\ at[c] = "spi" /\ TimesOut(c, "spi") /\ Set(c, "out") /\ UNCHANGED <<owner, job>>
UnlockAll(c) ==
  /\ at[c] = "spi" /\ TimesOut(c, "spi") /\ Set(c, "half") /\ Give("spi") /\ UNCHANGED job

\* The first mutex is given back when the second times out.
SpiTimeout(c) ==
  /\ at[c] = "spi" /\ TimesOut(c, "spi") /\ Set(c, "out") /\ Give(Outer(c)) /\ UNCHANGED job

\* The section is left; its task is not inside writeLog.
unlockSPI(c) ==
  /\ at[c] = "in" /\ (c[2] = "section" => at[Log(c[1])] = "out")
  /\ Set(c, "half") /\ Give("spi") /\ UNCHANGED job

GiveOuter(c) ==
  /\ at[c] = "half" /\ Set(c, "out") /\ Give(Outer(c)) /\ UNCHANGED job

------------------------------------------------------------------------------
Obtain(c) == TakeOuter(c) \/ TakeSpi(c)
GoOn(c)   == OuterTimeout(c) \/ SpiTimeout(c) \/ unlockSPI(c) \/ GiveOuter(c)

Next ==
  \/ \E t \in Task : Enter(t) \/ writeLog(t)
  \/ \E c \in Call : Obtain(c) \/ GoOn(c)

Spec     == Init /\ [][Next]_vars
FairSpec == Spec /\ \A c \in Call : SF_vars(Obtain(c)) /\ WF_vars(GoOn(c))

------------------------------------------------------------------------------
(* Properties *)

\* At most one call is inside its section, be it of the card or of the bus: of
\* the calls that take the locks none drives the chip selects while another works.
\* getHttpTime (time_manager.cpp:47) and mqtt.connected() and mqtt.publish
\* (mqtt_manager.cpp:121, 155, 211) take none and are not in this module.
SectionsExclusive ==
  \A c, d \in Call : at[c] = "in" /\ at[d] = "in" => c = d

Holds(c, m) ==
  \/ m = Outer(c) /\ at[c] \in {"spi", "in", "half"}
  \/ m = "spi" /\ at[c] = "in"

\* No path, timeouts included, keeps a mutex or gives back one it does not
\* hold: a task owns exactly the mutexes its calls account for.
NoLeak ==
  \A m \in Mutex, t \in Task :
    owner[m] = t <=> \E c \in Call : c[1] = t /\ Holds(c, m)

Awaits(c, m) == (at[c] = "outer" /\ m = Outer(c)) \/ (at[c] = "spi" /\ m = "spi")

\* Every circle of tasks that wait for each other has a timeout in it: there
\* are no tasks that wait without one for mutexes owned among themselves.
NoEndlessCircle ==
  \A S \in (SUBSET Task) \ {{}} :
    \E t \in S : \A c \in Call, m \in Mutex :
      c[1] = t /\ Forever(c) /\ Awaits(c, m) => owner[m] \notin S

\* A writeLog inside a bus section never gets to the card: it waits for the
\* spiMutex of its own task until it times out (ethernetOK, ethernetConnect).
LogInBusRefused == \A t \in Task : at[Log(t)] \notin {"in", "half"}

\* Every call comes to its end, refused or done, markSent's without timeout
\* included.
EveryCallEnds == \A c \in Call : at[c] # "out" ~> at[c] = "out"

==============================================================================
