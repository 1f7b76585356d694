---------------------------- MODULE DetectorStore ----------------------------
(***************************************************************************)
(* The detector list of detector_manager.cpp: detectorMap in RAM, the list *)
(* and the removal reasons on the card, and the two tasks that change      *)
(* them.  usbTask adds the detectors it reads from the panel; loop()       *)
(* carries out the MQTT commands add_detector, remove_detector and         *)
(* clear_detectors.  The map is changed without a lock; the files are      *)
(* written under lockSD.                                                   *)
(*                                                                         *)
(* A list gives each address its eventCount, or Absent.  The timestamp,    *)
(* the order of the lines and the text of a reason are left out.  Each map *)
(* operation is one step: what concurrent changes of a std::map do to its  *)
(* memory is left out, but not a reference that outlives its entry.        *)
(***************************************************************************)
EXTENDS Integers

CONSTANTS
  Addr,       \* detector addresses
  Ops,        \* the commands loop() receives
  Faults,     \* operations that may fail
  MaxOps,     \* bound: operations begun by the two tasks
  MaxReboot,  \* bound: restarts
  Absent, NoAddr

ASSUME OpsAssumption    == Ops \subseteq {"add", "remove", "clear"}
ASSUME FaultsAssumption == Faults \subseteq {"lock", "open"}
ASSUME BoundAssumption  == MaxOps \in Nat /\ MaxReboot \in Nat
ASSUME AbsentAssumption == Absent \notin Nat /\ NoAddr \notin Addr

Task == {"usb", "loop"}
List == [Addr -> Nat \cup {Absent}]

VARIABLES
  up,       \* setup() has run initDetectorStorage
  map,      \* detectorMap
  file,     \* /detectors.txt
  reasons,  \* lines per address in /removal_reasons.txt
  unexplained, \* history: removed without one, or one wiped by a clear
  pc, arg,  \* where each task is, and the address it works on
  snap,     \* getSortedDetectors(), as taken for writing
  valid,    \* the entry a task holds a reference to is still in the map
  known,    \* usbTask: detectorExists() before the update
  (* history *)
  dirty,    \* the map was changed and the card does not follow
  acked,    \* addresses added with success and not removed or cleared since
  lost,     \* addresses whose line was taken by one of the known holes
  gone,     \* addresses removed with success and not added since
  excused,  \* addresses on the list that need not be reported: see DiscoveryLogged
  logged,   \* addresses reported as discovered
  ops, reboots

removals == <<reasons, unexplained>>
state   == <<up, map, file, removals, pc, arg, snap, valid, known>>
history == <<dirty, acked, lost, gone, excused, logged, ops, reboots>>
vars    == <<state, history>>

Pc == {"idle", "find", "count", "want", "snap", "close", "log",
       "reason", "erase", "wantErased", "snapErased", "closeErased", "wipe"}

TypeOK ==
  /\ up \in BOOLEAN /\ map \in List /\ file \in List /\ reasons \in [Addr -> Nat] /\ unexplained \subseteq Addr
  /\ pc \in [Task -> Pc] /\ arg \in [Task -> Addr \cup {NoAddr}]
  /\ snap \in [Task -> List] /\ valid \in [Task -> BOOLEAN] /\ known \in BOOLEAN
  /\ dirty \in BOOLEAN /\ ops \in 0 .. MaxOps /\ reboots \in 0 .. MaxReboot
  /\ acked \subseteq Addr /\ lost \subseteq Addr /\ gone \subseteq Addr
  /\ excused \subseteq Addr /\ logged \subseteq Addr

------------------------------------------------------------------------------
Empty   == [a \in Addr |-> Absent]
On(l)   == {a \in Addr : l[a] # Absent}

Goto(t, p) == pc' = [pc EXCEPT ![t] = p]
Done(t)    == Goto(t, "idle") /\ arg' = [arg EXCEPT ![t] = NoAddr]

\* The list file is open: truncated, and not written yet.
Open    == {"snap", "close", "snapErased", "closeErased"}
NoLock  == TRUE                                  \* mutant of SdFree
SdFree  == \A t \in Task : pc[t] \notin Open

Init ==
  /\ up = FALSE /\ map = Empty /\ file = Empty /\ reasons = [a \in Addr |-> 0] /\ unexplained = {}
  /\ pc = [t \in Task |-> "idle"] /\ arg = [t \in Task |-> NoAddr]
  /\ snap = [t \in Task |-> Empty] /\ valid = [t \in Task |-> TRUE] /\ known = FALSE
  /\ dirty = FALSE /\ acked = {} /\ lost = {} /\ gone = {} /\ excused = {} /\ logged = {}
  /\ ops = 0 /\ reboots = 0

\* initDetectorStorage: read the list, or go on with an empty map if the file
\* cannot be opened (setup only logs a warning).
initDetectorStorage ==
  /\ ~up /\ up' = TRUE
  /\ \/ map' = file /\ dirty' = FALSE /\ lost' = lost
     \/ /\ "open" \in Faults
        /\ map' = Empty /\ dirty' = TRUE /\ lost' = acked
  /\ UNCHANGED <<file, removals, pc, arg, snap, valid, known, acked, gone, excused, logged, ops, reboots>>

------------------------------------------------------------------------------
(* addOrUpdateDetector, called by usbTask and by loop(). *)

Begin(t, a, p) ==
  /\ up /\ pc[t] = "idle" /\ ops < MaxOps /\ ops' = ops + 1
  /\ Goto(t, p) /\ arg' = [arg EXCEPT ![t] = a]

\* processLine: an address in a smoke-alarm event.
Sight(a) ==
  /\ Begin("usb", a, "find")
  /\ known' = (a \in On(map))
  /\ UNCHANGED <<up, map, file, removals, snap, valid, dirty, acked, lost, gone, excused, logged, reboots>>

ManualAdd(a) ==
  /\ "add" \in Ops /\ Begin("loop", a, "find")
  /\ excused' = excused \cup {a}
  /\ UNCHANGED <<up, map, file, removals, snap, valid, known, dirty, acked, lost, gone, logged, reboots>>

\* Take a reference to the entry, making it if there is none.
AddFind(t) ==
  /\ pc[t] = "find" /\ Goto(t, "count")
  /\ map' = IF arg[t] \in On(map) THEN map ELSE [map EXCEPT ![arg[t]] = 0]
  /\ valid' = [valid EXCEPT ![t] = TRUE]
  /\ gone' = gone \ {arg[t]}
  /\ UNCHANGED <<up, file, removals, arg, snap, known, dirty, acked, lost, excused, logged, ops, reboots>>

\* Count through the reference; if the entry was erased the count is lost.
AddCount(t) ==
  /\ pc[t] = "count" /\ Goto(t, "want")
  /\ map' = IF valid[t] THEN [map EXCEPT ![arg[t]] = @ + 1] ELSE map
  /\ UNCHANGED <<up, file, removals, arg, snap, valid, known, history>>

------------------------------------------------------------------------------
(* The list is rewritten: FILE_WRITE truncates the file, the map is copied  *)
(* and sorted, and the lines reach the card when the file is closed.        *)

WriteOpen(t) ==
  /\ pc[t] \in {"want", "wantErased"} /\ SdFree
  /\ Goto(t, IF pc[t] = "want" THEN "snap" ELSE "snapErased")
  /\ file' = Empty
  /\ UNCHANGED <<up, map, removals, arg, snap, valid, known, history>>

\* The lock times out or the file cannot be opened.
WriteRefused(t) ==
  /\ pc[t] \in {"want", "wantErased"}
  /\ Faults # {} /\ Done(t) /\ dirty' = TRUE
  /\ excused' = IF pc[t] = "want" THEN excused \cup {arg[t]} ELSE excused
  /\ UNCHANGED <<up, map, file, removals, snap, valid, known, acked, lost, gone, logged,
                 ops, reboots>>

Snap(t) ==
  /\ pc[t] \in {"snap", "snapErased"}
  /\ Goto(t, IF pc[t] = "snap" THEN "close" ELSE "closeErased")
  /\ snap' = [snap EXCEPT ![t] = map] /\ dirty' = FALSE
  /\ UNCHANGED <<up, map, file, removals, arg, valid, known, acked, lost, gone, excused, logged,
                 ops, reboots>>

CloseAdded(t) ==
  /\ pc[t] = "close" /\ file' = snap[t] /\ snap' = [snap EXCEPT ![t] = Empty]
  /\ IF t = "usb" THEN Goto(t, "log") /\ arg' = arg ELSE Done(t)
  /\ acked' = acked \cup ({arg[t]} \cap On(map) \cap On(snap[t]))
  /\ lost' = lost \ On(snap[t])
  /\ UNCHANGED <<up, map, removals, valid, known, dirty, gone, excused, logged, ops, reboots>>

CloseErased(t) ==
  /\ pc[t] = "closeErased" /\ file' = snap[t] /\ snap' = [snap EXCEPT ![t] = Empty]
  /\ Done(t)
  /\ gone' = gone \cup ({arg[t]} \ On(map))
  /\ lost' = lost \ On(snap[t])
  /\ UNCHANGED <<up, map, removals, valid, known, dirty, acked, excused, logged, ops, reboots>>

\* mutant of Log: the test is the wrong way round
LogKnown ==
  /\ pc["usb"] = "log" /\ Done("usb")
  /\ logged' = IF known THEN logged \cup {arg["usb"]} ELSE logged
  /\ UNCHANGED <<up, map, file, removals, snap, valid, known, dirty, acked, lost, gone, excused,
                 ops, reboots>>

\* Back in processLine: a detector that did not exist is reported.
Log ==
  /\ pc["usb"] = "log" /\ Done("usb")
  /\ logged' = IF known THEN logged ELSE logged \cup {arg["usb"]}
  /\ UNCHANGED <<up, map, file, removals, snap, valid, known, dirty, acked, lost, gone, excused,
                 ops, reboots>>

addOrUpdateDetector ==
  \E t \in Task : AddFind(t) \/ AddCount(t) \/ WriteOpen(t) \/ WriteRefused(t) \/ Snap(t) \/ CloseAdded(t)

------------------------------------------------------------------------------
(* removeDetector: the reason, the map, then the list as above.            *)

\* mutant of RemoveBegin: the erase comes first
RemoveUnexplained(a) ==
  /\ "remove" \in Ops /\ a \in On(map) /\ Begin("loop", a, "erase")
  /\ UNCHANGED <<up, map, file, removals, snap, valid, known, dirty, acked, lost, gone, excused,
                 logged, reboots>>

RemoveBegin(a) ==
  /\ "remove" \in Ops /\ a \in On(map) /\ Begin("loop", a, "reason")
  /\ UNCHANGED <<up, map, file, removals, snap, valid, known, dirty, acked, lost, gone, excused,
                 logged, reboots>>

saveRemovalReason ==
  /\ pc["loop"] = "reason" /\ Goto("loop", "erase")
  /\ \/ SdFree /\ reasons' = [reasons EXCEPT ![arg["loop"]] = @ + 1]
        /\ unexplained' = unexplained \ {arg["loop"]}
     \/ Faults # {} /\ unexplained' = unexplained \cup {arg["loop"]} /\ UNCHANGED reasons
  /\ UNCHANGED <<up, map, file, arg, snap, valid, known, history>>

\* References other tasks hold to erased entries dangle from here on.
Dangling(erased) ==
  valid' = [t \in Task |-> valid[t] /\ ~(pc[t] = "count" /\ arg[t] \in erased)]

Erase ==
  /\ pc["loop"] = "erase" /\ Goto("loop", "wantErased")
  /\ map' = [map EXCEPT ![arg["loop"]] = Absent] /\ Dangling({arg["loop"]})
  /\ acked' = acked \ {arg["loop"]}
  /\ UNCHANGED <<up, file, removals, arg, snap, known, dirty, lost, gone, excused, logged, ops, reboots>>

removeDetector == saveRemovalReason \/ Erase \/ CloseErased("loop")
                    \/ \E a \in Addr : RemoveBegin(a)

------------------------------------------------------------------------------
(* clearDetectorList: the map first, the files under the lock.             *)

ClearMap ==
  /\ "clear" \in Ops /\ Begin("loop", NoAddr, "wipe")
  /\ map' = Empty /\ Dangling(Addr) /\ acked' = {}
  /\ UNCHANGED <<up, file, removals, snap, known, dirty, lost, gone, excused, logged, reboots>>

\* Both files are removed and made again, with whatever was added meanwhile.
ClearFiles ==
  /\ pc["loop"] = "wipe" /\ Done("loop") /\ SdFree
  /\ file' = Empty /\ reasons' = [a \in Addr |-> 0] /\ unexplained' = unexplained \cup gone
  /\ dirty' = (On(map) # {}) /\ lost' = lost \cup On(map)
  /\ UNCHANGED <<up, map, snap, valid, known, acked, gone, excused, logged, ops, reboots>>

ClearRefused ==
  /\ pc["loop"] = "wipe" /\ Done("loop") /\ "lock" \in Faults
  /\ dirty' = TRUE
  /\ UNCHANGED <<up, map, file, removals, snap, valid, known, acked, lost, gone, excused,
                 logged, ops, reboots>>

clearDetectorList == ClearMap \/ ClearFiles \/ ClearRefused

\* A restart loses the map; a list file that is open stays truncated.
Reboot ==
  /\ reboots < MaxReboot /\ reboots' = reboots + 1
  /\ up' = FALSE /\ map' = Empty /\ dirty' = FALSE /\ known' = FALSE
  /\ pc' = [t \in Task |-> "idle"] /\ arg' = [t \in Task |-> NoAddr]
  /\ snap' = [t \in Task |-> Empty] /\ valid' = [t \in Task |-> TRUE]
  /\ lost' = IF SdFree THEN lost ELSE acked
  /\ excused' = excused \cup ({arg["usb"]} \ {NoAddr})
  /\ UNCHANGED <<file, removals, acked, gone, logged, ops>>

------------------------------------------------------------------------------
Next ==
  \/ initDetectorStorage \/ addOrUpdateDetector \/ Log
  \/ \E a \in Addr : Sight(a) \/ ManualAdd(a)
  \/ removeDetector \/ clearDetectorList \/ Reboot

Spec == Init /\ [][Next]_vars

------------------------------------------------------------------------------
(* Properties *)

\* Neither task is in an operation that changes the list.
Quiet == up /\ \A t \in Task : pc[t] \in {"idle", "log"}

\* Whatever the order in which the tasks change the map and reach the card,
\* the list file follows the map once both are done, unless a write was
\* refused or a clear wiped a file the map had outgrown.
FileFollowsMap == Quiet /\ ~dirty => file = map

\* A detector added with success is in the list until it is removed, across
\* restarts too ("Detector list persists across reboots", CHANGELOG), except for
\* what a restart during a write, a clear and a start without a readable file
\* are known to take.
ListKept == Quiet => acked \ lost \subseteq On(map)

\* A detector removed with success does not come back, neither from the copy
\* another task was writing nor from the card after a restart.
NoGhost == gone \cap On(map) = {}

\* "New detectors are logged" (CHANGELOG).  A detector in the list file was
\* reported, or usbTask is about to, unless it was added by command, its first
\* write was refused, or a restart came before the report: the second
\* sighting then finds it in the map and takes it for a known one.
DiscoveryLogged ==
  \A a \in On(file) : a \in excused \cup logged \/ a = arg["usb"]

\* "Save removal reason before erasing" (removeDetector).  A detector that was
\* removed has its reason on the card, unless the card refused it or a clear
\* wiped the reasons since.
ReasonBeforeErase == \A a \in gone : reasons[a] > 0 \/ a \in unexplained

==============================================================================
