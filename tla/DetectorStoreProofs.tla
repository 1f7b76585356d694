------------------------- MODULE DetectorStoreProofs -------------------------
(***************************************************************************)
(* Theorems about DetectorStore, for any addresses, commands, faults and   *)
(* bounds: the list file follows the map, what was added is kept, what was *)
(* removed does not come back, and both leave their traces.                *)
(***************************************************************************)
EXTENDS DetectorStore, TLAPS

Closing == {"close", "closeErased"}

\* Which task can be where, and on which address.
Places ==
  /\ pc["usb"] \in {"idle", "find", "count", "want", "snap", "close", "log"}
  /\ pc["loop"] # "log"
  /\ \A t \in Task : /\ pc[t] \notin {"idle", "wipe"} => arg[t] \in Addr
                     /\ pc[t] \in {"idle", "wipe"} => arg[t] = NoAddr

\* Before setup() is done no task works.
Down == ~up => \A t \in Task : pc[t] = "idle"

\* One task at a time has the list file open.
OneWriter == \A t, u \in Task : pc[t] \in Open /\ pc[u] \in Open => t = u

Copies == \A t \in Task : pc[t] \notin Closing => snap[t] = Empty

\* A reference that is still valid is to an entry of the map.
Refs == \A t \in Task : pc[t] = "count" /\ valid[t] => arg[t] \in On(map)

Base == TypeOK /\ Places /\ Down /\ OneWriter /\ Copies /\ Refs

------------------------------------------------------------------------------
(* The map and what is on it *)

LEMMA OnList == \A l \in List : On(l) \subseteq Addr
BY DEF On

LEMMA OnEmpty == On(Empty) = {} /\ Empty \in List
BY DEF On, Empty, List

LEMMA NothingOn == \A l \in List : On(l) = {} => l = Empty
BY DEF On, Empty, List

LEMMA FindOn ==
  ASSUME Base, NEW t \in Task, AddFind(t)
  PROVE  map' \in List /\ On(map') = On(map) \cup {arg[t]} /\ arg[t] \in Addr
<1>1. map \in List /\ arg[t] \in Addr
  BY DEF Base, TypeOK, Places, AddFind
<1>2. map' \in List
  BY <1>1 DEF AddFind, List
<1>3. On(map') = On(map) \cup {arg[t]}
  BY <1>1, AbsentAssumption DEF AddFind, On, List
<1> QED BY <1>1, <1>2, <1>3

LEMMA CountOn ==
  ASSUME Base, NEW t \in Task, AddCount(t)
  PROVE  map' \in List /\ On(map') = On(map)
<1>1. map \in List /\ arg[t] \in Addr
  BY DEF Base, TypeOK, Places, AddCount
<1>2. CASE valid[t]
  <2>1. arg[t] \in On(map)
    BY <1>2 DEF Base, Refs, AddCount
  <2>2. map[arg[t]] \in Nat
    BY <1>1, <2>1 DEF On, List
  <2>3. map' = [map EXCEPT ![arg[t]] = map[arg[t]] + 1] /\ map[arg[t]] + 1 \in Nat
    BY <1>2, <2>2 DEF AddCount
  <2>4. map' \in List
    BY <1>1, <2>3 DEF List
  <2>5. On(map') = On(map)
    BY <1>1, <2>1, <2>3, AbsentAssumption DEF On, List
  <2> QED BY <2>4, <2>5
<1>3. CASE ~valid[t]
  BY <1>1, <1>3 DEF AddCount
<1> QED BY <1>2, <1>3

LEMMA EraseOn ==
  ASSUME Base, Erase
  PROVE  map' \in List /\ On(map') = On(map) \ {arg["loop"]} /\ arg["loop"] \in Addr
<1>1. map \in List /\ arg["loop"] \in Addr
  BY DEF Base, TypeOK, Places, Erase, Task
<1>2. map' \in List
  BY <1>1 DEF Erase, List
<1>3. On(map') = On(map) \ {arg["loop"]}
  BY <1>1 DEF Erase, On, List
<1> QED BY <1>1, <1>2, <1>3

------------------------------------------------------------------------------
(* Every step keeps Base. *)

LEMMA InitBase == Init => Base
<1> SUFFICES ASSUME Init PROVE Base
  OBVIOUS
<1>1. ops \in 0 .. MaxOps /\ reboots \in 0 .. MaxReboot
  BY BoundAssumption DEF Init
<1> QED BY <1>1, OnEmpty, AbsentAssumption
        DEF Init, Base, TypeOK, Places, Down, OneWriter, Copies, Refs, Task, Pc, Open, List

LEMMA NextBase == Base /\ [Next]_vars => Base'
<1> SUFFICES ASSUME Base, [Next]_vars PROVE Base'
  OBVIOUS
<1> USE BoundAssumption, AbsentAssumption, OnEmpty
        DEF Base, TypeOK, Places, Down, OneWriter, Copies, Refs, Task, Pc, Open, Closing
<1>1. CASE initDetectorStorage
  BY <1>1 DEF initDetectorStorage, removals
<1>2. ASSUME NEW a \in Addr, Sight(a) PROVE Base'
  <2>1. ops' \in 0 .. MaxOps
    BY <1>2 DEF Sight, Begin
  <2> QED BY <1>2, <2>1 DEF Sight, Begin, Goto, removals
<1>3. ASSUME NEW a \in Addr, ManualAdd(a) PROVE Base'
  <2>1. ops' \in 0 .. MaxOps
    BY <1>3 DEF ManualAdd, Begin
  <2> QED BY <1>3, <2>1 DEF ManualAdd, Begin, Goto, removals
<1>4. ASSUME NEW t \in Task, AddFind(t) PROVE Base'
  <2>1. map' \in List /\ On(map') = On(map) \cup {arg[t]} /\ arg[t] \in Addr
    BY <1>4, FindOn
  <2>2. up' = up /\ file' = file /\ UNCHANGED <<removals, arg, snap, ops, reboots, known, dirty, acked, lost, excused, logged>>
    BY <1>4 DEF AddFind
  <2>3. pc' = [pc EXCEPT ![t] = "count"] /\ valid' = [valid EXCEPT ![t] = TRUE] /\ gone' \subseteq Addr /\ pc[t] = "find"
    BY <1>4 DEF AddFind, Goto
  <2> QED BY <2>1, <2>2, <2>3 DEF removals
<1>5. ASSUME NEW t \in Task, AddCount(t) PROVE Base'
  <2>1. map' \in List /\ On(map') = On(map)
    BY <1>5, CountOn
  <2>2. UNCHANGED <<up, file, removals, arg, snap, valid, known, history>>
    BY <1>5 DEF AddCount
  <2>3. pc' = [pc EXCEPT ![t] = "want"] /\ pc[t] = "count"
    BY <1>5 DEF AddCount, Goto
  <2> QED BY <2>1, <2>2, <2>3 DEF removals, history
<1>6. ASSUME NEW t \in Task, WriteOpen(t) PROVE Base'
  BY <1>6 DEF WriteOpen, Goto, SdFree, removals, history
<1>7. ASSUME NEW t \in Task, WriteRefused(t) PROVE Base'
  BY <1>7 DEF WriteRefused, Done, Goto, removals
<1>8. ASSUME NEW t \in Task, Snap(t) PROVE Base'
  BY <1>8 DEF Snap, Goto, removals
<1>9. ASSUME NEW t \in Task, CloseAdded(t) PROVE Base'
  <2>1. lost' \subseteq Addr /\ acked' \subseteq Addr /\ file' \in List
    BY <1>9, OnList DEF CloseAdded
  <2> QED BY <1>9, <2>1 DEF CloseAdded, Done, Goto, removals
<1>10. CASE CloseErased("loop")
  <2>1. lost' \subseteq Addr /\ gone' \subseteq Addr /\ file' \in List
    BY <1>10, OnList DEF CloseErased
  <2> QED BY <1>10, <2>1 DEF CloseErased, Done, Goto, removals
<1>11. CASE Log
  BY <1>11 DEF Log, Done, Goto, removals
<1>12. ASSUME NEW a \in Addr, RemoveBegin(a) PROVE Base'
  <2>1. ops' \in 0 .. MaxOps
    BY <1>12 DEF RemoveBegin, Begin
  <2> QED BY <1>12, <2>1 DEF RemoveBegin, Begin, Goto, removals
<1>13. CASE saveRemovalReason
  <2>1. reasons' \in [Addr -> Nat] /\ unexplained' \subseteq Addr
    BY <1>13 DEF saveRemovalReason
  <2> QED BY <1>13, <2>1 DEF saveRemovalReason, Goto, history
<1>14. CASE Erase
  <2>1. map' \in List /\ On(map') = On(map) \ {arg["loop"]} /\ arg["loop"] \in Addr
    BY <1>14, EraseOn
  <2>2. UNCHANGED <<up, file, removals, arg, snap, known, dirty, lost, gone, excused, logged, ops, reboots>>
    BY <1>14 DEF Erase
  <2>3. pc' = [pc EXCEPT !["loop"] = "wantErased"] /\ pc["loop"] = "erase" /\ acked' \subseteq Addr
    BY <1>14 DEF Erase, Goto
  <2>4. valid' = [t \in Task |-> valid[t] /\ ~(pc[t] = "count" /\ arg[t] \in {arg["loop"]})]
    BY <1>14 DEF Erase, Dangling
  <2>5. \A t \in Task : pc'[t] = "count" /\ valid'[t] => arg'[t] \in On(map')
    BY <2>1, <2>2, <2>3, <2>4
  <2>6. valid' \in [Task -> BOOLEAN]
    BY <2>4
  <2> QED BY <2>1, <2>2, <2>3, <2>5, <2>6 DEF removals
<1>15. CASE ClearMap
  <2>1. ops' \in 0 .. MaxOps
    BY <1>15 DEF ClearMap, Begin
  <2>2. valid' \in [Task -> BOOLEAN]
    BY <1>15 DEF ClearMap, Dangling
  <2>3. \A t \in Task : pc'[t] = "count" => ~valid'[t]
    BY <1>15 DEF ClearMap, Dangling, Begin, Goto
  <2> QED BY <1>15, <2>1, <2>2, <2>3 DEF ClearMap, Begin, Goto, removals
<1>16. CASE ClearFiles
  <2>1. lost' \subseteq Addr /\ unexplained' \subseteq Addr
    BY <1>16, OnList DEF ClearFiles
  <2> QED BY <1>16, <2>1 DEF ClearFiles, Done, Goto
<1>17. CASE ClearRefused
  BY <1>17 DEF ClearRefused, Done, Goto, removals
<1>18. CASE Reboot
  <2>1. reboots' \in 0 .. MaxReboot
    BY <1>18 DEF Reboot
  <2> QED BY <1>18, <2>1 DEF Reboot, SdFree, removals
<1>19. CASE UNCHANGED vars
  BY <1>19 DEF vars, state, history, removals
<1> QED BY <1>1, <1>2, <1>3, <1>4, <1>5, <1>6, <1>7, <1>8, <1>9, <1>10, <1>11, <1>12, <1>13, <1>14,
           <1>15, <1>16, <1>17, <1>18, <1>19
        DEF Next, addOrUpdateDetector, removeDetector, clearDetectorList

\* The variables keep their types; a count never goes through a reference to an
\* entry that is gone.
THEOREM TypeCorrect == Spec => []TypeOK
<1>1. Base => TypeOK
  BY DEF Base
<1> QED BY <1>1, InitBase, NextBase, PTL DEF Spec

------------------------------------------------------------------------------
(* What was removed stays away. *)

\* A copy loop() has taken holds nothing that has left the map since: only loop()
\* erases.
LoopCopy == pc["loop"] \in Closing => On(snap["loop"]) \subseteq On(map)

Ghosts ==
  /\ LoopCopy
  /\ NoGhost /\ gone \cap On(file) = {}
  /\ \A t \in Task : gone \cap On(snap[t]) = {}

LEMMA InitGhosts == Init => Ghosts
BY OnEmpty DEF Init, Ghosts, LoopCopy, NoGhost, Closing, Task

LEMMA NextGhosts == Base /\ Ghosts /\ [Next]_vars => Ghosts'
<1> SUFFICES ASSUME Base, Ghosts, [Next]_vars PROVE Ghosts'
  OBVIOUS
<1> USE OnEmpty DEF Ghosts, LoopCopy, NoGhost, Closing, Task
<1>0. /\ pc \in [Task -> Pc] /\ snap \in [Task -> List]
      /\ \A t \in Task : pc[t] \notin {"close", "closeErased"} => snap[t] = Empty
      /\ \A t, u \in Task : pc[t] \in Open /\ pc[u] \in Open => t = u
      /\ pc["usb"] # "closeErased"
      /\ ~up => pc["loop"] = "idle"
  BY DEF Base, TypeOK, Copies, OneWriter, Places, Down
<1>1. CASE initDetectorStorage
  BY <1>0, <1>1 DEF initDetectorStorage
<1>2. ASSUME NEW a \in Addr, Sight(a) \/ ManualAdd(a) \/ RemoveBegin(a) PROVE Ghosts'
  BY <1>0, <1>2 DEF Sight, ManualAdd, RemoveBegin, Begin, Goto
<1>4. ASSUME NEW t \in Task, AddFind(t) PROVE Ghosts'
  <2>1. On(map') = On(map) \cup {arg[t]}
    BY <1>4, FindOn
  <2> QED BY <1>0, <1>4, <2>1 DEF AddFind, Goto
<1>5. ASSUME NEW t \in Task, AddCount(t) PROVE Ghosts'
  <2>1. On(map') = On(map)
    BY <1>5, CountOn
  <2> QED BY <1>0, <1>5, <2>1 DEF AddCount, Goto, history
<1>6. ASSUME NEW t \in Task, WriteOpen(t) \/ WriteRefused(t) PROVE Ghosts'
  BY <1>0, <1>6 DEF WriteOpen, WriteRefused, Done, Goto, history
<1>8. ASSUME NEW t \in Task, Snap(t) PROVE Ghosts'
  BY <1>0, <1>8 DEF Snap, Goto
<1>9. ASSUME NEW t \in Task, CloseAdded(t) PROVE Ghosts'
  BY <1>0, <1>9 DEF CloseAdded, Done, Goto
<1>10. CASE CloseErased("loop")
  <2>1. pc["loop"] = "closeErased" /\ pc["usb"] \notin {"close", "closeErased"}
    BY <1>0, <1>10 DEF CloseErased, Open
  <2>2. snap["usb"] = Empty
    BY <1>0, <2>1
  <2> QED BY <1>0, <1>10, <2>1, <2>2 DEF CloseErased, Done, Goto
<1>11. CASE Log \/ saveRemovalReason
  BY <1>0, <1>11 DEF Log, saveRemovalReason, Done, Goto, history
<1>14. CASE Erase
  <2>1. On(map') = On(map) \ {arg["loop"]}
    BY <1>14, EraseOn
  <2> QED BY <1>0, <1>14, <2>1 DEF Erase, Goto
<1>15. CASE ClearMap
  BY <1>0, <1>15 DEF ClearMap, Begin, Goto
<1>16. CASE ClearFiles \/ ClearRefused
  BY <1>0, <1>16 DEF ClearFiles, ClearRefused, Done, Goto
<1>18. CASE Reboot
  BY <1>0, <1>18 DEF Reboot
<1>19. CASE UNCHANGED vars
  BY <1>19 DEF vars, state, history
<1> QED BY <1>1, <1>2, <1>4, <1>5, <1>6, <1>8, <1>9, <1>10, <1>11, <1>14,
           <1>15, <1>16, <1>18, <1>19
        DEF Next, addOrUpdateDetector, removeDetector, clearDetectorList

\* A detector removed with success does not come back: not from the copy the other
\* task was writing, and not from the card after a restart.
THEOREM RemovedStaysAway == Spec => []NoGhost
<1>1. Ghosts => NoGhost
  BY DEF Ghosts
<1> QED BY <1>1, InitBase, NextBase, InitGhosts, NextGhosts, PTL DEF Spec

------------------------------------------------------------------------------
(* What was added is kept. *)

Kept == acked \ lost

KeptInv ==
  /\ up => Kept \subseteq On(map)
  /\ SdFree => Kept \subseteq On(file)
  /\ \A t \in Task : pc[t] \in Closing =>
       Kept \subseteq On(snap[t]) /\ acked \cap On(snap[t]) \subseteq On(map)

LEMMA InitKept == Init => KeptInv
BY DEF Init, KeptInv, Kept, Closing, Task

LEMMA NextKept == Base /\ KeptInv /\ [Next]_vars => KeptInv'
<1> SUFFICES ASSUME Base, KeptInv, [Next]_vars PROVE KeptInv'
  OBVIOUS
<1> USE OnEmpty DEF KeptInv, Kept, Closing, Task, SdFree, Open
<1>0. /\ pc \in [Task -> Pc] /\ snap \in [Task -> List]
      /\ \A t, u \in Task : pc[t] \in Open /\ pc[u] \in Open => t = u
      /\ ~up => \A t \in Task : pc[t] = "idle"
      /\ up \in BOOLEAN
  BY DEF Base, TypeOK, OneWriter, Down
<1>1. CASE initDetectorStorage
  BY <1>0, <1>1 DEF initDetectorStorage
<1>2. ASSUME NEW a \in Addr, Sight(a) \/ ManualAdd(a) \/ RemoveBegin(a) PROVE KeptInv'
  BY <1>0, <1>2 DEF Sight, ManualAdd, RemoveBegin, Begin, Goto
<1>4. ASSUME NEW t \in Task, AddFind(t) PROVE KeptInv'
  <2>1. On(map') = On(map) \cup {arg[t]}
    BY <1>4, FindOn
  <2> QED BY <1>0, <1>4, <2>1 DEF AddFind, Goto
<1>5. ASSUME NEW t \in Task, AddCount(t) PROVE KeptInv'
  <2>1. On(map') = On(map)
    BY <1>5, CountOn
  <2> QED BY <1>0, <1>5, <2>1 DEF AddCount, Goto, history
<1>6. ASSUME NEW t \in Task, WriteOpen(t) \/ WriteRefused(t) PROVE KeptInv'
  BY <1>0, <1>6 DEF WriteOpen, WriteRefused, Done, Goto, history
<1>8. ASSUME NEW t \in Task, Snap(t) PROVE KeptInv'
  BY <1>0, <1>8 DEF Snap, Goto
<1>9. ASSUME NEW t \in Task, CloseAdded(t) PROVE KeptInv'
  BY <1>0, <1>9 DEF CloseAdded, Done, Goto
<1>10. CASE CloseErased("loop")
  BY <1>0, <1>10 DEF CloseErased, Done, Goto
<1>11. CASE Log \/ saveRemovalReason
  BY <1>0, <1>11 DEF Log, saveRemovalReason, Done, Goto, history
<1>14. CASE Erase
  <2>1. On(map') = On(map) \ {arg["loop"]}
    BY <1>14, EraseOn
  <2> QED BY <1>0, <1>14, <2>1 DEF Erase, Goto
<1>15. CASE ClearMap
  BY <1>0, <1>15 DEF ClearMap, Begin, Goto
<1>16. CASE ClearFiles \/ ClearRefused
  BY <1>0, <1>16 DEF ClearFiles, ClearRefused, Done, Goto
<1>18. CASE Reboot
  BY <1>0, <1>18 DEF Reboot
<1>19. CASE UNCHANGED vars
  BY <1>19 DEF vars, state, history
<1> QED BY <1>1, <1>2, <1>4, <1>5, <1>6, <1>8, <1>9, <1>10, <1>11, <1>14,
           <1>15, <1>16, <1>18, <1>19
        DEF Next, addOrUpdateDetector, removeDetector, clearDetectorList

\* A detector added with success is in the list until it is removed, but for what the
\* known holes take.
THEOREM AddedIsKept == Spec => []ListKept
<1>1. KeptInv => ListKept
  BY DEF KeptInv, Kept, ListKept, Quiet
<1> QED BY <1>1, InitBase, NextBase, InitKept, NextKept, PTL DEF Spec

------------------------------------------------------------------------------
(* The file follows the map. *)

\* Whoever has changed the map will write the list, is writing what the map is now,
\* or nobody writes and the file is the map.
WillWrite == {"count", "want", "snap", "wantErased", "snapErased", "wipe"}

Follows ==
  up /\ ~dirty =>
    \/ \E t \in Task : pc[t] \in WillWrite
    \/ \E t \in Task : pc[t] \in Closing /\ snap[t] = map
    \/ (\A t \in Task : pc[t] \notin Closing) /\ file = map

LEMMA InitFollows == Init => Follows
BY DEF Init, Follows

LEMMA NextFollows == Base /\ Follows /\ [Next]_vars => Follows'
<1> SUFFICES ASSUME Base, Follows, [Next]_vars PROVE Follows'
  OBVIOUS
<1> USE DEF Follows, WillWrite, Closing, Task
<1>0. /\ pc \in [Task -> Pc] /\ snap \in [Task -> List] /\ map \in List
      /\ \A t, u \in Task : pc[t] \in Open /\ pc[u] \in Open => t = u
      /\ ~up => \A t \in Task : pc[t] = "idle"
      /\ up \in BOOLEAN /\ dirty \in BOOLEAN
  BY DEF Base, TypeOK, OneWriter, Down
<1>1. CASE initDetectorStorage
  BY <1>0, <1>1 DEF initDetectorStorage
<1>2. ASSUME NEW a \in Addr, Sight(a) \/ ManualAdd(a) \/ RemoveBegin(a) PROVE Follows'
  <2>1. PICK t \in Task : pc[t] = "idle" /\ pc' \in {[pc EXCEPT ![t] = "find"], [pc EXCEPT ![t] = "reason"]}
    BY <1>2 DEF Sight, ManualAdd, RemoveBegin, Begin, Goto
  <2>2. UNCHANGED <<up, dirty, snap, map, file>>
    BY <1>2 DEF Sight, ManualAdd, RemoveBegin
  <2> QED BY <1>0, <2>1, <2>2
<1>4. ASSUME NEW t \in Task, AddFind(t) PROVE Follows'
  <2>1. pc'[t] = "count"
    BY <1>0, <1>4 DEF AddFind, Goto
  <2> QED BY <2>1
<1>5. ASSUME NEW t \in Task, AddCount(t) PROVE Follows'
  <2>1. pc'[t] = "want"
    BY <1>0, <1>5 DEF AddCount, Goto
  <2> QED BY <2>1
<1>6. ASSUME NEW t \in Task, WriteOpen(t) PROVE Follows'
  <2>1. pc'[t] \in {"snap", "snapErased"}
    BY <1>0, <1>6 DEF WriteOpen, Goto
  <2> QED BY <2>1
<1>7. ASSUME NEW t \in Task, WriteRefused(t) PROVE Follows'
  BY <1>7 DEF WriteRefused
<1>8. ASSUME NEW t \in Task, Snap(t) PROVE Follows'
  <2>1. pc'[t] \in Closing /\ snap'[t] = map'
    BY <1>0, <1>8 DEF Snap, Goto
  <2> QED BY <2>1
<1>9. ASSUME NEW t \in Task, CloseAdded(t) \/ (t = "loop" /\ CloseErased(t)) PROVE Follows'
  <2>1. /\ pc[t] \in Closing /\ file' = snap[t] /\ UNCHANGED <<up, map, dirty>>
        /\ snap' = [snap EXCEPT ![t] = Empty]
        /\ pc' \in {[pc EXCEPT ![t] = "idle"], [pc EXCEPT ![t] = "log"]}
    BY <1>9 DEF CloseAdded, CloseErased, Done, Goto
  <2>2. \A u \in Task : u # t => pc[u] \notin Closing
    BY <1>0, <2>1 DEF Open
  <2> QED BY <1>0, <2>1, <2>2
<1>11. CASE Log \/ saveRemovalReason
  <2>1. PICK t \in Task : pc[t] \in {"log", "reason"} /\ pc' \in {[pc EXCEPT ![t] = "idle"], [pc EXCEPT ![t] = "erase"]}
    BY <1>11 DEF Log, saveRemovalReason, Done, Goto
  <2>2. UNCHANGED <<up, dirty, snap, map, file>>
    BY <1>11 DEF Log, saveRemovalReason, history
  <2> QED BY <1>0, <2>1, <2>2
<1>14. CASE Erase
  <2>1. pc'["loop"] = "wantErased"
    BY <1>0, <1>14 DEF Erase, Goto
  <2> QED BY <2>1
<1>15. CASE ClearMap
  <2>1. pc'["loop"] = "wipe"
    BY <1>0, <1>15 DEF ClearMap, Begin, Goto
  <2> QED BY <2>1
<1>16. CASE ClearFiles
  <2>1. ~dirty' => file' = map'
    BY <1>0, <1>16, NothingOn DEF ClearFiles
  <2>2. \A t \in Task : pc'[t] \notin Closing
    BY <1>0, <1>16 DEF ClearFiles, SdFree, Open, Done, Goto
  <2> QED BY <2>1, <2>2
<1>17. CASE ClearRefused
  BY <1>17 DEF ClearRefused
<1>18. CASE Reboot
  BY <1>18 DEF Reboot
<1>19. CASE UNCHANGED vars
  BY <1>19 DEF vars, state, history
<1> QED BY <1>1, <1>2, <1>4, <1>5, <1>6, <1>7, <1>8, <1>9, <1>11, <1>14,
           <1>15, <1>16, <1>17, <1>18, <1>19
        DEF Next, addOrUpdateDetector, removeDetector, clearDetectorList

\* When both tasks are done the list file is the map, unless a write was refused or a
\* clear wiped a file the map had outgrown.
THEOREM FileIsTheMap == Spec => []FileFollowsMap
<1>1. Follows => FileFollowsMap
  BY DEF Follows, FileFollowsMap, Quiet, WillWrite, Closing
<1> QED BY <1>1, InitBase, NextBase, InitFollows, NextFollows, PTL DEF Spec

------------------------------------------------------------------------------
(* Both leave their traces. *)

Reported(a) == a \in excused \cup logged \/ a = arg["usb"]

Traces ==
  /\ \A a \in On(map) \cup On(file) : Reported(a)
  /\ \A t \in Task : \A a \in On(snap[t]) : Reported(a)
  /\ pc["loop"] \in {"find", "count", "want", "snap", "close"} => arg["loop"] \in excused
  /\ pc["usb"] # "idle" /\ known => arg["usb"] \in excused \cup logged

LEMMA InitTraces == Init => Traces
BY OnEmpty DEF Init, Traces, Task

LEMMA NextTraces == Base /\ Traces /\ [Next]_vars => Traces'
<1> SUFFICES ASSUME Base, Traces, [Next]_vars PROVE Traces'
  OBVIOUS
<1> USE OnEmpty, AbsentAssumption DEF Traces, Reported, Task
<1>0. /\ pc \in [Task -> Pc] /\ snap \in [Task -> List]
      /\ arg \in [Task -> Addr \cup {NoAddr}] /\ map \in List /\ file \in List
      /\ pc["usb"] \in {"idle", "find", "count", "want", "snap", "close", "log"} /\ pc["loop"] # "log"
      /\ \A t \in Task : (pc[t] \notin {"idle", "wipe"} => arg[t] \in Addr)
                         /\ (pc[t] \in {"idle", "wipe"} => arg[t] = NoAddr)
  BY DEF Base, TypeOK, Places
<1>a. On(map) \subseteq Addr /\ On(file) \subseteq Addr /\ \A t \in Task : On(snap[t]) \subseteq Addr
  BY <1>0, OnList
<1>1. CASE initDetectorStorage
  BY <1>1 DEF initDetectorStorage
<1>2. ASSUME NEW a \in Addr, Sight(a) PROVE Traces'
  BY <1>0, <1>a, <1>2 DEF Sight, Begin, Goto
<1>3. ASSUME NEW a \in Addr, ManualAdd(a) \/ RemoveBegin(a) PROVE Traces'
  BY <1>0, <1>3 DEF ManualAdd, RemoveBegin, Begin, Goto
<1>4. ASSUME NEW t \in Task, AddFind(t) PROVE Traces'
  <2>1. On(map') = On(map) \cup {arg[t]}
    BY <1>4, FindOn
  <2> QED BY <1>0, <1>4, <2>1 DEF AddFind, Goto
<1>5. ASSUME NEW t \in Task, AddCount(t) PROVE Traces'
  <2>1. On(map') = On(map)
    BY <1>5, CountOn
  <2> QED BY <1>0, <1>5, <2>1 DEF AddCount, Goto, history
<1>6. ASSUME NEW t \in Task, WriteOpen(t) \/ WriteRefused(t) PROVE Traces'
  BY <1>0, <1>6 DEF WriteOpen, WriteRefused, Done, Goto, history
<1>8. ASSUME NEW t \in Task, Snap(t) PROVE Traces'
  BY <1>0, <1>8 DEF Snap, Goto
<1>9. ASSUME NEW t \in Task, CloseAdded(t) PROVE Traces'
  BY <1>0, <1>9 DEF CloseAdded, Done, Goto
<1>10. CASE CloseErased("loop")
  BY <1>0, <1>10 DEF CloseErased, Done, Goto
<1>11. CASE Log
  BY <1>0, <1>11 DEF Log, Done, Goto
<1>13. CASE saveRemovalReason
  BY <1>0, <1>13 DEF saveRemovalReason, Goto, history
<1>14. CASE Erase
  <2>1. On(map') = On(map) \ {arg["loop"]}
    BY <1>14, EraseOn
  <2> QED BY <1>0, <1>14, <2>1 DEF Erase, Goto
<1>15. CASE ClearMap
  BY <1>0, <1>15 DEF ClearMap, Begin, Goto
<1>16. CASE ClearFiles \/ ClearRefused
  BY <1>0, <1>16 DEF ClearFiles, ClearRefused, Done, Goto
<1>18. CASE Reboot
  BY <1>0, <1>a, <1>18 DEF Reboot
<1>19. CASE UNCHANGED vars
  BY <1>19 DEF vars, state, history
<1> QED BY <1>1, <1>2, <1>3, <1>4, <1>5, <1>6, <1>8, <1>9, <1>10, <1>11, <1>13, <1>14,
           <1>15, <1>16, <1>18, <1>19
        DEF Next, addOrUpdateDetector, removeDetector, clearDetectorList

\* A detector in the list file was reported as discovered, or is about to be, but for
\* the excused.
THEOREM DiscoveriesAreLogged == Spec => []DiscoveryLogged
<1>1. Traces => DiscoveryLogged
  BY DEF Traces, Reported, DiscoveryLogged
<1> QED BY <1>1, InitBase, NextBase, InitTraces, NextTraces, PTL DEF Spec

Explained ==
  /\ ReasonBeforeErase
  /\ pc["loop"] \in {"erase", "wantErased", "snapErased", "closeErased"} =>
       reasons[arg["loop"]] > 0 \/ arg["loop"] \in unexplained

LEMMA InitExplained == Init => Explained
BY DEF Init, Explained, ReasonBeforeErase, Task

LEMMA NextExplained == Base /\ Explained /\ [Next]_vars => Explained'
<1> SUFFICES ASSUME Base, Explained, [Next]_vars PROVE Explained'
  OBVIOUS
<1> USE DEF Explained, ReasonBeforeErase, Task
<1>0. /\ pc \in [Task -> Pc] /\ arg \in [Task -> Addr \cup {NoAddr}] /\ reasons \in [Addr -> Nat]
      /\ gone \subseteq Addr
      /\ pc["usb"] \in {"idle", "find", "count", "want", "snap", "close", "log"}
      /\ (pc["loop"] \notin {"idle", "wipe"} => arg["loop"] \in Addr)
  BY DEF Base, TypeOK, Places
<1>1. CASE initDetectorStorage
  BY <1>1 DEF initDetectorStorage, removals
<1>2. ASSUME NEW a \in Addr, Sight(a) \/ ManualAdd(a) \/ RemoveBegin(a) PROVE Explained'
  BY <1>0, <1>2 DEF Sight, ManualAdd, RemoveBegin, Begin, Goto, removals
<1>4. ASSUME NEW t \in Task, AddFind(t) \/ AddCount(t) PROVE Explained'
  BY <1>0, <1>4 DEF AddFind, AddCount, Goto, removals, history
<1>6. ASSUME NEW t \in Task, WriteOpen(t) \/ WriteRefused(t) PROVE Explained'
  BY <1>0, <1>6 DEF WriteOpen, WriteRefused, Done, Goto, removals, history
<1>8. ASSUME NEW t \in Task, Snap(t) \/ CloseAdded(t) PROVE Explained'
  BY <1>0, <1>8 DEF Snap, CloseAdded, Done, Goto, removals
<1>10. CASE CloseErased("loop")
  BY <1>0, <1>10 DEF CloseErased, Done, Goto, removals
<1>11. CASE Log
  BY <1>0, <1>11 DEF Log, Done, Goto, removals
<1>13. CASE saveRemovalReason
  BY <1>0, <1>13 DEF saveRemovalReason, Goto, history
<1>14. CASE Erase
  BY <1>0, <1>14 DEF Erase, Goto, removals
<1>15. CASE ClearMap
  BY <1>0, <1>15 DEF ClearMap, Begin, Goto, removals
<1>16. CASE ClearFiles \/ ClearRefused
  BY <1>0, <1>16 DEF ClearFiles, ClearRefused, Done, Goto, removals
<1>18. CASE Reboot
  BY <1>0, <1>18 DEF Reboot, removals
<1>19. CASE UNCHANGED vars
  BY <1>19 DEF vars, state, history, removals
<1> QED BY <1>1, <1>2, <1>4, <1>6, <1>8, <1>10, <1>11, <1>13, <1>14,
           <1>15, <1>16, <1>18, <1>19
        DEF Next, addOrUpdateDetector, removeDetector, clearDetectorList

\* A detector that was removed has its reason on the card, unless the card refused it
\* or a clear wiped the reasons.
THEOREM RemovalsAreExplained == Spec => []ReasonBeforeErase
<1>1. Explained => ReasonBeforeErase
  BY DEF Explained
<1> QED BY <1>1, InitBase, NextBase, InitExplained, NextExplained, PTL DEF Spec

==============================================================================
