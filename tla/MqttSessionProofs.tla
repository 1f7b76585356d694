-------------------------- MODULE MqttSessionProofs --------------------------
(***************************************************************************)
(* Theorems about MqttSession, for any commands, ring and number of        *)
(* faults.  A mail is undisturbed, but by what was under way, because both *)
(* layers above the socket were told of the end of the session and only a  *)
(* holder of the bus can make another: the inductive SessionInv says so    *)
(* for every place of a mail's section.  Commands keep their order because *)
(* the ring is empty whenever a packet is read.                            *)
(***************************************************************************)
EXTENDS MqttSession, SequenceTheorems, TLAPS

------------------------------------------------------------------------------
(* The bus and the places *)

\* What a section and a place are, task by task.
LEMMA Sections ==
  /\ \A q : q \in Section["loop"] <=> q \in {"close", "dial", "online"}
  /\ \A q : q \in Section["mail"] <=> q \in {"close", "dial", "online", "disconnect", "connect", "talk", "hangup", "fail"}
  /\ \A q : q \in Section["mon"] <=> q = "reset"
BY DEF Section, Task

\* The places of loop() outside of mqttReconnect's section.
Looping == {"top", "want", "read", "drain", "beat", "beatWrite", "pong", "pongWrite", "restart",
            "topDown", "topDrop", "topStop", "topShut", "pongDown", "pongDrop", "pongStop", "pongShut"}

LEMMA Sites ==
  /\ Down["top"] = "topDown" /\ Drop["top"] = "topDrop" /\ Stop["top"] = "topStop" /\ Shut["top"] = "topShut"
  /\ Down["pong"] = "pongDown" /\ Drop["pong"] = "pongDrop" /\ Stop["pong"] = "pongStop" /\ Shut["pong"] = "pongShut"
  /\ Asks["top"] = {"top", "beat"} /\ Asks["pong"] = {"pong"}
BY DEF Down, Drop, Stop, Shut, Asks

LEMMA Places ==
  /\ \A q : q \in Place["loop"] <=> q \in {"close", "dial", "online"} \cup Looping
  /\ \A q : q \in Place["mail"] <=>
       q \in {"close", "dial", "online", "disconnect", "connect", "talk", "hangup", "fail",
              "idle", "want", "leave", "left"}
  /\ \A q : q \in Place["mon"] <=> q \in {"reset", "idle", "lost"}
<1>1. \A q : q \in UNION {{Down[at], Drop[at], Stop[at], Shut[at]} : at \in Site} <=>
         q \in {"topDown", "topDrop", "topStop", "topShut", "pongDown", "pongDrop", "pongStop", "pongShut"}
  BY Sites DEF Site
<1>2. \A q : q \in Place["loop"] <=>
         \/ q \in Section["loop"]
         \/ q \in {"top", "want", "read", "drain", "beat", "beatWrite", "pong", "pongWrite", "restart"}
         \/ q \in UNION {{Down[at], Drop[at], Stop[at], Shut[at]} : at \in Site}
  BY DEF Place, Task
<1>3. \A q : q \in Place["mail"] <=> q \in Section["mail"] \/ q \in {"idle", "want", "leave", "left"}
  BY DEF Place, Task
<1>4. \A q : q \in Place["mon"] <=> q \in Section["mon"] \/ q \in {"idle", "lost"}
  BY DEF Place, Task
<1>5. \A q : q \in Place["loop"] <=> q \in {"close", "dial", "online"} \cup Looping
  BY <1>1, <1>2, Sections DEF Looping
<1> QED
  BY <1>3, <1>4, <1>5, Sections

LEMMA UnderwayAt ==
  /\ Underway <=> pc["loop"] \in {"beatWrite", "pongWrite", "topStop", "topShut", "pongStop", "pongShut"}
  /\ Underway' <=> pc'["loop"] \in {"beatWrite", "pongWrite", "topStop", "topShut", "pongStop", "pongShut"}
BY Sites DEF Underway, Site

\* Where the tasks are after one of them has moved.
LEMMA Moved ==
  ASSUME Placed, NEW p \in Task, NEW q \in Place[p], Goto(p, q)
  PROVE  /\ pc' \in [Task -> UNION {Place[r] : r \in Task}]
         /\ pc'[p] = q /\ \A r \in Task \ {p} : pc'[r] = pc[r]
<1>1. q \in UNION {Place[r] : r \in Task}
  OBVIOUS
<1> QED
  BY <1>1 DEF Placed, Goto

\* A move within a section, or outside of all.
LEMMA Stays ==
  ASSUME Placed, NEW p \in Task, NEW q \in Place[p], Goto(p, q), bus' = bus,
         q \in Section[p] <=> pc[p] \in Section[p]
  PROVE  Placed'
<1>1. /\ pc' \in [Task -> UNION {Place[r] : r \in Task}]
      /\ pc'[p] = q /\ \A r \in Task \ {p} : pc'[r] = pc[r]
  BY Moved
<1>2. \A r \in Task \ {p} : pc'[r] \in Place[r] /\ (pc'[r] \in Section[r] <=> bus = r)
  BY <1>1 DEF Placed
<1>3. pc'[p] \in Place[p] /\ (pc'[p] \in Section[p] <=> bus = p)
  BY <1>1 DEF Placed
<1> QED
  BY <1>1, <1>2, <1>3 DEF Placed

\* A section begins.
LEMMA Enters ==
  ASSUME Placed, NEW p \in Task, NEW q \in Place[p], Take(p, q),
         q \in Section[p]
  PROVE  Placed'
<1>1. Goto(p, q) /\ bus = "free" /\ bus' = p
  BY DEF Take
<1>2. \A r \in Task : pc'[r] \in Place[r] /\ (pc'[r] \in Section[r] <=> bus' = r)
  BY <1>1, Moved DEF Placed, Task
<1> QED
  BY <1>1, <1>2, Moved DEF Placed

\* A section ends.
LEMMA Leaves ==
  ASSUME Placed, NEW p \in Task, NEW q \in Place[p], Give(p, q),
         pc[p] \in Section[p], q \notin Section[p]
  PROVE  Placed'
<1>1. Goto(p, q) /\ bus = p /\ bus' = "free"
  BY DEF Give, Placed
<1>2. \A r \in Task : pc'[r] \in Place[r] /\ (pc'[r] \in Section[r] <=> bus' = r)
  BY <1>1, Moved DEF Placed, Task
<1> QED
  BY <1>1, <1>2, Moved DEF Placed

------------------------------------------------------------------------------
(* The invariant *)

\* The part of a mail's section in which the session has been ended.
Mailing == {"connect", "talk", "hangup", "fail"}

\* Both layers know, and no publish or stop has passed its check since.
Ended == pc["mail"] \in Mailing => ~tls /\ ~mq /\ (Underway => crossed)

OnMail == sock = "smtp" => pc["mail"] \in {"talk", "hangup"}
Within == disturbed => crossed /\ pc["mail"] \in Mailing

Apart == Ended /\ OnMail /\ Within /\ StatusHonest

SessionInv == TypeOK /\ Apart

\* The places that the holder of the bus can be at, and nobody else.
LEMMA Holding ==
  ASSUME Placed
  PROVE  /\ pc["loop"] \in {"close", "dial", "online"} <=> bus = "loop"
         /\ pc["mail"] \in {"close", "dial", "online", "disconnect", "connect", "talk", "hangup", "fail"}
              <=> bus = "mail"
         /\ pc["mon"] = "reset" <=> bus = "mon"
BY Sections DEF Placed, Task

\* A step that changes no data.
LEMMA Quiet ==
  ASSUME SessionInv, UNCHANGED <<net, far, cmds, hist>>
  PROVE  NetOK' /\ CmdOK' /\ HistOK'
BY DEF SessionInv, TypeOK, net, far, cmds, hist, NetOK, CmdOK, HistOK

LEMMA InvInit == Init => SessionInv
<1> SUFFICES ASSUME Init PROVE SessionInv
  OBVIOUS
<1>1. Placed
  <2>1. Start["loop"] = "top" /\ Start["mail"] = "idle" /\ Start["mon"] = "idle"
    BY DEF Start, Task
  <2>2. \A p \in Task : Start[p] \in Place[p] /\ Start[p] \notin Section[p]
    BY <2>1, Sections, Places DEF Task, Looping
  <2>3. Start \in [Task -> UNION {Place[p] : p \in Task}]
    BY <2>2 DEF Start
  <2> QED
    BY <2>2, <2>3 DEF Init, Placed, Task
<1>2. NetOK
  BY DEF Init, NetOK
<1>3. CmdOK
  <2>1. Len(KindOf) \in Nat /\ 0 < RingSize
    BY BoundAssumption, CommandAssumption
  <2> QED
    BY <2>1 DEF Init, CmdOK
<1>4. HistOK
  <2>1. crossed \in BOOLEAN /\ disturbed \in BOOLEAN
    BY DEF Init
  <2>2. faults \in 0 .. MaxFault
    BY BoundAssumption DEF Init
  <2> QED
    BY <2>1, <2>2 DEF HistOK
<1>5. Apart
  BY DEF Apart, Init, Start, Task, Ended, OnMail, Within, StatusHonest, Mailing
<1> QED
  BY <1>1, <1>2, <1>3, <1>4, <1>5 DEF SessionInv, TypeOK

------------------------------------------------------------------------------
(* mqttReconnect keeps the invariant, whoever calls it *)

\* The commands on the wire are lost.
LEMMA Losing ==
  ASSUME CmdOK, LoseWire, UNCHANGED <<issued, ring, done>>
  PROVE  CmdOK'
<1>1. {wire[k] : k \in DOMAIN wire} \subseteq Cmd
  BY DEF CmdOK
<1>2. wire' \in Seq(Cmd)
  BY DEF LoseWire
<1> QED
  BY <1>1, <1>2 DEF CmdOK, LoseWire

\* What the end of a connection leaves of the session.
LEMMA Orphan ==
  \A s : /\ Orphaned(s) \notin {"live", "made"} /\ (Orphaned(s) = "none" => s = "none")
        /\ s \in {"none", "parted", "ghost", "made", "live"} => Orphaned(s) \in {"none", "parted", "ghost"}
BY DEF Orphaned

LEMMA StaysHonest ==
  ASSUME StatusHonest, sess' = Orphaned(sess), status' = status
  PROVE  StatusHonest'
<1>1. sess' # "live" /\ sess' # "made" /\ (sess' = "none" => sess = "none")
  BY DEF Orphaned
<1> QED
  BY <1>1 DEF StatusHonest

LEMMA InvReLock ==
  ASSUME SessionInv, NEW p \in {"loop", "mail"}, ReLock(p)
  PROVE  SessionInv'
<1>1. Placed /\ p \in Task /\ "close" \in Place[p] /\ "close" \in Section[p]
  BY Sections, Places DEF SessionInv, TypeOK, Task
<1>2. Placed'
  BY <1>1, Enters DEF ReLock
<1>3. pc'[p] = "close" /\ (\A r \in Task \ {p} : pc'[r] = pc[r]) /\ bus = "free" /\ bus' = p
  BY <1>1, Moved DEF ReLock, Take
<1>4. Apart'
  <2>1. CASE p = "loop"
    <3>1. pc'["mail"] = pc["mail"] /\ pc'["loop"] = "close"
      BY <1>3, <2>1 DEF Task
    <3>2. ~Underway'
      BY <3>1, UnderwayAt
    <3> QED
      BY <3>1, <3>2, <1>3, <2>1 DEF SessionInv, Apart, Ended, OnMail, Within, StatusHonest, ReLock, net, far, cmds, hist, Mailing
  <2>2. CASE p = "mail"
    <3>1. pc["mail"] = "want" /\ pc'["mail"] = "close"
      BY <1>3, <2>2 DEF ReLock
    <3> QED
      BY <3>1, <1>3, <2>2 DEF SessionInv, Apart, Ended, OnMail, Within, StatusHonest, ReLock, net, far, cmds, hist, Mailing
  <2> QED
    BY <2>1, <2>2
<1> QED
  BY <1>2, <1>4, Quiet DEF SessionInv, TypeOK, ReLock

\* Outside of those places nothing of the mail's is left.
LEMMA Alone ==
  ASSUME SessionInv, pc["mail"] \notin Mailing
  PROVE  sock # "smtp" /\ ~disturbed
BY DEF SessionInv, Apart, OnMail, Within, Mailing

LEMMA StaysAlone ==
  ASSUME pc'["mail"] \notin Mailing, sock' # "smtp", ~disturbed', StatusHonest'
  PROVE  Apart'
BY DEF Apart, Ended, OnMail, Within, Mailing

\* A task in its own section of mqttReconnect keeps every mail out.
LEMMA NoMail ==
  ASSUME SessionInv, NEW p \in {"loop", "mail"}, pc[p] \in {"close", "dial", "online"}
  PROVE  pc["mail"] \notin Mailing /\ bus = p
<1>1. Placed
  BY DEF SessionInv, TypeOK
<1> QED
  BY <1>1, Holding DEF Mailing

LEMMA InvReLate ==
  ASSUME SessionInv, NEW p \in {"loop", "mail"}, ReLate(p)
  PROVE  SessionInv'
<1>1. Placed /\ p \in Task /\ Home(p) \in Place[p] /\ Home(p) \notin Section[p] /\ "want" \notin Section[p]
  BY Sections, Places DEF SessionInv, TypeOK, Task, Home, Looping
<1>2. Goto(p, Home(p)) /\ bus' = bus /\ pc[p] = "want"
  BY DEF ReLate, Late
<1>3. Placed'
  BY <1>1, <1>2, Stays
<1>4. pc'[p] = Home(p) /\ \A r \in Task \ {p} : pc'[r] = pc[r]
  BY <1>1, <1>2, Moved
<1>5. Apart'
  <2>1. CASE p = "loop"
    <3>1. pc'["mail"] = pc["mail"] /\ pc'["loop"] = "top"
      BY <1>4, <2>1 DEF Task, Home
    <3>2. ~Underway'
      BY <3>1, UnderwayAt
    <3> QED
      BY <3>1, <3>2, <1>2 DEF SessionInv, Apart, Ended, OnMail, Within, StatusHonest, Mailing, ReLate, net, far, hist
  <2>2. CASE p = "mail"
    <3>1. pc["mail"] = "want" /\ pc'["mail"] = "leave"
      BY <1>2, <1>4, <2>2 DEF Home
    <3> QED
      BY <3>1, <1>2 DEF SessionInv, Apart, Ended, OnMail, Within, StatusHonest, Mailing, ReLate, net, far, hist
  <2> QED
    BY <2>1, <2>2
<1> QED
  BY <1>3, <1>5, Quiet DEF SessionInv, TypeOK, ReLate

LEMMA InvReClose ==
  ASSUME SessionInv, NEW p \in {"loop", "mail"}, ReClose(p)
  PROVE  SessionInv'
<1>1. Placed /\ p \in Task /\ "dial" \in Place[p] /\ "dial" \in Section[p] /\ pc[p] = "close" /\ "close" \in Section[p]
  BY Sections, Places DEF SessionInv, TypeOK, Task, ReClose
<1>2. Placed'
  BY <1>1, Stays DEF ReClose
<1>3. pc'[p] = "dial" /\ \A r \in Task \ {p} : pc'[r] = pc[r]
  BY <1>1, Moved DEF ReClose
<1>4. pc["mail"] \notin Mailing /\ pc'["mail"] \notin Mailing
  BY <1>1, <1>3, NoMail DEF Mailing, Task
<1>5. NetOK'
  BY Orphan DEF SessionInv, TypeOK, NetOK, ReClose, CloseSock
<1>6. CmdOK' /\ HistOK'
  BY Losing DEF SessionInv, TypeOK, HistOK, ReClose, CloseSock, hist
<1>7. StatusHonest'
  BY StaysHonest DEF SessionInv, Apart, ReClose, CloseSock
<1>8. Apart'
  BY <1>4, <1>7, Alone, StaysAlone DEF ReClose, CloseSock, hist
<1> QED
  BY <1>2, <1>5, <1>6, <1>8 DEF SessionInv, TypeOK

LEMMA InvDialOk ==
  ASSUME SessionInv, NEW p \in {"loop", "mail"}, DialOk(p)
  PROVE  SessionInv'
<1>1. Placed /\ p \in Task /\ "online" \in Place[p] /\ "online" \in Section[p] /\ pc[p] = "dial" /\ "dial" \in Section[p]
  BY Sections, Places DEF SessionInv, TypeOK, Task, DialOk
<1>2. Placed'
  BY <1>1, Stays DEF DialOk
<1>3. pc'[p] = "online" /\ \A r \in Task \ {p} : pc'[r] = pc[r]
  BY <1>1, Moved DEF DialOk
<1>4. pc["mail"] \notin Mailing /\ pc'["mail"] \notin Mailing /\ bus = p
  BY <1>1, <1>3, NoMail DEF Mailing, Task
<1>5. NetOK'
  BY DEF SessionInv, TypeOK, NetOK, DialOk
<1>6. CmdOK' /\ HistOK'
  BY DEF SessionInv, TypeOK, CmdOK, HistOK, DialOk, cmds, hist
<1>7. StatusHonest'
  BY <1>4 DEF SessionInv, Apart, StatusHonest, DialOk
<1>8. Apart'
  BY <1>4, <1>7, Alone, StaysAlone DEF DialOk, hist
<1> QED
  BY <1>2, <1>5, <1>6, <1>8 DEF SessionInv, TypeOK

LEMMA InvDialFails ==
  ASSUME SessionInv, NEW p \in {"loop", "mail"}, DialFails(p)
  PROVE  SessionInv'
<1>1. Placed /\ p \in Task /\ Home(p) \in Place[p] /\ Home(p) \notin Section[p] /\ pc[p] = "dial" /\ "dial" \in Section[p]
  BY Sections, Places DEF SessionInv, TypeOK, Task, DialFails, Home, Looping
<1>2. Placed'
  BY <1>1, Leaves DEF DialFails
<1>3. pc'[p] = Home(p) /\ \A r \in Task \ {p} : pc'[r] = pc[r]
  BY <1>1, Moved DEF DialFails, Give
<1>4. pc["mail"] \notin Mailing /\ pc'["mail"] \notin Mailing
  BY <1>1, <1>3, NoMail DEF Mailing, Task, Home
<1>5. NetOK'
  BY DEF SessionInv, TypeOK, NetOK, DialFails, far
<1>6. CmdOK' /\ HistOK'
  BY DEF SessionInv, TypeOK, CmdOK, HistOK, DialFails, cmds, hist
<1>7. StatusHonest'
  BY DEF SessionInv, Apart, StatusHonest, DialFails, far
<1>8. Apart'
  BY <1>4, <1>7, Alone, StaysAlone DEF DialFails, hist
<1> QED
  BY <1>2, <1>5, <1>6, <1>8 DEF SessionInv, TypeOK

LEMMA InvOnline ==
  ASSUME SessionInv, NEW p \in {"loop", "mail"}, Online(p)
  PROVE  SessionInv'
<1>1. Placed /\ p \in Task /\ Home(p) \in Place[p] /\ Home(p) \notin Section[p] /\ pc[p] = "online" /\ "online" \in Section[p]
  BY Sections, Places DEF SessionInv, TypeOK, Task, Online, Home, Looping
<1>2. Placed'
  BY <1>1, Leaves DEF Online
<1>3. pc'[p] = Home(p) /\ \A r \in Task \ {p} : pc'[r] = pc[r]
  BY <1>1, Moved DEF Online, Give
<1>4. pc["mail"] \notin Mailing /\ pc'["mail"] \notin Mailing
  BY <1>1, <1>3, NoMail DEF Mailing, Task, Home
<1>5. NetOK'
  BY DEF SessionInv, TypeOK, NetOK, Online, net, far
<1>6. CmdOK' /\ HistOK'
  BY DEF SessionInv, TypeOK, CmdOK, HistOK, Online, cmds, hist
<1>7. StatusHonest'
  BY DEF SessionInv, Apart, StatusHonest, Online, net, far
<1>8. Apart'
  BY <1>4, <1>7, Alone, StaysAlone DEF Online, net, hist
<1> QED
  BY <1>2, <1>5, <1>6, <1>8 DEF SessionInv, TypeOK

LEMMA InvReconnect ==
  ASSUME SessionInv, NEW p \in {"loop", "mail"}, mqttReconnect(p)
  PROVE  SessionInv'
BY InvReLock, InvReLate, InvReClose, InvDialOk, InvDialFails, InvOnline DEF mqttReconnect

------------------------------------------------------------------------------
(* loop() keeps it *)

LEMMA LoopMoves ==
  ASSUME SessionInv, NEW q \in Looping, pc["loop"] \in Looping, Goto("loop", q), bus' = bus
  PROVE  Placed' /\ pc'["loop"] = q /\ pc'["mail"] = pc["mail"]
<1>1. Placed /\ "loop" \in Task /\ q \in Place["loop"] /\ q \notin Section["loop"] /\ pc["loop"] \notin Section["loop"]
  BY Sections, Places DEF SessionInv, TypeOK, Task, Looping
<1>2. Placed'
  BY <1>1, Stays
<1>3. pc'["loop"] = q /\ \A r \in Task \ {"loop"} : pc'[r] = pc[r]
  BY <1>1, Moved
<1> QED
  BY <1>2, <1>3 DEF Task

\* A step that gives neither layer a session nor the socket a connection, passes a check
\* only where that layer has a session, and disturbs a mail only past one.
LEMMA LoopSteps ==
  ASSUME SessionInv, NEW q \in Looping, pc["loop"] \in Looping, Goto("loop", q), bus' = bus,
         NetOK', CmdOK', HistOK', StatusHonest', tls' => tls, mq' => mq, crossed' = crossed,
         sock' = "smtp" => sock = "smtp",
         q \in {"beatWrite", "pongWrite", "topStop", "topShut", "pongStop", "pongShut"}
           => Underway \/ mq \/ tls,
         disturbed' => disturbed \/ (sock = "smtp" /\ Underway)
  PROVE  SessionInv'
<1>1. Placed' /\ pc'["loop"] = q /\ pc'["mail"] = pc["mail"]
  BY LoopMoves
<1>2. Ended'
  BY <1>1, UnderwayAt DEF SessionInv, Apart, Ended
<1>3. OnMail'
  BY <1>1 DEF SessionInv, Apart, OnMail
<1>4. Within'
  BY <1>1 DEF SessionInv, Apart, Ended, OnMail, Within, Mailing
<1> QED
  BY <1>1, <1>2, <1>3, <1>4 DEF SessionInv, TypeOK, Apart

\* A move that changes no data.
LEMMA LoopQuiet ==
  ASSUME SessionInv, NEW q \in Looping, pc["loop"] \in Looping, Goto("loop", q), bus' = bus,
         q \in {"beatWrite", "pongWrite", "topStop", "topShut", "pongStop", "pongShut"} => mq \/ tls,
         UNCHANGED <<net, far, cmds, hist>>
  PROVE  SessionInv'
<1>1. StatusHonest'
  BY DEF SessionInv, Apart, StatusHonest, net, far
<1> QED
  BY <1>1, Quiet, LoopSteps DEF net, hist

LEMMA InvLooks ==
  ASSUME SessionInv, LoopFindsDown \/ LoopFindsUp \/ LoopReadsNothing \/ LoopDrained
  PROVE  SessionInv'
<1>1. /\ pc["loop"] \in Looping /\ bus' = bus /\ UNCHANGED <<net, far, cmds, hist>>
      /\ \E q \in {"top", "want", "read", "drain", "beat"} : Goto("loop", q)
  BY DEF LoopFindsDown, LoopFindsUp, LoopReadsNothing, LoopDrained, Back, Looping
<1> QED
  BY <1>1, LoopQuiet DEF Looping

\* Where a lost session leaves loop() to go on.
LEMMA Backs ==
  ASSUME NEW at \in Site, Back(at)
  PROVE  \E q \in {"top", "drain", "want"} : Goto("loop", q)
BY DEF Back, Site

\* The look at the socket and at the client's own state, and the look at _secure.
LEMMA InvFinds ==
  ASSUME SessionInv, NEW at \in Site, FindsDown(at) \/ Stopping(at)
  PROVE  SessionInv'
<1>1. pc["loop"] \in Looping /\ bus' = bus /\ UNCHANGED <<net, far, cmds, hist>>
  BY Sites DEF FindsDown, Stopping, Looping, Site
<1>2. \/ \E q \in {"top", "drain", "want", "topDown", "pongDown"} : Goto("loop", q)
      \/ tls /\ \E q \in {"topStop", "pongStop"} : Goto("loop", q)
  BY Sites, Backs DEF FindsDown, Stopping, Site
<1> QED
  BY <1>1, <1>2, LoopQuiet DEF Looping

LEMMA InvDropping ==
  ASSUME SessionInv, NEW at \in Site, Dropping(at)
  PROVE  SessionInv'
<1>1. pc["loop"] \in Looping
  BY Sites DEF Dropping, Looping, Site
<1>2. PICK q \in {"top", "drain", "want", "topDrop", "pongDrop"} : Goto("loop", q)
  <2>1. CASE mq
    BY <2>1, Sites DEF Dropping, Site
  <2>2. CASE ~mq
    BY <2>2, Backs DEF Dropping
  <2> QED
    BY <2>1, <2>2
<1>3. NetOK' /\ StatusHonest'
  BY DEF SessionInv, TypeOK, Apart, NetOK, StatusHonest, Dropping, far
<1>4. CmdOK' /\ HistOK'
  BY DEF SessionInv, TypeOK, CmdOK, HistOK, Dropping, cmds, hist
<1> QED
  BY <1>1, <1>2, <1>3, <1>4, LoopSteps DEF Dropping, Looping, hist

\* The two halves of EthernetClient::stop, which a mail's conversation may fall victim to.
LEMMA InvStop ==
  ASSUME SessionInv, NEW at \in Site, Stopped(at) \/ Dropped(at)
  PROVE  SessionInv'
<1>1. pc["loop"] \in {Stop[at], Shut[at]} /\ pc["loop"] \in Looping /\ Underway
  BY Sites, UnderwayAt DEF Stopped, Dropped, Looping, Site
<1>2. /\ sock' \in {sock, "none", "dead"} /\ (tls' = tls \/ tls' = FALSE)
      /\ disturbed' = (disturbed \/ sock = "smtp")
      /\ UNCHANGED <<bus, ip, mq, armed, status, issued, ring, done, crossed, faults>>
  BY DEF Stopped, Dropped, FinishSock, CloseSock
<1>3. UNCHANGED <<sock, sess, wire, cut>> \/ (sess' = Orphaned(sess) /\ LoseWire)
  BY DEF Stopped, Dropped, FinishSock, CloseSock
<1>4. PICK q \in {"top", "drain", "want", "topShut", "pongShut"} : Goto("loop", q)
  BY Sites, Backs DEF Stopped, Dropped, Site
<1>5. NetOK' /\ HistOK'
  BY <1>2, <1>3, Orphan DEF SessionInv, TypeOK, NetOK, HistOK
<1>6. CmdOK'
  <2>1. CASE UNCHANGED <<sock, sess, wire, cut>>
    BY <1>2, <2>1 DEF SessionInv, TypeOK, CmdOK
  <2>2. CASE LoseWire
    BY <1>2, <2>2, Losing DEF SessionInv, TypeOK
  <2> QED
    BY <1>3, <2>1, <2>2
<1>7. StatusHonest'
  <2>1. CASE UNCHANGED <<sock, sess, wire, cut>>
    BY <1>2, <2>1 DEF SessionInv, Apart, StatusHonest
  <2>2. CASE sess' = Orphaned(sess)
    BY <1>2, <2>2, StaysHonest DEF SessionInv, Apart
  <2> QED
    BY <1>3, <2>1, <2>2
<1>8. /\ mq' = mq /\ crossed' = crossed /\ bus' = bus
      /\ sock' = "smtp" => sock = "smtp"
  BY <1>2
<1>9. tls' => tls
  BY <1>2, Zenon
<1>10. disturbed' => disturbed \/ (sock = "smtp" /\ Underway)
  BY <1>1, <1>2, Zenon
<1>11. q \in Looping
  BY DEF Looping
<1> QED
  BY <1>1, <1>4, <1>5, <1>6, <1>7, <1>8, <1>9, <1>10, <1>11, LoopSteps

LEMMA InvFindsDead ==
  ASSUME SessionInv, NEW at \in Site, FindsDead(at)
  PROVE  SessionInv'
BY InvFinds, InvDropping, InvStop DEF FindsDead

LEMMA InvLoopReads == SessionInv /\ LoopReads => SessionInv'
<1> SUFFICES ASSUME SessionInv, LoopReads PROVE SessionInv'
  OBVIOUS
<1>1. "drain" \in Looping /\ pc["loop"] \in Looping
  BY DEF LoopReads, Looping
<1>2. NetOK' /\ HistOK' /\ StatusHonest'
  BY DEF SessionInv, TypeOK, Apart, NetOK, HistOK, StatusHonest, LoopReads, net, far, hist
<1>3. CmdOK'
  <2>1. wire \in Seq(Cmd) /\ wire # <<>> /\ ring \in Seq(Cmd)
    BY DEF SessionInv, TypeOK, CmdOK, LoopReads
  <2>2. wire' \in Seq(Cmd) /\ Head(wire) \in Cmd
    BY <2>1 DEF LoopReads
  <2>3. ring' \in Seq(Cmd) /\ Len(ring') < RingSize
    <3>1. CASE Full
      BY <2>1, <3>1 DEF LoopReads, SessionInv, TypeOK, CmdOK
    <3>2. CASE ~Full
      BY <2>1, <2>2, <3>2, BoundAssumption DEF LoopReads, Full
    <3> QED
      BY <3>1, <3>2
  <2> QED
    BY <2>2, <2>3 DEF SessionInv, TypeOK, CmdOK, LoopReads
<1> QED
  BY <1>1, <1>2, <1>3, LoopSteps DEF LoopReads, net, hist

\* mqtt.loop stops the client under the bus, where no mail is.
LEMMA InvLoopExpires == SessionInv /\ LoopExpires => SessionInv'
<1> SUFFICES ASSUME SessionInv, LoopExpires PROVE SessionInv'
  OBVIOUS
<1>1. "drain" \in Looping /\ pc["loop"] \in Looping
  BY DEF LoopExpires, Looping
<1>2. UNCHANGED <<sock, sess, wire, cut>> \/ (sock' = "none" /\ sess' = Orphaned(sess) /\ LoseWire)
  BY DEF LoopExpires, StopTls, CloseSock
<1>3. NetOK' /\ HistOK'
  BY <1>2, Orphan DEF SessionInv, TypeOK, NetOK, HistOK, LoopExpires, StopTls, hist
<1>4. CmdOK'
  <2>1. CASE UNCHANGED <<sock, sess, wire, cut>>
    BY <2>1 DEF SessionInv, TypeOK, CmdOK, LoopExpires
  <2>2. CASE LoseWire
    BY <2>2, Losing DEF SessionInv, TypeOK, LoopExpires
  <2> QED
    BY <1>2, <2>1, <2>2
<1>5. StatusHonest'
  <2>1. CASE UNCHANGED <<sock, sess, wire, cut>>
    BY <2>1 DEF SessionInv, Apart, StatusHonest, LoopExpires
  <2>2. CASE sess' = Orphaned(sess)
    BY <2>2, StaysHonest DEF SessionInv, Apart, LoopExpires
  <2> QED
    BY <1>2, <2>1, <2>2
<1> QED
  BY <1>1, <1>2, <1>3, <1>4, <1>5, LoopSteps DEF LoopExpires, StopTls, hist

LEMMA InvLoopWorks == SessionInv /\ LoopWorks => SessionInv'
<1> SUFFICES ASSUME SessionInv, LoopWorks PROVE SessionInv'
  OBVIOUS
<1> DEFINE next == [ping |-> "pong", reboot |-> "restart", other |-> "drain"][KindOf[Head(ring)]]
<1>1. ring \in Seq(Cmd) /\ ring # <<>> /\ done \in Seq(Cmd)
  BY DEF SessionInv, TypeOK, CmdOK, LoopWorks
<1>2. Head(ring) \in Cmd /\ ring' \in Seq(Cmd) /\ Len(ring') < Len(ring) /\ done' \in Seq(Cmd)
  BY <1>1 DEF LoopWorks
<1>3. KindOf[Head(ring)] \in Kind
  BY <1>2, CommandAssumption DEF Cmd
<1>4. next \in {"pong", "restart", "drain"}
  BY <1>3 DEF Kind
<1>5. Goto("loop", next) /\ bus' = bus /\ pc["loop"] \in Looping
  BY DEF LoopWorks, Looping
<1>6. CmdOK'
  BY <1>1, <1>2, BoundAssumption DEF SessionInv, TypeOK, CmdOK, LoopWorks
<1>7. NetOK' /\ HistOK' /\ StatusHonest'
  BY DEF SessionInv, TypeOK, Apart, NetOK, HistOK, StatusHonest, LoopWorks, net, far, hist
<1> HIDE DEF next
<1>8. next \in Looping
  BY <1>4 DEF Looping
<1> QED
  BY <1>4, <1>5, <1>6, <1>7, <1>8, LoopSteps DEF LoopWorks, net, hist

\* A write that slips into a mail had passed its check before.
LEMMA InvPublish ==
  ASSUME SessionInv, Publish("beat", "beatWrite", "top") \/ Publish("pong", "pongWrite", "drain")
  PROVE  SessionInv'
<1>1. ASSUME NEW from \in {"beat", "pong"}, NEW write \in {"beatWrite", "pongWrite"}, NEW next \in {"top", "drain"},
             PublishChecks(from, write, next)
      PROVE  SessionInv'
  <2>1. CASE mq
    BY <1>1, <2>1, LoopQuiet DEF PublishChecks, Looping
  <2>2. CASE ~mq
    BY <1>1, <2>2, LoopQuiet DEF PublishChecks, Looping
  <2> QED
    BY <2>1, <2>2
<1>2. ASSUME NEW write \in {"beatWrite", "pongWrite"}, NEW next \in {"top", "drain"}, PublishWrites(write, next)
      PROVE  SessionInv'
  <2>1. Underway /\ pc["loop"] \in Looping /\ next \in Looping
    BY <1>2, UnderwayAt DEF PublishWrites, Looping
  <2>2. NetOK' /\ CmdOK' /\ HistOK' /\ StatusHonest'
    BY <1>2 DEF SessionInv, TypeOK, Apart, NetOK, CmdOK, HistOK, StatusHonest, PublishWrites, net, far, cmds
  <2> QED
    BY <1>2, <2>1, <2>2, LoopSteps DEF PublishWrites, net
<1> QED
  BY <1>1, <1>2 DEF Publish

LEMMA InvLoop == SessionInv /\ mqttLoop => SessionInv'
BY InvReconnect, InvLooks, InvFindsDead, InvLoopReads, InvLoopExpires, InvLoopWorks, InvPublish DEF mqttLoop, Site

------------------------------------------------------------------------------
(* emailTask keeps it *)

\* A step of emailTask within its section, or outside of it.
LEMMA MailMoves ==
  ASSUME SessionInv, NEW q \in {"connect", "talk", "hangup", "fail", "idle", "left"}, Goto("mail", q), bus' = bus,
         pc["mail"] \in {"disconnect", "connect", "talk", "leave", "left"},
         pc["mail"] \in {"leave", "left"} <=> q \in {"idle", "left"}
  PROVE  Placed' /\ pc'["mail"] = q /\ pc'["loop"] = pc["loop"]
<1>1. Placed /\ "mail" \in Task /\ q \in Place["mail"] /\ (q \in Section["mail"] <=> pc["mail"] \in Section["mail"])
  BY Sections, Places DEF SessionInv, TypeOK, Task
<1>2. Placed'
  BY <1>1, Stays
<1>3. pc'["mail"] = q /\ \A r \in Task \ {"mail"} : pc'[r] = pc[r]
  BY <1>1, Moved
<1> QED
  BY <1>2, <1>3 DEF Task

LEMMA InvMailLock == SessionInv /\ MailLock => SessionInv'
<1> SUFFICES ASSUME SessionInv, MailLock PROVE SessionInv'
  OBVIOUS
<1>1. Placed /\ "mail" \in Task /\ "disconnect" \in Place["mail"] /\ "disconnect" \in Section["mail"]
  BY Sections, Places DEF SessionInv, TypeOK, Task
<1>2. Placed'
  BY <1>1, Enters DEF MailLock
<1>3. pc'["mail"] = "disconnect" /\ pc["mail"] = "idle" /\ bus = "free"
  BY <1>1, Moved DEF MailLock, Take
<1>4. Apart'
  BY <1>3 DEF SessionInv, Apart, Ended, OnMail, Within, StatusHonest, Mailing, MailLock, net, far, hist
<1> QED
  BY <1>2, <1>4, Quiet DEF SessionInv, TypeOK, MailLock

\* The session is ended in both layers, or was; what is under way in loop() is noted.
LEMMA InvMailDisconnect == SessionInv /\ MailDisconnect => SessionInv'
<1> SUFFICES ASSUME SessionInv, MailDisconnect PROVE SessionInv'
  OBVIOUS
<1>1. Placed' /\ pc'["mail"] = "connect" /\ pc'["loop"] = pc["loop"]
  BY MailMoves DEF MailDisconnect
<1>2. sock # "smtp" /\ ~disturbed
  BY Alone DEF MailDisconnect, Mailing
<1>3. NetOK' /\ sock' # "smtp"
  <2>1. CASE tls
    BY <1>2, <2>1, Orphan DEF SessionInv, TypeOK, NetOK, MailDisconnect
  <2>2. CASE ~tls
    BY <1>2, <2>2 DEF SessionInv, TypeOK, NetOK, MailDisconnect
  <2> QED
    BY <2>1, <2>2
<1>4. CmdOK'
  <2>1. CASE tls
    BY <2>1, Losing DEF SessionInv, TypeOK, MailDisconnect
  <2>2. CASE ~tls
    BY <2>2 DEF SessionInv, TypeOK, CmdOK, MailDisconnect
  <2> QED
    BY <2>1, <2>2
<1>5. HistOK'
  BY DEF SessionInv, TypeOK, HistOK, MailDisconnect, Underway
<1>6. StatusHonest'
  <2>1. CASE tls
    <3>1. sess' = "parted" \/ sess' = Orphaned(sess)
      BY <2>1 DEF MailDisconnect
    <3>2. sess' # "live" /\ sess' # "made" /\ (sess' = "none" => sess = "none") /\ status' = status
      BY <3>1 DEF MailDisconnect, Orphaned
    <3> QED
      BY <3>2 DEF SessionInv, Apart, StatusHonest
  <2>2. CASE ~tls
    BY <2>2 DEF SessionInv, Apart, StatusHonest, MailDisconnect
  <2> QED
    BY <2>1, <2>2
<1>7. Ended' /\ OnMail' /\ Within'
  BY <1>1, <1>2, <1>3, UnderwayAt DEF Ended, OnMail, Within, MailDisconnect
<1> QED
  BY <1>1, <1>3, <1>4, <1>5, <1>6, <1>7 DEF SessionInv, TypeOK, Apart

LEMMA InvMailConnects == SessionInv /\ MailConnects => SessionInv'
<1> SUFFICES ASSUME SessionInv, MailConnects PROVE SessionInv'
  OBVIOUS
<1>1. PICK q \in {"talk", "fail"} : Goto("mail", q) /\ sock' \in {"smtp", "none"} /\ (sock' = "smtp" => q = "talk")
  BY DEF MailConnects
<1>2. Placed' /\ pc'["mail"] = q /\ pc'["loop"] = pc["loop"]
  <2>1. pc["mail"] = "connect" /\ bus' = bus
    BY DEF MailConnects
  <2> QED
    BY <1>1, <2>1, MailMoves
<1>3. NetOK'
  BY <1>1, Orphan DEF SessionInv, TypeOK, NetOK, MailConnects
<1>4. CmdOK'
  BY Losing DEF SessionInv, TypeOK, MailConnects
<1>5. HistOK'
  BY DEF SessionInv, TypeOK, HistOK, MailConnects, hist
<1>6. StatusHonest'
  BY StaysHonest DEF SessionInv, Apart, MailConnects
<1>7. Ended' /\ OnMail' /\ Within'
  BY <1>1, <1>2, UnderwayAt DEF SessionInv, Apart, Ended, OnMail, Within, Mailing, MailConnects, hist
<1> QED
  BY <1>2, <1>3, <1>4, <1>5, <1>6, <1>7 DEF SessionInv, TypeOK, Apart

LEMMA InvMailTalks == SessionInv /\ (MailSent \/ MailBreaks) => SessionInv'
<1> SUFFICES ASSUME SessionInv, MailSent \/ MailBreaks PROVE SessionInv'
  OBVIOUS
<1>0. /\ pc["mail"] = "talk" /\ armed' \in BOOLEAN
      /\ UNCHANGED <<bus, ip, tls, mq, far, cmds, hist>>
  BY DEF MailSent, MailBreaks, SessionInv, TypeOK, NetOK
<1>1. PICK q \in {"hangup", "fail"} : Goto("mail", q) /\ sock' \in {"smtp", "none"} /\ (sock' = "smtp" => q = "hangup")
  BY DEF MailSent, MailBreaks
<1>2. Placed' /\ pc'["mail"] = q /\ pc'["loop"] = pc["loop"]
  <2>1. pc["mail"] = "talk" /\ bus' = bus
    BY <1>0
  <2> QED
    BY <1>1, <2>1, MailMoves
<1>3. NetOK'
  BY <1>0, <1>1 DEF SessionInv, TypeOK, NetOK, far
<1>4. CmdOK' /\ HistOK'
  BY <1>0 DEF SessionInv, TypeOK, CmdOK, HistOK, cmds, hist
<1>5. StatusHonest'
  <2>1. sess = "made" => bus \in {"loop", "mail"}
    BY <1>0, Holding DEF SessionInv, TypeOK
  <2> QED
    BY <1>0, <2>1 DEF SessionInv, Apart, StatusHonest, far
<1>6. Ended' /\ OnMail' /\ Within'
  BY <1>0, <1>1, <1>2, UnderwayAt DEF SessionInv, Apart, Ended, OnMail, Within, Mailing, hist
<1> QED
  BY <1>2, <1>3, <1>4, <1>5, <1>6 DEF SessionInv, TypeOK, Apart

LEMMA InvMailEnds == SessionInv /\ (MailHangsUp \/ MailFails) => SessionInv'
<1> SUFFICES ASSUME SessionInv, MailHangsUp \/ MailFails PROVE SessionInv'
  OBVIOUS
<1>0. /\ pc["mail"] \in {"hangup", "fail"} /\ CloseSock /\ crossed' = FALSE /\ disturbed' = FALSE
      /\ UNCHANGED <<ip, tls, mq, armed, status, issued, ring, done, faults>>
  BY DEF MailHangsUp, MailFails
<1>1. PICK q \in {"want", "idle"} : Give("mail", q)
  BY DEF MailHangsUp, MailFails
<1>2. Placed /\ "mail" \in Task /\ q \in Place["mail"] /\ q \notin Section["mail"] /\ pc["mail"] \in Section["mail"]
  BY <1>0, Sections, Places DEF SessionInv, TypeOK, Task
<1>3. Placed'
  BY <1>1, <1>2, Leaves
<1>4. pc'["mail"] = q
  BY <1>1, <1>2, Moved DEF Give
<1>5. NetOK' /\ sock' # "smtp"
  BY <1>0, Orphan DEF SessionInv, TypeOK, NetOK, CloseSock
<1>6. CmdOK'
  BY <1>0, Losing DEF SessionInv, TypeOK, CloseSock
<1>7. HistOK'
  BY <1>0 DEF SessionInv, TypeOK, HistOK
<1>8. StatusHonest'
  BY <1>0, StaysHonest DEF SessionInv, Apart, CloseSock
<1>9. Apart'
  BY <1>0, <1>4, <1>5, <1>8, StaysAlone DEF Mailing
<1> QED
  BY <1>3, <1>5, <1>6, <1>7, <1>9 DEF SessionInv, TypeOK

LEMMA InvMailLeaves == SessionInv /\ (MailLeaves \/ MailLeft) => SessionInv'
<1> SUFFICES ASSUME SessionInv, MailLeaves \/ MailLeft PROVE SessionInv'
  OBVIOUS
<1>1. /\ pc["mail"] \in {"leave", "left"} /\ sock' \in {sock, "dead", "none"} /\ armed' \in BOOLEAN
      /\ UNCHANGED <<bus, ip, tls, mq, status, issued, ring, done, hist>>
  BY DEF MailLeaves, MailLeft, FinishSock, CloseSock, SessionInv, TypeOK, NetOK
<1>2. UNCHANGED <<sess, wire, cut>> \/ (sess' = Orphaned(sess) /\ LoseWire /\ sock' # "mqtt")
  BY DEF MailLeaves, MailLeft, FinishSock, CloseSock
<1>3. PICK q \in {"left", "idle"} : Goto("mail", q)
  BY DEF MailLeaves, MailLeft
<1>4. Placed' /\ pc'["mail"] = q
  BY <1>1, <1>3, MailMoves
<1>5. sock # "smtp" /\ ~disturbed
  BY <1>1, Alone DEF Mailing
<1>6. NetOK'
  BY <1>1, <1>2, Orphan DEF SessionInv, TypeOK, NetOK
<1>7. CmdOK'
  <2>1. CASE UNCHANGED <<sess, wire, cut>>
    BY <1>1, <2>1 DEF SessionInv, TypeOK, CmdOK
  <2>2. CASE LoseWire
    BY <1>1, <2>2, Losing DEF SessionInv, TypeOK
  <2> QED
    BY <1>2, <2>1, <2>2
<1>8. HistOK'
  BY <1>1 DEF SessionInv, TypeOK, HistOK, hist
<1>9. StatusHonest'
  <2>1. CASE UNCHANGED <<sess, wire, cut>>
    BY <1>1, <2>1 DEF SessionInv, Apart, StatusHonest
  <2>2. CASE sess' = Orphaned(sess)
    BY <1>1, <2>2, StaysHonest DEF SessionInv, Apart
  <2> QED
    BY <1>2, <2>1, <2>2
<1>10. Apart'
  BY <1>1, <1>4, <1>5, <1>9, StaysAlone DEF Mailing, hist
<1> QED
  BY <1>4, <1>6, <1>7, <1>8, <1>10 DEF SessionInv, TypeOK

LEMMA InvMail == SessionInv /\ sendEmailMessage => SessionInv'
BY InvReconnect, InvMailLock, InvMailDisconnect, InvMailConnects, InvMailTalks, InvMailEnds, InvMailLeaves
DEF sendEmailMessage, MailWorks

------------------------------------------------------------------------------
(* ethernetTask, the broker, the network and the power keep it *)

LEMMA InvMon == SessionInv /\ ethernetTask => SessionInv'
<1> SUFFICES ASSUME SessionInv, ethernetTask PROVE SessionInv'
  OBVIOUS
<1>0. Placed /\ "mon" \in Task
  BY DEF SessionInv, TypeOK, Task
<1> DEFINE Still == pc'["mail"] = pc["mail"] /\ pc'["loop"] = pc["loop"]
<1>1. CASE MonLost \/ MonLate
  <2>1. PICK q \in {"lost", "idle"} : Goto("mon", q) /\ bus' = bus
    BY <1>1 DEF MonLost, MonLate, Late
  <2>2. /\ q \in Place["mon"] /\ q \notin Section["mon"] /\ pc["mon"] \notin Section["mon"]
        /\ UNCHANGED <<net, far, cmds, hist>>
    BY <1>1, Sections, Places DEF MonLost, MonLate
  <2>3. Placed'
    BY <1>0, <2>1, <2>2, Stays
  <2>4. Still
    BY <1>0, <2>1, <2>2, Moved DEF Task
  <2>5. Apart'
    BY <2>1, <2>2, <2>4, UnderwayAt DEF SessionInv, Apart, Ended, OnMail, Within, StatusHonest, Mailing, net, far, hist
  <2> QED
    BY <2>2, <2>3, <2>5, Quiet DEF SessionInv, TypeOK
<1>2. CASE MonLock
  <2>1. "reset" \in Place["mon"] /\ "reset" \in Section["mon"] /\ bus = "free" /\ bus' = "mon" /\ Goto("mon", "reset")
    BY <1>2, Sections, Places DEF MonLock, Take
  <2>2. Placed'
    BY <1>0, <1>2, <2>1, Enters DEF MonLock
  <2>3. Still
    BY <1>0, <2>1, Moved DEF Task
  <2>4. Apart'
    BY <1>2, <2>1, <2>3, UnderwayAt DEF SessionInv, Apart, Ended, OnMail, Within, StatusHonest, Mailing, MonLock, net, far, hist
  <2> QED
    BY <1>2, <2>2, <2>4, Quiet DEF SessionInv, TypeOK, MonLock
<1>3. CASE MonReset
  <2>1. "idle" \in Place["mon"] /\ "idle" \notin Section["mon"] /\ pc["mon"] \in Section["mon"] /\ Give("mon", "idle")
    BY <1>3, Sections, Places DEF MonReset
  <2>2. Placed'
    BY <1>0, <2>1, Leaves
  <2>3. Still
    BY <1>0, <2>1, Moved DEF Task, Give
  <2>4. sock' \in {"none", "dead"}
    BY <1>3 DEF MonReset
  <2>5. NetOK'
    BY <1>3, <2>4, Orphan DEF SessionInv, TypeOK, NetOK, MonReset
  <2>6. CmdOK'
    BY <1>3, Losing DEF SessionInv, TypeOK, MonReset
  <2>7. HistOK'
    BY <1>3, BoundAssumption DEF SessionInv, TypeOK, HistOK, MonReset
  <2>8. Apart'
    BY <1>3, <2>3, <2>4, StaysHonest, UnderwayAt DEF SessionInv, Apart, Ended, OnMail, Within, Mailing, MonReset
  <2> QED
    BY <2>2, <2>5, <2>6, <2>7, <2>8 DEF SessionInv, TypeOK
<1> QED
  BY <1>1, <1>2, <1>3 DEF ethernetTask

\* What happens to the connection while no task moves.
LEMMA InvFar == SessionInv /\ (Issue \/ Will) => SessionInv'
<1> SUFFICES ASSUME SessionInv, Issue \/ Will PROVE SessionInv'
  OBVIOUS
<1>1. Placed' /\ HistOK'
  BY DEF SessionInv, TypeOK, Placed, HistOK, Issue, Will, hist
<1>2. CASE Issue
  <2>1. issued' \in 0 .. Len(KindOf) /\ issued + 1 \in Cmd
    <3>1. Len(KindOf) \in Nat /\ issued \in 0 .. Len(KindOf)
      BY CommandAssumption DEF SessionInv, TypeOK, CmdOK
    <3> QED
      BY <1>2, <3>1 DEF Issue, Cmd
  <2>2. wire' \in Seq(Cmd)
    BY <1>2, <2>1 DEF SessionInv, TypeOK, CmdOK, Issue
  <2>3. CmdOK'
    BY <1>2, <2>1, <2>2 DEF SessionInv, TypeOK, CmdOK, Issue
  <2>4. NetOK'
    BY <1>2 DEF SessionInv, TypeOK, NetOK, Issue, net, far
  <2>5. Apart'
    BY <1>2, UnderwayAt DEF SessionInv, Apart, Ended, OnMail, Within, StatusHonest, Mailing, Issue, net, far, hist
  <2> QED
    BY <1>1, <2>3, <2>4, <2>5 DEF SessionInv, TypeOK
<1>3. CASE Will
  <2>1. NetOK' /\ CmdOK'
    BY <1>3 DEF SessionInv, TypeOK, NetOK, CmdOK, Will, net, cmds
  <2>2. Apart'
    BY <1>3, UnderwayAt DEF SessionInv, Apart, Ended, OnMail, Within, StatusHonest, Mailing, Will, net, hist
  <2> QED
    BY <1>1, <2>1, <2>2 DEF SessionInv, TypeOK
<1> QED
  BY <1>2, <1>3

LEMMA InvBroken == SessionInv /\ (Break \/ LinkLost) => SessionInv'
<1> SUFFICES ASSUME SessionInv, Break \/ LinkLost PROVE SessionInv'
  OBVIOUS
<1>0. /\ UNCHANGED <<bus, pc, tls, mq, armed, status, issued, ring, done, crossed, disturbed>>
      /\ sess' = Orphaned(sess) /\ LoseWire
      /\ sock' \in {"none", "mute", "dead"}
  BY DEF Break, LinkLost, hist
<1>1. Placed'
  BY <1>0 DEF SessionInv, TypeOK, Placed
<1>2. ip' \in BOOLEAN /\ faults' \in 0 .. MaxFault
  <2>1. CASE Break
    BY <2>1 DEF SessionInv, TypeOK, NetOK, HistOK, Break, hist
  <2>2. CASE LinkLost
    <3>1. ip' \in BOOLEAN
      BY <2>2 DEF LinkLost
    <3>2. faults' \in 0 .. MaxFault
      BY <2>2, BoundAssumption DEF SessionInv, TypeOK, HistOK, LinkLost
    <3> QED
      BY <3>1, <3>2
  <2> QED
    BY <2>1, <2>2
<1>3. NetOK'
  BY <1>0, <1>2, Orphan DEF SessionInv, TypeOK, NetOK
<1>4. CmdOK'
  BY <1>0, Losing DEF SessionInv, TypeOK
<1>5. HistOK'
  BY <1>0, <1>2 DEF SessionInv, TypeOK, HistOK
<1>6. Apart'
  BY <1>0, StaysHonest, UnderwayAt DEF SessionInv, Apart, Ended, OnMail, Within, Mailing
<1> QED
  BY <1>1, <1>3, <1>4, <1>5, <1>6 DEF SessionInv, TypeOK

LEMMA InvRestart == SessionInv /\ Restart => SessionInv'
<1> SUFFICES ASSUME SessionInv, Restart PROVE SessionInv'
  OBVIOUS
<1>1. pc' = Start /\ bus' = "free"
  BY DEF Restart
<1>2. Placed' /\ pc'["mail"] = "idle"
  <2>1. pc'["loop"] = "top" /\ pc'["mail"] = "idle" /\ pc'["mon"] = "idle"
    BY <1>1 DEF Start, Task
  <2>2. \A p \in Task : pc'[p] \in Place[p] /\ pc'[p] \notin Section[p]
    BY <2>1, Sections, Places DEF Task, Looping
  <2>3. pc' \in [Task -> UNION {Place[p] : p \in Task}]
    BY <1>1, <2>2 DEF Start
  <2> QED
    BY <1>1, <2>1, <2>2, <2>3 DEF Placed, Task
<1>3. NetOK'
  BY Orphan DEF SessionInv, TypeOK, NetOK, Restart
<1>4. CmdOK'
  <2>1. {wire[k] : k \in DOMAIN wire} \subseteq Cmd /\ {ring[k] : k \in DOMAIN ring} \subseteq Cmd
    BY DEF SessionInv, TypeOK, CmdOK
  <2>2. 0 < RingSize
    BY BoundAssumption
  <2>3. cut' \subseteq Cmd
    BY <2>1 DEF SessionInv, TypeOK, CmdOK, Restart
  <2> QED
    BY <2>2, <2>3 DEF SessionInv, TypeOK, CmdOK, Restart
<1>5. HistOK'
  <2>1. faults' \in 0 .. MaxFault
    BY BoundAssumption DEF SessionInv, TypeOK, HistOK, Restart
  <2> QED
    BY <2>1 DEF HistOK, Restart
<1>6. StatusHonest'
  BY StaysHonest DEF SessionInv, Apart, Restart
<1>7. Apart'
  BY <1>2, <1>6, StaysAlone DEF Restart, Mailing
<1> QED
  BY <1>2, <1>3, <1>4, <1>5, <1>7 DEF SessionInv, TypeOK

LEMMA InvStutter == SessionInv /\ UNCHANGED vars => SessionInv'
<1> SUFFICES ASSUME SessionInv, UNCHANGED vars PROVE SessionInv'
  OBVIOUS
<1>1. Placed'
  BY DEF SessionInv, TypeOK, Placed, vars
<1>2. Apart'
  BY UnderwayAt DEF SessionInv, Apart, Ended, OnMail, Within, StatusHonest, Mailing, vars, net, far, hist
<1> QED
  BY <1>1, <1>2, Quiet DEF SessionInv, TypeOK, vars

------------------------------------------------------------------------------
(* The theorems *)

THEOREM SessionInvariant == Spec => []SessionInv
<1>1. SessionInv /\ [Next]_vars => SessionInv'
  BY InvLoop, InvMail, InvMon, InvFar, InvBroken, InvRestart, InvStutter DEF Next
<1> QED
  BY InvInit, <1>1, PTL DEF Spec

\* Every variable of the link keeps its type, and a task is inside a section
\* between lockEthernetBus and unlockEthernetBus exactly while it holds the
\* bus: every path of the three tasks gives it back.
THEOREM TypeCorrect == Spec => []TypeOK
<1>1. SessionInv => TypeOK
  BY DEF SessionInv
<1> QED
  BY <1>1, SessionInvariant, PTL

\* A mail's conversation is never written into or closed by another task, but
\* by a publish that was past its connected(), or a stop of a lost session that
\* was past its look at _secure, when the mail disconnected (BSSL_SSLClient::stop).
THEOREM MailUndisturbed == Spec => []SmtpUndisturbed
<1>1. SessionInv => SmtpUndisturbed
  BY DEF SessionInv, Apart, Within, SmtpUndisturbed
<1> QED
  BY <1>1, SessionInvariant, PTL

\* Whatever mails, resets, broken connections and restarts come in between, a
\* working session says "online", and a lost one is not left behind as "online"
\* unless it ended with the DISCONNECT for a mail.
THEOREM StatusIsHonest == Spec => []StatusHonest
<1>1. SessionInv => StatusHonest
  BY DEF SessionInv, Apart
<1> QED
  BY <1>1, SessionInvariant, PTL

------------------------------------------------------------------------------
(* The commands: one line through wire, ring and done *)

Values(s)    == {s[k] : k \in DOMAIN s}
Ascends(s)   == \A i, j \in DOMAIN s : i < j => s[i] < s[j]
Before(s, t) == \A i \in DOMAIN s, j \in DOMAIN t : s[i] < t[j]
UpTo(s, n)   == \A i \in DOMAIN s : s[i] <= n

\* What follows in a concatenation follows in one of its parts or across them.
LEMMA Concatenated ==
  ASSUME NEW s \in Seq(Cmd), NEW t \in Seq(Cmd), Ascends(s), Ascends(t), Before(s, t)
  PROVE  /\ s \o t \in Seq(Cmd) /\ Ascends(s \o t)
         /\ Values(s \o t) = Values(s) \cup Values(t)
         /\ \A u : Before(s, u) /\ Before(t, u) => Before(s \o t, u)
<1> DEFINE c == s \o t
<1>1. /\ c \in Seq(Cmd) /\ Len(c) = Len(s) + Len(t)
      /\ \A i \in 1 .. Len(s) + Len(t) : c[i] = IF i <= Len(s) THEN s[i] ELSE t[i - Len(s)]
  BY ConcatProperties
<1>2. /\ Len(s) \in Nat /\ DOMAIN s = 1 .. Len(s) /\ Len(t) \in Nat /\ DOMAIN t = 1 .. Len(t)
      /\ DOMAIN c = 1 .. Len(s) + Len(t)
  BY <1>1, LenProperties
<1> HIDE DEF c
<1>3. \A i \in DOMAIN c : \/ i \in DOMAIN s /\ c[i] = s[i]
                          \/ i - Len(s) \in DOMAIN t /\ c[i] = t[i - Len(s)] /\ i \notin DOMAIN s
  BY <1>1, <1>2
<1>4. /\ \A i \in DOMAIN s : i \in DOMAIN c /\ c[i] = s[i]
      /\ \A i \in DOMAIN t : Len(s) + i \in DOMAIN c /\ c[Len(s) + i] = t[i]
  BY <1>1, <1>2
<1>5. Ascends(c)
  <2> SUFFICES ASSUME NEW i \in DOMAIN c, NEW j \in DOMAIN c, i < j PROVE c[i] < c[j]
    BY DEF Ascends
  <2>1. i \in Nat /\ j \in Nat
    BY <1>2
  <2>2. CASE i \in DOMAIN s /\ j \in DOMAIN s
    BY <1>4, <2>2 DEF Ascends
  <2>3. CASE i \in DOMAIN s /\ j \notin DOMAIN s
    BY <1>3, <2>3 DEF Before
  <2>4. CASE i \notin DOMAIN s
    <3>1. i - Len(s) < j - Len(s) /\ j \notin DOMAIN s
      BY <1>2, <2>1, <2>4
    <3> QED
      BY <1>3, <2>4, <3>1 DEF Ascends
  <2> QED
    BY <2>2, <2>3, <2>4
<1>6. Values(c) = Values(s) \cup Values(t)
  <2>1. Values(c) \subseteq Values(s) \cup Values(t)
    BY <1>3 DEF Values
  <2>2. Values(s) \subseteq Values(c) /\ Values(t) \subseteq Values(c)
    BY <1>4 DEF Values
  <2> QED
    BY <2>1, <2>2
<1>7. \A u : Before(s, u) /\ Before(t, u) => Before(c, u)
  BY <1>3 DEF Before
<1> QED
  BY <1>1, <1>5, <1>6, <1>7 DEF c

\* Where loop() is while the ring may hold something.
Draining == {"drain", "pong", "pongWrite", "pongDown", "pongDrop", "pongStop", "pongShut", "restart"}

InLine ==
  /\ Ascends(done) /\ Ascends(ring) /\ Ascends(wire)
  /\ Before(done, ring) /\ Before(done, wire) /\ Before(ring, wire)
  /\ UpTo(done, issued) /\ UpTo(ring, issued) /\ UpTo(wire, issued)

Found   == \A c \in 1 .. issued : c \in cut \cup Values(done) \cup Values(ring) \cup Values(wire)
Drained == ring # <<>> => pc["loop"] \in Draining

Line == InLine /\ Found /\ Drained

LEMMA LineInOrder == TypeOK /\ Line => CommandsInOrder
<1> SUFFICES ASSUME TypeOK, Line PROVE CommandsInOrder
  OBVIOUS
<1> DEFINE s == done \o ring
           q == s \o wire
<1>1. done \in Seq(Cmd) /\ ring \in Seq(Cmd) /\ wire \in Seq(Cmd)
  BY DEF TypeOK, CmdOK
<1>2. s \in Seq(Cmd) /\ Ascends(s) /\ Values(s) = Values(done) \cup Values(ring) /\ Before(s, wire)
  BY <1>1, Concatenated DEF Line, InLine
<1> HIDE DEF s
<1>3. q \in Seq(Cmd) /\ Ascends(q) /\ Values(q) = Values(s) \cup Values(wire)
  BY <1>1, <1>2, Concatenated DEF Line, InLine
<1>4. Len(q) \in Nat /\ DOMAIN q = 1 .. Len(q)
  BY <1>3, LenProperties
<1> HIDE DEF q
<1>5. \A k \in 1 .. Len(q) - 1 : q[k] < q[k + 1]
  <2> SUFFICES ASSUME NEW k \in 1 .. Len(q) - 1 PROVE q[k] < q[k + 1]
    OBVIOUS
  <2>1. k \in DOMAIN q /\ k + 1 \in DOMAIN q /\ k < k + 1
    BY <1>4
  <2> QED
    BY <1>3, <2>1 DEF Ascends
<1>6. \A c \in 1 .. issued : c \in cut \/ \E k \in DOMAIN q : q[k] = c
  <2>1. \A c \in 1 .. issued : c \in cut \/ c \in Values(q)
    BY <1>2, <1>3 DEF Line, Found
  <2> QED
    BY <2>1 DEF Values
<1> QED
  BY <1>5, <1>6 DEF CommandsInOrder, q, s

LEMMA LineInit == Init => Line
BY DEF Init, Line, InLine, Found, Drained, Ascends, Before, UpTo

\* A step that leaves the commands alone, or loses what is on the wire.
LEMMA LineStays ==
  ASSUME Line, Drained', \/ UNCHANGED cmds
                         \/ LoseWire /\ UNCHANGED <<issued, ring, done>>
  PROVE  Line'
<1>1. CASE UNCHANGED cmds
  BY <1>1 DEF Line, InLine, Found, Ascends, Before, UpTo, Values, cmds
<1>2. CASE LoseWire /\ UNCHANGED <<issued, ring, done>>
  <2>1. wire' = <<>> /\ cut' = cut \cup Values(wire)
    BY <1>2 DEF LoseWire, Values
  <2>2. InLine'
    BY <1>2, <2>1 DEF Line, InLine, Ascends, Before, UpTo
  <2>3. Found'
    BY <1>2, <2>1 DEF Line, Found, Values
  <2> QED
    BY <2>2, <2>3 DEF Line
<1> QED
  BY <1>1, <1>2

\* The ring is empty while loop() is elsewhere, and loop() stays as long as it is not.
LEMMA Elsewhere ==
  ASSUME TypeOK, Line, NEW p \in Task \ {"loop"}, NEW q, Goto(p, q), ring' = ring
  PROVE  Drained'
BY DEF TypeOK, Placed, Line, Drained, Goto, Task

LEMMA Empty ==
  ASSUME Line, pc["loop"] \notin Draining, ring' = ring
  PROVE  ring = <<>> /\ Drained'
BY DEF Line, Drained

LEMMA StaysThere ==
  ASSUME TypeOK, NEW q \in Draining, Goto("loop", q)
  PROVE  Drained'
BY DEF TypeOK, Placed, Drained, Goto, Task

LEMMA LineReconnect ==
  ASSUME TypeOK, Line, NEW p \in {"loop", "mail"}, mqttReconnect(p)
  PROVE  Line'
<1>1. UNCHANGED cmds \/ (LoseWire /\ UNCHANGED <<issued, ring, done>>)
  BY DEF mqttReconnect, ReLock, ReLate, ReClose, DialOk, DialFails, Online, CloseSock, cmds
<1>2. ring' = ring
  BY <1>1 DEF cmds
<1>3. pc[p] \in {"want", "close", "dial", "online"} /\ \E q : Goto(p, q)
  BY DEF mqttReconnect, ReLock, ReLate, ReClose, DialOk, DialFails, Online, Take, Late, Give
<1>4. Drained'
  <2>1. CASE p = "loop"
    BY <1>2, <1>3, <2>1, Empty DEF Draining
  <2>2. CASE p = "mail"
    BY <1>2, <1>3, <2>2, Elsewhere DEF Task
  <2> QED
    BY <2>1, <2>2
<1> QED
  BY <1>1, <1>4, LineStays

\* The ring is empty when a packet is read, so it has room for one.
LEMMA LineReads ==
  ASSUME TypeOK, Line, LoopReads
  PROVE  Line'
<1>1. ring = <<>> /\ ~Full
  <2>1. pc["loop"] = "read"
    BY DEF LoopReads
  <2>2. ring = <<>>
    BY <2>1 DEF Line, Drained, Draining
  <2> QED
    BY <2>2, BoundAssumption DEF Full
<1>2. wire \in Seq(Cmd) /\ wire # <<>>
  BY DEF LoopReads, TypeOK, CmdOK
<1>3. Head(wire) = wire[1] /\ wire' = Tail(wire) /\ ring' = <<wire[1]>>
  BY <1>1, <1>2 DEF LoopReads
<1>4. /\ Len(wire) \in Nat \ {0} /\ DOMAIN wire = 1 .. Len(wire) /\ DOMAIN wire' = 1 .. Len(wire) - 1
      /\ \A i \in DOMAIN wire' : wire'[i] = wire[i + 1]
  BY <1>2, <1>3, HeadTailProperties, LenProperties, EmptySeq
<1>5. DOMAIN ring' = {1} /\ ring'[1] = wire[1]
  BY <1>3
<1>6. UNCHANGED <<issued, done, cut>>
  BY DEF LoopReads
<1>7. 1 \in DOMAIN wire /\ \A i \in DOMAIN wire' : i + 1 \in DOMAIN wire /\ 1 < i + 1
  BY <1>4
<1>8. InLine'
  <2>1. Ascends(done)' /\ UpTo(done, issued)'
    BY <1>6 DEF Line, InLine, Ascends, UpTo
  <2>2. Ascends(ring)' /\ UpTo(ring, issued)' /\ Before(done, ring)'
    BY <1>5, <1>6, <1>7 DEF Line, InLine, Ascends, UpTo, Before
  <2>3. Ascends(wire)'
    <3> SUFFICES ASSUME NEW i \in DOMAIN wire', NEW j \in DOMAIN wire', i < j PROVE wire'[i] < wire'[j]
      BY DEF Ascends
    <3>1. i + 1 \in DOMAIN wire /\ j + 1 \in DOMAIN wire /\ i + 1 < j + 1
      BY <1>4, <1>7
    <3> QED
      BY <1>4, <3>1 DEF Line, InLine, Ascends
  <2>4. UpTo(wire, issued)' /\ Before(done, wire)' /\ Before(ring, wire)'
    BY <1>4, <1>5, <1>6, <1>7 DEF Line, InLine, Ascends, UpTo, Before
  <2> QED
    BY <2>1, <2>2, <2>3, <2>4 DEF InLine
<1>9. Found'
  <2>1. Values(wire) \subseteq Values(wire)' \cup {wire[1]}
    <3> SUFFICES ASSUME NEW k \in DOMAIN wire, k # 1 PROVE wire[k] \in Values(wire)'
      BY DEF Values
    <3>1. k - 1 \in DOMAIN wire' /\ wire'[k - 1] = wire[k]
      BY <1>4
    <3> QED
      BY <3>1 DEF Values
  <2>2. wire[1] \in Values(ring)' /\ Values(done)' = Values(done) /\ Values(ring) = {}
    BY <1>1, <1>5, <1>6 DEF Values
  <2> QED
    BY <1>6, <2>1, <2>2 DEF Line, Found
<1>10. Drained'
  BY StaysThere DEF LoopReads, Draining
<1> QED
  BY <1>8, <1>9, <1>10 DEF Line

LEMMA LineWorks ==
  ASSUME TypeOK, Line, LoopWorks
  PROVE  Line'
<1>1. ring \in Seq(Cmd) /\ ring # <<>> /\ done \in Seq(Cmd)
  BY DEF LoopWorks, TypeOK, CmdOK
<1>2. Head(ring) = ring[1] /\ ring' = Tail(ring) /\ done' = Append(done, ring[1])
  BY <1>1 DEF LoopWorks
<1>3. /\ Len(ring) \in Nat \ {0} /\ DOMAIN ring = 1 .. Len(ring) /\ DOMAIN ring' = 1 .. Len(ring) - 1
      /\ \A i \in DOMAIN ring' : ring'[i] = ring[i + 1]
  BY <1>1, <1>2, HeadTailProperties, LenProperties, EmptySeq
<1>4. 1 \in DOMAIN ring /\ \A i \in DOMAIN ring' : i + 1 \in DOMAIN ring /\ 1 < i + 1
  BY <1>3
<1>5. /\ Len(done) \in Nat /\ DOMAIN done = 1 .. Len(done) /\ DOMAIN done' = 1 .. Len(done) + 1
      /\ done'[Len(done) + 1] = ring[1] /\ \A i \in DOMAIN done : done'[i] = done[i]
  BY <1>1, <1>2, <1>4
<1>6. UNCHANGED <<issued, wire, cut>>
  BY DEF LoopWorks
<1>7. \A i \in DOMAIN done' : i \in DOMAIN done \/ done'[i] = ring[1]
  BY <1>5
<1>8. InLine'
  <2>1. Ascends(wire)' /\ UpTo(wire, issued)'
    BY <1>6 DEF Line, InLine, Ascends, UpTo
  <2>2. Ascends(ring)'
    <3> SUFFICES ASSUME NEW i \in DOMAIN ring', NEW j \in DOMAIN ring', i < j PROVE ring'[i] < ring'[j]
      BY DEF Ascends
    <3>1. i + 1 \in DOMAIN ring /\ j + 1 \in DOMAIN ring /\ i + 1 < j + 1
      BY <1>3, <1>4
    <3> QED
      BY <1>3, <3>1 DEF Line, InLine, Ascends
  <2>3. UpTo(ring, issued)' /\ Before(ring, wire)'
    BY <1>3, <1>4, <1>6 DEF Line, InLine, UpTo, Before
  <2>4. Before(done, ring)' /\ Before(done, wire)' /\ UpTo(done, issued)'
    BY <1>3, <1>4, <1>5, <1>6, <1>7 DEF Line, InLine, Ascends, UpTo, Before
  <2>5. Ascends(done)'
    <3> SUFFICES ASSUME NEW i \in DOMAIN done', NEW j \in DOMAIN done', i < j PROVE done'[i] < done'[j]
      BY DEF Ascends
    <3>1. i \in DOMAIN done /\ (j \in DOMAIN done \/ j = Len(done) + 1)
      BY <1>5
    <3> QED
      BY <1>4, <1>5, <3>1 DEF Line, InLine, Ascends, Before
  <2> QED
    BY <2>1, <2>2, <2>3, <2>4, <2>5 DEF InLine
<1>9. Found'
  <2>1. Values(ring) \subseteq Values(ring)' \cup {ring[1]}
    <3> SUFFICES ASSUME NEW k \in DOMAIN ring, k # 1 PROVE ring[k] \in Values(ring)'
      BY DEF Values
    <3>1. k - 1 \in DOMAIN ring' /\ ring'[k - 1] = ring[k]
      BY <1>3
    <3> QED
      BY <3>1 DEF Values
  <2>2. ring[1] \in Values(done)' /\ Values(done) \subseteq Values(done)'
    <3>1. Len(done) + 1 \in DOMAIN done' /\ DOMAIN done \subseteq DOMAIN done'
      BY <1>5
    <3> QED
      BY <1>5, <3>1 DEF Values
  <2>3. Values(wire)' = Values(wire)
    BY <1>6 DEF Values
  <2> QED
    BY <1>6, <2>1, <2>2, <2>3 DEF Line, Found
<1>10. Drained'
  <2>1. KindOf[Head(ring)] \in Kind
    BY <1>1, <1>2, <1>4, CommandAssumption DEF Cmd
  <2>2. [ping |-> "pong", reboot |-> "restart", other |-> "drain"][KindOf[Head(ring)]] \in Draining
    BY <2>1 DEF Kind, Draining
  <2> QED
    BY <2>2, StaysThere DEF LoopWorks
<1> QED
  BY <1>8, <1>9, <1>10 DEF Line

\* The other steps of loop() take no command.
LEMMA LineLoop ==
  ASSUME TypeOK, Line, mqttLoop
  PROVE  Line'
<1>1. CASE LoopReads
  BY <1>1, LineReads
<1>2. CASE LoopWorks
  BY <1>2, LineWorks
<1>3. CASE mqttReconnect("loop")
  BY <1>3, LineReconnect
<1>4. CASE LoopFindsDown \/ LoopFindsUp \/ LoopReadsNothing
  <2>1. UNCHANGED cmds /\ ring' = ring /\ pc["loop"] \notin Draining
    BY <1>4 DEF LoopFindsDown, LoopFindsUp, LoopReadsNothing, Draining, cmds
  <2> QED
    BY <2>1, Empty, LineStays
<1>5. CASE LoopExpires
  <2>1. UNCHANGED cmds \/ (LoseWire /\ UNCHANGED <<issued, ring, done>>)
    BY <1>5 DEF LoopExpires, StopTls, CloseSock, cmds
  <2>2. ring' = ring /\ pc["loop"] \notin Draining
    BY <1>5 DEF LoopExpires, Draining
  <2> QED
    BY <2>1, <2>2, Empty, LineStays
<1>6. CASE LoopDrained
  <2>1. UNCHANGED cmds /\ ring' = <<>>
    BY <1>6 DEF LoopDrained, cmds
  <2> QED
    BY <2>1, LineStays DEF Drained
<1>7. ASSUME NEW from, NEW to, pc["loop"] = from, Goto("loop", to), from \notin Draining \/ to \in Draining,
             UNCHANGED cmds \/ (LoseWire /\ UNCHANGED <<issued, ring, done>>)
      PROVE  Line'
  <2>1. ring' = ring
    BY <1>7 DEF cmds
  <2> QED
    BY <1>7, <2>1, Empty, StaysThere, LineStays
<1>8. CASE Publish("beat", "beatWrite", "top") \/ Publish("pong", "pongWrite", "drain")
  <2>1. UNCHANGED cmds
    BY <1>8 DEF Publish, PublishChecks, PublishWrites
  <2>2. PICK to : Goto("loop", to) /\ (pc["loop"] \notin Draining \/ to \in Draining)
    BY <1>8 DEF Publish, PublishChecks, PublishWrites, Draining
  <2> QED
    BY <1>7, <2>1, <2>2
<1>9. ASSUME NEW at \in Site, FindsDead(at) PROVE Line'
  <2>1. UNCHANGED cmds \/ (LoseWire /\ UNCHANGED <<issued, ring, done>>)
    BY <1>9 DEF FindsDead, FindsDown, Dropping, Stopping, Stopped, Dropped, FinishSock, CloseSock, cmds
  <2>2. PICK to : Goto("loop", to) /\ (pc["loop"] \notin Draining \/ to \in Draining)
    <3>1. CASE at = "top"
      BY <1>9, <3>1, Sites DEF FindsDead, FindsDown, Dropping, Stopping, Stopped, Dropped, Back, Draining
    <3>2. CASE at = "pong"
      BY <1>9, <3>2, Sites DEF FindsDead, FindsDown, Dropping, Stopping, Stopped, Dropped, Back, Draining
    <3> QED
      BY <3>1, <3>2 DEF Site
  <2> QED
    BY <1>7, <2>1, <2>2
<1> QED
  BY <1>1, <1>2, <1>3, <1>4, <1>5, <1>6, <1>8, <1>9 DEF mqttLoop

\* The other tasks leave the ring to loop(); the wire they may cut.
LEMMA LineOthers ==
  ASSUME TypeOK, Line, sendEmailMessage \/ ethernetTask
  PROVE  Line'
<1>1. CASE mqttReconnect("mail")
  BY <1>1, LineReconnect
<1>2. CASE MailLock \/ MailDisconnect \/ MailConnects \/ MailSent \/ MailBreaks \/ MailHangsUp
             \/ MailFails \/ MailLeaves \/ MailLeft
  <2>1. UNCHANGED cmds \/ (LoseWire /\ UNCHANGED <<issued, ring, done>>)
    BY <1>2 DEF MailLock, MailDisconnect, MailConnects, MailSent, MailBreaks, MailHangsUp,
                MailFails, MailLeaves, MailLeft, FinishSock, CloseSock, cmds
  <2>2. \E q : Goto("mail", q)
    BY <1>2 DEF MailLock, MailDisconnect, MailConnects, MailSent, MailBreaks, MailHangsUp,
                MailFails, MailLeaves, MailLeft, Take, Give
  <2>3. Drained'
    BY <2>1, <2>2, Elsewhere DEF Task, cmds
  <2> QED
    BY <2>1, <2>3, LineStays
<1>3. CASE ethernetTask
  <2>1. UNCHANGED cmds \/ (LoseWire /\ UNCHANGED <<issued, ring, done>>)
    BY <1>3 DEF ethernetTask, MonLost, MonLock, MonLate, MonReset, cmds
  <2>2. \E q : Goto("mon", q)
    BY <1>3 DEF ethernetTask, MonLost, MonLock, MonLate, MonReset, Take, Late, Give
  <2>3. Drained'
    BY <2>1, <2>2, Elsewhere DEF Task, cmds
  <2> QED
    BY <2>1, <2>3, LineStays
<1> QED
  BY <1>1, <1>2, <1>3 DEF sendEmailMessage, MailWorks

LEMMA LineWorld ==
  ASSUME TypeOK, Line, Issue \/ Will \/ Break \/ LinkLost \/ Restart \/ UNCHANGED vars
  PROVE  Line'
<1>1. CASE Will \/ Break \/ LinkLost \/ UNCHANGED vars
  <2>1. UNCHANGED pc /\ (UNCHANGED cmds \/ (LoseWire /\ UNCHANGED <<issued, ring, done>>))
    BY <1>1 DEF Will, Break, LinkLost, vars, cmds
  <2>2. Drained'
    BY <2>1 DEF Line, Drained, cmds
  <2> QED
    BY <2>1, <2>2, LineStays
<1>2. CASE Restart
  <2>1. ring' = <<>> /\ wire' = <<>> /\ UNCHANGED <<issued, done>> /\ cut' = cut \cup Values(wire) \cup Values(ring)
    BY <1>2 DEF Restart, Values
  <2>2. InLine'
    BY <2>1 DEF Line, InLine, Ascends, Before, UpTo
  <2>3. Found'
    BY <2>1 DEF Line, Found, Values
  <2> QED
    BY <2>1, <2>2, <2>3 DEF Line, Drained
<1>3. CASE Issue
  <2>1. wire \in Seq(Cmd) /\ issued \in Nat /\ done \in Seq(Cmd) /\ ring \in Seq(Cmd)
    BY DEF TypeOK, CmdOK
  <2>2. wire' = Append(wire, issued + 1) /\ issued' = issued + 1 /\ UNCHANGED <<pc, ring, done, cut>>
    BY <1>3 DEF Issue
  <2>3. /\ Len(wire) \in Nat /\ DOMAIN wire = 1 .. Len(wire) /\ DOMAIN wire' = 1 .. Len(wire) + 1
        /\ wire'[Len(wire) + 1] = issued + 1 /\ \A i \in DOMAIN wire : wire'[i] = wire[i]
    BY <2>1, <2>2
  <2>4. /\ \A i \in DOMAIN wire : wire[i] \in Nat
        /\ \A i \in DOMAIN ring : ring[i] \in Nat
        /\ \A i \in DOMAIN done : done[i] \in Nat
    BY <2>1 DEF Cmd
  <2>5. \A i \in DOMAIN wire' : i \in DOMAIN wire \/ i = Len(wire) + 1
    BY <2>3
  <2>6. UpTo(wire, issued)' /\ UpTo(ring, issued)' /\ UpTo(done, issued)'
    BY <2>1, <2>2, <2>3, <2>4, <2>5 DEF Line, InLine, UpTo
  <2>7. Before(done, wire)' /\ Before(ring, wire)' /\ Before(done, ring)'
    BY <2>1, <2>2, <2>3, <2>4, <2>5 DEF Line, InLine, UpTo, Before
  <2>8. Ascends(wire)' /\ Ascends(ring)' /\ Ascends(done)'
    <3>1. ASSUME NEW i \in DOMAIN wire', NEW j \in DOMAIN wire', i < j PROVE wire'[i] < wire'[j]
      <4>1. i \in DOMAIN wire
        BY <2>3, <3>1
      <4> QED
        BY <2>1, <2>3, <2>4, <2>5, <3>1, <4>1 DEF Line, InLine, UpTo, Ascends
    <3> QED
      BY <2>2, <3>1 DEF Line, InLine, Ascends
  <2>9. Found'
    <3>1. Values(wire) \cup {issued + 1} \subseteq Values(wire)'
      <4>1. DOMAIN wire \subseteq DOMAIN wire' /\ Len(wire) + 1 \in DOMAIN wire'
        BY <2>3
      <4> QED
        BY <2>3, <4>1 DEF Values
    <3>2. \A c \in 1 .. issued' : c \in 1 .. issued \/ c = issued + 1
      BY <2>1, <2>2
    <3>3. Values(ring)' = Values(ring) /\ Values(done)' = Values(done)
      BY <2>2 DEF Values
    <3> QED
      BY <2>2, <3>1, <3>2, <3>3 DEF Line, Found
  <2>10. Drained'
    BY <2>2 DEF Line, Drained
  <2> QED
    BY <2>6, <2>7, <2>8, <2>9, <2>10 DEF Line, InLine
<1> QED
  BY <1>1, <1>2, <1>3

\* A command is worked off at most once and in the order it was sent, and is else on
\* its way or was lost with its session; the ring has room for each (mqttCallback,
\* processMqttQueue).
THEOREM CommandsKeepOrder == Spec => []CommandsInOrder
<1>1. TypeOK /\ Line /\ [Next]_vars => Line'
  BY LineLoop, LineOthers, LineWorld DEF Next
<1> QED
  BY <1>1, LineInit, LineInOrder, TypeCorrect, PTL DEF Spec

==============================================================================
