----------------------------- MODULE MqttSession -----------------------------
(***************************************************************************)
(* One socket, two protocols, three tasks.  ethClient carries the MQTT     *)
(* session of loop() (mqtt_manager.cpp) until emailTask takes the bus,     *)
(* disconnects MQTT and speaks SMTP over it (email_queue.cpp), after which *)
(* emailTask makes the MQTT session anew; ethernetTask resets the chip     *)
(* under both when it cannot get the bus within 2 s or has no address      *)
(* (ethernet_manager.cpp).  Commands come in over the session with QoS 0,  *)
(* go through the ring and are worked off by loop().                       *)
(*                                                                         *)
(* The layers below are here as far as they decide what a call does to the *)
(* socket: PubSubClient's state, the TLS client's _secure flag (its stop() *)
(* does nothing without TLS, its connected() and write() then go straight  *)
(* to the socket), and the broker with its will.  Time is left out: a lock *)
(* that another task holds may time out.                                   *)
(***************************************************************************)
EXTENDS Integers, Sequences

CONSTANTS
  KindOf,     \* the kinds of the commands a client will send, in order
  RingSize,   \* MQTT_QUEUE_SIZE
  MaxFault    \* bound: lost links, failed DHCP requests and power cuts together

Kind == {"ping", "reboot", "other"}
Cmd  == 1 .. Len(KindOf)

ASSUME CommandAssumption == KindOf \in Seq(Kind)
ASSUME BoundAssumption   == RingSize \in Nat \ {0, 1} /\ MaxFault \in Nat

VARIABLES
  bus,      \* who holds ethMutex and spiMutex
  pc,       \* where each task is
  ip,       \* the chip has an address
  sock,     \* what ethClient is connected to
  tls,      \* sslClient._secure
  mq,       \* PubSubClient::_state is MQTT_CONNECTED
  armed,    \* emailTask's SMTPClient and TLS client both think they are connected
  sess,     \* the session as the broker sees it ("parted": the last one ended with a DISCONNECT)
  status,   \* the retained message of vao22/status
  issued,   \* commands sent so far
  wire,     \* commands sent to the device and not read by it
  ring,     \* mqttQueue between mqOut and mqIn
  done,     \* commands worked off, in order
  cut,      \* commands lost with the session that carried them
  crossed,  \* a publish or a stop was past its check when this mail disconnected
  disturbed, \* this mail's conversation was written into or closed by another task
  faults

net  == <<ip, sock, tls, mq, armed>>
far  == <<sess, status>>
cmds == <<issued, wire, ring, done, cut>>
hist == <<crossed, disturbed, faults>>
vars == <<bus, pc, net, far, cmds, hist>>

Task    == {"loop", "mail", "mon"}
\* Sections between lockEthernetBus and unlockEthernetBus.
Section == [p \in Task |->
  CASE p = "loop" -> {"close", "dial", "online"}
    [] p = "mail" -> {"close", "dial", "online", "disconnect", "connect", "talk", "hangup", "fail"}
    [] p = "mon"  -> {"reset"}]
\* Where loop() asks mqtt.connected(), and how far that is once it found the socket down;
\* after the heartbeat, the last thing mqttLoop does, as at its beginning.
Site == {"top", "pong"}
Asks == [top |-> {"top", "beat"}, pong |-> {"pong"}]
Down == [top |-> "topDown", pong |-> "pongDown"]
Drop == [top |-> "topDrop", pong |-> "pongDrop"]
Stop == [top |-> "topStop", pong |-> "pongStop"]
Shut == [top |-> "topShut", pong |-> "pongShut"]
Place == [p \in Task |->
  CASE p = "loop" -> Section[p] \cup {"top", "want", "read", "drain", "beat", "beatWrite",
                                      "pong", "pongWrite", "restart"}
                       \cup UNION {{Down[at], Drop[at], Stop[at], Shut[at]} : at \in Site}
    [] p = "mail" -> Section[p] \cup {"idle", "want", "leave", "left"}
    [] p = "mon"  -> Section[p] \cup {"idle", "lost"}]

Placed ==
  /\ pc \in [Task -> UNION {Place[p] : p \in Task}] /\ bus \in Task \cup {"free"}
  /\ \A p \in Task : pc[p] \in Place[p] /\ (pc[p] \in Section[p] <=> bus = p)

NetOK ==
  /\ sock \in {"none", "mqtt", "half", "mute", "dead", "smtp"}
  /\ ip \in BOOLEAN /\ tls \in BOOLEAN /\ mq \in BOOLEAN /\ armed \in BOOLEAN
  /\ sess \in {"none", "parted", "ghost", "made", "live"} /\ status \in {"online", "offline"}

CmdOK ==
  /\ issued \in 0 .. Len(KindOf) /\ wire \in Seq(Cmd) /\ ring \in Seq(Cmd) /\ done \in Seq(Cmd)
  /\ cut \subseteq Cmd /\ Len(ring) < RingSize

HistOK ==
  crossed \in BOOLEAN /\ disturbed \in BOOLEAN /\ faults \in 0 .. MaxFault

TypeOK == Placed /\ NetOK /\ CmdOK /\ HistOK

\* Where a task is after a reset, and after mqttReconnect.
Start   == [p \in Task |-> IF p = "loop" THEN "top" ELSE "idle"]
Home(p) == IF p = "loop" THEN "top" ELSE "leave"

Init ==
  /\ bus = "free" /\ pc = Start
  /\ ip \in BOOLEAN /\ sock = "none" /\ tls = FALSE /\ mq = FALSE /\ armed = FALSE
  /\ sess = "none" /\ status = "offline"
  /\ issued = 0 /\ wire = <<>> /\ ring = <<>> /\ done = <<>> /\ cut = {}
  /\ crossed = FALSE /\ disturbed = FALSE /\ faults = 0

------------------------------------------------------------------------------
(* The socket and what lies above it *)

Goto(p, place) == pc' = [pc EXCEPT ![p] = place]
Take(p, place) == bus = "free" /\ bus' = p /\ Goto(p, place)
Give(p, place) == bus' = "free" /\ Goto(p, place)
\* xSemaphoreTake gives up only if another task holds the bus all the while.
Late(p, place) == bus \notin {"free", p} /\ bus' = bus /\ Goto(p, place)

\* EthernetClient::connected
SockUp == sock \in {"mqtt", "half", "mute", "smtp"}

\* What the end of a connection without DISCONNECT takes with it.
Orphaned(s) == IF s \in {"made", "live"} THEN "ghost" ELSE s
LoseWire    == wire' = <<>> /\ cut' = cut \cup {wire[k] : k \in DOMAIN wire}

\* EthernetClient::stop
CloseSock == sock' = "none" /\ sess' = Orphaned(sess) /\ LoseWire

\* Its first half sends a FIN; then it waits up to a second for the other side.
FinishSock == sock' = "dead" /\ sess' = Orphaned(sess) /\ LoseWire

\* BSSL_SSLClient::stop on sslClient, under the bus: nothing without TLS.
StopTls ==
  /\ tls' = FALSE
  /\ IF tls THEN CloseSock ELSE UNCHANGED <<sock, sess, wire, cut>>

------------------------------------------------------------------------------
(* mqttReconnect, called by loop() and by emailTask *)

ReLock(p) ==
  /\ pc[p] = "want" /\ Take(p, "close")
  /\ UNCHANGED <<net, far, cmds, hist>>

ReLate(p) ==
  /\ pc[p] = "want" /\ Late(p, Home(p))
  /\ UNCHANGED <<net, far, cmds, hist>>

ReClose(p) ==
  /\ pc[p] = "close" /\ Goto(p, "dial") /\ CloseSock
  /\ UNCHANGED <<bus, ip, tls, mq, armed, status, issued, ring, done, hist>>

\* mqtt.connect: a broker that still holds the old session ends it first, will and all.
DialOk(p) ==
  /\ pc[p] = "dial" /\ ip /\ Goto(p, "online")
  /\ sock' = "mqtt" /\ tls' = TRUE /\ mq' = TRUE
  /\ sess' = "made" /\ status' = IF sess = "ghost" THEN "offline" ELSE status
  /\ UNCHANGED <<bus, ip, armed, cmds, hist>>

\* No connection, no CONNACK, or ("half") a TLS handshake that fails and leaves TCP open.
DialFails(p) ==
  /\ pc[p] = "dial" /\ Give(p, Home(p))
  /\ sock' \in {"none"} \cup (IF ip THEN {"half"} ELSE {})
  /\ tls' = FALSE /\ mq' = FALSE
  /\ UNCHANGED <<ip, armed, far, cmds, hist>>

\* Publish "online", subscribe, unlock; nothing looks at whether they worked.
Online(p) ==
  /\ pc[p] = "online" /\ Give(p, Home(p))
  /\ IF sock = "mqtt" THEN sess' = "live" /\ status' = "online" ELSE UNCHANGED far
  /\ UNCHANGED <<net, cmds, hist>>

mqttReconnect(p) == ReLock(p) \/ ReLate(p) \/ ReClose(p) \/ DialOk(p) \/ DialFails(p) \/ Online(p)

------------------------------------------------------------------------------
(* loop(): mqttLoop once a second *)

\* mutant of Back: the session is left to emailTask
BackUp(at) == Goto("loop", [top |-> "top", pong |-> "drain"][at])

\* Not connected: mqttLoop makes the session anew, at most every 5 s; a publish is given up.
Back(at) ==
  \/ Goto("loop", [top |-> "top", pong |-> "drain"][at])
  \/ at = "top" /\ Goto("loop", "want")

\* PubSubClient::connected, without the bus: it asks the client first and its own
\* state later, and if it knew of a session notes the loss and stops the client,
\* which looks at _secure and then closes the socket, whatever that is by now.
FindsDown(at) ==
  /\ pc["loop"] \in Asks[at] /\ ~SockUp /\ Goto("loop", Down[at])
  /\ UNCHANGED <<bus, net, far, cmds, hist>>

Dropping(at) ==
  /\ pc["loop"] = Down[at] /\ mq' = FALSE
  /\ IF mq THEN Goto("loop", Drop[at]) ELSE Back(at)
  /\ UNCHANGED <<bus, ip, sock, tls, armed, far, cmds, hist>>

Stopping(at) ==
  /\ pc["loop"] = Drop[at]
  /\ IF tls THEN Goto("loop", Stop[at]) ELSE Back(at)
  /\ UNCHANGED <<bus, net, far, cmds, hist>>

\* EthernetClient::stop returns if there is no socket.
Stopped(at) ==
  /\ pc["loop"] = Stop[at]
  /\ \/ sock # "none" /\ Goto("loop", Shut[at]) /\ FinishSock /\ tls' = tls
     \/ sock = "none" /\ Back(at) /\ tls' = FALSE /\ UNCHANGED <<sock, sess, wire, cut>>
  /\ disturbed' = (disturbed \/ sock = "smtp")
  /\ UNCHANGED <<bus, ip, mq, armed, status, issued, ring, done, crossed, faults>>

Dropped(at) ==
  /\ pc["loop"] = Shut[at] /\ Back(at) /\ CloseSock /\ tls' = FALSE
  /\ disturbed' = (disturbed \/ sock = "smtp")
  /\ UNCHANGED <<bus, ip, mq, armed, status, issued, ring, done, crossed, faults>>

FindsDead(at) == FindsDown(at) \/ Dropping(at) \/ Stopping(at) \/ Stopped(at) \/ Dropped(at)

\* The socket is up, but not with a session.
LoopFindsDown ==
  /\ pc["loop"] = "top" /\ SockUp /\ ~mq /\ Back("top")
  /\ UNCHANGED <<bus, net, far, cmds, hist>>

LoopFindsUp ==
  /\ pc["loop"] = "top" /\ SockUp /\ mq /\ Goto("loop", "read")
  /\ UNCHANGED <<bus, net, far, cmds, hist>>

\* mutant of Full: one slot too few
FullEarly == Len(ring) >= RingSize - 2
Full      == Len(ring) >= RingSize - 1

\* mqtt.loop under the bus takes one packet; mqttCallback puts a command into the ring.
LoopReads ==
  /\ pc["loop"] = "read" /\ bus = "free" /\ Goto("loop", "drain")
  /\ mq /\ sock = "mqtt" /\ wire # <<>>
  /\ wire' = Tail(wire) /\ ring' = IF Full THEN ring ELSE Append(ring, Head(wire))
  /\ UNCHANGED <<bus, net, far, issued, done, cut, hist>>

\* Nothing to read, or no bus within 1 s.
LoopReadsNothing ==
  /\ pc["loop"] = "read" /\ (bus = "free" => ~mq \/ wire = <<>>)
  /\ ~(mq /\ ~SockUp) \/ bus # "free"
  /\ Goto("loop", "drain")
  /\ UNCHANGED <<bus, net, far, cmds, hist>>

\* No answer to a PINGREQ, or the socket is found down.
LoopExpires ==
  /\ pc["loop"] = "read" /\ bus = "free" /\ mq /\ sock \in {"mute", "dead", "none"}
  /\ mq' = FALSE /\ StopTls /\ Goto("loop", "drain")
  /\ UNCHANGED <<bus, ip, armed, status, issued, ring, done, hist>>

\* processMqttCommand; what "other" commands do is in DetectorStore.
LoopWorks ==
  /\ pc["loop"] = "drain" /\ ring # <<>>
  /\ ring' = Tail(ring) /\ done' = Append(done, Head(ring))
  /\ Goto("loop", [ping |-> "pong", reboot |-> "restart", other |-> "drain"][KindOf[Head(ring)]])
  /\ UNCHANGED <<bus, net, far, issued, wire, cut, hist>>

LoopDrained ==
  /\ pc["loop"] = "drain" /\ ring = <<>>
  /\ \/ Goto("loop", "beat")
     \/ Goto("loop", "top")
  /\ UNCHANGED <<bus, net, far, cmds, hist>>

\* mqtt.publish, without the bus: check the connection, then write.
PublishChecks(from, write, next) ==
  /\ pc["loop"] = from /\ SockUp
  /\ Goto("loop", IF mq THEN write ELSE next)
  /\ UNCHANGED <<bus, net, far, cmds, hist>>

PublishWrites(write, next) ==
  /\ pc["loop"] = write /\ Goto("loop", next)
  /\ disturbed' = (disturbed \/ sock = "smtp")
  /\ UNCHANGED <<bus, net, far, cmds, crossed, faults>>

Publish(from, write, next) == PublishChecks(from, write, next) \/ PublishWrites(write, next)

mqttLoop ==
  \/ mqttReconnect("loop")
  \/ LoopFindsDown \/ LoopFindsUp \/ \E at \in Site : FindsDead(at)
  \/ LoopReads \/ LoopReadsNothing \/ LoopExpires \/ LoopWorks \/ LoopDrained
  \/ Publish("beat", "beatWrite", "top") \/ Publish("pong", "pongWrite", "drain")

------------------------------------------------------------------------------
(* emailTask: sendEmailMessage *)

MailLock ==
  /\ pc["mail"] = "idle" /\ Take("mail", "disconnect")
  /\ UNCHANGED <<net, far, cmds, hist>>

\* loop() is past a check that the disconnect comes too late for.
Underway == pc["loop"] \in {"beatWrite", "pongWrite"} \cup UNION {{Stop[at], Shut[at]} : at \in Site}

\* mutant of MailDisconnect: the session is not ended
MailForgetsMqtt ==
  /\ pc["mail"] = "disconnect" /\ Goto("mail", "connect")
  /\ UNCHANGED <<bus, net, far, cmds, hist>>

\* mqttDisconnect: DISCONNECT if it can be sent, which takes the will with it.
MailDisconnect ==
  /\ pc["mail"] = "disconnect" /\ Goto("mail", "connect")
  /\ mq' = FALSE /\ tls' = FALSE
  /\ IF tls THEN /\ sock' = "none" /\ LoseWire
                 /\ sess' = IF sock = "mqtt" THEN "parted" ELSE Orphaned(sess)
            ELSE UNCHANGED <<sock, sess, wire, cut>>
  /\ crossed' = Underway
  /\ UNCHANGED <<bus, ip, armed, status, issued, ring, done, disturbed, faults>>

\* smtp.connect stops a socket that is still open and opens its own.
MailConnects ==
  /\ pc["mail"] = "connect" /\ LoseWire /\ sess' = Orphaned(sess)
  /\ \/ ip /\ sock' = "smtp" /\ Goto("mail", "talk")
     \/ sock' = "none" /\ Goto("mail", "fail")
  /\ UNCHANGED <<bus, ip, tls, mq, armed, status, issued, ring, done, hist>>

\* The mail is sent; over a connection with TLS the library stays "connected".
MailSent ==
  /\ pc["mail"] = "talk" /\ sock = "smtp" /\ Goto("mail", "hangup")
  /\ armed' \in BOOLEAN
  /\ UNCHANGED <<bus, ip, sock, tls, mq, far, cmds, hist>>

\* An error stops the library's client; one before the mail goes to "fail".
MailBreaks ==
  /\ pc["mail"] = "talk" /\ sock' = "none"
  /\ \/ Goto("mail", "hangup")
     \/ Goto("mail", "fail")
  /\ UNCHANGED <<bus, ip, tls, mq, armed, far, cmds, hist>>

MailHangsUp ==
  /\ pc["mail"] = "hangup" /\ Give("mail", "want") /\ CloseSock
  /\ crossed' = FALSE /\ disturbed' = FALSE
  /\ UNCHANGED <<ip, tls, mq, armed, status, issued, ring, done, faults>>

\* The early returns leave the session to loop().
MailFails ==
  /\ pc["mail"] = "fail" /\ Give("mail", "idle") /\ CloseSock
  /\ crossed' = FALSE /\ disturbed' = FALSE
  /\ UNCHANGED <<ip, tls, mq, armed, status, issued, ring, done, faults>>

\* ~SMTPClient runs at the return, after mqttReconnect and without the bus:
\* its TLS client stops ethClient, whatever that is connected to by now.
MailLeaves ==
  /\ pc["mail"] = "leave"
  /\ \/ armed /\ sock # "none" /\ Goto("mail", "left") /\ FinishSock /\ armed' = armed
     \/ (armed => sock = "none")
        /\ Goto("mail", "idle") /\ armed' = FALSE /\ UNCHANGED <<sock, sess, wire, cut>>
  /\ UNCHANGED <<bus, ip, tls, mq, status, issued, ring, done, hist>>

MailLeft ==
  /\ pc["mail"] = "left" /\ Goto("mail", "idle") /\ armed' = FALSE /\ CloseSock
  /\ UNCHANGED <<bus, ip, tls, mq, status, issued, ring, done, hist>>

MailWorks ==
  \/ mqttReconnect("mail")
  \/ MailDisconnect \/ MailConnects \/ MailSent \/ MailBreaks \/ MailHangsUp \/ MailFails
  \/ MailLeaves \/ MailLeft

sendEmailMessage == MailLock \/ MailWorks

------------------------------------------------------------------------------
(* ethernetTask: ethernetOK every 5 s, and ethernetConnect when it says no *)

\* No address, or the bus was held for 2 s, by a mail as well as by a connect.
MonLost ==
  /\ pc["mon"] = "idle" /\ (bus = "free" => ~ip) /\ Goto("mon", "lost")
  /\ UNCHANGED <<bus, net, far, cmds, hist>>

MonLock ==
  /\ pc["mon"] = "lost" /\ Take("mon", "reset")
  /\ UNCHANGED <<net, far, cmds, hist>>

MonLate ==
  /\ pc["mon"] = "lost" /\ Late("mon", "idle")
  /\ UNCHANGED <<net, far, cmds, hist>>

\* The chip loses its sockets; ethClient keeps its number.
MonReset ==
  /\ pc["mon"] = "reset" /\ Give("mon", "idle")
  /\ \/ ip' = TRUE /\ faults' = faults
     \/ faults < MaxFault /\ ip' = FALSE /\ faults' = faults + 1
  /\ sock' = IF sock = "none" THEN sock ELSE "dead"
  /\ sess' = Orphaned(sess) /\ LoseWire
  /\ UNCHANGED <<tls, mq, armed, status, issued, ring, done, crossed, disturbed>>

ethernetTask == MonLost \/ MonLock \/ MonLate \/ MonReset

------------------------------------------------------------------------------
(* The broker, the network, the power *)

Issue ==
  /\ sess = "live" /\ sock = "mqtt" /\ issued < Len(KindOf)
  /\ issued' = issued + 1 /\ wire' = Append(wire, issued + 1)
  /\ UNCHANGED <<bus, pc, net, far, ring, done, cut, hist>>

\* mutant of Will: the session was made without a will
NoWill ==
  /\ sess = "ghost" /\ sess' = "none"
  /\ UNCHANGED <<bus, pc, net, status, cmds, hist>>

\* The broker notices that a session is gone and publishes its will.
Will ==
  /\ sess = "ghost" /\ sess' = "none" /\ status' = "offline"
  /\ UNCHANGED <<bus, pc, net, cmds, hist>>

\* A connection ends: with a word from the other side, or without ("mute").
Break ==
  /\ \/ sock \in {"mqtt", "half", "smtp"} /\ sock' = "dead"
     \/ sock = "mqtt" /\ sock' = "mute"
  /\ sess' = Orphaned(sess) /\ LoseWire
  /\ UNCHANGED <<bus, pc, ip, tls, mq, armed, status, issued, ring, done, hist>>

\* The lease runs out or the chip forgets its address.
LinkLost ==
  /\ faults < MaxFault /\ faults' = faults + 1
  /\ ip /\ ip' = FALSE
  /\ sock' = IF sock = "mqtt" THEN "mute" ELSE IF sock = "none" THEN sock ELSE "dead"
  /\ sess' = Orphaned(sess) /\ LoseWire
  /\ UNCHANGED <<bus, pc, tls, mq, armed, status, issued, ring, done, crossed, disturbed>>

\* ESP.restart() by the "reboot" command, or the power fails.
Restart ==
  /\ \/ pc["loop"] = "restart" /\ faults' = faults
     \/ faults < MaxFault /\ faults' = faults + 1
  /\ bus' = "free" /\ pc' = Start
  /\ ip' \in BOOLEAN /\ sock' = "none" /\ tls' = FALSE /\ mq' = FALSE /\ armed' = FALSE
  /\ sess' = Orphaned(sess) /\ wire' = <<>> /\ ring' = <<>>
  /\ cut' = cut \cup {wire[k] : k \in DOMAIN wire} \cup {ring[k] : k \in DOMAIN ring}
  /\ crossed' = FALSE /\ disturbed' = FALSE
  /\ UNCHANGED <<status, issued, done>>

Next ==
  \/ mqttLoop \/ sendEmailMessage \/ ethernetTask
  \/ Issue \/ Will \/ Break \/ LinkLost \/ Restart

Spec == Init /\ [][Next]_vars

LoopAsks  == LoopFindsUp \/ LoopFindsDown \/ FindsDown("top")
LoopWants == mqttLoop /\ pc["loop"] # "want" /\ pc'["loop"] = "want"

\* The three tasks run for ever and a mail's session ends.  The bus is free most
\* of the time, so loop() and ethernetTask come by and ask for it again and again
\* when it is free; the broker answers, a lost link and a mute broker are found
\* out, and a session does not break every time before it says "online".  Where
\* several actions share a strong fairness, it asks no more than one of them.
Fairness ==
  /\ WF_vars(mqttLoop) /\ WF_vars(MailWorks) /\ WF_vars(ethernetTask)
  /\ WF_vars(pc["loop"] = "restart" /\ Restart)
  /\ SF_vars(bus = "free" /\ LoopAsks)
  /\ SF_vars(bus = "free" /\ LoopWants)
  /\ SF_vars(ReLock("loop"))
  /\ SF_vars(DialOk("loop") \/ DialOk("mail") \/ LoopReads \/ LoopExpires \/ (~ip /\ MonLock))
  /\ SF_vars((sock = "mqtt" /\ (Online("loop") \/ Online("mail"))) \/ (bus = "free" /\ MonLost))

FairSpec == Spec /\ Fairness

------------------------------------------------------------------------------
(* Properties *)

\* While a mail is being sent no other task writes into its conversation or
\* closes it, although heartbeats, answers to "ping" and the stop of a dead
\* session do not take the bus: mqttDisconnect has told both layers above the
\* socket.  Only a publish past its connected() or a stop past its look at
\* _secure by then can slip in (sendEmailMessage, mqttLoop).
SmtpUndisturbed == disturbed => crossed

\* A command is worked off at most once and in the order it was sent; it
\* is otherwise on its way or was lost with the session that carried it, at a
\* mail, a broken connection or a restart: the ring never drops one.
CommandsInOrder ==
  /\ \A k \in 1 .. Len(done \o ring \o wire) - 1 :
       (done \o ring \o wire)[k] < (done \o ring \o wire)[k + 1]
  /\ \A c \in 1 .. issued :
       c \in cut \/ \E k \in DOMAIN (done \o ring \o wire) : (done \o ring \o wire)[k] = c

\* The retained status is not wrong about a session for good: a working one says
\* "online" as soon as the task that made it has published, and "online" is left
\* behind only by a clean DISCONNECT for a mail, which takes the will with it; a
\* session lost in any other way is a ghost until the broker publishes "offline".
StatusHonest ==
  /\ sess = "live" => status = "online"
  /\ sess = "made" => bus \in {"loop", "mail"} \/ sock # "mqtt"
  /\ status = "online" => sess # "none"

\* Whatever mails, chip resets, lost links and failed connects do to the session,
\* noticed by the device or not, it is made again and says so once the faults end.
SessionComesBack == sess # "live" ~> sess = "live"

==============================================================================
