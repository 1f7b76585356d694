----------------------------- MODULE UsbReceive -----------------------------
(***************************************************************************)
(* From the cable to the line: usbTask's loop over the FTDI driver         *)
(* (EspUsbHost::task, its client events, the one receive transfer) and     *)
(* SerialFTDI::onReceive, which puts bytes together to lines and hands     *)
(* them to processLine of UsbEvents.                                       *)
(*                                                                         *)
(* The panel sends its lines in two halves and a CR; noise of the line may *)
(* come in between.  The chip holds FifoSize of these pieces until a       *)
(* transfer takes them, and drops what comes when it is full: usbTask may  *)
(* wait for seconds in queueEmail, addOrUpdateDetector or writeLog.  The   *)
(* cable may be pulled and plugged in again, claims and allocations may    *)
(* fail, a transfer may end in an error.                                   *)
(* Left out: a cable pulled before its NEW_DEV event is handled (see the   *)
(* README), and the lines kept for the diagnostic report.                  *)
(***************************************************************************)
EXTENDS UsbEvents

CONSTANTS
  FifoSize,   \* pieces the chip can hold
  Tolerated,  \* garbage characters handleGarbage lets pass (5)
  MaxNoise,   \* bound: noise characters in one behaviour
  MaxPlug,    \* bound: times the cable is plugged in
  MaxFault    \* bound: claims, allocations and transfers that fail

ASSUME ReceiveAssumption ==
  {FifoSize, Tolerated, MaxNoise, MaxPlug, MaxFault} \subseteq Nat

VARIABLES
  (* the world *)
  cable, conn,      \* plugged in; how many times so far
  sent,             \* pieces the panel has sent
  fifo,             \* pieces in the chip
  halted,           \* the endpoint is halted after an error
  noise, faults,
  (* the driver *)
  events,           \* client events not yet handled
  opened, claimed,  \* deviceHandle is open; InterfaceNumber >= 0
  recv, send,       \* usbTransfer_recv and _send: 0, or the connection they were made for
  initialized, raisedOnNew,
  flying,           \* the receive transfer is submitted
  (* the task *)
  step,             \* where usbTask is in its loop
  data,             \* pieces of the transfer whose callback is running
  lineBuffer, garbageCount,
  (* history *)
  handed,           \* the last line onReceive has ended in this round of the loop
  hurt              \* panel lines that lost a piece on the way

world  == <<cable, conn, sent, fifo, halted, noise, faults>>
driver == <<events, opened, claimed, recv, send, initialized, raisedOnNew, flying>>
device == <<opened, claimed, recv, send, initialized, raisedOnNew>>
input  == <<data, lineBuffer, garbageCount, handed, hurt>>
receiveVars == <<world, driver, step, input, vars>>

Half  == {1, 2}
Piece == ((1 .. MaxLines) \X {1, 2, 3}) \cup {<<0, 0>>}
CR    == 3
Noise == <<0, 0>>
Received == (1 .. MaxLines) \X Half \X (1 .. MaxPlug)

ReceiveTypeOK ==
  /\ cable \in BOOLEAN /\ conn \in 0 .. MaxPlug /\ sent \in 0 .. 3 * MaxLines
  /\ fifo \in Seq(Piece) /\ Len(fifo) <= FifoSize /\ halted \in BOOLEAN
  /\ noise \in 0 .. MaxNoise /\ faults \in 0 .. MaxFault
  /\ events \in {<<>>, <<"new">>, <<"gone">>} /\ opened \in BOOLEAN /\ claimed \in BOOLEAN
  /\ recv \in 0 .. MaxPlug /\ send \in 0 .. MaxPlug
  /\ initialized \in BOOLEAN /\ raisedOnNew \in BOOLEAN /\ flying \in BOOLEAN
  /\ step \in {"onNew", "events", "submit", "timeout"}
  /\ data \in Seq(Piece) /\ (data # <<>> => step = "events")
  /\ lineBuffer \in Seq(Received) /\ garbageCount \in 0 .. Tolerated
  /\ handed \in Seq(Received) /\ hurt \subseteq 1 .. MaxLines

ReceiveInit ==
  /\ Init
  /\ cable = FALSE /\ conn = 0 /\ sent = 0 /\ fifo = <<>> /\ halted = FALSE
  /\ noise = 0 /\ faults = 0
  /\ events = <<>> /\ opened = FALSE /\ claimed = FALSE /\ recv = 0 /\ send = 0
  /\ initialized = FALSE /\ raisedOnNew = FALSE /\ flying = FALSE
  /\ step = "onNew" /\ data = <<>> /\ lineBuffer = <<>> /\ garbageCount = 0
  /\ handed = <<>> /\ hurt = {}

\* The panel lines that pieces belong to.
LinesOf(pieces) == {p[1] : p \in ToSet(pieces)} \ {0}

------------------------------------------------------------------------------
(* The panel, the cable and the chip.                                      *)

PanelLine(n) == ((n - 1) \div 3) + 1

\* A piece reaches the chip, or is lost: no cable, or no room.
Arrive(piece) ==
  IF cable /\ Len(fifo) < FifoSize
  THEN fifo' = Append(fifo, piece) /\ UNCHANGED hurt
  ELSE hurt' = hurt \cup LinesOf(<<piece>>) /\ UNCHANGED fifo

PanelSends ==
  /\ sent < 3 * MaxLines /\ sent' = sent + 1
  /\ Arrive(<<PanelLine(sent'), sent' - (3 * (PanelLine(sent') - 1))>>)
  /\ UNCHANGED <<cable, conn, halted, noise, faults, driver, step,
                 data, lineBuffer, garbageCount, handed, vars>>

NoiseComes ==
  /\ noise < MaxNoise /\ noise' = noise + 1 /\ cable /\ Arrive(Noise)
  /\ UNCHANGED <<cable, conn, sent, halted, faults, driver, step,
                 data, lineBuffer, garbageCount, handed, vars>>

\* A device is reported once the one before is closed.
PlugIn ==
  /\ ~cable /\ ~opened /\ events = <<>> /\ conn < MaxPlug
  /\ cable' = TRUE /\ conn' = conn + 1 /\ halted' = FALSE /\ events' = <<"new">>
  /\ UNCHANGED <<sent, fifo, noise, faults, device, flying, step, input, vars>>

Unplug ==
  /\ cable /\ opened /\ cable' = FALSE /\ events' = <<"gone">>
  /\ fifo' = <<>> /\ hurt' = hurt \cup LinesOf(fifo)
  /\ UNCHANGED <<conn, sent, halted, noise, faults, device, flying, step,
                 data, lineBuffer, garbageCount, handed, vars>>

\* The transfer comes back without data; the endpoint stays halted, as nobody
\* clears it while the device is there.  _onReceive looks at the status only.
TransferError ==
  /\ flying /\ cable /\ faults < MaxFault /\ faults' = faults + 1
  /\ flying' = FALSE /\ halted' = TRUE
  /\ UNCHANGED <<cable, conn, sent, fifo, noise, events, device, step, input, vars>>

------------------------------------------------------------------------------
(* usbTask: EspUsbHost::task, the resubmission, checkTimeout.              *)

isReady == recv # 0 /\ send # 0 /\ initialized

Goto(from, to) == step = from /\ step' = to

\* onNew drops the line at hand, but not the event and not the garbage count.
OnNew ==
  /\ Goto("onNew", "events")
  /\ IF ~raisedOnNew /\ isReady
     THEN /\ raisedOnNew' = TRUE /\ lineBuffer' = <<>>
          /\ hurt' = hurt \cup LinesOf(lineBuffer)
     ELSE UNCHANGED <<raisedOnNew, lineBuffer, hurt>>
  /\ UNCHANGED <<world, events, opened, claimed, recv, send, initialized, flying,
                 data, garbageCount, handed, vars>>

\* NEW_DEV: open, claim the interface, allocate transfers that are not there
\* yet, and reset the chip, which empties it.  What fails is not tried again.
NewDevice ==
  /\ step = "events" /\ data = <<>> /\ events = <<"new">> /\ events' = <<>>
  /\ opened' = TRUE
  /\ \E failing \in {"nothing", "claim", "recv", "send"} :
       /\ failing # "nothing" => faults < MaxFault
       /\ faults' = IF failing = "nothing" THEN faults ELSE faults + 1
       /\ claimed' = (failing # "claim") /\ initialized' = claimed'
       /\ recv' = IF recv = 0 /\ failing \notin {"claim", "recv"} THEN conn ELSE recv
       /\ send' = IF send = 0 /\ failing \notin {"claim", "send"} THEN conn ELSE send
  /\ fifo' = IF claimed' THEN <<>> ELSE fifo
  /\ hurt' = IF claimed' THEN hurt \cup LinesOf(fifo) ELSE hurt
  /\ UNCHANGED <<cable, conn, sent, halted, noise, raisedOnNew, flying, step,
                 data, lineBuffer, garbageCount, handed, vars>>

\* mutant of Freed: the next device is not announced
KeepRaised == recv' = 0 /\ send' = 0 /\ UNCHANGED raisedOnNew
Freed      == recv' = 0 /\ send' = 0 /\ raisedOnNew' = FALSE

\* DEV_GONE, after the transfer has come back with an error.
DeviceGone ==
  /\ step = "events" /\ data = <<>> /\ events = <<"gone">> /\ events' = <<>>
  /\ opened' = FALSE /\ claimed' = FALSE /\ initialized' = FALSE /\ Freed /\ flying' = FALSE
  /\ UNCHANGED <<world, step, input, vars>>

\* The transfer is done: onReceive gets all there is.
ReceiveDone ==
  /\ step = "events" /\ data = <<>> /\ flying /\ cable /\ fifo # <<>>
  /\ flying' = FALSE /\ data' = fifo /\ fifo' = <<>>
  /\ UNCHANGED <<cable, conn, sent, halted, noise, faults, events, device, step,
                 lineBuffer, garbageCount, handed, hurt, vars>>

NextPiece == step = "events" /\ data # <<>> /\ data' = Tail(data)

TakeHalf ==
  /\ NextPiece /\ Head(data)[2] \in Half
  /\ lineBuffer' = Append(lineBuffer, Append(Head(data), conn))
  /\ UNCHANGED <<world, driver, step, garbageCount, handed, hurt, vars>>

\* A full line goes to processLine, which skips one that is too short.
EndLine ==
  /\ NextPiece /\ Head(data)[2] = CR
  /\ IF lineBuffer = <<>>
     THEN UNCHANGED <<lineBuffer, handed, vars>>
     ELSE /\ handed' = lineBuffer /\ lineBuffer' = <<>>
          /\ \/ \E l \in Line : processLine(l)
             \/ Len(lineBuffer) = 1 /\ UNCHANGED vars
  /\ UNCHANGED <<world, driver, step, garbageCount, hurt>>

\* mutant of handleGarbage: only the last half is dropped
DropLast ==
  /\ NextPiece /\ Head(data) = Noise
  /\ IF garbageCount = Tolerated /\ lineBuffer # <<>>
     THEN garbageCount' = 0 /\ lineBuffer' = Front(lineBuffer)
     ELSE garbageCount' = Min({garbageCount + 1, Tolerated}) /\ UNCHANGED lineBuffer
  /\ UNCHANGED <<world, driver, step, handed, hurt, vars>>

\* The count goes on from line to line.
handleGarbage ==
  /\ NextPiece /\ Head(data) = Noise
  /\ IF garbageCount = Tolerated
     THEN /\ garbageCount' = 0 /\ lineBuffer' = <<>>
          /\ hurt' = hurt \cup LinesOf(lineBuffer)
     ELSE garbageCount' = garbageCount + 1 /\ UNCHANGED <<lineBuffer, hurt>>
  /\ UNCHANGED <<world, driver, step, handed, vars>>

EventsDone ==
  /\ Goto("events", "submit") /\ data = <<>> /\ events = <<>> /\ handed' = <<>>
  /\ UNCHANGED <<world, driver, data, lineBuffer, garbageCount, hurt, vars>>

\* mutant of Submit: only for a device not announced yet
SubmitFirst ==
  /\ Goto("submit", "timeout")
  /\ flying' = (flying \/ (isReady /\ ~halted /\ ~raisedOnNew))
  /\ UNCHANGED <<world, events, device, input, vars>>

\* The transfer is submitted again and again; while it is out, and once the
\* endpoint is halted, that fails without a word.
Submit ==
  /\ Goto("submit", "timeout")
  /\ flying' = (flying \/ (isReady /\ ~halted /\ cable))
  /\ UNCHANGED <<world, events, device, input, vars>>

Timeout ==
  /\ Goto("timeout", "onNew")
  /\ IF TimedOut THEN checkTimeout ELSE UNCHANGED vars
  /\ UNCHANGED <<world, driver, input>>

onReceive == TakeHalf \/ EndLine \/ handleGarbage
usbTask   == OnNew \/ NewDevice \/ DeviceGone \/ ReceiveDone \/ onReceive
               \/ EventsDone \/ Submit \/ Timeout

Silence == PassTime /\ UNCHANGED <<world, driver, step, input>>

ReceiveNext == PanelSends \/ NoiseComes \/ PlugIn \/ Unplug \/ TransferError \/ Silence \/ usbTask

\* usbTask goes on for ever, time passes, and a chip that has bytes answers.
ReceiveSpec ==
  /\ ReceiveInit /\ [][ReceiveNext]_receiveVars
  /\ WF_receiveVars(usbTask) /\ SF_receiveVars(ReceiveDone) /\ WF_receiveVars(Silence)

------------------------------------------------------------------------------
(* Properties *)

\* What belongs to a device dies with it: transfers are those of the device
\* that is open, and a line is never put together from two connections.
OneConnection ==
  /\ {recv, send} \subseteq {0} \cup (IF opened THEN {conn} ELSE {})
  /\ flying => recv = conn
  /\ \A i, j \in DOMAIN lineBuffer : lineBuffer[i][3] = lineBuffer[j][3]

\* A line handed to processLine is one line of the panel, whole and in order,
\* unless it holds pieces of a line that lost some on the way.
Whole(buffer) ==
  Len(buffer) = 2 /\ buffer[1][1] = buffer[2][1] /\ buffer[1][2] = 1 /\ buffer[2][2] = 2

HandedWhole == handed = <<>> \/ Whole(handed) \/ LinesOf(handed) \cap hurt # {}

\* Bytes in the chip are read, however often the cable was pulled before,
\* unless the device was not set up or its endpoint halted.
BytesAreRead == (fifo # <<>> /\ isReady) ~> (fifo = <<>> \/ halted)

==============================================================================
