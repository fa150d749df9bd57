------------------------------- MODULE Dongle -------------------------------
(***************************************************************************)
(* The firmware of the USB dongle (src/src/uisp-app.c).                    *)
(*                                                                         *)
(* One main loop: usbPoll, which runs the handler of at most one control   *)
(* request; process_radio_transfers; and, when the host has collected the  *)
(* last interrupt message, post_interrupt_message.  `phase' is the place    *)
(* in that loop.  Between any two steps the radio may finish a             *)
(* transmission or receive a packet, and the host may collect the primed   *)
(* interrupt message, which the USB hardware interrupt hands over.         *)
(***************************************************************************)
EXTENDS PacketRing, Radio24, FiniteSets

CONSTANTS
  HW_BUFFER_SIZE,   \* slots of pcks[]; kcnf wants a power of two
  AckModes,         \* the values of rf24_usb_config.ack_payloads in use
  HostKeepsCredit,  \* the host writes only to a ring that has room
  MaxWrites,        \* bound: packets the host writes
  MaxArrivals,      \* bound: packets the radio receives
  MaxPackets        \* bound: both together

ASSUME HwBufferAssumption ==
  HW_BUFFER_SIZE \in Nat /\ HW_BUFFER_SIZE > 0 /\ HW_BUFFER_SIZE % 2 = 0
ASSUME AckModesAssumption == AckModes \subseteq BOOLEAN
ASSUME HostAssumption == HostKeepsCredit \in BOOLEAN

VARIABLES
  system_state,    \* the mode last set by RQ_MODE
  writing,         \* stream mode has handed the head of cb to the radio
  last_tx_failed,  \* 0, 1, or 0xff while a write is in progress
  cb, acb,         \* the packet ring and the ring for ack payloads
  pcks,            \* the packet pool both rings live in
  request,         \* last_rq: the OUT request whose data is still arriving
  phase,           \* place in the main loop
  intMsg,          \* the interrupt message primed for the host, if any
  radio,
  air,             \* history: packets the peer received
  got,             \* history: packets RQ_READ handed to the host
  written, arrived \* history: packets RQ_WRITE put in cb, packets the radio received

ring == <<cb, acb, pcks>>
usb == <<request, intMsg>>
history == <<air, got, written, arrived>>
vars == <<system_state, writing, last_tx_failed, ring, usb, phase, radio, history>>

Mode == {"IDLE", "READ", "WRITE_STREAM", "WRITE_BULK"}
Phase == {"poll", "radio", "post", "sync", "syncradio", "hung"}
Packet == Nat \X Nat
NoPacket == <<0, 0>>

NoRequest == [rq |-> "NONE"]
Request ==
       [rq : {"RQ_MODE"}, mode : Mode]
  \cup [rq : {"RQ_CONFIG"}, ack_payloads : AckModes]
  \cup [rq : {"RQ_WRITE"}, packet : Packet]
  \cup [rq : {"RQ_OPEN_PIPE", "RQ_READ", "RQ_SWEEP", "RQ_FLUSH", "RQ_SYNC", "RQ_NOP"}]
OutRequests == {"RQ_OPEN_PIPE", "RQ_CONFIG", "RQ_WRITE"}

Status ==
  [cb_count |-> cb.count, cb_size |-> cb.size,
   acb_count |-> acb.count, acb_size |-> acb.size,
   last_tx_failed |-> last_tx_failed, fifo_is_empty |-> rf24_tx_empty(radio)]
NoMessage == [cb_count |-> -1]

\* usbSetInterrupt overwrites a message that was not collected yet.
post_interrupt_message == intMsg' = Status'

-----------------------------------------------------------------------------
(***************************************************************************)
(* usbPoll: the requests that usbFunctionSetup serves at once.             *)
(***************************************************************************)
MayServe == phase = "poll" /\ request = NoRequest

\* Mutant of RadioFlushed: the mode changes over a FIFO that is not flushed.
RadioKeepsTx == rf24_flush_rx(rf24_stop_listening(radio))

RadioFlushed == rf24_flush_rx(rf24_flush_tx(rf24_stop_listening(radio)))

RqMode(rq) ==
  /\ MayServe /\ rq.rq = "RQ_MODE"
  /\ system_state' = rq.mode
  /\ cb' = cb_flush(cb) /\ acb' = cb_flush(acb) /\ writing' = FALSE
  /\ radio' = IF rq.mode = "READ" THEN rf24_start_listening(RadioFlushed) ELSE RadioFlushed
  /\ phase' = "radio"
  /\ UNCHANGED <<last_tx_failed, pcks, usb, history>>

ReadRing == IF system_state = "READ" THEN cb ELSE acb

\* What RQ_READ answers: nothing, or a packet and "there is more".
ReadReply ==
  IF cb_is_empty(ReadRing)
    THEN [packet |-> NoPacket, more |-> FALSE]
    ELSE [packet |-> pcks[Oldest(ReadRing)], more |-> ReadRing.count > 1]

RqReadNothing(rq) ==
  /\ MayServe /\ rq.rq = "RQ_READ"
  /\ cb_is_empty(ReadRing)
  /\ phase' = "radio"
  /\ UNCHANGED <<system_state, writing, last_tx_failed, ring, usb, radio, history>>

RqReadPacket(rq) ==
  /\ MayServe /\ rq.rq = "RQ_READ"
  /\ ~cb_is_empty(ReadRing)
  /\ got' = Append(got, ReadReply.packet)
  /\ IF system_state = "READ"
       THEN cb' = cb_read(cb) /\ UNCHANGED acb
       ELSE acb' = cb_read(acb) /\ UNCHANGED cb
  /\ phase' = "radio"
  /\ UNCHANGED <<system_state, writing, last_tx_failed, pcks, request, radio>>
  /\ UNCHANGED <<air, written, arrived>>
  /\ post_interrupt_message

RqFlush(rq) ==
  /\ MayServe /\ rq.rq = "RQ_FLUSH"
  /\ cb' = cb_flush(cb) /\ acb' = cb_flush(acb) /\ writing' = FALSE
  /\ radio' = RadioFlushed
  /\ phase' = "radio"
  /\ UNCHANGED <<system_state, last_tx_failed, pcks, usb, history>>

\* RQ_SWEEP and RQ_NOP answer out of msg and leave the state alone (what the
\* sweeper does to the radio's channel is not modelled).
RqAnswerOnly(rq) ==
  /\ MayServe /\ rq.rq \in {"RQ_SWEEP", "RQ_NOP"}
  /\ phase' = "radio"
  /\ UNCHANGED <<system_state, writing, last_tx_failed, ring, usb, radio, history>>

(***************************************************************************)
(* RQ_SYNC keeps the main loop out of usbPoll: it runs                      *)
(* process_radio_transfers until cb is empty or its time is up, then waits *)
(* for the radio's own FIFO.  The timeout may strike at any turn.           *)
(***************************************************************************)
RqSync(rq) ==
  /\ MayServe /\ rq.rq = "RQ_SYNC"
  /\ phase' = "sync"
  /\ UNCHANGED <<system_state, writing, last_tx_failed, ring, usb, radio, history>>

SyncTurn ==
  /\ phase = "sync" /\ ~cb_is_empty(cb)
  /\ phase' = "syncradio"
  /\ UNCHANGED <<system_state, writing, last_tx_failed, ring, usb, radio, history>>

SyncReturn ==
  /\ phase = "sync"
  /\ phase' = "radio"
  /\ UNCHANGED <<system_state, writing, last_tx_failed, ring, usb, radio, history>>

-----------------------------------------------------------------------------
(***************************************************************************)
(* The requests with a data stage: usbFunctionSetup only notes them (and    *)
(* the main loop goes round while the data arrives in 8-byte pieces), the   *)
(* usbFunctionWrite of the last piece does the work.                        *)
(***************************************************************************)
SetupOut(rq) ==
  /\ MayServe /\ rq.rq \in OutRequests
  /\ request' = rq
  /\ phase' = "radio"
  /\ UNCHANGED <<system_state, writing, last_tx_failed, ring, intMsg, radio, history>>

Complete(r) == phase = "poll" /\ request.rq = r /\ request' = NoRequest

WriteOpenPipe ==
  /\ Complete("RQ_OPEN_PIPE")
  /\ radio' = rf24_stop_listening(radio)
  /\ last_tx_failed' = "ok"
  /\ phase' = "radio"
  /\ UNCHANGED <<system_state, writing, ring, history>>
  /\ post_interrupt_message

ResizedCb(ack)  == Resize(cb, IF ack THEN HW_BUFFER_SIZE \div 2 ELSE HW_BUFFER_SIZE, 0)
\* Mutant of ResizedAcb: acb starts where cb does.
ResizedAcbInPlace(ack) ==
  IF ack THEN Resize(acb, HW_BUFFER_SIZE \div 2, 0) ELSE Resize(acb, 0, acb.elems)

\* Mutant of ResizedAcb: acb gets the whole pool from its middle on.
ResizedAcbWhole(ack) ==
  IF ack THEN Resize(acb, HW_BUFFER_SIZE, HW_BUFFER_SIZE \div 2) ELSE Resize(acb, 0, acb.elems)

ResizedAcb(ack) == IF ack THEN Resize(acb, HW_BUFFER_SIZE \div 2, HW_BUFFER_SIZE \div 2)
                          ELSE Resize(acb, 0, acb.elems)

\* The message is posted before the rings get their new sizes.
WriteConfig ==
  /\ Complete("RQ_CONFIG")
  /\ cb' = ResizedCb(request.ack_payloads)
  /\ acb' = ResizedAcb(request.ack_payloads)
  /\ writing' = FALSE
  /\ radio' = RadioFlushed
  /\ last_tx_failed' = "ok"
  /\ phase' = "radio"
  /\ UNCHANGED <<system_state, pcks, history>>
  /\ intMsg' = [Status' EXCEPT !.cb_size = cb.size, !.acb_size = acb.size]

WriteRing == IF system_state = "READ" THEN acb ELSE cb

\* Mutant of WritePacket: no new status is posted over the primed one.
WritePacketSilent ==
  /\ Complete("RQ_WRITE")
  /\ HasSlots(WriteRing)
  /\ pcks' = [pcks EXCEPT ![NextSlot(WriteRing)] = request.packet]
  /\ IF system_state = "READ"
       THEN acb' = cb_get_slot(acb) /\ UNCHANGED <<cb, written>>
       ELSE cb' = cb_get_slot(cb) /\ written' = Append(written, request.packet) /\ UNCHANGED acb
  /\ last_tx_failed' = "pending"
  /\ phase' = "radio"
  /\ UNCHANGED <<system_state, writing, radio, air, got, arrived, intMsg>>

WritePacket ==
  /\ Complete("RQ_WRITE")
  /\ HasSlots(WriteRing)
  /\ pcks' = [pcks EXCEPT ![NextSlot(WriteRing)] = request.packet]
  /\ IF system_state = "READ"
       THEN acb' = cb_get_slot(acb) /\ UNCHANGED <<cb, written>>
       ELSE cb' = cb_get_slot(cb) /\ written' = Append(written, request.packet) /\ UNCHANGED acb
  /\ last_tx_failed' = "pending"
  /\ phase' = "radio"
  /\ UNCHANGED <<system_state, writing, radio, air, got, arrived>>
  /\ post_interrupt_message

\* cb_get_slot never returns from a ring without slots.
WriteHangs ==
  /\ Complete("RQ_WRITE")
  /\ ~HasSlots(WriteRing)
  /\ phase' = "hung"
  /\ UNCHANGED <<system_state, writing, last_tx_failed, ring, intMsg, radio, history>>

Data == WriteOpenPipe \/ WriteConfig \/ WritePacket \/ WriteHangs

Setup(rq) ==
  \/ RqMode(rq) \/ RqReadNothing(rq) \/ RqReadPacket(rq) \/ RqFlush(rq)
  \/ RqAnswerOnly(rq) \/ RqSync(rq) \/ SetupOut(rq)

\* usbPoll finds nothing to do.
PollNothing ==
  /\ phase = "poll"
  /\ phase' = "radio"
  /\ UNCHANGED <<system_state, writing, last_tx_failed, ring, usb, radio, history>>

-----------------------------------------------------------------------------
(***************************************************************************)
(* process_radio_transfers, from the main loop or from RQ_SYNC.  In the     *)
(* read and bulk modes it moves one packet per step.                        *)
(***************************************************************************)
InProcess(m) == phase \in {"radio", "syncradio"} /\ system_state = m
EndProcess == phase' = IF phase = "radio" THEN "post" ELSE "sync"

IdleWork ==
  /\ InProcess("IDLE")
  /\ EndProcess
  /\ UNCHANGED <<system_state, writing, last_tx_failed, ring, usb, radio, history>>

\* Mutant of ReadMove: it does not look whether cb is full.
ReadMoveIntoFull ==
  /\ InProcess("READ")
  /\ HasSlots(cb) /\ rf24_available(radio)
  /\ pcks' = [pcks EXCEPT ![NextSlot(cb)] = Head(radio.rx)]
  /\ cb' = cb_get_slot(cb)
  /\ radio' = rf24_read(radio)
  /\ UNCHANGED <<system_state, writing, last_tx_failed, acb, usb, phase, history>>

ReadMove ==
  /\ InProcess("READ")
  /\ ~cb_is_full(cb) /\ rf24_available(radio)
  /\ pcks' = [pcks EXCEPT ![NextSlot(cb)] = Head(radio.rx)]
  /\ cb' = cb_get_slot(cb)
  /\ radio' = rf24_read(radio)
  /\ UNCHANGED <<system_state, writing, last_tx_failed, acb, usb, phase, history>>

ReadWorkDone ==
  /\ InProcess("READ")
  /\ cb_is_full(cb) \/ ~rf24_available(radio)
  /\ EndProcess
  /\ UNCHANGED <<system_state, writing, last_tx_failed, ring, usb, radio, history>>

rf24_write_done == radio.tx_ds \/ radio.max_rt

\* Mutant of StreamFinish: a packet given up stays in the FIFO.
StreamFinishNoFlush ==
  /\ InProcess("WRITE_STREAM")
  /\ writing /\ rf24_write_done
  /\ radio' = rf24_what_happened(radio)
  /\ last_tx_failed' = IF radio.max_rt THEN "failed" ELSE "ok"
  /\ cb' = cb_read(cb) /\ writing' = FALSE
  /\ UNCHANGED <<system_state, acb, pcks, request, phase, history>>
  /\ post_interrupt_message

\* Mutant of StreamFinish: writing is not reset.
StreamFinishStillWriting ==
  /\ InProcess("WRITE_STREAM")
  /\ writing /\ rf24_write_done
  /\ radio' = IF radio.max_rt THEN rf24_flush_tx(rf24_what_happened(radio))
                ELSE rf24_what_happened(radio)
  /\ last_tx_failed' = IF radio.max_rt THEN "failed" ELSE "ok"
  /\ cb' = cb_read(cb)
  /\ UNCHANGED <<system_state, writing, acb, pcks, request, phase, history>>
  /\ post_interrupt_message

\* The outcome is posted before the FIFO is flushed and the head leaves cb.
StreamFinish ==
  /\ InProcess("WRITE_STREAM")
  /\ writing /\ rf24_write_done
  /\ LET settled == rf24_what_happened(radio) IN
     /\ radio' = IF radio.max_rt THEN rf24_flush_tx(settled) ELSE settled
     /\ last_tx_failed' = IF radio.max_rt THEN "failed" ELSE "ok"
     /\ cb' = cb_read(cb)
     /\ writing' = FALSE
     /\ UNCHANGED <<system_state, acb, pcks, request, phase, history>>
     /\ intMsg' = [Status' EXCEPT !.cb_count = cb.count,
                                  !.fifo_is_empty = rf24_tx_empty(settled)]

StreamStart ==
  /\ InProcess("WRITE_STREAM")
  /\ ~writing /\ ~cb_is_empty(cb)
  /\ radio' = rf24_start_write(radio, pcks[Oldest(cb)])
  /\ writing' = TRUE
  /\ EndProcess
  /\ UNCHANGED <<system_state, last_tx_failed, ring, usb, history>>

StreamWait ==
  /\ InProcess("WRITE_STREAM")
  /\ IF writing THEN ~rf24_write_done ELSE cb_is_empty(cb)
  /\ EndProcess
  /\ UNCHANGED <<system_state, writing, last_tx_failed, ring, usb, radio, history>>

BulkPush ==
  /\ InProcess("WRITE_BULK")
  /\ ~cb_is_empty(cb) /\ ~TxFull(radio)
  /\ radio' = rf24_queue_push(radio, pcks[Oldest(cb)])
  /\ cb' = cb_read(cb)
  /\ UNCHANGED <<system_state, writing, last_tx_failed, acb, pcks, usb, phase, history>>

\* Mutant of BulkRetry: MAX_RT is left set.
BulkRetryNever ==
  /\ InProcess("WRITE_BULK")
  /\ cb_is_empty(cb) \/ TxFull(radio)
  /\ EndProcess
  /\ UNCHANGED <<system_state, writing, last_tx_failed, ring, usb, radio, history>>

\* Clearing MAX_RT makes the radio try its head again, for ever.
BulkRetry ==
  /\ InProcess("WRITE_BULK")
  /\ cb_is_empty(cb) \/ TxFull(radio)
  /\ radio' = rf24_what_happened(radio)
  /\ EndProcess
  /\ UNCHANGED <<system_state, writing, last_tx_failed, ring, usb, history>>

ProcessRadio ==
  \/ IdleWork \/ ReadMove \/ ReadWorkDone
  \/ StreamFinish \/ StreamStart \/ StreamWait \/ BulkPush \/ BulkRetry

\* The end of the main loop: usbInterruptIsReady is true once the last message is gone.
MainPost ==
  /\ phase = "post"
  /\ phase' = "poll"
  /\ UNCHANGED <<system_state, writing, last_tx_failed, ring, request, radio, history>>
  /\ IF intMsg = NoMessage THEN post_interrupt_message ELSE UNCHANGED intMsg

MainLoop == PollNothing \/ ProcessRadio \/ MainPost \/ SyncTurn \/ SyncReturn

-----------------------------------------------------------------------------
(***************************************************************************)
(* Around the firmware.                                                    *)
(***************************************************************************)
firmware == <<system_state, writing, last_tx_failed, ring, request, phase>>

HostTakesInterrupt ==
  /\ intMsg # NoMessage
  /\ intMsg' = NoMessage
  /\ UNCHANGED <<firmware, radio, history>>

RadioAcknowledged ==
  /\ MaySend(radio)
  /\ radio' = Acknowledged(radio)
  /\ air' = IF radio.seen THEN air ELSE Append(air, Head(radio.tx))
  /\ UNCHANGED <<firmware, intMsg, got, written, arrived>>

RadioUnanswered ==
  /\ MaySend(radio)
  /\ \E taken \in BOOLEAN :
       /\ radio' = Unanswered(radio, taken)
       /\ air' = IF taken /\ ~radio.seen THEN Append(air, Head(radio.tx)) ELSE air
  /\ UNCHANGED <<firmware, intMsg, got, written, arrived>>

RadioReceives ==
  /\ MayReceive(radio)
  /\ Len(arrived) < MaxArrivals
  /\ radio' = Received(radio, <<0, Len(arrived) + 1>>)
  /\ arrived' = Append(arrived, <<0, Len(arrived) + 1>>)
  /\ UNCHANGED <<firmware, intMsg, air, got, written>>

Environment ==
  \/ HostTakesInterrupt \/ RadioAcknowledged \/ RadioUnanswered
  \/ Len(written) + Len(arrived) < MaxPackets /\ RadioReceives

usb_init == rf24_flush_rx(rf24_flush_tx(rf24_stop_listening(RadioReset)))

Init ==
  /\ system_state = "IDLE" /\ writing = FALSE /\ last_tx_failed = "ok"
  /\ cb = Ring(0, 0) /\ acb = Ring(0, 0)
  /\ pcks = [s \in 0..HW_BUFFER_SIZE-1 |-> NoPacket]
  /\ request = NoRequest /\ phase = "poll" /\ intMsg = NoMessage
  /\ radio = usb_init
  /\ air = <<>> /\ got = <<>> /\ written = <<>> /\ arrived = <<>>

\* What the host writes in read mode goes to acb, and nothing ever takes it out.
AckPacket == <<2, 1>>

\* A host that may send any request.  One that keeps its credit writes only to
\* a ring with room, and the room is still there when the data has arrived.
HostWrites ==
  /\ Len(written) < MaxWrites /\ Len(written) + Len(arrived) < MaxPackets
  /\ HostKeepsCredit => HasSlots(WriteRing) /\ ~cb_is_full(WriteRing)
  /\ SetupOut([rq |-> "RQ_WRITE",
               packet |-> IF system_state = "READ" THEN AckPacket ELSE <<1, Len(written) + 1>>])

HostSends ==
  \/ \E m \in Mode : RqMode([rq |-> "RQ_MODE", mode |-> m])
  \/ \E ack \in AckModes : SetupOut([rq |-> "RQ_CONFIG", ack_payloads |-> ack])
  \/ \E r \in {"RQ_OPEN_PIPE", "RQ_READ", "RQ_SWEEP", "RQ_FLUSH", "RQ_SYNC", "RQ_NOP"} :
       Setup([rq |-> r])
  \/ HostWrites

Next == HostSends \/ Data \/ MainLoop \/ Environment

Spec == Init /\ [][Next]_vars

\* The main loop never stops, and the time RQ_SYNC may take is bounded.
MainLoopRuns == WF_vars(Data \/ MainLoop) /\ SF_vars(SyncReturn)

\* The radio ends every transmission it starts, one way or the other.
RadioRuns == WF_vars(RadioAcknowledged \/ RadioUnanswered)

\* The peer is there: a transmission tried for ever is answered at last.
PeerAnswers == SF_vars(RadioAcknowledged)

FairSpec == Spec /\ MainLoopRuns /\ RadioRuns

-----------------------------------------------------------------------------
(***************************************************************************)
(* Properties.                                                             *)
(***************************************************************************)
RingType == [size : 0..HW_BUFFER_SIZE, start : 0..HW_BUFFER_SIZE-1,
             count : 0..HW_BUFFER_SIZE, elems : 0..HW_BUFFER_SIZE-1]
StatusType ==
  [cb_count : 0..HW_BUFFER_SIZE, cb_size : 0..HW_BUFFER_SIZE,
   acb_count : 0..HW_BUFFER_SIZE, acb_size : 0..HW_BUFFER_SIZE,
   last_tx_failed : {"ok", "failed", "pending"}, fifo_is_empty : BOOLEAN]
RadioType ==
  [tx : Seq(Packet), rx : Seq(Packet), seen : BOOLEAN,
   tx_ds : BOOLEAN, max_rt : BOOLEAN, listening : BOOLEAN]

\* The values the firmware's variables range over (uisp-app.c:40-64).
TypeOK ==
  /\ system_state \in Mode
  /\ writing \in BOOLEAN
  /\ last_tx_failed \in {"ok", "failed", "pending"}
  /\ cb \in RingType /\ acb \in RingType
  /\ pcks \in [0..HW_BUFFER_SIZE-1 -> Packet]
  /\ request \in Request \cup {NoRequest}
  /\ phase \in Phase
  /\ intMsg \in StatusType \cup {NoMessage}
  /\ radio \in RadioType
  /\ air \in Seq(Packet) /\ got \in Seq(Packet)
  /\ written \in Seq(Packet) /\ arrived \in Seq(Packet)

\* Every slot of pcks[] that the firmware is about to write through cb_get_slot
\* or read through cb_peek and cb_read is inside pcks[], whatever the host
\* asks for and however often it reconfigures the rings (neither cb.c nor
\* uisp-app.c checks an index).
SlotsInPool ==
  \A b \in {cb, acb} :
    /\ b.count <= b.size
    /\ HasSlots(b) => NextSlot(b) \in DOMAIN pcks
    /\ ~cb_is_empty(b) => Oldest(b) \in DOMAIN pcks

\* cb and acb share the pool, and no packet of one lies in a slot of the other.
LiveSlotsDisjoint ==
  \A i \in 1..cb.count, j \in 1..acb.count : Slot(cb, i) # Slot(acb, j)

\* In stream mode the packet the radio works on is the head of cb: the cb_read
\* that follows the end of a transmission removes the packet that was sent.
InFlightIsHead ==
  (system_state = "WRITE_STREAM" /\ radio.tx # <<>>) =>
    /\ writing
    /\ ~cb_is_empty(cb)
    /\ radio.tx = <<pcks[Oldest(cb)]>>

Writing == system_state \in {"WRITE_STREAM", "WRITE_BULK"}

\* The room a primed interrupt message promises the host is still there: acting
\* on it can not make cb_get_slot drop a packet.
PostedCreditSound ==
  (Writing /\ intMsg # NoMessage) =>
    intMsg.cb_size - intMsg.cb_count <= cb.size - cb.count

\* From RQ_WRITE to the air, and from the air to RQ_READ, the dongle is a
\* PacketPipe; only in bulk mode it may not give a packet up on the way out.
TxPending ==
  CASE system_state = "READ" -> <<>>
    [] system_state = "WRITE_BULK" -> radio.tx \o Contents(cb, pcks)
    [] OTHER -> Contents(cb, pcks)
TxTaken ==
  \/ radio.seen
  \/ system_state = "WRITE_STREAM" /\ writing /\ radio.tx_ds

TxPipe == INSTANCE PacketPipe
  WITH accepted <- written, pending <- TxPending, taken <- TxTaken, delivered <- air,
       reliable <- system_state = "WRITE_BULK"
RxPipe == INSTANCE PacketPipe
  WITH accepted <- arrived,
       pending <- IF system_state = "READ" THEN Contents(cb, pcks) \o radio.rx ELSE <<>>,
       taken <- FALSE, delivered <- got, reliable <- TRUE

TxFifo == TxPipe!Spec
RxFifo == RxPipe!Spec

HeadIs(n) == Writing /\ TxPending # <<>> /\ Head(TxPending) = <<1, n>>

\* In stream mode no packet stays at the head of the queue for ever, answered or
\* not: MAX_RT ends it.
StreamDrains ==
  \A n \in 1..MaxWrites :
    (HeadIs(n) /\ system_state = "WRITE_STREAM") ~> ~HeadIs(n)

\* In bulk mode a packet leaves the head of the queue if the peer ever answers.
BulkDrains == PeerAnswers => \A n \in 1..MaxWrites : HeadIs(n) ~> ~HeadIs(n)
=============================================================================
