------------------------------ MODULE LibRF24 ------------------------------
(***************************************************************************)
(* librf24pp, the host's side of the dongle: LibRF24Adaptor with its libusb *)
(* back end, and the transfers that are executed on it.                     *)
(*                                                                         *)
(* Everything runs in one thread, inside submit() or inside a callback of   *)
(* libusb_handle_events, and callbacks call each other's helpers.  Each     *)
(* C++ method is an operator from the host's state to its next state; the   *)
(* entry points, one per libusb callback and one per client call, are at    *)
(* the end.  A host state h is a record with the members of the adaptor and *)
(*   xfers    the transfers, numbered as the client submits them            *)
(*   ep0      control requests submitted and not yet taken by the dongle    *)
(*   thrown   the exception (or invalid dereference) that ended the program *)
(***************************************************************************)
EXTENDS Integers, Sequences, SequencesExt, FiniteSetsExt

NoTransfer == 0

\* What a client may execute: a LibRF24IOTransfer (kinds stream, bulk and read)
\* with `size' packets to send or receive, or one of the control transfers.
Descriptor ==
  [kind : {"stream", "bulk", "read", "conf", "open", "sweep"},
   sync : BOOLEAN, size : Nat,
   resubmits : Nat]  \* how often its callback submits it again

IOKinds == {"stream", "bulk", "read"}
transferMode(d) ==
  CASE d.kind = "stream" -> "WRITE_STREAM"
    [] d.kind = "read" -> "READ"
    [] d.kind \in {"bulk", "open"} -> "WRITE_BULK"
    [] OTHER -> "ANY"

ToSend(d)    == IF d.kind \in {"stream", "bulk"} THEN d.size ELSE 0
ToReceive(d) == IF d.kind = "read" THEN d.size ELSE 1  \* "countToRead = true"

NewTransfer(d) ==
  [d |-> d, status |-> "QUEUED", sent |-> 0, numWriting |-> 0, recv |-> <<>>,
   lastWriteOk |-> FALSE]

HostInit ==
  [queue |-> <<>>, currentTransfer |-> NoTransfer, xfers |-> <<>>,
   numIosPending |-> 0, countToWrite |-> 0, countToRead |-> 0, canXfer |-> TRUE,
   currentMode |-> "IDLE", nextMode |-> "IDLE",
   interruptIsRunning |-> FALSE, ep0 |-> <<>>, thrown |-> "nothing"]

Current(h) == h.xfers[h.currentTransfer]
HasCurrent(h) == h.currentTransfer # NoTransfer
Throw(h, what) == [h EXCEPT !.thrown = what]

-----------------------------------------------------------------------------
(***************************************************************************)
(* Submitting to libusb.                                                   *)
(***************************************************************************)
requestStatus(h) == [h EXCEPT !.interruptIsRunning = TRUE]

\* Mutant of RequestStatusIfQuiet: whatever is on its way.
RequestStatusAtOnce(h) == IF HasCurrent(h) THEN requestStatus(h) ELSE h

\* The last lines of startTransfers, bufferReadDone and bufferWriteDone.
RequestStatusIfQuiet(h) ==
  IF h.numIosPending = 0 /\ HasCurrent(h) THEN requestStatus(h) ELSE h

ControlRequest(h, rq) == [h EXCEPT !.ep0 = Append(@, rq)]

\* switchMode, configureStart and pipeOpenStart each block further packets.
StartControl(h, rq) ==
  [ControlRequest(h, rq) EXCEPT !.canXfer = FALSE, !.numIosPending = @ + 1]
DropCredit(h) == [h EXCEPT !.countToRead = 0, !.countToWrite = 0]

switchMode(h, m) ==
  [DropCredit(StartControl(h, [rq |-> "RQ_MODE", mode |-> m])) EXCEPT !.nextMode = m]
configureStart(h) ==
  DropCredit(StartControl(h, [rq |-> "RQ_CONFIG", ack_payloads |-> FALSE]))
pipeOpenStart(h) == StartControl(h, [rq |-> "RQ_OPEN_PIPE"])

\* The libusb sweepStart does not call the base class, so nothing is counted.
sweepStart(h) == ControlRequest(h, [rq |-> "RQ_SWEEP"])

-----------------------------------------------------------------------------
(***************************************************************************)
(* startTransfers.                                                         *)
(***************************************************************************)

\* How many packets the current transfer has to write, and to read into: those of
\* the IO kinds make one whenever they are asked.
nextForWrite(h) == ToSend(Current(h).d) - Current(h).sent
nextForRead(h) == IF Current(h).d.kind \in IOKinds THEN h.countToRead ELSE 0

\* The round-robin of writes and reads, as far as credit and packets go.
Pump(h) ==
  LET t == h.currentTransfer
      x == Current(h)
      writes == Min({h.countToWrite, nextForWrite(h)})
      reads == nextForRead(h)
      paired == 2 * Min({writes, reads})
      write(i) == [rq |-> "RQ_WRITE", packet |-> <<t, x.sent + i>>]
      nth(k) ==
        CASE k <= paired /\ k % 2 = 1 -> write((k + 1) \div 2)
          [] k > paired /\ writes > reads -> write(k - reads)
          [] OTHER -> [rq |-> "RQ_READ"]
      sending == [x EXCEPT !.sent = @ + writes, !.numWriting = @ + writes]
  IN [h EXCEPT !.ep0 = @ \o [k \in 1..writes + reads |-> nth(k)],
               !.numIosPending = @ + writes + reads,
               !.countToWrite = @ - writes, !.countToRead = @ - reads,
               !.xfers[t] = sending]

\* startTransfers once a transfer is current, or none is left to start.
ServeCurrent(h) ==
  LET m == transferMode(Current(h).d) IN
  CASE ~HasCurrent(h) -> h
    [] HasCurrent(h) /\ m # "ANY" /\ m # h.currentMode -> switchMode(h, m)
    [] OTHER -> RequestStatusIfQuiet(IF h.canXfer THEN Pump(h) ELSE h)

transferCompleted(h, t) ==
  IF h.currentTransfer = t
    THEN [h EXCEPT !.currentTransfer = NoTransfer]
    ELSE Throw(h, "Attempt to complete transfer not current")

\* The callback of rf24-sweep, the only one a program has: it submits the transfer
\* again, while it is still the current one.
sweepDone(h, t) ==
  ServeCurrent([h EXCEPT !.xfers[t].status = "QUEUED",
                         !.xfers[t].d.resubmits = @ - 1,
                         !.queue = Append(@, t)])

\* LibRF24Transfer::updateStatus with a callback.
updateTransferStatus(h, t, status) ==
  LET told == [h EXCEPT !.xfers[t].status = status]
  IN transferCompleted(IF h.xfers[t].d.resubmits > 0 THEN sweepDone(told, t) ELSE told, t)

transferStarted(h) ==
  LET d == Current(h).d IN
  CASE d.kind = "conf" -> configureStart(h)
    [] d.kind = "open" -> pipeOpenStart(h)
    [] d.kind = "sweep" -> sweepStart(h)
    [] d.kind \in {"stream", "bulk"} /\ d.size = 0 ->
         updateTransferStatus(h, h.currentTransfer, "COMPLETED")
    [] OTHER -> h

startTransfers(h) ==
  IF ~HasCurrent(h) /\ h.queue # <<>>
    THEN LET started == transferStarted([h EXCEPT !.currentTransfer = Head(h.queue),
                                                  !.queue = Tail(@)])
         IN IF HasCurrent(started) THEN ServeCurrent(started) ELSE requestStatus(started)
    ELSE ServeCurrent(h)

\* A negative count leaves the credit of that direction alone.
updateStatus(h, canWrite, canRead) ==
  startTransfers(
    [h EXCEPT !.countToWrite = IF canWrite >= 0 THEN canWrite ELSE @,
              !.countToRead = IF canRead >= 0 THEN canRead ELSE @])

-----------------------------------------------------------------------------
(***************************************************************************)
(* The dongle is idle, says its status.  `late' tells whether the time of   *)
(* the current transfer is up: nothing else ever looks at the clock.        *)
(***************************************************************************)
AllAcknowledged(x) == x.numWriting = 0 /\ x.sent = ToSend(x.d)

\* Mutant of checkTransferTimeout: nothing ever times out.
checkTransferTimeoutNever(h, t, late) == h

checkTransferTimeout(h, t, late) ==
  IF late /\ h.xfers[t].status = "QUEUED" THEN updateTransferStatus(h, t, "TIMED_OUT") ELSE h

\* LibRF24IOTransfer, and the transfers that only wait for the dongle to be idle.
ioNowIdle(h, t, lastOk, late) ==
  LET x == h.xfers[t]
      finished == x.d.kind # "read" /\ x.d.sync /\ AllAcknowledged(x)
  IN checkTransferTimeout(
       IF finished
         THEN updateTransferStatus([h EXCEPT !.xfers[t].lastWriteOk = lastOk], t, "COMPLETED")
         ELSE h,
       t, late)
controlNowIdle(h, t) == updateTransferStatus(h, t, "COMPLETED")

updateIdleStatus(h, lastOk, late) ==
  LET t == h.currentTransfer IN
  CASE ~HasCurrent(h) -> h
    [] HasCurrent(h) /\ Current(h).d.kind \in IOKinds -> ioNowIdle(h, t, lastOk, late)
    [] HasCurrent(h) /\ Current(h).d.kind \in {"conf", "open"} -> controlNowIdle(h, t)
    [] OTHER -> h

-----------------------------------------------------------------------------
\* Mutant of CanWrite: what is in the ring already is not subtracted.
CanWriteWholeRing(h, s) ==
  IF h.currentMode = "READ" THEN s.acb_size ELSE s.cb_size

(***************************************************************************)
(* The libusb callbacks.                                                   *)
(***************************************************************************)
CanWrite(h, s) ==
  IF h.currentMode = "READ" THEN s.acb_size - s.acb_count ELSE s.cb_size - s.cb_count
\* Mutant of CanRead: it counts slots, not packets.
CanReadWholeRing(h, s) ==
  IF h.currentMode = "READ" THEN s.cb_size ELSE s.acb_size

CanRead(h, s) == IF h.currentMode = "READ" THEN s.cb_count ELSE s.acb_count
\* Mutant of SaysIdle: the radio's own FIFO is forgotten.
SaysIdleNoFifo(s) == s.cb_count = 0 /\ s.acb_count = 0

SaysIdle(s) == s.cb_count = 0 /\ s.acb_count = 0 /\ s.fifo_is_empty
\* Mutant of SaysLastOk: an empty FIFO counts as success in every mode.
SaysLastOkAnyMode(h, s) == s.last_tx_failed = "ok" \/ s.fifo_is_empty

SaysLastOk(h, s) ==
  s.last_tx_failed = "ok" \/ (s.fifo_is_empty /\ h.currentMode = "WRITE_BULK")

statusUpdateArrived(h, s, late) ==
  LET heard == [h EXCEPT !.interruptIsRunning = FALSE]
      told == IF SaysIdle(s) THEN updateIdleStatus(heard, SaysLastOk(h, s), late) ELSE heard
  IN updateStatus(told, CanWrite(h, s), CanRead(h, s))

\* Mutant of IODone: the IO stays counted as pending.
IODoneUncounted(h) == RequestStatusIfQuiet(h)

IODone(h) == RequestStatusIfQuiet([h EXCEPT !.numIosPending = @ - 1])

\* bufferWriteDone and bufferReadDone of LibRF24IOTransfer; those of the other
\* transfers are empty.
ioWriteDone(h, t) ==
  LET x == [h.xfers[t] EXCEPT !.numWriting = @ - 1]
      noted == [h EXCEPT !.xfers[t] = x]
  IN IF ~x.d.sync /\ AllAcknowledged(x) THEN updateTransferStatus(noted, t, "COMPLETED") ELSE noted

\* Mutant of ioReadDone: packets are pushed at the front.
ioReadDoneBackwards(h, t, packet) ==
  LET x == [h.xfers[t] EXCEPT !.recv = <<packet>> \o @]
      noted == [h EXCEPT !.xfers[t] = x]
  IN IF Len(x.recv) = ToReceive(x.d) THEN updateTransferStatus(noted, t, "COMPLETED") ELSE noted

ioReadDone(h, t, packet) ==
  LET x == [h.xfers[t] EXCEPT !.recv = Append(@, packet)]
      noted == [h EXCEPT !.xfers[t] = x]
  IN IF Len(x.recv) = ToReceive(x.d) THEN updateTransferStatus(noted, t, "COMPLETED") ELSE noted

\* What has been written or read counts for whatever transfer is current now.
packetWritten(h) ==
  IF HasCurrent(h)
    THEN IODone(IF Current(h).d.kind \in IOKinds THEN ioWriteDone(h, h.currentTransfer) ELSE h)
    ELSE Throw(h, "null currentTransfer")

bufferReadDone(h, packet) ==
  IF HasCurrent(h)
    THEN IODone(IF Current(h).d.kind \in IOKinds
                  THEN ioReadDone(h, h.currentTransfer, packet) ELSE h)
    ELSE Throw(h, "null currentTransfer")

\* Mutant of packetObtained: "more" is acted on whatever else is pending.
packetObtainedMoreAlways(h, reply) ==
  bufferReadDone(IF reply.more THEN updateStatus(h, -1, 1) ELSE h, reply.packet)

packetObtained(h, reply) ==
  bufferReadDone(
    IF reply.more /\ h.numIosPending = 1 THEN updateStatus(h, -1, 1) ELSE h,
    reply.packet)

ControlDone(h) == [h EXCEPT !.canXfer = TRUE, !.numIosPending = @ - 1]
configureDone(h) == requestStatus(ControlDone(h))
pipeOpenDone(h) == requestStatus(ControlDone(h))
switchModeDone(h, newMode) == requestStatus([ControlDone(h) EXCEPT !.currentMode = newMode])
modeSwitched(h) == switchModeDone(h, h.nextMode)

\* The data of a sweep completes it; handleData of the other transfers is empty.
handleData(h, t) ==
  IF h.xfers[t].d.kind = "sweep" THEN updateTransferStatus(h, t, "COMPLETED") ELSE h

sweepCompleted(h) ==
  LET counted == [h EXCEPT !.canXfer = TRUE, !.numIosPending = @ + 1]
  IN IF HasCurrent(h) THEN requestStatus(handleData(counted, h.currentTransfer))
                      ELSE Throw(counted, "null currentTransfer")

Completed(h, c) ==
  CASE c.rq = "RQ_WRITE" -> packetWritten(h)
    [] c.rq = "RQ_READ" -> packetObtained(h, c.reply)
    [] c.rq = "RQ_MODE" -> modeSwitched(h)
    [] c.rq = "RQ_SWEEP" -> sweepCompleted(h)
    [] c.rq = "RQ_CONFIG" -> configureDone(h)
    [] c.rq = "RQ_OPEN_PIPE" -> pipeOpenDone(h)

-----------------------------------------------------------------------------
\* Mutant of submit: a new transfer goes to the front of the queue.
submitFirst(h, d) ==
  startTransfers([h EXCEPT !.xfers = Append(@, NewTransfer(d)),
                           !.queue = <<Len(h.xfers) + 1>> \o @])

(***************************************************************************)
(* The client's calls.                                                     *)
(***************************************************************************)
submit(h, d) ==
  startTransfers([h EXCEPT !.xfers = Append(@, NewTransfer(d)),
                           !.queue = Append(@, Len(h.xfers) + 1)])

\* The object of transfer t is submitted once more: the number is new, so that its
\* packets can be told apart; the members that submit() leaves alone are not.
submitAgain(h, t) ==
  LET again == [h.xfers[t] EXCEPT !.status = "QUEUED", !.sent = 0]
  IN startTransfers([h EXCEPT !.xfers = Append(@, again),
                              !.queue = Append(@, Len(h.xfers) + 1)])

\* cancel: only a transfer whose status is QUEUED, which a running one has too.
cancel(h, t) ==
  IF Contains(h.queue, t)
    THEN updateTransferStatus([h EXCEPT !.queue = Remove(@, t)], t, "CANCELLED")
    ELSE Throw(h, "Attempt to cancel transfer not in adaptor queue")
=============================================================================
