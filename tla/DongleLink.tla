----------------------------- MODULE DongleLink -----------------------------
(***************************************************************************)
(* A program that uses librf24pp, the USB bus, the dongle and the air:      *)
(* LibRF24 and Dongle composed.                                            *)
(*                                                                         *)
(* Control requests reach the dongle in the order they were submitted, one  *)
(* at a time.  A request is complete for the host some time after the       *)
(* firmware has served it (the status stage); an interrupt transfer that is *)
(* outstanding collects whatever status the dongle has primed, which may be *)
(* as old as the last collection.  Completions are called back in the order *)
(* in which they happened, while the program is in loopOnce.                *)
(***************************************************************************)
EXTENDS LibRF24

CONSTANTS
  HW_BUFFER_SIZE, MaxArrivals,  \* as in Dongle
  Menu,          \* the transfers the program may execute
  MaxTransfers,  \* bound: how many it executes
  Styles,        \* ways of using the library: "execute", one transfer after the
                 \* other; "queue", it submits while others are pending, cancels
                 \* what it submitted, and loops for ever
  Timeouts       \* bound: the styles in which the time of a transfer may run out

ASSUME HwBufferAssumption ==
  HW_BUFFER_SIZE \in Nat /\ HW_BUFFER_SIZE > 0 /\ HW_BUFFER_SIZE % 2 = 0
\* Of the programs, only rf24-sweep has a callback.
ASSUME MenuAssumption ==
  Menu \subseteq Descriptor /\ \A d \in Menu : d.resubmits > 0 => d.kind = "sweep"
ASSUME FlagsAssumption ==
  Styles \subseteq {"execute", "queue"} /\ Timeouts \subseteq Styles

VARIABLES
  system_state, writing, last_tx_failed, cb, acb, pcks, request, phase, intMsg,
  radio, air, got, written, arrived,   \* the dongle
  host,       \* the adaptor and its transfers
  serving,    \* the request the dongle has served, before its status stage
  done,       \* completed transfers, not called back yet
  style,
  executing,  \* the transfer execute() waits for
  late        \* the transfers whose time is up

D == INSTANCE Dongle
  WITH AckModes <- {FALSE}, HostKeepsCredit <- FALSE,
       MaxWrites <- 0, MaxPackets <- 0

dongle == <<system_state, writing, last_tx_failed, cb, acb, pcks, request, phase, intMsg,
            radio, air, got, written, arrived>>
program == <<host, style, executing, late>>
bus == <<serving, done>>
vars == <<dongle, program, bus>>

Idle == 0
NoCompletion == [rq |-> "NONE"]
Running == host.thrown = "nothing"
InLoop == Running /\ (style = "queue" \/ executing # Idle)

-----------------------------------------------------------------------------
\* A program configures the radio before anything else; only rf24-sweep sweeps,
\* and does nothing else.
Submit(d) ==
  /\ Running
  /\ style = "queue" \/ executing = Idle
  /\ Len(host.xfers) < MaxTransfers
  /\ IF host.xfers = <<>>
       THEN d.kind \in {"conf", "sweep"}
       ELSE d.kind = "sweep" <=> host.xfers[1].d.kind = "sweep"
  /\ host' = submit(host, d)
  /\ executing' = Len(host.xfers) + 1
  /\ UNCHANGED <<dongle, bus, style, late>>

\* rf24bootWaitTarget executes its ping until the target answers.
PingAgain ==
  /\ Running /\ style = "execute" /\ executing = Idle
  /\ Len(host.xfers) \in 1 .. MaxTransfers - 1
  /\ LET last == host.xfers[Len(host.xfers)] IN last.d.kind = "stream" /\ ~last.lastWriteOk
  /\ host' = submitAgain(host, Len(host.xfers))
  /\ executing' = Len(host.xfers) + 1
  /\ UNCHANGED <<dongle, bus, style, late>>

\* execute() returns once its transfer is no longer queued.
Return ==
  /\ Running /\ style = "execute"
  /\ executing # Idle
  /\ host.xfers[executing].status # "QUEUED"
  /\ executing' = Idle
  /\ UNCHANGED <<dongle, host, bus, style, late>>

Cancel(t) ==
  /\ Running /\ style = "queue"
  /\ host.xfers[t].status = "QUEUED"
  /\ host' = cancel(host, t)
  /\ UNCHANGED <<dongle, executing, bus, style, late>>

TimeUp(t) ==
  /\ style \in Timeouts
  /\ host.xfers[t].status = "QUEUED" /\ t \notin late
  /\ late' = late \cup {t}
  /\ UNCHANGED <<dongle, host, executing, bus, style>>

\* libusb_handle_events calls back the oldest completion; nothing else takes one.
TakesCompletion == InLoop /\ done # <<>> /\ done' = Tail(done)

Callback ==
  /\ TakesCompletion
  /\ host' = LET c == Head(done) IN
       IF c.rq = "STATUS"
         THEN statusUpdateArrived(host, c.status, host.currentTransfer \in late)
         ELSE Completed(host, c)
  /\ UNCHANGED <<dongle, serving, executing, style, late>>

-----------------------------------------------------------------------------
\* The dongle takes the oldest control request; one without an OUT data stage
\* is served with that.
DongleTakesRequest ==
  /\ host.ep0 # <<>> /\ serving = NoCompletion
  /\ LET rq == Head(host.ep0) IN
     /\ D!Setup(rq)
     /\ host' = [host EXCEPT !.ep0 = Tail(@)]
     /\ serving' = IF rq.rq \in D!OutRequests THEN NoCompletion
                   ELSE [rq |-> rq.rq, reply |-> D!ReadReply]
  /\ UNCHANGED <<executing, style, late, done>>

DongleTakesData ==
  /\ D!Data
  /\ serving' = IF phase' = "hung" THEN NoCompletion ELSE [rq |-> request.rq]
  /\ UNCHANGED <<program, done>>

StatusStage ==
  /\ serving # NoCompletion
  /\ done' = Append(done, serving)
  /\ serving' = NoCompletion
  /\ UNCHANGED <<dongle, program>>

CollectStatus ==
  /\ host.interruptIsRunning
  /\ \A i \in 1..Len(done) : done[i].rq # "STATUS"
  /\ D!HostTakesInterrupt
  /\ done' = Append(done, [rq |-> "STATUS", status |-> intMsg])
  /\ UNCHANGED <<program, serving>>

DongleRuns == D!MainLoop /\ UNCHANGED <<program, bus>>
Acknowledged == D!RadioAcknowledged /\ UNCHANGED <<program, bus>>
Unanswered == D!RadioUnanswered /\ UNCHANGED <<program, bus>>
Receives == D!RadioReceives /\ UNCHANGED <<program, bus>>

Init ==
  /\ D!Init
  /\ host = HostInit /\ style \in Styles
  /\ serving = NoCompletion /\ done = <<>> /\ executing = Idle /\ late = {}

Next ==
  \/ \E d \in Menu : Submit(d)
  \/ PingAgain \/ Return
  \/ \E t \in 1..Len(host.xfers) : Cancel(t) \/ TimeUp(t)
  \/ Callback
  \/ DongleTakesRequest \/ DongleTakesData \/ StatusStage \/ CollectStatus
  \/ DongleRuns \/ Acknowledged \/ Unanswered \/ Receives

Spec == Init /\ [][Next]_vars

\* The program stays in execute() or in its loop, the bus carries what was
\* submitted, the dongle's main loop goes round (a request that has arrived is
\* served by some usbPoll), the radio ends every transmission it starts, and time
\* passes.
FairSpec ==
  /\ Spec
  /\ WF_done(TakesCompletion) /\ WF_vars(Return) /\ WF_vars(StatusStage) /\ WF_vars(CollectStatus)
  /\ WF_vars(DongleRuns) /\ SF_vars(DongleTakesRequest) /\ SF_vars(DongleTakesData)
  /\ WF_vars(Acknowledged \/ Unanswered)
  /\ \A t \in 1..MaxTransfers : WF_vars(t \in 1..Len(host.xfers) /\ TimeUp(t))

-----------------------------------------------------------------------------
(***************************************************************************)
(* Properties.                                                             *)
(***************************************************************************)

\* Requests on their way: submitted, noted or served by the dongle, and called back
\* next; a request on which the firmware hangs never ends.
One(p) == IF p THEN 1 ELSE 0
Outstanding ==
  Len(host.ep0) + One(request.rq # "NONE") + One(phase = "hung") + One(serving.rq # "NONE")
    + Len(done) - One(\E i \in 1..Len(done) : done[i].rq = "STATUS")

Transfers == 1..Len(host.xfers)
\* For programs that execute one transfer after the other; what a queue of them may
\* lose is in README.md.
Executes == style = "execute"

\* pipeOpen has two requests on their way at once, each of which reopens canXfer: see
\* README.md for what that breaks.
OpensNoPipe == \A t \in Transfers : host.xfers[t].d.kind # "open"
Finished(t, kinds) ==
  Executes /\ host.xfers[t].status = "COMPLETED" /\ host.xfers[t].d.kind \in kinds /\ host.xfers[t].d.sync
Sent(t, i) == \E k \in 1..Len(air) : air[k] = <<t, i>>

\* uisp-app.c:260, "useful to catch userspace breakage": the host never writes
\* a packet to a full ring (where the oldest one would be dropped), nor to a
\* ring without slots (where the firmware would hang), unless it opens pipes.
NoWriteToFullRing ==
  (Executes /\ OpensNoPipe /\ request.rq = "RQ_WRITE" /\ phase = "poll") =>
    D!HasSlots(D!WriteRing) /\ ~D!cb_is_full(D!WriteRing)

\* rf24adaptor.hpp:72, numIosPending: "Current async IOS pending".  Everything
\* that decides when to ask for a status relies on it.
PendingIosExact == Running => host.numIosPending = Outstanding

\* When a synchronous write has COMPLETED, nothing of it is left in the dongle or
\* on the way there: what comes next, a mode switch that flushes or a pipe opening
\* that retargets, can not touch it.
InDongle == {radio.tx[i] : i \in 1..Len(radio.tx)}
  \cup {D!Contents(cb, pcks)[i] : i \in 1..cb.count}
OnTheWay == {rq.packet : rq \in {r \in {request} \cup ToSet(host.ep0) : r.rq = "RQ_WRITE"}}
SyncMeansSettled ==
  \A t \in Transfers : Finished(t, {"stream", "bulk"}) =>
    \A p \in InDongle \cup OnTheWay : p[1] # t

\* A synchronous bulk write that COMPLETED reached the peer, every packet of it and
\* of the asynchronous ones that completed just before it: nothing was dropped from
\* a ring or flushed between them.
BulkDelivered ==
  OpensNoPipe => \A t \in Transfers : Finished(t, {"bulk"}) =>
    \A u \in 1..t :
      (\A v \in u..t : host.xfers[v].d.kind = "bulk" /\ host.xfers[v].status = "COMPLETED") =>
        \A i \in 1..ToSend(host.xfers[u].d) : Sent(u, i)

\* rf24iotransfer.cpp deletes the packets of a transfer with the transfer: when one
\* that was executed has ended, however it ended, libusb holds none of its packets.
BuffersOutliveRequests ==
  Executes /\ OpensNoPipe => \A t \in Transfers :
    host.xfers[t].status # "QUEUED" => host.xfers[t].numWriting = 0

\* write() tells the truth: a true from getLastWriteResult means that the last
\* packet of a stream transfer reached the peer.
StreamVerdictTrue ==
  \A t \in Transfers : (Finished(t, {"stream"}) /\ host.xfers[t].lastWriteOk) =>
    Sent(t, ToSend(host.xfers[t].d))

\* Packets reach the air in the order in which the program wrote them, across
\* transfers, each at most once.
InOrderOnce ==
  \A j, k \in 1..Len(air) : j < k =>
    \/ air[j][1] < air[k][1]
    \/ air[j][1] = air[k][1] /\ air[j][2] < air[k][2]

\* rf24libusbadaptor.cpp:284, "We can read at least one more!": a packet that the
\* host counts on is there, so no RQ_READ comes back empty.
NoPhantomRead ==
  serving.rq = "RQ_READ" => serving.reply.packet # D!NoPacket

\* What transfers have received is what the dongle handed out, in order.
Delivered == FlattenSeq([t \in Transfers |-> host.xfers[t].recv])
RecvInOrder == Running => IsPrefix(Delivered, got)

\* No callback throws, or uses a transfer that is not there any more.
NothingThrown == Running

\* rf24defs.h:15, TRANSFER_TIMED_OUT: "Timeout waiting for transfer to complete".
\* Completed or timed out, a transfer that was submitted ends.
Pending(t) == t \in Transfers /\ host.xfers[t].status = "QUEUED"
TransferEnds == \A t \in 1..MaxTransfers : Pending(t) ~> ~Pending(t)
=============================================================================
