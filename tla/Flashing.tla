------------------------------ MODULE Flashing ------------------------------
(***************************************************************************)
(* The loader, the dongle, the air and the target: how an image gets into   *)
(* a partition, and back.                                                  *)
(*                                                                         *)
(* The dongle and librf24pp appear by what modules Dongle and DongleLink    *)
(* show of them: packets leave in the order in which they were written;     *)
(* bulk mode retries until it succeeds; stream mode tries once and tells    *)
(* the outcome; a synchronous write returns when the peer has everything;   *)
(* received packets arrive in order; a change of mode drops what is left.   *)
(***************************************************************************)
EXTENDS Loader

CONSTANTS
  RingSize,      \* packets the dongle holds
  CutSessions,   \* bound: the sessions in which the target loses its power, once
  HostIsPrompt   \* a loader that waits for answers takes them in time

ASSUME LinkAssumption == RingSize \in Nat \ {0} /\ CutSessions \subseteq Nat /\ HostIsPrompt \in BOOLEAN

VARIABLES
  mode,          \* of the dongle
  outgoing,      \* packets in the dongle that are not acknowledged yet
  incoming,      \* packets the dongle has received
  lastReset      \* history: the session in which the target last started anew

link == <<mode, outgoing, incoming>>
vars == <<target, loader, link, lastReset>>

Init ==
  /\ TargetInit /\ LoaderInit
  /\ mode = "IDLE" /\ outgoing = <<>> /\ incoming = <<>>
  /\ lastReset = 0

Mode(kind) ==
  CASE kind = "stream" -> "STREAM" [] kind \in {"bulk", "bulkSync"} -> "BULK"
    [] kind = "read" -> "READ" [] OTHER -> mode

-----------------------------------------------------------------------------
\* A transfer that begins switches the mode, which flushes the dongle.
LoaderActs ==
  /\ LoaderCalls
  /\ mode' = Mode(transfer'.kind)
  /\ IF mode' = mode THEN UNCHANGED <<outgoing, incoming>>
                     ELSE outgoing' = <<>> /\ incoming' = <<>>
  /\ UNCHANGED <<target, lastReset>>

\* A user is slower than the target, which serves three commands in milliseconds.
UserStarts ==
  /\ Start
  /\ at = "loop" => rxFifo = <<>>
  /\ mode' = "IDLE" /\ outgoing' = <<>> /\ incoming' = <<>>
  /\ UNCHANGED <<target, lastReset>>

UserKills == Kill /\ UNCHANGED <<target, link, lastReset>>

-----------------------------------------------------------------------------
(***************************************************************************)
(* execute(): packets move between the loader and the dongle.              *)
(***************************************************************************)
program == <<pc, session, ptable, cursor, files, sessions>>
Returns == transfer' = [transfer EXCEPT !.kind = "none"]

HandOver ==
  /\ sendQueue # <<>> /\ Len(outgoing) < RingSize
  /\ sendQueue' = Tail(sendQueue) /\ outgoing' = Append(outgoing, Head(sendQueue))
  /\ UNCHANGED <<program, transfer, recvQueue, lastWriteOk, mode, incoming, target, lastReset>>

\* Mutant of Settled: a synchronous write does not wait for the dongle.
SettledEarly == sendQueue = <<>>

Settled == sendQueue = <<>> /\ (transfer.kind = "bulk" \/ outgoing = <<>>)

WriteReturns ==
  /\ transfer.kind \in {"stream", "bulk", "bulkSync"} /\ Settled
  /\ Returns
  /\ UNCHANGED <<program, sendQueue, recvQueue, lastWriteOk, link, target, lastReset>>

Collect ==
  /\ transfer.kind = "read" /\ incoming # <<>> /\ Len(recvQueue) < transfer.want
  /\ recvQueue' = Append(recvQueue, Head(incoming)) /\ incoming' = Tail(incoming)
  /\ UNCHANGED <<program, transfer, sendQueue, lastWriteOk, mode, outgoing, target, lastReset>>

\* A read ends with its last packet, or when its time is up: the deadlines of a
\* second and more do not run out while packets are on their way.
Quiet ==
  /\ incoming = <<>>
  /\ ~peer \/ at = "app" \/ (txFifo = <<>> /\ at # "answer" /\ rxFifo = <<>>)

\* Mutant of ReadReturns: it has no deadline.
ReadReturnsFull ==
  /\ transfer.kind = "read"
  /\ Len(recvQueue) = transfer.want
  /\ Returns
  /\ UNCHANGED <<program, sendQueue, recvQueue, lastWriteOk, link, target, lastReset>>

ReadReturns ==
  /\ transfer.kind = "read"
  /\ Len(recvQueue) = transfer.want \/ Quiet
  /\ Returns
  /\ UNCHANGED <<program, sendQueue, recvQueue, lastWriteOk, link, target, lastReset>>

-----------------------------------------------------------------------------
(***************************************************************************)
(* The air.                                                                *)
(***************************************************************************)
Hears == at = "loop" /\ Len(rxFifo) < FIFO_DEPTH
others == <<program, io, incoming, mode, at, got_hello, boot_timer, peer, job, memory, txFifo, lastReset>>

BulkArrives ==
  /\ mode = "BULK" /\ outgoing # <<>> /\ Hears
  /\ rxFifo' = Append(rxFifo, Head(outgoing)) /\ outgoing' = Tail(outgoing)
  /\ UNCHANGED <<others, lastWriteOk>>

StreamArrives ==
  /\ mode = "STREAM" /\ outgoing # <<>> /\ Hears
  /\ rxFifo' = Append(rxFifo, Head(outgoing)) /\ outgoing' = Tail(outgoing)
  /\ lastWriteOk' = TRUE
  /\ UNCHANGED others

\* Stream mode gives up, even if only the acknowledges were lost.
StreamFails ==
  /\ mode = "STREAM" /\ outgoing # <<>>
  /\ rxFifo' \in {rxFifo} \cup (IF Hears THEN {Append(rxFifo, Head(outgoing))} ELSE {})
  /\ outgoing' = Tail(outgoing)
  /\ lastWriteOk' = FALSE
  /\ UNCHANGED others

AnswerArrives ==
  /\ mode = "READ" /\ peer /\ txFifo # <<>> /\ Len(incoming) < RingSize
  /\ incoming' = Append(incoming, Head(txFifo)) /\ txFifo' = Tail(txFifo)
  /\ UNCHANGED <<loader, mode, outgoing, at, got_hello, boot_timer, peer, job, memory, rxFifo, lastReset>>

-----------------------------------------------------------------------------
\* The loader collects answers, or is about to.
Collecting ==
  /\ peer
  /\ pc \in {"helloSent", "helloAnswered", "partitions", "saveRead", "saveSome",
             "verifyRead", "verifySome"}

TargetActs == TargetNext /\ UNCHANGED <<loader, link, lastReset>>

TargetResets ==
  /\ GiveUpAnswering
  /\ HostIsPrompt => ~Collecting
  /\ lastReset' = sessions
  /\ UNCHANGED <<loader, link>>

\* The target has not started anew since the user started the program.
Undisturbed == lastReset # sessions

\* Somebody pulls the plug, and puts it back.
PowerCut ==
  /\ sessions \in CutSessions /\ pc \notin Ended /\ Undisturbed
  /\ PowerFails /\ at' = "loop"
  /\ lastReset' = sessions
  /\ UNCHANGED <<loader, link>>

Next ==
  \/ UserStarts \/ UserKills \/ LoaderActs
  \/ HandOver \/ WriteReturns \/ Collect \/ ReadReturns
  \/ BulkArrives \/ StreamArrives \/ StreamFails \/ AnswerArrives
  \/ TargetActs \/ TargetResets \/ PowerCut

Spec == Init /\ [][Next]_vars

\* The programs keep running; a packet sent again and again gets through.  The
\* user owes nothing.
FairSpec ==
  /\ Spec
  /\ WF_vars(LoaderActs) /\ WF_vars(HandOver) /\ WF_vars(WriteReturns)
  /\ WF_vars(Collect) /\ WF_vars(ReadReturns)
  /\ SF_vars(BulkArrives) /\ SF_vars(StreamArrives) /\ SF_vars(AnswerArrives)
  /\ WF_vars(StreamArrives \/ StreamFails)
  /\ WF_vars(TargetActs) /\ WF_vars(TargetResets)

-----------------------------------------------------------------------------
(***************************************************************************)
(* Properties.                                                             *)

Image(part) == 0 .. Min({fileSize, parts[part].size}) - 1
InPlace(part) == \A a \in Image(part) : contents(part)[a] = a
SomeInPlace(part) == \E a \in Image(part) : contents(part)[a] = a
Chosen == CHOOSE i \in 1 .. partcount : parts[i].name = session.part

\* Whatever was interrupted, restarted or reset, a byte of the image is at its
\* own address or not there at all: a page is never programmed with what a page
\* or a session before left in the page buffer.  Only a reset, which forgets that
\* buffer, and a power cut while a page is programmed leave other bytes.
ImageBytesInPlace ==
  \A part \in 1 .. partcount : \A a \in Image(part) :
    contents(part)[a] \in {Old, a} \cup (IF lastReset = 0 THEN {} ELSE {Zeroed, Erased})

\* Writing an image leaves the bootloader alone.
BootSectionIntact == \A a \in BLDADDR .. FLASHEND : flash[a] = Old

\* A verification that found no error means that the partition holds the image,
\* also when power cuts in earlier sessions left torn pages behind.
VerifiedMeansEqual ==
  pc \in {"run", "ran", "done"} /\ session.verify /\ ~verifyFailed /\ Undisturbed
    => InPlace(Chosen)

\* Every answer is taken for what it is, whoever else asked before.
AnswersInTurn == pc # "misled"

\* A program that wrote an image and then starts it, starts all of it.
Booted == at = "loop" /\ at' = "app" /\ rxFifo' # rxFifo /\ session.write /\ session.run
BootedIsImage == [][Booted /\ Undisturbed => InPlace(Chosen)]_vars

\* An image of which only a part was written is never started by the timer,
\* unless the target was reset since.
HalfImageStaysDown ==
  at = "app" /\ lastReset = 0 => \A part \in 1 .. partcount :
    parts[part].name = "flash" /\ SomeInPlace(part) => InPlace(part)

\* The file that save() leaves is the partition, block by block.
SavedIsPartition ==
  [][pc = "saveSome" /\ pc' \notin {"saveSome", "saveRead", "killed"} /\ Undisturbed =>
       saved' = [i \in 1 .. currentPart.size \div IOSIZE |->
                   [k \in 1 .. IOSIZE |-> contents(Chosen)[(i - 1) * IOSIZE + k - 1]]]]_vars

\* A loader that goes away in the middle of a conversation does not keep the
\* target from listening again.
ListensAgain == at \in {"answer", "sync"} ~> at = "loop"

\* Every session ends, unless the target left for its application.
SessionEnds == pc = "ping" ~> (pc \in Ended \/ at = "app")
=============================================================================
