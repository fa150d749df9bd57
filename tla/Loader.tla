------------------------------- MODULE Loader -------------------------------
(***************************************************************************)
(* rf24-load (src/librf24pp/rf24-load.cpp) and the partition table it works *)
(* with (src/librf24pp/rf24ptable.cpp).                                    *)
(*                                                                         *)
(* The program is sequential and stops only in execute().  `pc' says which  *)
(* call comes next; `transfer' is what execute() waits for: packets still   *)
(* to be handed to the dongle (sendQueue), or packets still to be received. *)
(* The program's actions begin transfers and use what they brought; module  *)
(* Flashing carries the packets.                                           *)
(*                                                                         *)
(* The program takes every packet for the answer it expects.  Where that is *)
(* wrong the model stops at pc = "misled".                                 *)
(***************************************************************************)
EXTENDS Target, FiniteSetsExt

CONSTANTS
  NumPacketsPerRun,  \* numPacketsPerRun
  Sessions,          \* bound: for each start of the program the command lines given
  FileSizes          \* sizes of the file of a --write or a --verify

\* --read, --write (which verifies, unless --noverify), --verify, --run.
Command_line ==
  [part : {"eeprom", "flash"}, read : BOOLEAN, write : BOOLEAN, verify : BOOLEAN, run : BOOLEAN]

ASSUME LoaderAssumption ==
  /\ NumPacketsPerRun \in Nat \ {0} /\ FileSizes \subseteq Nat
  /\ Sessions \in Seq(SUBSET Command_line) /\ Sessions # <<>>

VARIABLES
  pc, session, fileSize,
  ptable,        \* the partition headers the target sent
  addr, buffer,  \* dat->addr and dat->data of the command being filled in
  pos,           \* position in the input file
  batch,         \* packets appended to the transfer that is being built
  transfer,      \* what execute() waits for
  sendQueue, recvQueue,
  lastWriteOk,   \* getLastWriteResult()
  saved,         \* the output file
  verifyFailed,
  sessions       \* how many were started

cursor == <<addr, buffer, pos, batch>>
io == <<transfer, sendQueue, recvQueue>>
files == <<fileSize, saved, verifyFailed>>
loader == <<pc, session, ptable, cursor, io, lastWriteOk, files, sessions>>

Ended == {"idle", "done", "failed", "killed", "misled"}
NoTransfer == [kind |-> "none", want |-> 0]

LoaderInit ==
  /\ pc = "idle" /\ session \in Sessions[1] /\ fileSize \in FileSizes
  /\ ptable = <<>>
  /\ addr = 0 /\ buffer = [k \in 1 .. IOSIZE |-> Stack] /\ pos = 0 /\ batch = <<>>
  /\ transfer = NoTransfer /\ sendQueue = <<>> /\ recvQueue = <<>>
  /\ lastWriteOk = FALSE
  /\ saved = <<>> /\ verifyFailed = FALSE
  /\ sessions = 0

-----------------------------------------------------------------------------
(***************************************************************************)
(* execute().                                                              *)
(***************************************************************************)
\* A write without packets ends when it starts, even a synchronous one.
Write(kind, packets) ==
  /\ sendQueue' = packets /\ recvQueue' = <<>>
  /\ transfer' = [kind |-> IF packets = <<>> THEN "none" ELSE kind, want |-> 0]

Read(n) ==
  /\ sendQueue' = <<>> /\ recvQueue' = <<>>
  /\ transfer' = [kind |-> "read", want |-> n]

\* The call at `label' is next, and the last execute() has returned.
At(label) == pc = label /\ transfer.kind = "none"

\* A call that does nothing but execute a transfer.
Executes(label, next) ==
  /\ At(label) /\ pc' = next
  /\ UNCHANGED <<session, ptable, cursor, lastWriteOk, files, sessions>>

-----------------------------------------------------------------------------
(***************************************************************************)
(* main, rf24bootWaitTarget and the constructor of the partition table.    *)
(***************************************************************************)
\* What main does after the works before number n; nothing runs after a failure.
Work(n, failed) ==
  LET works == <<"save", "restore", "verify", "run">>
      wanted == [save |-> session.read, restore |-> session.write,
                 verify |-> session.verify, run |-> session.run /\ ~failed]
      left == {i \in n .. 4 : wanted[works[i]]}
  IN IF left = {} THEN "done" ELSE works[Min(left)]

\* Everything up to the pipes: RQ_CONFIG makes the dongle forget its packets.
Start ==
  /\ pc \in Ended /\ sessions < Len(Sessions)
  /\ pc' = "ping" /\ sessions' = sessions + 1 /\ session' \in Sessions[sessions']
  /\ ptable' = <<>> /\ saved' = <<>> /\ verifyFailed' = FALSE
  /\ addr' = 0 /\ pos' = 0 /\ batch' = <<>>
  /\ buffer' = [k \in 1 .. IOSIZE |-> Stack]
  /\ transfer' = NoTransfer /\ sendQueue' = <<>> /\ recvQueue' = <<>>
  /\ lastWriteOk' = FALSE
  /\ UNCHANGED fileSize

Ping == Executes("ping", "pinged") /\ Write("stream", <<[op |-> "NOP"]>>)

Pinged ==
  /\ At("pinged")
  /\ pc' = IF lastWriteOk THEN "hello" ELSE "ping"
  /\ UNCHANGED <<session, ptable, cursor, io, lastWriteOk, files, sessions>>

Hello == Executes("hello", "helloSent") /\ Write("stream", <<[op |-> "HELLO"]>>)

\* Whether the write succeeded or not.
AwaitHello == Executes("helloSent", "helloAnswered") /\ Read(1)

HelloAnswered ==
  /\ At("helloAnswered")
  /\ IF recvQueue = <<>>
       THEN pc' = "failed" /\ UNCHANGED io
       ELSE IF recvQueue[1].op = "HELLO"
              THEN pc' = "partitions" /\ Read(recvQueue[1].numparts)
              ELSE pc' = "misled" /\ UNCHANGED io
  /\ UNCHANGED <<session, ptable, cursor, lastWriteOk, files, sessions>>

\* getPacket(i) throws if there are too few.
Partitions ==
  /\ At("partitions")
  /\ IF Len(recvQueue) < transfer.want
       THEN pc' = "failed" /\ UNCHANGED ptable
       ELSE IF \A i \in DOMAIN recvQueue : recvQueue[i].op = "PARTINFO"
              THEN /\ ptable' = [i \in DOMAIN recvQueue |-> recvQueue[i].info]
                   /\ pc' = Work(1, FALSE)
              ELSE pc' = "misled" /\ UNCHANGED ptable
  /\ UNCHANGED <<session, cursor, io, lastWriteOk, files, sessions>>

\* A name that is not in the table selects partition atoi(name), the first.
currentPartId ==
  LET named == {i \in DOMAIN ptable : ptable[i].name = session.part}
  IN IF named = {} THEN 1 ELSE Min(named)
currentPart == ptable[currentPartId]

numToQueue(a) ==
  IF a >= currentPart.size THEN 0
  ELSE Min({NumPacketsPerRun, (currentPart.size - a) \div IOSIZE})

-----------------------------------------------------------------------------
(***************************************************************************)
(* restore.                                                                *)
(***************************************************************************)
Restore ==
  /\ At("restore")
  /\ addr' = 0 /\ pos' = 0 /\ batch' = <<>>
  /\ pc' = "readSome"
  /\ UNCHANGED <<session, ptable, buffer, io, lastWriteOk, files, sessions>>

\* fread: what the block already held stays behind a short read.
Remaining == Max({0, fileSize - pos})
FileBlock == [k \in 1 .. IOSIZE |-> IF k <= Remaining THEN pos + k - 1 ELSE buffer[k]]
WriteCommand(a, data) ==
  [op |-> "WRITE", part |-> currentPartId, addr |-> a, data |-> data]

\* readSome, one turn of its loop: the batch is the count.
QueueBlock ==
  /\ At("readSome") /\ Len(batch) < numToQueue(addr) /\ Remaining > 0
  /\ buffer' = FileBlock
  /\ batch' = Append(batch, WriteCommand(addr, FileBlock))
  /\ pos' = pos + Min({IOSIZE, Remaining})
  /\ addr' = addr + IOSIZE
  /\ pc' = IF addr' >= currentPart.size THEN "writeSome" ELSE "readSome"
  /\ UNCHANGED <<session, ptable, io, lastWriteOk, files, sessions>>

\* At the end of the file the block read last is queued once more.
QueueLastAgain ==
  /\ At("readSome") /\ Len(batch) < numToQueue(addr) /\ Remaining = 0 /\ batch # <<>>
  /\ batch' = Append(batch, WriteCommand(addr, buffer))
  /\ pc' = "writeSome"
  /\ UNCHANGED <<session, ptable, addr, buffer, pos, io, lastWriteOk, files, sessions>>

\* readSome returns: the loop is over, or there was nothing to queue.
BatchFull ==
  /\ At("readSome") /\ Len(batch) >= numToQueue(addr) /\ batch # <<>>
  /\ pc' = "writeSome"
  /\ UNCHANGED <<session, ptable, cursor, io, lastWriteOk, files, sessions>>

NothingQueued ==
  /\ At("readSome") /\ batch = <<>> /\ (numToQueue(addr) = 0 \/ Remaining = 0)
  /\ pc' = "pad"
  /\ UNCHANGED <<session, ptable, cursor, io, lastWriteOk, files, sessions>>

WriteSome ==
  /\ At("writeSome")
  /\ Write("bulk", batch)
  /\ batch' = <<>> /\ pc' = "readSome"
  /\ UNCHANGED <<session, ptable, addr, buffer, pos, lastWriteOk, files, sessions>>

PadBlock(a) == WriteCommand(a, [k \in 1 .. IOSIZE |-> Padding])
\* Mutants of PadBlocks: no padding; a page too many.
PadBlocksNone == <<>>
PadBlocksTwice ==
  IF currentPart.pad <= 1 THEN <<>>
  ELSE [i \in 1 .. (2 * currentPart.pad - (addr % currentPart.pad)) \div IOSIZE |->
          PadBlock(addr + (i - 1) * IOSIZE)]

\* A whole page is added to what ends at the end of a page.
PadBlocks ==
  IF currentPart.pad <= 1 THEN <<>>
  ELSE [i \in 1 .. (currentPart.pad - (addr % currentPart.pad)) \div IOSIZE |->
          PadBlock(addr + (i - 1) * IOSIZE)]

Pad ==
  /\ At("pad")
  /\ Write("bulkSync", PadBlocks)
  /\ pc' = "restored"
  /\ UNCHANGED <<session, ptable, cursor, lastWriteOk, files, sessions>>

Restored ==
  /\ At("restored")
  /\ pc' = Work(3, FALSE)
  /\ UNCHANGED <<session, ptable, cursor, io, lastWriteOk, files, sessions>>

-----------------------------------------------------------------------------
(***************************************************************************)
(* save, verify and run.                                                   *)
(***************************************************************************)
\* The address of a read command is where the target is to stop.
ReadCommand(end) == <<[op |-> "READ", part |-> currentPartId, addr |-> end]>>
Blocks == \A i \in DOMAIN recvQueue : recvQueue[i].op = "READ"
LastAddr == recvQueue[Len(recvQueue)].addr

Save == Executes("save", "saveRead") /\ Write("bulkSync", ReadCommand(currentPart.size))

SaveRead == Executes("saveRead", "saveSome") /\ Read(numToQueue(0))

\* Mutant of LastBlock: one block too early.
LastBlockEarly == currentPart.size - 2 * IOSIZE

LastBlock == currentPart.size - IOSIZE

\* saveSome and the loop around it.  Without packets the address it returns is
\* not initialised, and may be the one that ends the loop.
SaveSome ==
  LET ends == {i \in DOMAIN recvQueue : recvQueue[i].addr = LastBlock}
      n == IF ends = {} THEN Len(recvQueue) ELSE Min(ends)
  IN
  /\ At("saveSome")
  /\ IF ~Blocks THEN pc' = "misled" /\ UNCHANGED saved
     ELSE /\ saved' = saved \o [i \in 1 .. n |-> recvQueue[i].data]
          /\ IF recvQueue = <<>> THEN pc' \in {"saveRead", Work(2, FALSE)}
             ELSE pc' = IF ends = {} THEN "saveRead" ELSE Work(2, FALSE)
  /\ UNCHANGED <<session, ptable, cursor, io, lastWriteOk, fileSize, verifyFailed, sessions>>

toverify == Min({currentPart.size, fileSize})

Verify ==
  /\ At("verify")
  /\ Write("bulkSync", ReadCommand(toverify))
  /\ pos' = 0 /\ verifyFailed' = FALSE
  /\ pc' = "verifyRead"
  /\ UNCHANGED <<session, ptable, addr, buffer, batch, lastWriteOk, fileSize, saved, sessions>>

VerifyRead == Executes("verifyRead", "verifySome") /\ Read(numToQueue(0))

\* Block i of the packets read is compared with the next block of the file.
FilePos(i) == pos + (i - 1) * IOSIZE
Compared(i) ==
  {j \in 1 .. IOSIZE : FilePos(i) < fileSize /\ recvQueue[i].addr + IOSIZE + j - 1 < toverify}
Differs(i) == \E j \in Compared(i) : recvQueue[i].data[j] # FilePos(i) + j - 1

\* verifySome and the loop around it: a block that is not compared to its end
\* is the last one.
VerifySome ==
  LET ends == {i \in DOMAIN recvQueue : Compared(i) # 1 .. IOSIZE}
      n == IF ends = {} THEN Len(recvQueue) ELSE Min(ends)
  IN
  /\ At("verifySome")
  /\ IF ~Blocks
       THEN pc' = "misled" /\ UNCHANGED <<pos, verifyFailed, io>>
       ELSE /\ verifyFailed' = (verifyFailed \/ \E i \in 1 .. n : Differs(i))
            /\ pos' = pos + n * IOSIZE
            /\ IF ends # {}
                 THEN pc' = Work(4, verifyFailed') /\ UNCHANGED io
               ELSE IF recvQueue = <<>>
                 THEN /\ pc' \in {"verifySome", Work(4, verifyFailed)}
                      /\ \E a \in 0 .. currentPart.size : Read(numToQueue(a))
               ELSE pc' = "verifySome" /\ Read(numToQueue(LastAddr))
  /\ UNCHANGED <<session, ptable, addr, buffer, batch, lastWriteOk, fileSize, saved, sessions>>

Run == Executes("run", "ran") /\ Write("bulkSync", <<[op |-> "BOOT", part |-> currentPartId]>>)

Ran ==
  /\ At("ran")
  /\ pc' = "done"
  /\ UNCHANGED <<session, ptable, cursor, io, lastWriteOk, files, sessions>>

\* The user interrupts the program.
Kill ==
  /\ pc \notin Ended
  /\ pc' = "killed"
  /\ transfer' = NoTransfer /\ sendQueue' = <<>> /\ recvQueue' = <<>>
  /\ UNCHANGED <<session, ptable, cursor, lastWriteOk, files, sessions>>

LoaderCalls ==
  \/ Ping \/ Pinged \/ Hello \/ AwaitHello \/ HelloAnswered \/ Partitions
  \/ Restore \/ QueueBlock \/ QueueLastAgain \/ BatchFull \/ NothingQueued
  \/ WriteSome \/ Pad \/ Restored
  \/ Save \/ SaveRead \/ SaveSome \/ Verify \/ VerifyRead \/ VerifySome
  \/ Run \/ Ran
=============================================================================
