------------------------------- MODULE Target -------------------------------
(***************************************************************************)
(* The bootloader on the target (src/src/slave.c) with the partitions and   *)
(* the boot timer of an AVR (src/src/avr/avr-boot-common.c).                *)
(*                                                                         *)
(* Two Antares apps take turns: `slave' handles one received command,       *)
(* `bootcond' counts down to the start of the application.  `at' is the     *)
(* place in the program: the apps' loop, the loop of a handler that pushes  *)
(* answers, the wait of listen(1) for the radio to send them, or the        *)
(* application.  The radio receives only in the first of these.  Module     *)
(* TargetPower adds what comes before the loop.                            *)
(*                                                                         *)
(* A byte is an integer: a byte of the image is its position in the file,   *)
(* the negative ones below come from elsewhere.                            *)
(***************************************************************************)
EXTENDS Integers, Sequences

CONSTANTS
  IOSIZE,        \* bytes per command or answer: EEPROM_IOSIZE, FLASH_IOSIZE
  SPM_PAGESIZE,  \* bytes of a flash page
  BLDADDR,       \* CONFIG_AVR_BLDADDR, where the bootloader itself begins
  FLASHEND, E2END,
  TIMEOUT,       \* ticks of the boot timer
  Watchdog       \* CONFIG_HAVE_DEADTIME or CONFIG_WDT_ENABLE

ASSUME SizesAssumption ==
  /\ IOSIZE \in Nat \ {0} /\ SPM_PAGESIZE \in Nat \ {0} /\ BLDADDR \in Nat
  /\ FLASHEND \in Nat /\ E2END \in Nat /\ TIMEOUT \in Nat
  /\ SPM_PAGESIZE % IOSIZE = 0 /\ BLDADDR % SPM_PAGESIZE = 0 /\ BLDADDR <= FLASHEND
  /\ (FLASHEND + 1) % SPM_PAGESIZE = 0 /\ (E2END + 1) % IOSIZE = 0
ASSUME WatchdogAssumption == Watchdog \in BOOLEAN

VARIABLES
  at,            \* where the program is
  got_hello,     \* g_rf24boot_got_hello
  boot_timer,
  peer,          \* the writing pipe leads to the loader
  job,           \* the command being answered: dat->addr and toread
  pbuf,          \* the page buffer of do_flash_write
  flash, eeprom,
  rxFifo, txFifo \* the radio's

memory == <<pbuf, flash, eeprom>>
fifos == <<rxFifo, txFifo>>
target == <<at, got_hello, boot_timer, peer, job, memory, fifos>>

Old == -1     \* what was there before
Padding == -2 \* the 0xaa of restore()
Zeroed == -3  \* .bss
Stack == -4   \* an uninitialised local of the loader
Erased == -5  \* 0xff

FIFO_DEPTH == 3

\* The order is that of BOOT_PARTITION in the source.
parts ==
  << [name |-> "eeprom", size |-> E2END + 1, pad |-> 1],
     [name |-> "flash", size |-> BLDADDR, pad |-> SPM_PAGESIZE] >>
partcount == Len(parts)
contents(part) == IF parts[part].name = "flash" THEN flash ELSE eeprom

NoJob == [op |-> "NONE", part |-> 1, addr |-> 0, toread |-> 0]

\* Memory with the bytes of data from address first on.
Patch(mem, first, data) ==
  [a \in DOMAIN mem |->
     IF a \in first .. first + Len(data) - 1 THEN data[a - first + 1] ELSE mem[a]]

\* What a start finds in RAM and in the radio.
Boot0 ==
  /\ got_hello = FALSE /\ boot_timer = 0 /\ peer = FALSE
  /\ job = NoJob
  /\ pbuf = [o \in 0 .. SPM_PAGESIZE - 1 |-> Zeroed]
  /\ rxFifo = <<>> /\ txFifo = <<>>

Unwritten == flash = [a \in 0 .. FLASHEND |-> Old] /\ eeprom = [a \in 0 .. E2END |-> Old]

TargetInit == at = "loop" /\ Boot0 /\ Unwritten

-----------------------------------------------------------------------------
(***************************************************************************)
(* handle_cmd.                                                             *)
(***************************************************************************)
HasCommand(op) == at = "loop" /\ rxFifo # <<>> /\ Head(rxFifo).op = op
Command == Head(rxFifo)
Drop == rxFifo' = Tail(rxFifo)

\* The answers are pushed by PushHello; listen(0) comes before the first.
TakeHello ==
  /\ HasCommand("HELLO")
  /\ peer' = TRUE
  /\ rxFifo' = <<>>
  /\ job' = [NoJob EXCEPT !.op = "HELLO"]
  /\ at' = "answer"
  /\ UNCHANGED <<got_hello, boot_timer, memory, txFifo>>

\* dat->addr of a read request is where to stop.
TakeRead ==
  /\ HasCommand("READ") /\ Command.part <= partcount
  /\ Drop
  /\ job' = [op |-> "READ", part |-> Command.part, addr |-> 0, toread |-> Command.addr]
  /\ at' = "answer"
  /\ UNCHANGED <<got_hello, boot_timer, peer, memory, txFifo>>

PageOf(addr) == addr - (addr % SPM_PAGESIZE)

\* Mutant of Programmed: the page is programmed when its first block arrives.
ProgrammedEarly(buf, addr) ==
  IF addr % SPM_PAGESIZE = 0
    THEN Patch(flash, PageOf(addr),
               [o \in 1 .. SPM_PAGESIZE |-> buf[o - 1]])
    ELSE flash

\* A page is programmed when its last block arrives, whichever came before.
Programmed(buf, addr) ==
  IF (addr + IOSIZE) % SPM_PAGESIZE = 0
    THEN Patch(flash, PageOf(addr),
               [o \in 1 .. SPM_PAGESIZE |-> buf[o - 1]])
    ELSE flash

do_flash_write(addr, data) ==
  /\ pbuf' = Patch(pbuf, addr % SPM_PAGESIZE, data)
  /\ flash' = Programmed(pbuf', addr)
  /\ UNCHANGED eeprom

\* The EEPROM's address register has no more bits than it needs.
do_eeprom_write(addr, data) ==
  /\ eeprom' = Patch(eeprom, addr % (E2END + 1), data)
  /\ UNCHANGED <<pbuf, flash>>

TakeWrite ==
  /\ HasCommand("WRITE") /\ Command.part <= partcount
  /\ Drop
  /\ IF parts[Command.part].name = "flash"
       THEN do_flash_write(Command.addr, Command.data)
       ELSE do_eeprom_write(Command.addr, Command.data)
  /\ UNCHANGED <<at, got_hello, boot_timer, peer, job, txFifo>>

TakeBoot ==
  /\ HasCommand("BOOT") /\ Command.part <= partcount
  /\ Drop
  /\ at' = "app"
  /\ UNCHANGED <<got_hello, boot_timer, peer, job, memory, txFifo>>

\* A ping, or a command for a partition that is not there.
TakeOther ==
  /\ at = "loop" /\ rxFifo # <<>>
  /\ Command.op # "HELLO"
  /\ Command.op # "NOP" => Command.part > partcount
  /\ Drop
  /\ UNCHANGED <<at, got_hello, boot_timer, peer, job, memory, txFifo>>

TakeCommand == TakeHello \/ TakeRead \/ TakeWrite \/ TakeBoot \/ TakeOther

-----------------------------------------------------------------------------
(***************************************************************************)
(* respond: push an answer as soon as the radio's FIFO has room.           *)
(***************************************************************************)

MayPush(op) == at = "answer" /\ job.op = op /\ Len(txFifo) < FIFO_DEPTH
Push(answer) == txFifo' = Append(txFifo, answer)

\* respond() ignores its `op' and sends the one of the command: the op of an
\* answer is a tag of the model, which tells what the packet really holds.
HelloAnswer ==
  IF job.addr = 0
    THEN [op |-> "HELLO", numparts |-> partcount]
    ELSE [op |-> "PARTINFO", info |-> parts[job.addr]]

\* Mutant of PushHello: the boot timer is not told.
PushHelloSilent ==
  /\ MayPush("HELLO")
  /\ Push(HelloAnswer)
  /\ job' = [job EXCEPT !.addr = @ + 1]
  /\ at' = IF job.addr = partcount THEN "sync" ELSE "answer"
  /\ UNCHANGED <<got_hello, boot_timer, peer, memory, rxFifo>>

PushHello ==
  /\ MayPush("HELLO")
  /\ Push(HelloAnswer)
  /\ got_hello' = TRUE
  /\ job' = [job EXCEPT !.addr = @ + 1]
  /\ at' = IF job.addr = partcount THEN "sync" ELSE "answer"
  /\ UNCHANGED <<boot_timer, peer, memory, rxFifo>>

\* do_flash_read and do_eeprom_read: a block, or nothing past the end.
ReadBlock(part, addr) ==
  IF addr >= parts[part].size
    THEN <<>>
    ELSE [k \in 1 .. IOSIZE |-> contents(part)[addr + k - 1]]

PushBlock ==
  LET block == ReadBlock(job.part, job.addr)
      next == job.addr + Len(block)
  IN
  /\ MayPush("READ")
  /\ Push([op |-> "READ", addr |-> job.addr, data |-> block])
  /\ job' = [job EXCEPT !.addr = next]
  /\ at' = IF next < job.toread THEN "answer" ELSE "sync"
  /\ UNCHANGED <<got_hello, boot_timer, peer, memory, rxFifo>>

\* Mutant of ListenAgain: it does not wait for the FIFO.
ListenAtOnce ==
  /\ at = "sync"
  /\ at' = "loop"
  /\ UNCHANGED <<got_hello, boot_timer, peer, job, memory, fifos>>

ListenAgain ==
  /\ at = "sync" /\ txFifo = <<>>
  /\ at' = "loop"
  /\ UNCHANGED <<got_hello, boot_timer, peer, job, memory, fifos>>

-----------------------------------------------------------------------------
(***************************************************************************)
(* The ways back to the start, and into the application.                   *)
(***************************************************************************)
RamLost ==
  /\ got_hello' = FALSE /\ boot_timer' = 0 /\ peer' = FALSE
  /\ job' = NoJob
  /\ pbuf' = [o \in 0 .. SPM_PAGESIZE - 1 |-> Zeroed]
  /\ rxFifo' = <<>> /\ txFifo' = <<>>

Reset == RamLost /\ at' = "loop" /\ UNCHANGED <<flash, eeprom>>

\* What boot_program_page has made of a page when its power fails: it was erased,
\* and what has to be set again is not, or not everywhere.
TornPages(buf, addr) ==
  IF (addr + IOSIZE) % SPM_PAGESIZE = 0
    THEN {Patch(flash, PageOf(addr),
                [o \in 1 .. SPM_PAGESIZE |-> IF o <= n THEN buf[o - 1] ELSE Erased]) :
            n \in 0 .. SPM_PAGESIZE - 1}
    ELSE {flash}

\* eeprom_write_block goes byte by byte.
TornBlocks(data, addr) ==
  {Patch(eeprom, addr % (E2END + 1), SubSeq(data, 1, n)) : n \in 0 .. IOSIZE - 1}

PowerFails ==
  /\ RamLost
  /\ \/ UNCHANGED <<flash, eeprom>>
     \/ /\ HasCommand("WRITE") /\ Command.part <= partcount
        /\ IF parts[Command.part].name = "flash"
             THEN /\ flash' \in TornPages(Patch(pbuf, Command.addr % SPM_PAGESIZE, Command.data),
                                          Command.addr)
                  /\ UNCHANGED eeprom
             ELSE eeprom' \in TornBlocks(Command.data, Command.addr) /\ UNCHANGED flash

\* Mutant of Stuck: only listen(1) gives up.
StuckInSync == at = "sync" /\ txFifo # <<>>

\* respond gives up only with CONFIG_HAVE_DEADTIME, or when the watchdog bites;
\* listen(1) always does, after 250 ms.
Stuck ==
  \/ at = "answer" /\ Len(txFifo) = FIFO_DEPTH /\ Watchdog
  \/ at = "sync" /\ txFifo # <<>>

GiveUpAnswering == Stuck /\ Reset

\* bootcond: one turn of 50 ms.
BootTimerTick ==
  /\ at = "loop" /\ ~got_hello
  /\ boot_timer' = boot_timer + 1
  /\ at' = IF boot_timer > TIMEOUT THEN "app" ELSE "loop"
  /\ UNCHANGED <<got_hello, peer, job, memory, fifos>>

TargetNext == TakeCommand \/ PushHello \/ PushBlock \/ ListenAgain \/ BootTimerTick
=============================================================================
