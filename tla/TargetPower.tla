---------------------------- MODULE TargetPower ----------------------------
(***************************************************************************)
(* The target from power-up to the application: the boot lock               *)
(* (src/src/avr/bootlock-avr.c), the boot timer, the watchdog, a loss of    *)
(* power at any point, and an application that asks for its own update.    *)
(*                                                                         *)
(* at = "reset" stands for the time from a reset, or without power, to the  *)
(* end of the initcalls.  Hosts send what they like, and may go away.      *)
(***************************************************************************)
EXTENDS Target

CONSTANTS
  Builds,        \* configurations of the bootloader
  HostCommands,  \* what hosts send
  MaxHeard,      \* bound: commands in the radio's FIFO
  PowerMayFail

Build == [bootlock : {"none", "jumper", "bypass"}, timer : BOOLEAN]
ASSUME PowerAssumption ==
  Builds \subseteq Build /\ MaxHeard \in Nat /\ PowerMayFail \in BOOLEAN

VARIABLES
  build,
  cause,         \* history: what started the application last
  update         \* history: the application asked, and no host said BOOT since

vars == <<target, build, cause, update>>

Magic == -6      \* 0xde in the last byte of the EEPROM
asked == eeprom[E2END] = Magic

Init ==
  /\ at = "reset" /\ Boot0 /\ Unwritten
  /\ build \in Builds /\ cause = "none" /\ update = FALSE

Goes(why) == cause' = IF at' = "app" THEN why ELSE cause

-----------------------------------------------------------------------------
(***************************************************************************)
(* The boot lock.                                                          *)
(***************************************************************************)
ram == <<boot_timer, peer, job, pbuf, fifos>>

\* Mutant of Bypass: the timer is not told.
BypassTimed ==
  /\ at = "reset" /\ build.bootlock = "bypass" /\ asked
  /\ at' = "loop"
  /\ eeprom' = [eeprom EXCEPT ![E2END] = Erased]
  /\ UNCHANGED <<got_hello, ram, flash, build, cause, update>>

Bypass ==
  /\ at = "reset" /\ build.bootlock = "bypass" /\ asked
  /\ at' = "loop" /\ got_hello' = TRUE
  /\ eeprom' = [eeprom EXCEPT ![E2END] = Erased]
  /\ UNCHANGED <<ram, flash, build, cause, update>>

\* The jumper may be set or pulled at any time.
Lock ==
  /\ at = "reset" /\ ~(build.bootlock = "bypass" /\ asked)
  /\ at' \in IF build.bootlock = "none" THEN {"loop"} ELSE {"loop", "app"}
  /\ Goes("jumper")
  /\ UNCHANGED <<got_hello, ram, flash, eeprom, build, update>>

-----------------------------------------------------------------------------
(***************************************************************************)
(* The bootloader's loop, and its resets.                                  *)
(***************************************************************************)
Boots == TakeBoot /\ Goes("host") /\ update' = FALSE /\ UNCHANGED build

Handles ==
  /\ TakeHello \/ TakeRead \/ TakeWrite \/ TakeOther \/ PushHello \/ PushBlock \/ ListenAgain
  /\ UNCHANGED <<build, cause, update>>

\* Mutant of Tick: a command that waits holds the timer.
TickWhenQuiet ==
  /\ build.timer /\ rxFifo = <<>>
  /\ BootTimerTick /\ Goes("timer")
  /\ UNCHANGED <<build, update>>

Tick ==
  /\ build.timer
  /\ BootTimerTick /\ Goes("timer")
  /\ UNCHANGED <<build, update>>

\* Every reset goes through the boot lock again.
Restarts == RamLost /\ at' = "reset" /\ UNCHANGED <<build, cause, update>>
GivesUp == Stuck /\ Restarts /\ UNCHANGED <<flash, eeprom>>
LosesPower ==
  /\ PowerMayFail
  /\ PowerFails /\ at' = "reset"
  /\ UNCHANGED <<build, cause, update>>

-----------------------------------------------------------------------------
(***************************************************************************)
(* The application and the air.                                            *)
(***************************************************************************)
AppAsks ==
  /\ at = "app" /\ build.bootlock = "bypass"
  /\ eeprom' = [eeprom EXCEPT ![E2END] = Magic] /\ update' = TRUE
  /\ UNCHANGED <<at, got_hello, ram, flash, build, cause>>

\* It resets the part, or the watchdog does that still runs.
AppRestarts == at = "app" /\ Restarts /\ UNCHANGED <<flash, eeprom>>

Hear ==
  /\ at = "loop" /\ Len(rxFifo) < MaxHeard
  /\ \E command \in HostCommands : rxFifo' = Append(rxFifo, command)
  /\ UNCHANGED <<at, got_hello, boot_timer, peer, job, memory, txFifo, build, cause, update>>

Answered ==
  /\ peer /\ txFifo # <<>>
  /\ txFifo' = Tail(txFifo)
  /\ UNCHANGED <<at, got_hello, boot_timer, peer, job, memory, rxFifo, build, cause, update>>

Next ==
  \/ Bypass \/ Lock \/ Boots \/ Handles \/ Tick \/ GivesUp \/ LosesPower
  \/ AppAsks \/ AppRestarts \/ Hear \/ Answered

Spec == Init /\ [][Next]_vars

\* The program runs; in a turn of the loop each app has its turn, so that the
\* timer ticks however many commands there are.
FairSpec == Spec /\ WF_vars(Bypass \/ Lock) /\ WF_vars(Handles) /\ WF_vars(GivesUp) /\ SF_vars(Tick)

-----------------------------------------------------------------------------
(***************************************************************************)
(* Properties.                                                             *)
(***************************************************************************)
stage ==
  IF at = "reset" THEN "down" ELSE IF at = "app" THEN "app"
  ELSE IF got_hello THEN "held" ELSE "timed"

Policy == INSTANCE BootPolicy

\* The target keeps the policy of module BootPolicy: the jumper counts only
\* without a request, a request is taken once and stops the timer, a HELLO stops
\* it until the next reset, and nothing but the timer, the jumper at a start or
\* a BOOT starts the application.
PolicyKept == Policy!Spec

\* A target to which nobody says HELLO starts its application, whatever other
\* commands keep it busy, unless it starts anew.
TimerBoots == at = "loop" /\ build.timer ~> got_hello \/ at \in {"app", "reset"}

\* src/src/avr/kcnf: "The bootloader will reset this byte to 0xff and wait for
\* the new firmware until host instructs it to boot".  The application that
\* asked for its update is not started by the jumper or the timer before that.
HeldUntilBoot == [][at # "app" /\ at' = "app" /\ update => cause' = "host"]_vars
=============================================================================
