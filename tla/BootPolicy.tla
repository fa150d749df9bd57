----------------------------- MODULE BootPolicy -----------------------------
(***************************************************************************)
(* What a target promises about its start: when it waits in the bootloader, *)
(* for how long, and what makes it leave for the application.  It speaks of *)
(* no command, answer or memory but the request byte.                      *)
(***************************************************************************)
CONSTANT Builds   \* the choices of src/avr/kcnf and kcnf that matter here

VARIABLES
  build,
  stage,   \* "down", "timed" (until the boot timer ends), "held", "app"
  cause,   \* what started the application last
  asked    \* the last byte of the EEPROM asks for the bootloader

vars == <<build, stage, cause, asked>>

Init == build \in Builds /\ stage = "down" /\ cause = "none" /\ asked = FALSE

Waiting == stage \in {"timed", "held"}
Bypassed == build.bootlock = "bypass" /\ asked
Leaves(why) == stage' = "app" /\ cause' = why /\ UNCHANGED <<build, asked>>

\* A request is taken once and holds the bootloader; the jumper is looked at
\* only without one.
StartHeld ==
  /\ stage = "down" /\ Bypassed
  /\ stage' = "held" /\ asked' = FALSE
  /\ UNCHANGED <<build, cause>>
StartTimed == stage = "down" /\ ~Bypassed /\ stage' = "timed" /\ UNCHANGED <<build, cause, asked>>
StartLocked == stage = "down" /\ ~Bypassed /\ build.bootlock # "none" /\ Leaves("jumper")

\* A HELLO stops the timer until the next start.
Held == stage = "timed" /\ stage' = "held" /\ UNCHANGED <<build, cause, asked>>
TimeUp == stage = "timed" /\ build.timer /\ Leaves("timer")
Told == Waiting /\ Leaves("host")

\* The host may write the EEPROM, the application asks; power fails anywhere.
AskedChanges == stage # "down" /\ asked' \in BOOLEAN /\ UNCHANGED <<build, stage, cause>>
GoesDown == stage' = "down" /\ asked' \in BOOLEAN /\ UNCHANGED <<build, cause>>

Next ==
  \/ StartHeld \/ StartTimed \/ StartLocked
  \/ Held \/ TimeUp \/ Told \/ AskedChanges \/ GoesDown

Spec == Init /\ [][Next]_vars
=============================================================================
