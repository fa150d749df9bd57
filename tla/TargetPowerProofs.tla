------------------------- MODULE TargetPowerProofs -------------------------
(***************************************************************************)
(* The target implements BootPolicy, for every build, whatever hosts send   *)
(* and wherever the power fails.                                           *)
(*                                                                         *)
(* The mapping reads only at, got_hello and the last byte of the EEPROM.    *)
(* What it needs to know of the other states: the EEPROM has that byte, the *)
(* program is at a known place, and a start finds no HELLO in RAM.          *)
(***************************************************************************)
EXTENDS TargetPower, TLAPS

Places == {"reset", "loop", "answer", "sync", "app"}

IInv ==
  /\ DOMAIN eeprom = 0 .. E2END
  /\ eeprom = [a \in DOMAIN eeprom |-> eeprom[a]]
  /\ at \in Places
  /\ got_hello \in BOOLEAN
  /\ at = "reset" => ~got_hello

USE DEF Places

\* A written block leaves the memory its size.
LEMMA PatchKeepsShape ==
  ASSUME NEW mem, NEW first, NEW data
  PROVE  /\ DOMAIN Patch(mem, first, data) = DOMAIN mem
         /\ Patch(mem, first, data) = [a \in DOMAIN mem |-> Patch(mem, first, data)[a]]
BY DEF Patch

LEMMA InitIInv == Init => IInv
BY SizesAssumption DEF Init, Boot0, Unwritten, IInv

LEMMA StepIInv == IInv /\ [Next]_vars => IInv'
<1> SUFFICES ASSUME IInv, [Next]_vars PROVE IInv'
  OBVIOUS
<1> USE DEF IInv
<1>1. CASE Bypass
  BY <1>1 DEF Bypass
<1>2. CASE Lock
  BY <1>2 DEF Lock
<1>3. CASE Boots
  BY <1>3 DEF Boots, TakeBoot, HasCommand, memory
<1>4. CASE Handles
  <2>1. CASE TakeHello BY <2>1 DEF TakeHello, HasCommand, memory
  <2>2. CASE TakeRead BY <2>2 DEF TakeRead, HasCommand, memory
  <2>3. CASE TakeWrite
    <3>1. \/ UNCHANGED eeprom
          \/ \E first, data : eeprom' = Patch(eeprom, first, data)
      BY <2>3 DEF TakeWrite, do_flash_write, do_eeprom_write
    <3>2. DOMAIN eeprom' = DOMAIN eeprom /\ eeprom' = [a \in DOMAIN eeprom' |-> eeprom'[a]]
      BY <3>1, PatchKeepsShape
    <3> QED BY <2>3, <3>2 DEF TakeWrite, HasCommand
  <2>4. CASE TakeOther BY <2>4 DEF TakeOther, memory
  <2>5. CASE PushHello BY <2>5 DEF PushHello, MayPush, memory
  <2>6. CASE PushBlock BY <2>6 DEF PushBlock, MayPush, memory
  <2>7. CASE ListenAgain BY <2>7 DEF ListenAgain, memory
  <2> QED BY <1>4, <2>1, <2>2, <2>3, <2>4, <2>5, <2>6, <2>7 DEF Handles
<1>5. CASE Tick
  BY <1>5 DEF Tick, BootTimerTick, memory
<1>6. CASE GivesUp
  BY <1>6 DEF GivesUp, Restarts, RamLost
<1>7. CASE LosesPower
  <2>1. \/ UNCHANGED eeprom
        \/ \E first, data : eeprom' = Patch(eeprom, first, data)
    BY <1>7 DEF LosesPower, PowerFails, TornBlocks
  <2>2. DOMAIN eeprom' = DOMAIN eeprom /\ eeprom' = [a \in DOMAIN eeprom' |-> eeprom'[a]]
    BY <2>1, PatchKeepsShape
  <2> QED BY <1>7, <2>2 DEF LosesPower, PowerFails, RamLost
<1>8. CASE AppAsks
  BY <1>8 DEF AppAsks
<1>9. CASE AppRestarts
  BY <1>9 DEF AppRestarts, Restarts, RamLost
<1>10. CASE Hear
  BY <1>10 DEF Hear, memory
<1>11. CASE Answered
  BY <1>11 DEF Answered, memory
<1>12. CASE UNCHANGED vars
  BY <1>12 DEF vars, target, memory
<1> QED
  BY <1>1, <1>2, <1>3, <1>4, <1>5, <1>6, <1>7, <1>8, <1>9, <1>10, <1>11, <1>12 DEF Next

-----------------------------------------------------------------------------
\* A step that leaves the three alone is a stutter of the policy.
LEMMA Stutters ==
  ASSUME UNCHANGED <<build, cause>>, asked' = asked, stage' = stage
  PROVE  UNCHANGED Policy!vars
BY DEF Policy!vars

LEMMA StepImplements == IInv /\ IInv' /\ [Next]_vars => [Policy!Next]_(Policy!vars)
<1> SUFFICES ASSUME IInv, IInv', [Next]_vars PROVE [Policy!Next]_(Policy!vars)
  OBVIOUS
<1> USE DEF IInv
<1>1. CASE Bypass
  <2>1. stage = "down" /\ stage' = "held" BY <1>1 DEF Bypass, stage
  <2>2. ~asked'
    <3>1. E2END \in DOMAIN eeprom BY SizesAssumption
    <3> QED BY <1>1, <3>1 DEF Bypass, asked, Erased, Magic
  <2>3. Policy!StartHeld BY <1>1, <2>1, <2>2 DEF Bypass, Policy!StartHeld, Policy!Bypassed
  <2> QED BY <2>3 DEF Policy!Next
<1>2. CASE Lock
  <2>1. stage = "down" BY <1>2 DEF Lock, stage
  <2>2. asked' = asked BY <1>2 DEF Lock, asked
  <2>3. CASE at' = "loop"
    <3>1. stage' = "timed" BY <1>2, <2>3 DEF Lock, stage
    <3>2. cause' = cause BY <1>2, <2>3 DEF Lock, Goes
    <3>3. Policy!StartTimed
      BY <1>2, <2>1, <2>2, <3>1, <3>2 DEF Lock, Policy!StartTimed, Policy!Bypassed
    <3> QED BY <3>3 DEF Policy!Next
  <2>4. CASE at' = "app"
    <3>1. stage' = "app" BY <2>4 DEF stage
    <3>2. cause' = "jumper" /\ build.bootlock # "none" BY <1>2, <2>4 DEF Lock, Goes
    <3>3. Policy!StartLocked
      BY <1>2, <2>1, <2>2, <3>1, <3>2
      DEF Lock, Policy!StartLocked, Policy!Bypassed, Policy!Leaves
    <3> QED BY <3>3 DEF Policy!Next
  <2> QED BY <1>2, <2>3, <2>4 DEF Lock
<1>3. CASE Boots
  <2>1. stage \in {"timed", "held"} BY <1>3 DEF Boots, TakeBoot, HasCommand, stage
  <2>2. stage' = "app" /\ cause' = "host" BY <1>3 DEF Boots, TakeBoot, Goes, stage
  <2>3. asked' = asked BY <1>3 DEF Boots, TakeBoot, memory, asked
  <2>4. Policy!Told
    BY <1>3, <2>1, <2>2, <2>3 DEF Boots, Policy!Told, Policy!Waiting, Policy!Leaves
  <2> QED BY <2>4 DEF Policy!Next
<1>4. CASE Handles
  <2>0. UNCHANGED <<build, cause>> BY <1>4 DEF Handles
  <2>1. CASE TakeHello
    <3>1. asked' = asked /\ stage' = stage
      BY <2>1 DEF TakeHello, HasCommand, memory, asked, stage
    <3> QED BY <2>0, <3>1, Stutters
  <2>2. CASE TakeRead
    <3>1. asked' = asked /\ stage' = stage
      BY <2>2 DEF TakeRead, HasCommand, memory, asked, stage
    <3> QED BY <2>0, <3>1, Stutters
  <2>3. CASE TakeWrite
    <3>1. stage' = stage /\ stage # "down" BY <2>3 DEF TakeWrite, HasCommand, stage
    <3>2. asked' \in BOOLEAN BY DEF asked
    <3>3. Policy!AskedChanges BY <2>0, <3>1, <3>2 DEF Policy!AskedChanges
    <3> QED BY <3>3 DEF Policy!Next
  <2>4. CASE TakeOther
    <3>1. asked' = asked /\ stage' = stage BY <2>4 DEF TakeOther, memory, asked, stage
    <3> QED BY <2>0, <3>1, Stutters
  <2>5. CASE PushHello
    <3>1. asked' = asked /\ stage' = "held"
      BY <2>5 DEF PushHello, MayPush, memory, asked, stage
    <3>2. CASE got_hello
      <4>1. stage = "held" BY <2>5, <3>2 DEF PushHello, MayPush, stage
      <4> QED BY <2>0, <3>1, <4>1, Stutters
    <3>3. CASE ~got_hello
      <4>1. stage = "timed" BY <2>5, <3>3 DEF PushHello, MayPush, stage
      <4>2. Policy!Held BY <2>0, <3>1, <4>1 DEF Policy!Held
      <4> QED BY <4>2 DEF Policy!Next
    <3> QED BY <3>2, <3>3
  <2>6. CASE PushBlock
    <3>1. asked' = asked /\ stage' = stage
      BY <2>6 DEF PushBlock, MayPush, memory, asked, stage
    <3> QED BY <2>0, <3>1, Stutters
  <2>7. CASE ListenAgain
    <3>1. asked' = asked /\ stage' = stage BY <2>7 DEF ListenAgain, memory, asked, stage
    <3> QED BY <2>0, <3>1, Stutters
  <2> QED BY <1>4, <2>1, <2>2, <2>3, <2>4, <2>5, <2>6, <2>7 DEF Handles
<1>5. CASE Tick
  <2>1. stage = "timed" BY <1>5 DEF Tick, BootTimerTick, stage
  <2>2. asked' = asked BY <1>5 DEF Tick, BootTimerTick, memory, asked
  <2>3. CASE at' = "app"
    <3>1. stage' = "app" BY <2>3 DEF stage
    <3>2. Policy!TimeUp
      BY <1>5, <2>1, <2>2, <2>3, <3>1 DEF Tick, Goes, Policy!TimeUp, Policy!Leaves
    <3> QED BY <3>2 DEF Policy!Next
  <2>4. CASE at' = "loop"
    <3>1. stage' = stage BY <1>5, <2>4 DEF Tick, BootTimerTick, stage
    <3>2. UNCHANGED <<build, cause>> BY <1>5, <2>4 DEF Tick, Goes
    <3> QED BY <2>2, <3>1, <3>2, Stutters
  <2> QED BY <1>5, <2>3, <2>4 DEF Tick, BootTimerTick
<1>6. CASE Restarts
  <2>1. stage' = "down" BY <1>6 DEF Restarts, stage
  <2>2. asked' \in BOOLEAN BY DEF asked
  <2>3. Policy!GoesDown BY <1>6, <2>1, <2>2 DEF Restarts, Policy!GoesDown
  <2> QED BY <2>3 DEF Policy!Next
<1>7. CASE LosesPower
  BY <1>6, <1>7 DEF LosesPower, PowerFails, Restarts
<1>8. CASE AppAsks
  <2>1. stage' = stage /\ stage # "down" BY <1>8 DEF AppAsks, stage
  <2>2. asked' \in BOOLEAN BY DEF asked
  <2>3. Policy!AskedChanges BY <1>8, <2>1, <2>2 DEF AppAsks, Policy!AskedChanges
  <2> QED BY <2>3 DEF Policy!Next
<1>9. CASE Hear
  <2>1. asked' = asked /\ stage' = stage BY <1>9 DEF Hear, memory, asked, stage
  <2> QED BY <1>9, <2>1, Stutters DEF Hear
<1>10. CASE Answered
  <2>1. asked' = asked /\ stage' = stage BY <1>10 DEF Answered, memory, asked, stage
  <2> QED BY <1>10, <2>1, Stutters DEF Answered
<1>11. CASE UNCHANGED vars
  <2>1. asked' = asked /\ stage' = stage BY <1>11 DEF vars, target, memory, asked, stage
  <2> QED BY <1>11, <2>1, Stutters DEF vars
<1> QED
  BY <1>1, <1>2, <1>3, <1>4, <1>5, <1>6, <1>7, <1>8, <1>9, <1>10, <1>11
  DEF Next, GivesUp, AppRestarts

LEMMA InitImplements == Init => Policy!Init
<1> SUFFICES ASSUME Init PROVE Policy!Init
  OBVIOUS
<1>1. stage = "down" BY DEF Init, stage
<1>2. asked = FALSE
  <2>1. E2END \in 0 .. E2END BY SizesAssumption
  <2> QED BY <2>1 DEF Init, Unwritten, asked, Old, Magic
<1> QED BY <1>1, <1>2 DEF Init, Policy!Init

\* The target keeps the promise of BootPolicy: no order of commands, resets,
\* power failures and requests of the application makes it start the application
\* for another reason, or wait where it should not.
THEOREM KeepsPolicy == Spec => PolicyKept
<1>1. Spec => []IInv
  BY InitIInv, StepIInv, PTL DEF Spec
<1> QED
  BY <1>1, InitImplements, StepImplements, PTL DEF Spec, PolicyKept, Policy!Spec
=============================================================================
