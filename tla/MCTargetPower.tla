--------------------------- MODULE MCTargetPower ---------------------------
(***************************************************************************)
(* Builds and commands for the model checker.                              *)
(***************************************************************************)
EXTENDS TargetPower

\* The production configurations (production_configs/), and one without the
\* timer.
ProductionBuilds == {[bootlock |-> lock, timer |-> TRUE] : lock \in {"none", "jumper", "bypass"}}
AllBuilds == ProductionBuilds \cup {[bootlock |-> "bypass", timer |-> FALSE]}

WriteEeprom(byte) == [op |-> "WRITE", part |-> 1, addr |-> E2END, data |-> <<byte>>]
AnyCommand ==
  {[op |-> "HELLO"], [op |-> "NOP", part |-> 1], [op |-> "BOOT", part |-> 2],
   [op |-> "BOOT", part |-> 3], [op |-> "READ", part |-> 1, addr |-> 2],
   WriteEeprom(Magic), WriteEeprom(0)}
Conversation == {[op |-> "HELLO"], [op |-> "BOOT", part |-> 2]}
=============================================================================
