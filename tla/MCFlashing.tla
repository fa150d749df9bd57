----------------------------- MODULE MCFlashing -----------------------------
(***************************************************************************)
(* Command lines for the model checker.                                    *)
(***************************************************************************)
EXTENDS Flashing

Line(part) == [part |-> part, read |-> FALSE, write |-> FALSE, verify |-> FALSE, run |-> FALSE]

WriteVerifyRun == [Line("flash") EXCEPT !.write = TRUE, !.verify = TRUE, !.run = TRUE]
WriteEeprom == [Line("eeprom") EXCEPT !.write = TRUE, !.verify = TRUE]
ReadFlash == [Line("flash") EXCEPT !.read = TRUE]

\* The first time anything; the second, what writes over what the first has left and
\* reads it back.
TwoSessions == <<{WriteVerifyRun, WriteEeprom, ReadFlash}, {WriteVerifyRun}>>
OneWrite == <<{WriteVerifyRun}>>
=============================================================================
