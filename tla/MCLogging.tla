------------------------------ MODULE MCLogging ------------------------------
(***************************************************************************)
(* Command lines for the model checker: without the option, with it, with   *)
(* it twice, with the value in a word of its own, and with an empty value.  *)
(***************************************************************************)
EXTENDS Logging

Said(key, value) == [key |-> key, value |-> value, hasValue |-> TRUE]
Plain(key) == [key |-> key, value |-> None, hasValue |-> FALSE]

UserTypes ==
  {<<Plain("--read")>>,
   <<Said("--channel", "13"), Said(kDefaultLogFileParam, "asked")>>,
   <<Said(kDefaultLogFileParam, "asked"), Said(kDefaultLogFileParam, "other")>>,
   <<Plain(kDefaultLogFileParam), Plain("asked")>>,
   <<Said(kDefaultLogFileParam, None)>>}
=============================================================================
