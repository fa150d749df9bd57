----------------------------- MODULE CommandLine -----------------------------
(***************************************************************************)
(* The command line of the librf24pp programs.  Up to four getopt_long()    *)
(* loops read the same argv, each with the options of its own component     *)
(* and blind to the others': main's (rf24-load.cpp, rf24-outlet-test.cpp),  *)
(* the two behind LibRF24Adaptor::fromArgs, and setConfigFromArgs.  The     *)
(* getopt_long of glibc moves the words that are no options, and no         *)
(* arguments of an option it knows, to the end of argv; the next loop sees  *)
(* argv as the last one left it.                                           *)
(*                                                                         *)
(* A word of argv is --opt, --opt=val, or val alone (opt = "").  Options    *)
(* are written out in full, and there is no "--".                          *)
(***************************************************************************)
EXTENDS Integers, Sequences, SequencesExt, FiniteSetsExt

None == ""
Word(opt, val) == [opt |-> opt, val |-> val]
Plain(val) == Word(None, val)
NoWord == Word(None, None)

\* The numbers a user may type: 300 does not fit in a byte.
Numbers == {1, 3, 5, 13, 15, 16, 33, 40, 300}

\* 0 for what is no number, like an option taken for an argument.
atoi(word) ==
  LET n == {i \in Numbers : word = Plain(ToString(i))} IN IF n = {} THEN 0 ELSE Max(n)

-----------------------------------------------------------------------------
(***************************************************************************)
(* The options each loop knows.                                            *)
(***************************************************************************)
Table(required, optional, flags) ==
  [required |-> required, optional |-> optional, flags |-> flags]

AdaptorTable == Table({"adaptor-type"}, {}, {})
SerialTable == Table({"adaptor-serial"}, {}, {})

Rates == {"rate-2m", "rate-1m", "rate-250k"}
Levels == {"pa-min", "pa-low", "pa-high", "pa-max"}
Crcs == {"crc-none", "crc-16", "crc-8"}
ConfigTable ==
  Table({"channel", "num-retries", "payload-size", "retry-timeout"}, {},
        Rates \cup Levels \cup Crcs \cup {"disable-aa", "disable-dpl"})

\* The short -r asks for an argument, which nobody uses.
LoadTable ==
  Table({"part", "file", "local-addr", "remote-addr", "-r"}, {"run"},
        {"write", "read", "verify", "noverify", "help"})

OutletTable == Table({"relay", "state"}, {}, {})

-----------------------------------------------------------------------------
(***************************************************************************)
(* A whole getopt_long loop over argv: the options it found with their      *)
(* arguments, and argv as it leaves it.                                    *)
(***************************************************************************)
Hit(opt, arg) == [opt |-> opt, arg |-> arg]

\* Complete in one word; or in want of the next one.
IsHit(table, w) ==
  \/ w.opt \in table.required /\ w.val # None
  \/ w.opt \in table.optional
  \/ w.opt \in table.flags /\ w.val = None
Opens(table, w) == w.opt \in table.required /\ w.val = None

\* The next word is the argument whatever it looks like.
getopt_long(argv, table) ==
  LET taken[i \in 1 .. Len(argv)] == i > 1 /\ Opens(table, argv[i - 1]) /\ ~taken[i - 1]
      arguments == {i \in 1 .. Len(argv) : taken[i]}
      positions == [i \in 1 .. Len(argv) |-> i]
      front == {i \in 1 .. Len(argv) : i \in arguments \/ argv[i].opt # None}
      order == SelectSeq(positions, LAMBDA i : i \in front)
                 \o SelectSeq(positions, LAMBDA i : i \notin front)
      hits == SelectSeq(positions, LAMBDA i :
                i \notin arguments /\ (IsHit(table, argv[i]) \/ i + 1 \in arguments))
  IN [found |-> [k \in DOMAIN hits |-> LET w == argv[hits[k]] IN
                   Hit(w.opt, IF IsHit(table, w) THEN Plain(w.val) ELSE argv[hits[k] + 1])],
      argv |-> [k \in DOMAIN order |-> argv[order[k]]]]

Given(found, opts) == \E i \in DOMAIN found : found[i].opt \in opts

\* The last one counts.
Latest(found, opts) == Last(SelectSeq(found, LAMBDA hit : hit.opt \in opts))
Argument(found, opt, default) == IF Given(found, {opt}) THEN Latest(found, {opt}).arg ELSE default
Choice(found, opts, default) == IF Given(found, opts) THEN Latest(found, opts).opt ELSE default

-----------------------------------------------------------------------------
(***************************************************************************)
(* What the loops make of what they find.                                  *)
(***************************************************************************)
\* The constructor of LibRF24Adaptor; a choice among options is its option.
DefaultConfig ==
  [channel |-> 2, rate |-> "rate-2m", pa |-> "pa-max", crclen |-> "crc-16",
   num_retries |-> 15, retry_timeout |-> 15, dynamic_payloads |-> 1, payload_size |-> 32,
   ack_payloads |-> 0, pipe_auto_ack |-> 255]

\* The exceptions of the loop in setConfigFromArgs.
OutOfRange(found) ==
  \E i \in DOMAIN found :
    LET n == atoi(found[i].arg) IN
    \/ found[i].opt = "payload-size" /\ n > 32
    \/ found[i].opt \in {"num-retries", "retry-timeout"} /\ (n > 15 \/ n < 15)

\* The members are unsigned chars.
ConfigFrom(c, found) ==
  LET number(opt, default) ==
        IF Given(found, {opt}) THEN atoi(Latest(found, {opt}).arg) % 256 ELSE default
  IN [c EXCEPT
        !.pa = Choice(found, Levels, @), !.rate = Choice(found, Rates, @),
        !.crclen = Choice(found, Crcs, @), !.channel = number("channel", @),
        !.num_retries = number("num-retries", @), !.payload_size = number("payload-size", @),
        !.retry_timeout = number("retry-timeout", @),
        !.pipe_auto_ack = IF Given(found, {"disable-aa"}) THEN 0 ELSE @,
        !.dynamic_payloads = IF Given(found, {"disable-dpl"}) THEN 0 ELSE @]

\* sscanf leaves the address alone if the argument is none.
AddressFrom(found, opt, default) ==
  LET w == Argument(found, opt, NoWord) IN
  IF w.opt = None /\ w.val # None THEN w.val ELSE default

\* main of rf24-load up to line 169, the works by their names in module Loader.
LoadRequest(found) ==
  [part |-> Argument(found, "part", NoWord), file |-> Argument(found, "file", NoWord),
   read |-> Given(found, {"read", "-r"}), write |-> Given(found, {"write"}),
   verify |-> Given(found, {"write", "verify"}) /\ ~Given(found, {"noverify"}),
   run |-> IF Given(found, {"run"}) THEN atoi(Latest(found, {"run"}).arg) ELSE -1,
   local |-> AddressFrom(found, "local-addr", "b0:0b:c0:de:ed"),
   remote |-> AddressFrom(found, "remote-addr", "b0:0b:10:ad:ed")]
=============================================================================
