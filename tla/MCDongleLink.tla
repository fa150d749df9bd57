---------------------------- MODULE MCDongleLink ----------------------------
(***************************************************************************)
(* Programs for the model checker: the sets of transfers they execute.     *)
(***************************************************************************)
EXTENDS DongleLink

Transfer(kind, size) == [kind |-> kind, sync |-> TRUE, size |-> size, resubmits |-> 0]
Conf == Transfer("conf", 0)
Open == Transfer("open", 0)
Stream(n) == Transfer("stream", n)
Bulk(n) == Transfer("bulk", n)
Read(n) == Transfer("read", n)
Sweep == Transfer("sweep", 0)
SweepAgain(n) == [Sweep EXCEPT !.resubmits = n]  \* the callback of rf24-sweep

AsyncBulk(n) == [Bulk(n) EXCEPT !.sync = FALSE]

WriteMenu    == {Conf, Open, Stream(3), Bulk(3), AsyncBulk(3)}
ReadMenu     == {Conf, Stream(1), Read(2), SweepAgain(2)}
=============================================================================
