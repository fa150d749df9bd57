------------------------------- MODULE Radio24 -------------------------------
(***************************************************************************)
(* The nRF24L01+ as the firmware sees it through the RF24 library.  Neither *)
(* is in the repository: this is the contract that uisp-app.c relies on.   *)
(*                                                                         *)
(* tx, rx     the hardware FIFOs, three payloads each                      *)
(* seen       the peer has already taken the payload at the head of tx, but *)
(*            its acknowledge was lost (the hardware packet id makes the    *)
(*            peer discard the retransmission)                             *)
(* tx_ds      "data sent" interrupt flag: a payload was acknowledged       *)
(* max_rt     "retries exhausted" flag: nothing is sent while it is set     *)
(***************************************************************************)
EXTENDS Integers, Sequences

FIFO_DEPTH == 3

RadioReset ==
  [tx |-> <<>>, rx |-> <<>>, seen |-> FALSE,
   tx_ds |-> FALSE, max_rt |-> FALSE, listening |-> FALSE]

(***************************************************************************)
(* The library calls of the firmware.                                      *)
(***************************************************************************)
rf24_stop_listening(r)  == [r EXCEPT !.listening = FALSE]
rf24_start_listening(r) == [r EXCEPT !.listening = TRUE]
rf24_flush_tx(r)        == [r EXCEPT !.tx = <<>>, !.seen = FALSE]
rf24_flush_rx(r)        == [r EXCEPT !.rx = <<>>]
rf24_tx_empty(r)        == r.tx = <<>>
rf24_what_happened(r)   == [r EXCEPT !.tx_ds = FALSE, !.max_rt = FALSE]
rf24_queue_push(r, p)   == [r EXCEPT !.tx = Append(@, p)]
rf24_start_write(r, p)  == rf24_queue_push(rf24_what_happened(r), p)
rf24_available(r)       == r.rx # <<>>
rf24_read(r)            == [r EXCEPT !.rx = Tail(@)]

TxFull(r) == Len(r.tx) = FIFO_DEPTH

(***************************************************************************)
(* What the radio does by itself.                                          *)
(***************************************************************************)
MaySend(r) == r.tx # <<>> /\ ~r.max_rt /\ ~r.listening

\* The head was acknowledged, in this round or ...
Acknowledged(r) == [r EXCEPT !.tx = Tail(@), !.seen = FALSE, !.tx_ds = TRUE]

\* ... every retry of this round went without an answer.
Unanswered(r, taken) == [r EXCEPT !.max_rt = TRUE, !.seen = @ \/ taken]

MayReceive(r)  == r.listening /\ Len(r.rx) < FIFO_DEPTH
Received(r, p) == [r EXCEPT !.rx = Append(@, p)]
=============================================================================
