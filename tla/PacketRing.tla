----------------------------- MODULE PacketRing -----------------------------
(***************************************************************************)
(* The packet ring of the dongle firmware (src/src/cb.c, cb.h).            *)
(*                                                                         *)
(* A ring is the record struct rf_packet_buffer: its size, the index of    *)
(* its oldest packet, the number of packets in it and the place of its     *)
(* first slot in the packet pool (pcks[] of uisp-app.c), which two rings   *)
(* share.  The C functions return a pointer into the pool and change the   *)
(* ring; here the pointer and the changed ring are two operators.          *)
(***************************************************************************)
EXTENDS Integers

\* struct rf_packet_buffer, empty.
Ring(size, elems) == [size |-> size, start |-> 0, count |-> 0, elems |-> elems]

cb_is_full(b)  == b.count = b.size
cb_is_empty(b) == b.count = 0

cb_flush(b) == [b EXCEPT !.count = 0]

\* RQ_CONFIG flushes a ring and gives it a size and a place; start stays.
Resize(b, size, elems) == [cb_flush(b) EXCEPT !.size = size, !.elems = elems]

\* The slot that cb_peek and cb_read point at (NULL when the ring is empty).
Oldest(b) == b.elems + b.start

\* Mutant of cb_read: start is never wrapped around.
ReadNoWrap(b) ==
  IF cb_is_empty(b) THEN b ELSE [b EXCEPT !.start = @ + 1, !.count = @ - 1]

\* The ring after cb_read.
cb_read(b) ==
  IF cb_is_empty(b)
    THEN b
    ELSE [b EXCEPT !.start = (b.start + 1) % b.size, !.count = @ - 1]

\* cb_get_slot on a full ring drops the oldest packet and calls itself: with
\* room it goes on, and with no slot at all it never returns.
MakeRoom(b) == IF cb_is_full(b) THEN cb_read(b) ELSE b
HasSlots(b) == b.size > 0

\* The slot cb_get_slot points at, and the ring it leaves behind.
NextSlot(b)    == LET r == MakeRoom(b) IN r.elems + ((r.start + r.count) % r.size)
cb_get_slot(b) == [MakeRoom(b) EXCEPT !.count = @ + 1]

\* The slot that the i-th of the next cb_reads will point at: only the first
\* takes the start index as it is, every later one has been reduced.
Slot(b, i) == b.elems + (IF i = 1 THEN b.start ELSE (b.start + i - 1) % b.size)

\* The packets in the ring, oldest first, when the pool holds mem.
Contents(b, mem) == [i \in 1..b.count |-> mem[Slot(b, i)]]
=============================================================================
