----------------------------- MODULE PacketPipe -----------------------------
(***************************************************************************)
(* What one direction of the USB dongle promises, whatever rings, FIFOs and *)
(* flags it is built from: packets that were accepted come out in the order *)
(* they went in, each at most once, and while the pipe is reliable none is  *)
(* skipped.  Only a flush (a change of mode, a reconfiguration, RQ_FLUSH)   *)
(* discards what is pending.                                                *)
(*                                                                         *)
(* The dongle implements it twice: from RQ_WRITE to the air, and from the   *)
(* air to RQ_READ (module Dongle, TxPipe and RxPipe).                       *)
(***************************************************************************)
EXTENDS Sequences

VARIABLES
  accepted,   \* everything that ever went in
  pending,    \* accepted, not yet disposed of, oldest first
  taken,      \* the far end already has Head(pending), this end cannot know
  delivered,  \* everything the far end ever received
  reliable    \* no packet may be given up

vars == <<accepted, pending, taken, delivered, reliable>>

Init ==
  /\ accepted = <<>>
  /\ pending = <<>>
  /\ taken = FALSE
  /\ delivered = <<>>
  /\ reliable \in BOOLEAN

\* The new packet is the one that this step adds to accepted.
Accept ==
  /\ accepted' # <<>>
  /\ LET p == accepted'[Len(accepted')] IN
     /\ accepted' = Append(accepted, p)
     /\ pending' = Append(pending, p)
  /\ UNCHANGED <<taken, delivered, reliable>>

\* The far end receives the oldest packet, and this end does not hear of it yet.
Deliver ==
  /\ pending # <<>> /\ ~taken
  /\ delivered' = Append(delivered, Head(pending))
  /\ taken' = TRUE
  /\ UNCHANGED <<accepted, pending, reliable>>

\* The oldest packet is known to be delivered: with this step, or earlier.
Retire ==
  /\ pending # <<>>
  /\ delivered' = IF taken THEN delivered ELSE Append(delivered, Head(pending))
  /\ pending' = Tail(pending)
  /\ taken' = FALSE
  /\ UNCHANGED <<accepted, reliable>>

GiveUp ==
  /\ pending # <<>> /\ ~reliable
  /\ pending' = Tail(pending)
  /\ taken' = FALSE
  /\ UNCHANGED <<accepted, delivered, reliable>>

Flush ==
  /\ pending' = <<>>
  /\ taken' = FALSE
  /\ reliable' \in BOOLEAN
  /\ UNCHANGED <<accepted, delivered>>

Next == Accept \/ Deliver \/ Retire \/ GiveUp \/ Flush

Spec == Init /\ [][Next]_vars
=============================================================================
