---------------------------- MODULE NativeProofs ----------------------------
(***************************************************************************)
(* The C library's memory, for any back ends, any completions and any       *)
(* number of allocations that fail: no block is used after it was freed,    *)
(* and main leaves none behind.                                            *)
(*                                                                         *)
(* MemorySound does not say why a transfer in the queue is there at all.    *)
(* The inductive invariant follows the one transfer that main works on:     *)
(* it has all its blocks from its allocation to its callback, it is of the   *)
(* type whose blocks are freed, and no other transfer has any.             *)
(***************************************************************************)
EXTENDS NativeTransfer, TLAPS

Kinds == {"SWEEP", "CONFIG", "OPENPIPE", "WRITE"}
Parts == {"t", "data", "ackdata"}
Current == Script[step]

\* The block layout and the type of a transfer go together.
Sound(t, kind) == FreedBlocks(t) = Blocks(kind)

Places == {"constructors", "allocate", "submit", "wait", "done", "crashed"}

HeapSound ==
  /\ \A s \in Steps : s # step => heap[s] = {}
  /\ pc \in {"constructors", "allocate", "done"} => heap[step] = {}
  /\ pc = "submit" => heap[step] = Blocks(Current)
  /\ pc \in {"submit", "wait"} => Sound(transfer[step], Current)

\* What wait() finds: the transfer in the adaptor's hands, or gone.
WaitSound ==
  /\ pc # "wait" => queue = <<>>
  /\ pc \in {"constructors", "allocate", "submit"} => completed = 0
  /\ pc = "wait" =>
       \/ completed = 0 /\ queue = <<step>> /\ heap[step] = Blocks(Current)
       \/ completed = 1 /\ queue = <<>> /\ heap[step] = {}

IInv ==
  /\ pc \in Places /\ step \in Steps
  /\ heap \in [Steps -> SUBSET Parts]
  /\ DOMAIN transfer = Steps
  /\ ~misused
  /\ HeapSound /\ WaitSound

LEMMA StepsAre == Steps = 1 .. 5 /\ \A s \in Steps : Script[s] \in Kinds
BY DEF Steps, Script, Kinds

\* A transfer as main prepares it is freed with all its blocks.
LEMMA PreparedSound == ASSUME NEW kind \in Kinds PROVE Sound(Prepared(kind), kind)
<1>1. CASE kind = "WRITE"
  <2> DEFINE u == [Allocated(kind) EXCEPT !.timeout_ms = 30000]
             w == make_write_transfer(u, MODE_WRITE_STREAM)
  <2>1. "type" \in DOMAIN u
    BY DEF Allocated
  <2>2. w.type = "WRITE"
    BY <2>1 DEF make_write_transfer, MODE_WRITE_STREAM, MODE_READ
  <2>3. \A t : add_packet(t).type = t.type \/ "type" \notin DOMAIN t
    BY DEF add_packet
  <2>4. "type" \in DOMAIN w
    BY <2>1 DEF make_write_transfer, MODE_WRITE_STREAM, MODE_READ
  <2>5. Prepared(kind) = add_packet(w)
    BY <1>1 DEF Prepared
  <2>6. Prepared(kind).type = "WRITE"
    <3> HIDE DEF w
    <3> QED BY <2>2, <2>3, <2>4, <2>5
  <2> QED BY <1>1, <2>6 DEF Sound, FreedBlocks, Blocks
<1>2. CASE kind # "WRITE"
  <2>1. Prepared(kind).type = kind BY <1>2 DEF Prepared, Allocated
  <2> QED BY <1>2, <2>1 DEF Sound, FreedBlocks, Blocks, Kinds
<1> QED BY <1>1, <1>2

LEMMA BlocksAre == ASSUME NEW kind PROVE "t" \in Blocks(kind) /\ Blocks(kind) \subseteq Parts
BY DEF Blocks, Parts

\* librf24_callback takes all blocks of the transfer, and uses none that is gone.
LEMMA CallbackFrees ==
  ASSUME IInv, NEW status, Callback(step, status),
         heap[step] = Blocks(Current), Sound(transfer[step], Current)
  PROVE  /\ heap' \in [Steps -> SUBSET Parts]
         /\ heap'[step] = {} /\ \A s \in Steps : s # step => heap'[s] = heap[s]
         /\ DOMAIN transfer' = Steps /\ ~misused'
<1>1. step \in Steps /\ "t" \in heap[step]
  BY BlocksAre DEF IInv
<1>2. ~misused'
  BY <1>1 DEF Callback, IInv
<1>3. DOMAIN transfer' = Steps /\ transfer'[step] = [Submitted(transfer[step]) EXCEPT !.status = status]
  BY <1>1 DEF Callback, IInv
<1>4. FreedBlocks(transfer'[step]) = FreedBlocks(transfer[step])
  <2>1. [Submitted(transfer[step]) EXCEPT !.status = status].type = transfer[step].type
    BY DEF Submitted
  <2> QED BY <1>3, <2>1 DEF FreedBlocks
<1>5. heap' = [heap EXCEPT ![step] = @ \ Blocks(Current)]
  BY <1>4 DEF Callback, Sound
<1> QED
  BY <1>1, <1>2, <1>3, <1>5 DEF IInv

LEMMA InitIInv == Init => IInv
BY StepsAre DEF Init, IInv, HeapSound, WaitSound, Places, Parts

-----------------------------------------------------------------------------
LEMMA StepIInv == IInv /\ [Next]_vars => IInv'
<1> SUFFICES ASSUME IInv, [Next]_vars PROVE IInv'
  OBVIOUS
<1>1. CASE FindAdaptor
  BY <1>1 DEF FindAdaptor, IInv, HeapSound, WaitSound, Places, Current, list, memory
<1>2. CASE Allocate
  <2>1. Current \in Kinds /\ step \in Steps
    BY StepsAre DEF IInv, Current
  <2>2. heap' \in [Steps -> SUBSET Parts] /\ heap'[step] = Blocks(Current)
    BY <1>2, <2>1, BlocksAre DEF Allocate, Current, IInv
  <2>3. DOMAIN transfer' = Steps /\ transfer'[step] = Prepared(Current)
    BY <1>2, <2>1 DEF Allocate, Current, IInv
  <2>4. Sound(transfer'[step], Current)
    BY <2>1, <2>3, PreparedSound
  <2>5. \A s \in Steps : s # step => heap'[s] = {}
    BY <1>2, <2>1 DEF Allocate, IInv, HeapSound
  <2> QED
    BY <1>2, <2>1, <2>2, <2>3, <2>4, <2>5
    DEF Allocate, IInv, HeapSound, WaitSound, Places, Current, list
<1>3. CASE Submit
  <2>1. step \in Steps /\ heap[step] = Blocks(Current) /\ "t" \in heap[step]
    BY <1>3, BlocksAre DEF Submit, IInv, HeapSound
  <2>2. completed' = 0 /\ queue' = <<step>> /\ ~misused'
    <3>1. completed = 0 /\ queue = <<>> BY <1>3 DEF Submit, IInv, WaitSound
    <3>2. completed' = 0 BY <1>3, <3>1 DEF Submit, EnterWait
    <3>3. queue' = <<step>> BY <1>3, <3>1 DEF Submit
    <3>4. ~misused' BY <1>3, <2>1, Zenon DEF Submit, IInv
    <3> QED BY <3>2, <3>3, <3>4
  <2>3. DOMAIN transfer' = Steps /\ transfer'[step] = Submitted(transfer[step])
    BY <1>3, <2>1 DEF Submit, IInv
  <2>4. Sound(transfer'[step], Current)
    <3>1. Submitted(transfer[step]).type = transfer[step].type BY DEF Submitted
    <3>2. Sound(transfer[step], Current) BY <1>3 DEF Submit, IInv, HeapSound
    <3> QED BY <2>3, <3>1, <3>2 DEF Sound, FreedBlocks
  <2>5. pc = "submit" /\ pc' = "wait" /\ step' = step /\ heap' = heap
    BY <1>3 DEF Submit
  <2>6. HeapSound'
    BY <2>4, <2>5 DEF IInv, HeapSound, Current
  <2>7. WaitSound'
    BY <2>1, <2>2, <2>5 DEF WaitSound, Current
  <2> QED
    BY <2>1, <2>2, <2>3, <2>5, <2>6, <2>7 DEF IInv, Places
<1>4. ASSUME NEW status \in Completions, SubmitDone(status) PROVE IInv'
  <2>1. heap[step] = Blocks(Current) /\ Sound(transfer[step], Current)
    BY <1>4 DEF SubmitDone, IInv, HeapSound
  <2>2. Callback(step, status)
    BY <1>4 DEF SubmitDone
  <2>3. completed' = 1 /\ queue' = <<>>
    BY <1>4 DEF SubmitDone, IInv, WaitSound, EnterWait
  <2>4. Sound(transfer'[step], Current)
    <3>1. [Submitted(transfer[step]) EXCEPT !.status = status].type = transfer[step].type
      BY DEF Submitted
    <3>2. transfer'[step] = [Submitted(transfer[step]) EXCEPT !.status = status]
      BY <2>2 DEF Callback, IInv
    <3> QED BY <2>1, <3>1, <3>2 DEF Sound, FreedBlocks
  <2>5. /\ heap' \in [Steps -> SUBSET Parts]
        /\ heap'[step] = {} /\ \A s \in Steps : s # step => heap'[s] = heap[s]
        /\ DOMAIN transfer' = Steps /\ ~misused'
    BY <2>1, <2>2, CallbackFrees
  <2> QED
    BY <1>4, <2>1, <2>2, <2>3, <2>4, <2>5
    DEF SubmitDone, IInv, HeapSound, WaitSound, Places, Current, list
<1>5. ASSUME NEW status \in Completions, HandleEvents(status) PROVE IInv'
  <2>1. heap[step] = Blocks(Current) /\ Sound(transfer[step], Current) /\ queue = <<step>>
    BY <1>5 DEF HandleEvents, IInv, HeapSound, WaitSound
  <2>2. Callback(step, status) /\ completed' = 1 /\ queue' = <<>>
    BY <1>5, <2>1 DEF HandleEvents
  <2>3. Sound(transfer'[step], Current)
    <3>1. [Submitted(transfer[step]) EXCEPT !.status = status].type = transfer[step].type
      BY DEF Submitted
    <3>2. transfer'[step] = [Submitted(transfer[step]) EXCEPT !.status = status]
      BY <2>2 DEF Callback, IInv
    <3> QED BY <2>1, <3>1, <3>2 DEF Sound, FreedBlocks
  <2>4. /\ heap' \in [Steps -> SUBSET Parts]
        /\ heap'[step] = {} /\ \A s \in Steps : s # step => heap'[s] = heap[s]
        /\ DOMAIN transfer' = Steps /\ ~misused'
    BY <2>1, <2>2, CallbackFrees
  <2> QED
    BY <1>5, <2>1, <2>2, <2>3, <2>4
    DEF HandleEvents, IInv, HeapSound, WaitSound, Places, Current, list
<1>6. CASE WaitEnds
  <2>1. queue = <<>> /\ heap[step] = {}
    BY <1>6 DEF WaitEnds, IInv, WaitSound
  <2>2. \A s \in Steps : heap[s] = {}
    BY <2>1 DEF IInv, HeapSound
  <2>3. step' \in Steps
    BY <1>6, StepsAre DEF WaitEnds, IInv, Script
  <2> QED
    BY <1>6, <2>1, <2>2, <2>3 DEF WaitEnds, IInv, HeapSound, WaitSound, Places, list, memory
<1>7. ASSUME NEW a \in Adaptors, rf24tool_register_adaptor(a) PROVE IInv'
  BY <1>7 DEF rf24tool_register_adaptor, IInv, HeapSound, WaitSound, Current, memory
<1>8. ASSUME NEW got \in Partial, AllocateFails(got) PROVE IInv'
  <2>1. step \in Steps /\ Range(got) \subseteq Parts
    BY <1>8 DEF AllocateFails, IInv, Partial, Range, Parts
  <2>2. heap' \in [Steps -> SUBSET Parts] /\ \A s \in Steps : s # step => heap'[s] = {}
    BY <1>8, <2>1 DEF AllocateFails, IInv, HeapSound
  <2> QED
    BY <1>8, <2>1, <2>2 DEF AllocateFails, IInv, HeapSound, WaitSound, Places, list
<1>9. CASE UNCHANGED vars
  BY <1>9 DEF vars, IInv, HeapSound, WaitSound, Current, list, memory
<1> QED
  BY <1>1, <1>2, <1>3, <1>4, <1>5, <1>6, <1>7, <1>8, <1>9 DEF Next, Main, External

\* A transfer is never used once its callback freed it, the adaptor holds only live
\* ones, and main leaves nothing on the heap: for every set of back ends, whatever
\* they complete a transfer with, and whichever allocations fail.
THEOREM NoneFreedTwice == Spec => []MemorySound
<1>1. IInv => MemorySound
  <2> SUFFICES ASSUME IInv PROVE MemorySound
    OBVIOUS
  <2>1. \A s \in Range(queue) : Blocks(Script[s]) \subseteq heap[s]
    <3>1. CASE queue = <<>> BY <3>1 DEF Range
    <3>2. CASE queue = <<step>> /\ heap[step] = Blocks(Current)
      BY <3>2 DEF Range, Current
    <3> QED BY <3>1, <3>2 DEF IInv, WaitSound
  <2>2. pc = "done" => \A s \in Steps : heap[s] = {}
    BY DEF IInv, HeapSound
  <2> QED BY <2>1, <2>2 DEF MemorySound, IInv
<1> QED
  BY <1>1, InitIInv, StepIInv, PTL DEF Spec
=============================================================================
