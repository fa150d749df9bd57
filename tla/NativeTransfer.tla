--------------------------- MODULE NativeTransfer ---------------------------
(***************************************************************************)
(* The C library (src/src/native/librf24.c, adaptor-factory.c, with         *)
(* include/librf24/adaptor.h) and the test program that uses it (main.c).   *)
(* The back end, `vusb-async' in another library, is external: it registers *)
(* itself before main, and takes a submitted transfer, completing it at     *)
(* once or when main lets it handle events.                                *)
(***************************************************************************)
EXTENDS Integers, Sequences, SequencesExt, FiniteSets

CONSTANTS
  Adaptors,    \* the back ends that may be linked in
  Wanted,      \* the name main looks for
  MaxFailures, \* bound: calls to calloc that fail
  Completions  \* what an adaptor may complete a transfer with

NULL == "null"

ASSUME AdaptorsAssumption == NULL \notin Adaptors /\ Adaptors \cup {Wanted} \subseteq STRING
ASSUME FailuresAssumption == MaxFailures \in Nat
ASSUME CompletionsAssumption ==
  Completions \subseteq {"COMPLETED", "FAIL", "ERROR", "TIMED_OUT"} /\ Completions # {}

VARIABLES
  head, next,  \* the list of adaptors, and who registered
  registered,
  heap,        \* the blocks calloc gave, by the transfer they belong to
  transfer,    \* what each of main's transfers says
  misused,     \* bookkeeping: a freed block was used
  completed, pc, step, failures,
  queue        \* external: the transfers the adaptor holds

list == <<head, next, registered>>
memory == <<heap, transfer, misused>>
vars == <<list, memory, completed, pc, step, failures, queue>>

-----------------------------------------------------------------------------
(***************************************************************************)
(* adaptor-factory.c                                                       *)
(***************************************************************************)
\* The adaptors met from `a' on, in `fuel' links at most.
Walk[a \in Adaptors \cup {NULL}, fuel \in 0 .. Cardinality(Adaptors) + 1] ==
  IF a = NULL \/ fuel = 0 THEN <<>> ELSE <<a>> \o Walk[next[a], fuel - 1]

Chain(from) == Walk[from, Cardinality(Adaptors) + 1]
Endless(from) == Len(Chain(from)) > Cardinality(Adaptors)

\* Mutant of Registered: the new adaptor keeps the link that an empty list made to itself.
RegisteredOpen(a, first) == [next EXCEPT ![Last(Chain(first))] = a]

Registered(a, first) == [next EXCEPT ![Last(Chain(first))] = a, ![a] = NULL]

rf24tool_register_adaptor(a) ==
  LET first == IF head = NULL THEN a ELSE head
  IN /\ pc = "constructors" /\ a \notin registered
     /\ head' = first
     /\ next' = Registered(a, first)
     /\ registered' = registered \cup {a}
     /\ UNCHANGED <<memory, completed, pc, step, failures, queue>>

rf24_get_adaptor_by_name(name) == IF Contains(Chain(head), name) THEN name ELSE NULL

-----------------------------------------------------------------------------
(***************************************************************************)
(* librf24.c: what main asks for, in order.  Every transfer is to be freed  *)
(* after its callback (RF24_TRANSFER_FLAG_FREE).                           *)
(***************************************************************************)
Script == <<"SWEEP", "CONFIG", "OPENPIPE", "OPENPIPE", "WRITE">>
Sweeps == 30
Steps == 1 .. Len(Script)

\* Before make_write a transfer with packets is an IOCLEAR one.
Allocated(kind) ==
  [type |-> IF kind = "WRITE" THEN "IOCLEAR" ELSE kind, status |-> "IDLE",
   timeout_ms |-> IF kind = "SWEEP" THEN 400 * Sweeps ELSE 1000, timeout_ms_left |-> 0,
   mode |-> 0, num_allocated |-> IF kind = "WRITE" THEN 1 ELSE 0,
   num_data_packets |-> 0, num_ack_packets |-> 0]

MODE_READ == 1
MODE_WRITE_STREAM == 2

make_write_transfer(t, mode) ==
  IF mode <= MODE_READ THEN t
  ELSE [t EXCEPT !.type = "WRITE", !.mode = mode, !.num_data_packets = 0, !.num_ack_packets = 0]

\* `mode' is one of requests.h and is compared with the type of a transfer:
\* RF24_TRANSFER_READ is 1 and RF24_TRANSFER_WRITE is 2, so MODE_WRITE_BULK (3)
\* is no transfer for packets.  Neither answer is looked at by main.
add_packet(t) ==
  CASE t.num_data_packets >= t.num_allocated -> t
    [] t.mode = 2 -> [t EXCEPT !.num_data_packets = @ + 1]
    [] t.mode = 1 -> [t EXCEPT !.num_ack_packets = @ + 1]
    [] OTHER -> t

\* The 30 s of main replace the default, except for the sweep.
Prepared(kind) ==
  LET t == Allocated(kind)
      u == IF kind = "SWEEP" THEN t ELSE [t EXCEPT !.timeout_ms = 30000]
  IN IF kind = "WRITE" THEN add_packet(make_write_transfer(u, MODE_WRITE_STREAM)) ELSE u

Blocks(kind) == IF kind = "WRITE" THEN {"t", "data", "ackdata"} ELSE {"t"}

\* Mutant of FreedBlocks: the buffers of a write are forgotten.
FreedBlocksReadOnly(t) == {"t"} \cup (IF t.type = "READ" THEN {"data", "ackdata"} ELSE {})

FreedBlocks(t) == {"t"} \cup (IF t.type \in {"READ", "WRITE"} THEN {"data", "ackdata"} ELSE {})

Running(t) == t.status \in {"RUNNING", "CANCELLING"}
Submitted(t) == [t EXCEPT !.status = "RUNNING", !.timeout_ms_left = t.timeout_ms]

\* librf24_callback: main's callback reads the status and counts; the block goes after it.
Callback(s, status) ==
  /\ transfer' = [transfer EXCEPT ![s] = [Submitted(@) EXCEPT !.status = status]]
  /\ misused' = (misused \/ "t" \notin heap[s])
  /\ heap' = [heap EXCEPT ![s] = @ \ FreedBlocks(transfer'[s])]

-----------------------------------------------------------------------------
Init ==
  /\ head = NULL /\ next = [a \in Adaptors |-> NULL] /\ registered = {}
  /\ heap = [s \in Steps |-> {}]
  /\ transfer = [s \in Steps |-> Allocated(Script[s])]
  /\ misused = FALSE
  /\ completed = 0 /\ pc = "constructors" /\ step = 1 /\ failures = 0
  /\ queue = <<>>

(***************************************************************************)
(* main.c.  An adaptor that is not there is only complained about: rf24_init *)
(* then reads through a null pointer.                                      *)
(***************************************************************************)
FindAdaptor ==
  /\ pc = "constructors"
  /\ pc' = IF rf24_get_adaptor_by_name(Wanted) = NULL THEN "crashed" ELSE "allocate"
  /\ UNCHANGED <<list, memory, completed, step, failures, queue>>

\* A sweep, a configuration, two pipes, a packet: each as the one before is over.
Allocate ==
  /\ pc = "allocate"
  /\ heap' = [heap EXCEPT ![step] = Blocks(Script[step])]
  /\ transfer' = [transfer EXCEPT ![step] = Prepared(Script[step])]
  /\ pc' = "submit"
  /\ UNCHANGED <<list, misused, completed, step, failures, queue>>

\* What was had when an allocation failed.
Partial == {<<>>, <<"t">>, <<"t", "data">>, <<"t", "data", "ackdata">>}

\* A calloc, or the adaptor's own allocation, gives nothing, and main sets the flag
\* of a null transfer.  The blocks before go back, but for the ackdata of a
\* transfer whose adaptor has no room.
AllocateFails(got) ==
  /\ pc = "allocate" /\ failures < MaxFailures
  /\ Script[step] = "WRITE" \/ got = <<>>
  /\ failures' = failures + 1
  /\ heap' = [heap EXCEPT ![step] = Range(got) \ {"t", "data"}]
  /\ pc' = "crashed"
  /\ UNCHANGED <<list, transfer, misused, completed, step, queue>>

\* Mutant of EnterWait: the count is cleared before the loop, not after it.
EnterWaitCleared(count) == 0

\* What wait() finds: the loop looks at the count first and clears it last.
EnterWait(count) == count

\* The adaptor keeps the transfer ...
Submit ==
  /\ pc = "submit" /\ ~Running(transfer[step])
  /\ transfer' = [transfer EXCEPT ![step] = Submitted(@)]
  /\ misused' = (misused \/ "t" \notin heap[step])
  /\ queue' = Append(queue, step)
  /\ completed' = EnterWait(completed)
  /\ pc' = "wait"
  /\ UNCHANGED <<list, heap, step, failures>>

\* ... or completes it before the submission returns.
SubmitDone(status) ==
  /\ pc = "submit" /\ ~Running(transfer[step])
  /\ Callback(step, status)
  /\ completed' = EnterWait(completed + 1)
  /\ pc' = "wait"
  /\ UNCHANGED <<list, step, failures, queue>>

\* External: handle_events lets the adaptor complete what it holds.
HandleEvents(status) ==
  /\ pc = "wait" /\ completed = 0 /\ queue # <<>>
  /\ Callback(Head(queue), status)
  /\ completed' = completed + 1
  /\ queue' = Tail(queue)
  /\ UNCHANGED <<list, pc, step, failures>>

WaitEnds ==
  /\ pc = "wait" /\ completed > 0
  /\ completed' = 0
  /\ step' = IF step = Len(Script) THEN step ELSE step + 1
  /\ pc' = IF step = Len(Script) THEN "done" ELSE "allocate"
  /\ UNCHANGED <<list, memory, failures, queue>>

Main == FindAdaptor \/ Allocate \/ Submit \/ WaitEnds
External ==
  \/ \E a \in Adaptors : rf24tool_register_adaptor(a)
  \/ \E got \in Partial : AllocateFails(got)
  \/ \E status \in Completions : SubmitDone(status)
Next ==
  \/ Main
  \/ External
  \/ \E status \in Completions : HandleEvents(status)

Spec == Init /\ [][Next]_vars

\* main runs, and an adaptor that is let to handle events completes what it holds.
FairSpec ==
  Spec /\ WF_vars(Main) /\ WF_vars(\E status \in Completions : HandleEvents(status))

-----------------------------------------------------------------------------
(***************************************************************************)
(* Properties.                                                             *)
(***************************************************************************)
\* However many back ends register, and in whatever order, each is found by its
\* name and a name nobody has ends the search (adaptor-factory.c:17-39).
AdaptorsFound ==
  /\ ~Endless(head)
  /\ Range(Chain(head)) = registered

\* A transfer is never used once its callback freed it, the adaptor holds only
\* live ones, and main leaves nothing on the heap (librf24.c:109-123).
MemorySound ==
  /\ ~misused
  /\ \A s \in Range(queue) : Blocks(Script[s]) \subseteq heap[s]
  /\ pc = "done" => \A s \in Steps : heap[s] = {}

\* main never waits for ever, whether a transfer is completed inside its own
\* submission or later (main.c:37-42).
MainEnds == <>(pc \in {"done", "crashed"})
=============================================================================
