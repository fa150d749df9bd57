----------------------------- MODULE LinkProofs -----------------------------
(***************************************************************************)
(* For every number of transfers and rings of any size.  First, for every  *)
(* menu without sweeps: the adaptor's count of requests is exact, and      *)
(* packets keep their order all the way from the program to the air.       *)
(*                                                                         *)
(* LinkInv has a part for each of the three that interact.  The dongle: the*)
(* invariants of DongleProofs, whose lemmas are used with the link's       *)
(* variables (P).  The bus: one status at most among the completions, and  *)
(* no request served while another waits for its data.  The adaptor: its   *)
(* transfers are started in turn (QueueIsRest), the writes in ep0 are in   *)
(* order and behind everything the dongle has taken (Sane), no packet is   *)
(* ahead of what its transfer has sent (Used), and numIosPending is        *)
(* what is in ep0 and what has left it without being called back (Taken).  *)
(*                                                                         *)
(* Then, for programs that configure and write, one transfer after the     *)
(* other (Writers): the ring is never written when it is full, no request  *)
(* outlives its transfer, nothing is thrown, and COMPLETED means what it   *)
(* says.  WriterInv adds to LinkInv what the adaptor may be doing          *)
(* (OneByOne: it rests, waits for one request, or has packets under way),  *)
(* that what is on the bus is that and the dongle is in the mode it was    *)
(* last asked for (BusAsks, ModeAsked), that what may still be sent has its*)
(* slots (HasRoom) and that a status on its way is still true (ToldTrue).  *)
(* SentInv adds where the packets of bulk writes (BulkKept) and the last   *)
(* one of a stream (LastKept) are until their transfer has ended.          *)
(***************************************************************************)
EXTENDS DongleLink, SequenceTheorems, TLAPS

P == INSTANCE DongleProofs
  WITH AckModes <- {FALSE}, HostKeepsCredit <- FALSE, MaxWrites <- 0, MaxPackets <- 0

-----------------------------------------------------------------------------
(***************************************************************************)
(* What the adaptor's state looks like.                                    *)
(***************************************************************************)
Numbered == Nat \X Nat   \* packet i of transfer t is <<t, i>>
Modes == {"IDLE", "READ", "WRITE_STREAM", "WRITE_BULK"}
\* A sweep is not among the requests that numIosPending counts (sweepStart), and its
\* data count as one request more (sweepCompleted); a program that sweeps does nothing
\* else.  The theorems are about all other programs.
NoSweeps == \A d \in Menu : d.kind # "sweep"
Program == {d \in Descriptor : d.kind # "sweep" /\ d.resubmits = 0}

HostRequest ==
       [rq : {"RQ_MODE"}, mode : Modes]
  \cup [rq : {"RQ_CONFIG"}, ack_payloads : {FALSE}]
  \cup [rq : {"RQ_WRITE"}, packet : Numbered]
  \cup [rq : {"RQ_OPEN_PIPE", "RQ_READ"}]

XferType ==
  [d : Program, status : {"QUEUED", "COMPLETED", "TIMED_OUT", "CANCELLED"}, sent : Nat,
   numWriting : Int, recv : Seq(Numbered), lastWriteOk : BOOLEAN]
Xfer == {x \in XferType : x.sent <= ToSend(x.d)}

Exceptions ==
  {"null currentTransfer", "Attempt to complete transfer not current",
   "Attempt to cancel transfer not in adaptor queue"}

HostType ==
  [queue : Seq(Nat), currentTransfer : Nat, xfers : Seq(Xfer),
   numIosPending : Int, countToWrite : Nat, countToRead : Nat, canXfer : BOOLEAN,
   currentMode : Modes, nextMode : Modes, interruptIsRunning : BOOLEAN,
   ep0 : Seq(HostRequest), thrown : {"nothing"} \cup Exceptions]

\* Transfers are started in the order of their numbers, and the queue holds those
\* that were not started.
Started(h) == Len(h.xfers) - Len(h.queue)
QueueIsRest(h) ==
  /\ Started(h) \in Nat
  /\ \A i \in 1..Len(h.queue) : h.queue[i] = Started(h) + i
  /\ h.currentTransfer \in {NoTransfer, Started(h)}
  /\ \A t \in 1..Len(h.xfers) : t > Started(h) => h.xfers[t].sent = 0

\* The packets in S were sent by transfers that have been started.
Used(h, S) == \A p \in S : p[1] \in 1..Started(h) /\ p[2] <= h.xfers[p[1]].sent

IsWrite(rq) == rq.rq = "RQ_WRITE"
Writes(s) == {s[i].packet : i \in {j \in 1..Len(s) : IsWrite(s[j])}}
WritesAscend(s) ==
  \A j, k \in 1..Len(s) :
    j < k /\ IsWrite(s[j]) /\ IsWrite(s[k]) => P!Before(s[j].packet, s[k].packet)

\* The writes on their way are in order, behind the packets of E.
Sane(h, E) ==
  /\ h.ep0 \in Seq(HostRequest) /\ E \subseteq Numbered
  /\ WritesAscend(h.ep0) /\ P!AllBefore(E, Writes(h.ep0))

\* n requests have left ep0 and are not called back yet.
Ready(h, E, n) ==
  /\ h \in HostType /\ QueueIsRest(h)
  /\ Used(h, E) /\ Used(h, Writes(h.ep0))
  /\ h.numIosPending = Len(h.ep0) + n

Live(h, E, n) == h.thrown = "nothing" /\ Sane(h, E) /\ Ready(h, E, n)

\* An exception ends the program, and what it has submitted stays on its way.
Good(h, E, n) ==
  /\ {"ep0", "thrown"} \subseteq DOMAIN h
  /\ Sane(h, E)
  /\ h.thrown = "nothing" => Ready(h, E, n)

-----------------------------------------------------------------------------
(***************************************************************************)
(* Changes of the adaptor's state that keep it in shape.                   *)
(***************************************************************************)
LEMMA ToSendNat == \A d \in Program : ToSend(d) \in Nat /\ ToSend(d) = IF d.kind \in {"stream", "bulk"} THEN d.size ELSE 0
  BY DEF ToSend, Program, Descriptor

LEMMA HostFields ==
  ASSUME NEW h \in HostType
  PROVE  /\ h.numIosPending \in Int /\ h.currentTransfer \in Nat
         /\ h.countToWrite \in Nat /\ h.countToRead \in Nat
         /\ h.currentMode \in Modes /\ h.nextMode \in Modes
  BY DEF HostType

LEMMA HostSeqs ==
  ASSUME NEW h \in HostType
  PROVE  /\ Len(h.queue) \in Nat /\ Len(h.xfers) \in Nat /\ Len(h.ep0) \in Nat
         /\ h.queue \in Seq(Nat) /\ h.xfers \in Seq(Xfer) /\ h.ep0 \in Seq(HostRequest)
         /\ \A t \in 1..Len(h.xfers) : h.xfers[t] \in Xfer
  BY LenProperties, ElementOfSeq DEF HostType

\* Requests, transfers started and packets sent stay as they are.
LEMMA LiveSame ==
  ASSUME NEW E, NEW n \in Int, NEW h, Live(h, E, n), NEW g \in HostType, NEW m \in Int,
         g.queue = h.queue, g.currentTransfer \in {NoTransfer, h.currentTransfer},
         g.ep0 = h.ep0, g.thrown = h.thrown, g.numIosPending = Len(h.ep0) + m,
         Len(g.xfers) = Len(h.xfers),
         \A t \in 1..Len(h.xfers) : g.xfers[t].sent = h.xfers[t].sent
  PROVE  Live(g, E, m)
<1>1. Started(g) = Started(h)
  BY DEF Started
<1>2. QueueIsRest(g)
  BY <1>1 DEF QueueIsRest, Live, Ready
<1>3. Started(h) \in Nat /\ Len(h.queue) \in Nat /\ Len(h.xfers) \in Nat
  BY HostSeqs DEF Live, Ready, QueueIsRest
<1>4. \A t \in 1..Started(h) : t \in 1..Len(h.xfers)
  <2> DEFINE a == Len(h.xfers)
             b == Len(h.queue)
  <2>0. Started(h) = a - b /\ a \in Nat /\ b \in Nat
    BY <1>3 DEF Started
  <2> HIDE DEF a, b
  <2>1. Started(h) <= Len(h.xfers)
    BY <2>0 DEF a
  <2> QED
    BY <1>3, <2>1
<1>5. Used(g, E) /\ Used(g, Writes(g.ep0))
  BY <1>1, <1>4 DEF Used, Live, Ready
<1> QED
  BY <1>2, <1>5 DEF Live, Ready, Sane

\* A request that is not a write joins ep0.
LEMMA LiveAsks ==
  ASSUME NEW E, NEW n \in Int, NEW h, Live(h, E, n), NEW g \in HostType,
         NEW rq \in HostRequest, ~IsWrite(rq),
         g.queue = h.queue, g.currentTransfer = h.currentTransfer, g.xfers = h.xfers,
         g.thrown = h.thrown,
         g.ep0 = Append(h.ep0, rq), g.numIosPending = h.numIosPending + 1
  PROVE  Live(g, E, n)
<1> DEFINE s == h.ep0
           u == g.ep0
<1>1. /\ s \in Seq(HostRequest) /\ u \in Seq(HostRequest) /\ Len(s) \in Nat
      /\ Len(u) = Len(s) + 1 /\ u[Len(s) + 1] = rq
      /\ \A i \in 1..Len(s) : u[i] = s[i]
  BY HostSeqs, AppendProperties DEF Live, Ready
<1>2. WritesAscend(s) /\ P!AllBefore(E, Writes(s)) /\ Used(h, E) /\ Used(h, Writes(s))
      /\ h.numIosPending = Len(s) + n /\ E \subseteq Numbered
  BY DEF Live, Ready, Sane
<1> HIDE DEF s, u
<1>3. ASSUME NEW i \in 1..Len(u), IsWrite(u[i])
      PROVE  i \in 1..Len(s) /\ u[i] = s[i] /\ u[i].packet \in Writes(s)
  <2>1. i # Len(s) + 1
    BY <1>1, <1>3
  <2>2. i \in 1..Len(s) /\ u[i] = s[i]
    BY <1>1, <2>1
  <2> QED
    BY <1>3, <2>2 DEF Writes
<1>4. WritesAscend(u)
  BY <1>2, <1>3 DEF WritesAscend
<1>5. Writes(u) \subseteq Writes(s)
  BY <1>3 DEF Writes
<1>6. P!AllBefore(E, Writes(u)) /\ Used(h, Writes(u))
  BY <1>2, <1>5 DEF P!AllBefore, Used
<1>7. Started(g) = Started(h)
  BY DEF Started
<1>8. Used(g, E) /\ Used(g, Writes(u)) /\ QueueIsRest(g)
  BY <1>2, <1>6, <1>7 DEF Used, QueueIsRest, Live, Ready
<1>9. Sane(g, E)
  BY <1>1, <1>2, <1>4, <1>6 DEF Sane, u
<1>10. g.numIosPending = Len(u) + n
  BY <1>1, <1>2
<1> QED
  BY <1>8, <1>9, <1>10 DEF Live, Ready, u

-----------------------------------------------------------------------------
(***************************************************************************)
(* Method by method.                                                       *)
(***************************************************************************)
LEMMA LiveHost ==
  ASSUME NEW E, NEW n \in Int, NEW h, Live(h, E, n)
  PROVE  /\ h \in HostType /\ h.thrown = "nothing" /\ h.numIosPending = Len(h.ep0) + n
         /\ Len(h.queue) \in Nat /\ Len(h.xfers) \in Nat /\ Len(h.ep0) \in Nat
         /\ Started(h) \in 0..Len(h.xfers)
         /\ HasCurrent(h) => /\ h.currentTransfer = Started(h)
                             /\ h.currentTransfer \in 1..Len(h.xfers)
                             /\ Current(h) \in Xfer /\ Current(h) \in XferType
                             /\ Current(h).sent <= ToSend(Current(h).d)
<1>1. /\ h \in HostType /\ h.thrown = "nothing" /\ h.numIosPending = Len(h.ep0) + n
      /\ Started(h) \in Nat /\ h.currentTransfer \in {NoTransfer, Started(h)}
  BY DEF Live, Ready, QueueIsRest
<1>2. /\ Len(h.queue) \in Nat /\ Len(h.xfers) \in Nat /\ Len(h.ep0) \in Nat
      /\ \A t \in 1..Len(h.xfers) : h.xfers[t] \in Xfer
  BY <1>1, HostSeqs
<1>3. Started(h) <= Len(h.xfers)
  <2> DEFINE a == Len(h.xfers)
             b == Len(h.queue)
  <2>1. Started(h) = a - b /\ a \in Nat /\ b \in Nat
    BY <1>2 DEF Started
  <2> HIDE DEF a, b
  <2> QED
    BY <2>1 DEF a
<1>4. ASSUME HasCurrent(h)
      PROVE  /\ h.currentTransfer = Started(h)
             /\ h.currentTransfer \in 1..Len(h.xfers)
             /\ Current(h) \in Xfer /\ Current(h) \in XferType
             /\ Current(h).sent <= ToSend(Current(h).d)
  <2>1. h.currentTransfer = Started(h) /\ h.currentTransfer \in 1..Len(h.xfers)
    BY <1>1, <1>2, <1>3, <1>4 DEF HasCurrent, NoTransfer
  <2> QED
    BY <1>2, <2>1 DEF Current, Xfer
<1> QED
  BY <1>1, <1>2, <1>3, <1>4

LEMMA RequestStatusLive ==
  ASSUME NEW E, NEW n \in Int, NEW h, Live(h, E, n)
  PROVE  Live(requestStatus(h), E, n)
<1> DEFINE g == requestStatus(h)
<1>1. h \in HostType /\ h.numIosPending = Len(h.ep0) + n
  BY LiveHost
<1>2. /\ g \in HostType /\ g.queue = h.queue /\ g.currentTransfer = h.currentTransfer
      /\ g.xfers = h.xfers /\ g.ep0 = h.ep0 /\ g.thrown = h.thrown
      /\ g.numIosPending = h.numIosPending
  BY <1>1 DEF requestStatus, HostType
<1> HIDE DEF g
<1>3. Live(g, E, n)
  BY <1>1, <1>2, LiveSame
<1> QED
  BY <1>3 DEF g

LEMMA QuietStatusLive ==
  ASSUME NEW E, NEW n \in Int, NEW h, Live(h, E, n)
  PROVE  Live(RequestStatusIfQuiet(h), E, n)
  BY RequestStatusLive DEF RequestStatusIfQuiet

\* What the fields of a record are after an EXCEPT.
LEMMA CountedType ==
  ASSUME NEW h \in HostType, NEW k \in Int
  PROVE  LET g == [h EXCEPT !.canXfer = FALSE, !.numIosPending = k]
         IN /\ g \in HostType /\ g.queue = h.queue /\ g.currentTransfer = h.currentTransfer
            /\ g.xfers = h.xfers /\ g.ep0 = h.ep0 /\ g.thrown = h.thrown
            /\ g.numIosPending = k
  BY DEF HostType

LEMMA AskedType ==
  ASSUME NEW h \in HostType, NEW s \in Seq(HostRequest)
  PROVE  LET g == [h EXCEPT !.ep0 = s]
         IN /\ g \in HostType /\ g.queue = h.queue /\ g.currentTransfer = h.currentTransfer
            /\ g.xfers = h.xfers /\ g.ep0 = s /\ g.thrown = h.thrown
            /\ g.numIosPending = h.numIosPending
  BY DEF HostType

LEMMA StartControlType ==
  ASSUME NEW h \in HostType, NEW rq \in HostRequest
  PROVE  LET g == StartControl(h, rq)
         IN /\ g \in HostType /\ g.queue = h.queue /\ g.currentTransfer = h.currentTransfer
            /\ g.xfers = h.xfers /\ g.ep0 = Append(h.ep0, rq) /\ g.thrown = h.thrown
            /\ g.numIosPending = h.numIosPending + 1
<1> DEFINE f == ControlRequest(h, rq)
           k == f.numIosPending + 1
           g == StartControl(h, rq)
<1>1. Append(h.ep0, rq) \in Seq(HostRequest)
  BY HostSeqs, AppendProperties
<1>2. f = [h EXCEPT !.ep0 = Append(h.ep0, rq)]
  BY DEF ControlRequest
<1>3. g = [f EXCEPT !.canXfer = FALSE, !.numIosPending = k]
  BY DEF StartControl
<1> HIDE DEF g, f
<1>4. /\ f \in HostType /\ f.queue = h.queue /\ f.currentTransfer = h.currentTransfer
      /\ f.xfers = h.xfers /\ f.ep0 = Append(h.ep0, rq) /\ f.thrown = h.thrown
      /\ f.numIosPending = h.numIosPending
  BY <1>1, <1>2, AskedType
<1>5. k \in Int
  BY <1>4, HostFields
<1> HIDE DEF k
<1>6. /\ g \in HostType /\ g.queue = f.queue /\ g.currentTransfer = f.currentTransfer
      /\ g.xfers = f.xfers /\ g.ep0 = f.ep0 /\ g.thrown = f.thrown
      /\ g.numIosPending = k
  BY <1>3, <1>4, <1>5, CountedType
<1> QED
  BY <1>4, <1>6 DEF g, k

LEMMA SwitchModeLive ==
  ASSUME NEW E, NEW n \in Int, NEW h, Live(h, E, n), NEW m \in Modes
  PROVE  Live(switchMode(h, m), E, n)
<1> DEFINE rq == [rq |-> "RQ_MODE", mode |-> m]
           f == StartControl(h, rq)
           g == switchMode(h, m)
<1>1. h \in HostType /\ rq \in HostRequest /\ ~IsWrite(rq)
  BY LiveHost DEF HostRequest, IsWrite
<1> HIDE DEF rq
<1>2. /\ f \in HostType /\ f.queue = h.queue /\ f.currentTransfer = h.currentTransfer
      /\ f.xfers = h.xfers /\ f.ep0 = Append(h.ep0, rq) /\ f.thrown = h.thrown
      /\ f.numIosPending = h.numIosPending + 1
  BY <1>1, StartControlType
<1>3. g = [DropCredit(f) EXCEPT !.nextMode = m]
  BY DEF switchMode, rq
<1> HIDE DEF f, g
<1>4. /\ g \in HostType /\ g.queue = f.queue /\ g.currentTransfer = f.currentTransfer
      /\ g.xfers = f.xfers /\ g.ep0 = f.ep0 /\ g.thrown = f.thrown
      /\ g.numIosPending = f.numIosPending
  BY <1>2, <1>3 DEF DropCredit, HostType
<1>5. Live(g, E, n)
  BY <1>1, <1>2, <1>4, LiveAsks
<1> QED
  BY <1>5 DEF g

LEMMA ConfigureLive ==
  ASSUME NEW E, NEW n \in Int, NEW h, Live(h, E, n)
  PROVE  Live(configureStart(h), E, n) /\ Live(pipeOpenStart(h), E, n)
<1> DEFINE c == [rq |-> "RQ_CONFIG", ack_payloads |-> FALSE]
           o == [rq |-> "RQ_OPEN_PIPE"]
           f == StartControl(h, c)
           g == configureStart(h)
           k == pipeOpenStart(h)
<1>1. h \in HostType /\ c \in HostRequest /\ ~IsWrite(c) /\ o \in HostRequest /\ ~IsWrite(o)
  BY LiveHost DEF HostRequest, IsWrite
<1> HIDE DEF c, o
<1>2. /\ f \in HostType /\ f.queue = h.queue /\ f.currentTransfer = h.currentTransfer
      /\ f.xfers = h.xfers /\ f.ep0 = Append(h.ep0, c) /\ f.thrown = h.thrown
      /\ f.numIosPending = h.numIosPending + 1
  BY <1>1, StartControlType
<1>3. g = DropCredit(f)
  BY DEF configureStart, c
<1> HIDE DEF f, g
<1>4. /\ g \in HostType /\ g.queue = f.queue /\ g.currentTransfer = f.currentTransfer
      /\ g.xfers = f.xfers /\ g.ep0 = f.ep0 /\ g.thrown = f.thrown
      /\ g.numIosPending = f.numIosPending
  BY <1>2, <1>3 DEF DropCredit, HostType
<1>5. Live(g, E, n)
  BY <1>1, <1>2, <1>4, LiveAsks
<1>6. /\ k \in HostType /\ k.queue = h.queue /\ k.currentTransfer = h.currentTransfer
      /\ k.xfers = h.xfers /\ k.ep0 = Append(h.ep0, o) /\ k.thrown = h.thrown
      /\ k.numIosPending = h.numIosPending + 1
  <2>1. k = StartControl(h, o)
    BY DEF pipeOpenStart, o
  <2> QED
    BY <1>1, <2>1, StartControlType
<1> HIDE DEF k
<1>7. Live(k, E, n)
  BY <1>1, <1>6, LiveAsks
<1> QED
  BY <1>5, <1>7 DEF g, k

\* The smaller of two credits.
LEMMA MinOfTwo ==
  ASSUME NEW a \in Int, NEW b \in Int
  PROVE  Min({a, b}) = IF a <= b THEN a ELSE b
<1> DEFINE m == IF a <= b THEN a ELSE b
<1>1. m \in {a, b} /\ \A y \in {a, b} : m <= y
  OBVIOUS
<1>2. \A x \in {a, b} : (\A y \in {a, b} : x <= y) => x = m
  OBVIOUS
<1> HIDE DEF m
<1>3. Min({a, b}) \in {a, b} /\ \A y \in {a, b} : Min({a, b}) <= y
  BY <1>1 DEF Min
<1> QED
  BY <1>2, <1>3 DEF m

\* Which write the k-th request of a round-robin of w writes and r reads is, 0 for
\* a read.
WriteNumber(w, r, k) ==
  LET paired == 2 * Min({w, r}) IN
  CASE k <= paired /\ k % 2 = 1 -> (k + 1) \div 2
    [] k > paired /\ w > r -> k - r
    [] OTHER -> 0

LEMMA WriteNumbers ==
  ASSUME NEW w \in Nat, NEW r \in Nat
  PROVE  /\ \A k \in 1..w+r : WriteNumber(w, r, k) \in 0..w
         /\ \A j, k \in 1..w+r :
              j < k /\ WriteNumber(w, r, j) > 0 /\ WriteNumber(w, r, k) > 0
                => WriteNumber(w, r, j) < WriteNumber(w, r, k)
<1> DEFINE m == IF w <= r THEN w ELSE r
           N(k) == WriteNumber(w, r, k)
<1>1. Min({w, r}) = m /\ m \in Nat /\ m <= w /\ m <= r /\ (w > r => m = r)
  BY MinOfTwo
<1> HIDE DEF m
<1>2. ASSUME NEW k \in 1..w+r
      PROVE  \/ k <= 2 * m /\ 2 * N(k) = k + 1 /\ N(k) \in 1..m
             \/ k > 2 * m /\ w > r /\ N(k) = k - r /\ N(k) \in m+1..w
             \/ N(k) = 0
  <2>1. CASE k <= 2 * m /\ k % 2 = 1
    <3>1. N(k) = (k + 1) \div 2
      BY <1>1, <2>1 DEF WriteNumber
    <3>2. 2 * ((k + 1) \div 2) = k + 1 /\ (k + 1) \div 2 \in 1..m
      BY <1>1, <2>1
    <3> QED
      BY <2>1, <3>1, <3>2
  <2>2. CASE k > 2 * m /\ w > r
    <3>1. N(k) = k - r
      BY <1>1, <2>2 DEF WriteNumber
    <3> QED
      BY <1>1, <2>2, <3>1
  <2>3. CASE ~(k <= 2 * m /\ k % 2 = 1) /\ ~(k > 2 * m /\ w > r)
    BY <1>1, <2>3 DEF WriteNumber
  <2> QED
    BY <2>1, <2>2, <2>3
<1> HIDE DEF N
<1>3. \A k \in 1..w+r : N(k) \in 0..w
  BY <1>1, <1>2
<1>4. ASSUME NEW j \in 1..w+r, NEW k \in 1..w+r, j < k, N(j) > 0, N(k) > 0
      PROVE  N(j) < N(k)
  BY <1>1, <1>2, <1>4
<1> QED
  BY <1>3, <1>4 DEF N

\* The packets of a transfer that were sent and are being written.
Sending(x, a, b) == [x EXCEPT !.sent = a, !.numWriting = b]
LEMMA SendingXfer ==
  ASSUME NEW x \in Xfer, NEW a \in Nat, NEW b \in Int, a <= ToSend(x.d)
  PROVE  Sending(x, a, b) \in Xfer /\ Sending(x, a, b).sent = a
<1> DEFINE y == Sending(x, a, b)
<1>1. x \in XferType
  BY DEF Xfer
<1>2. y \in XferType /\ y.sent = a /\ y.d = x.d
  BY <1>1 DEF XferType, Sending
<1> QED
  BY <1>2 DEF Xfer

\* The credit and the sent packets after a round-robin.
Pumped(h, s, n, cw, cr, X) ==
  [h EXCEPT !.ep0 = s, !.numIosPending = n, !.countToWrite = cw, !.countToRead = cr,
            !.xfers = X]

After(g, h, s, n, X) ==
  /\ g \in HostType /\ g.queue = h.queue /\ g.currentTransfer = h.currentTransfer
  /\ g.thrown = h.thrown /\ g.ep0 = s /\ g.numIosPending = n /\ g.xfers = X

LEMMA PumpedType ==
  ASSUME NEW h \in HostType, NEW s \in Seq(HostRequest),
         NEW n \in Int, NEW cw \in Nat, NEW cr \in Nat, NEW X \in Seq(Xfer)
  PROVE  After(Pumped(h, s, n, cw, cr, X), h, s, n, X)
  BY DEF HostType, Pumped, After

LEMMA WritesNumbered ==
  ASSUME NEW s \in Seq(HostRequest)
  PROVE  /\ Writes(s) \subseteq Numbered
         /\ \A p \in Writes(s) : p[1] \in Nat /\ p[2] \in Nat
<1>1. ASSUME NEW i \in 1..Len(s), IsWrite(s[i]) PROVE s[i].packet \in Numbered
  <2>1. s[i] \in HostRequest
    BY ElementOfSeq
  <2> QED
    BY <1>1, <2>1 DEF HostRequest, IsWrite
<1>2. Writes(s) \subseteq Numbered
  BY <1>1 DEF Writes
<1> QED
  BY <1>2 DEF Numbered

\* The writes of new are of transfer t, behind those of E and s.
Behind(new, s, E, t, a) ==
  /\ WritesAscend(s) /\ WritesAscend(new) /\ P!AllBefore(E, Writes(s))
  /\ \A p \in E \cup Writes(s) : p[1] < t \/ (p[1] = t /\ p[2] <= a)
  /\ \A q \in Writes(new) : q[1] = t /\ q[2] > a

LEMMA WritesJoin ==
  ASSUME NEW s \in Seq(HostRequest), NEW new \in Seq(HostRequest), NEW E \in SUBSET Numbered,
         NEW t \in Nat, NEW a \in Nat, Behind(new, s, E, t, a)
  PROVE  /\ WritesAscend(s \o new) /\ P!AllBefore(E, Writes(s \o new))
         /\ Writes(s \o new) \subseteq Writes(s) \cup Writes(new)
<1> USE DEF Behind
<1> DEFINE u == s \o new
           m == Len(s)
<1>1. /\ m \in Nat /\ Len(new) \in Nat /\ Len(u) = m + Len(new)
      /\ \A i \in 1..m + Len(new) : u[i] = IF i <= m THEN s[i] ELSE new[i - m]
  BY ConcatProperties, LenProperties
<1>2. ASSUME NEW p \in E \cup Writes(s), NEW q \in Writes(new)
      PROVE  P!Before(p, q)
  <2>1. p[1] \in Nat /\ p[2] \in Nat /\ q[1] \in Nat /\ q[2] \in Nat
    BY WritesNumbered DEF Numbered
  <2>2. (p[1] < t \/ (p[1] = t /\ p[2] <= a)) /\ q[1] = t /\ q[2] > a
    OBVIOUS
  <2> QED
    BY <2>1, <2>2 DEF P!Before
<1> HIDE DEF u, m
<1>3. ASSUME NEW i \in 1..Len(u), i > m
      PROVE  i - m \in 1..Len(new) /\ u[i] = new[i - m]
  BY <1>1, <1>3
<1>4. ASSUME NEW i \in 1..Len(u), i <= m
      PROVE  i \in 1..Len(s) /\ u[i] = s[i]
  <2>1. i \in 1..m /\ u[i] = s[i]
    BY <1>1, <1>4
  <2> QED
    BY <2>1 DEF m
<1>5. ASSUME NEW i \in 1..Len(u), i > m, IsWrite(u[i])
      PROVE  u[i].packet \in Writes(new)
  BY <1>3, <1>5 DEF Writes
<1>6. ASSUME NEW i \in 1..Len(u), i <= m, IsWrite(u[i])
      PROVE  u[i].packet \in Writes(s)
  BY <1>4, <1>6 DEF Writes
<1>7. Writes(u) \subseteq Writes(s) \cup Writes(new)
  <2> SUFFICES ASSUME NEW i \in 1..Len(u), IsWrite(u[i])
               PROVE  u[i].packet \in Writes(s) \cup Writes(new)
    BY DEF Writes
  <2>1. i <= m \/ i > m
    BY <1>1
  <2> QED
    BY <1>5, <1>6, <2>1
<1>8. WritesAscend(u)
  <2> SUFFICES ASSUME NEW j \in 1..Len(u), NEW k \in 1..Len(u), j < k,
                      IsWrite(u[j]), IsWrite(u[k])
               PROVE  P!Before(u[j].packet, u[k].packet)
    BY DEF WritesAscend
  <2>1. CASE k <= m
    <3>1. j <= m
      BY <1>1, <2>1
    <3>2. /\ j \in 1..Len(s) /\ k \in 1..Len(s) /\ u[j] = s[j] /\ u[k] = s[k]
      BY <1>4, <2>1, <3>1
    <3> QED
      BY <3>2 DEF WritesAscend
  <2>2. CASE k > m /\ j <= m
    BY <1>2, <1>5, <1>6, <2>2
  <2>3. CASE j > m
    <3>1. k > m /\ j - m < k - m
      BY <1>1, <2>3
    <3>2. /\ j - m \in 1..Len(new) /\ u[j] = new[j - m]
          /\ k - m \in 1..Len(new) /\ u[k] = new[k - m]
      BY <1>3, <2>3, <3>1
    <3> QED
      BY <3>1, <3>2 DEF WritesAscend
  <2> QED
    BY <1>1, <2>1, <2>2, <2>3
<1>9. P!AllBefore(E, Writes(u))
  BY <1>2, <1>7 DEF P!AllBefore
<1> QED
  BY <1>7, <1>8, <1>9 DEF u

\* The current transfer sends its next w packets, in order, with requests between them.
LEMMA LiveSends ==
  ASSUME NEW E, NEW n \in Int, NEW h, Live(h, E, n), HasCurrent(h), NEW g \in HostType,
         NEW w \in Nat, NEW new \in Seq(HostRequest), WritesAscend(new),
         \A q \in Writes(new) :
           q[1] = h.currentTransfer /\ q[2] \in Current(h).sent + 1 .. Current(h).sent + w,
         g.queue = h.queue, g.currentTransfer = h.currentTransfer, g.thrown = h.thrown,
         g.ep0 = h.ep0 \o new, g.numIosPending = h.numIosPending + Len(new),
         Len(g.xfers) = Len(h.xfers),
         Current(g).sent = Current(h).sent + w,
         \A k \in 1..Len(h.xfers) : k # h.currentTransfer => g.xfers[k].sent = h.xfers[k].sent
  PROVE  Live(g, E, n)
<1> DEFINE t == h.currentTransfer
           a == Current(h).sent
           s == h.ep0
           u == s \o new
           S == Started(h)
           L == Len(h.xfers)
<1>1. /\ h \in HostType /\ h.numIosPending = Len(s) + n /\ h.numIosPending \in Int
      /\ Len(s) \in Nat /\ S \in 0..L /\ L \in Nat
      /\ t = S /\ t \in 1..L /\ a \in Nat /\ h.xfers[t].sent = a
  BY LiveHost, HostFields DEF XferType, Current
<1>2. /\ s \in Seq(HostRequest) /\ u \in Seq(HostRequest) /\ Len(new) \in Nat
      /\ Len(u) = Len(s) + Len(new)
  BY <1>1, HostSeqs, ConcatProperties, LenProperties
<1>3. /\ WritesAscend(s) /\ P!AllBefore(E, Writes(s))
      /\ E \in SUBSET Numbered
      /\ \A p \in E \cup Writes(s) : p[1] \in 1..S /\ p[2] <= h.xfers[p[1]].sent
  BY DEF Live, Ready, Sane, Used
<1>4. g.xfers[t].sent = a + w /\ \A k \in 1..L : k # t => g.xfers[k].sent = h.xfers[k].sent
  BY DEF Current
<1>5. \A k \in 1..L : k > S => h.xfers[k].sent = 0
  BY DEF Live, Ready, QueueIsRest
<1>6. Started(g) = S
  BY DEF Started
<1>7. \A q \in Writes(new) : q[1] = t /\ q[2] \in a + 1 .. a + w
  OBVIOUS
<1> HIDE DEF t, a, s, u, S, L
<1>8. ASSUME NEW p \in E \cup Writes(s)
      PROVE  /\ p[1] < t \/ (p[1] = t /\ p[2] <= a)
             /\ p[1] \in 1..S /\ p[2] <= g.xfers[p[1]].sent
  <2>1. p[1] \in 1..S /\ p[2] <= h.xfers[p[1]].sent /\ p[2] \in Nat
    BY <1>2, <1>3, WritesNumbered DEF Numbered
  <2>2. CASE p[1] = t
    <3>1. p[2] <= a
      BY <1>1, <2>1, <2>2
    <3>2. p[2] <= a + w
      BY <1>1, <2>1, <3>1
    <3>3. g.xfers[p[1]].sent = a + w
      BY <1>4, <2>2
    <3> QED
      BY <2>1, <2>2, <3>1, <3>2, <3>3
  <2>3. CASE p[1] # t
    <3>0. \A i \in 1..S : i # t => i < t /\ i \in 1..L
      BY <1>1
    <3>1. p[1] < t /\ p[1] \in 1..L
      BY <2>1, <2>3, <3>0
    <3> QED
      BY <1>4, <2>1, <2>3, <3>1
  <2> QED
    BY <2>2, <2>3
<1>9. /\ WritesAscend(u) /\ P!AllBefore(E, Writes(u))
      /\ Writes(u) \subseteq Writes(s) \cup Writes(new)
  <2>1. t \in Nat /\ a \in Nat
    BY <1>1
  <2>2. \A q \in Writes(new) : q[1] = t /\ q[2] > a
    BY <2>1, <1>7
  <2>3. \A p \in E \cup Writes(s) : p[1] < t \/ (p[1] = t /\ p[2] <= a)
    BY <1>8
  <2>4. s \in Seq(HostRequest) /\ E \in SUBSET Numbered /\ WritesAscend(s) /\ P!AllBefore(E, Writes(s))
    BY <1>2, <1>3
  <2>5. WritesAscend(new) /\ new \in Seq(HostRequest)
    OBVIOUS
  <2> HIDE DEF u
  <2>6. Behind(new, s, E, t, a)
    BY <2>2, <2>3, <2>4, <2>5 DEF Behind
  <2>7. /\ WritesAscend(s \o new) /\ P!AllBefore(E, Writes(s \o new))
        /\ Writes(s \o new) \subseteq Writes(s) \cup Writes(new)
    BY <2>1, <2>4, <2>5, <2>6, WritesJoin
  <2> QED
    BY <2>7 DEF u
<1>10. \A p \in Writes(u) : p[1] \in 1..S /\ p[2] <= g.xfers[p[1]].sent
  <2>1. ASSUME NEW p \in Writes(new)
        PROVE  p[1] \in 1..S /\ p[2] <= g.xfers[p[1]].sent
    <3>1. p[1] = t /\ p[2] <= a + w
      BY <1>1, <1>7
    <3>2. t \in 1..S
      BY <1>1
    <3> QED
      BY <1>4, <3>1, <3>2
  <2> QED
    BY <1>8, <1>9, <2>1
<1>11. Used(g, E) /\ Used(g, Writes(u))
  BY <1>6, <1>8, <1>10 DEF Used
<1>12. \A k \in 1..L : k > S => g.xfers[k].sent = 0
  <2> SUFFICES ASSUME NEW k \in 1..L, k > S PROVE g.xfers[k].sent = 0
    OBVIOUS
  <2>1. k # t
    BY <1>1
  <2> QED
    BY <1>4, <1>5, <2>1
<1>13. QueueIsRest(g)
  BY <1>6, <1>12 DEF Live, Ready, QueueIsRest, S, L
<1>14. g.numIosPending = Len(u) + n
  BY <1>1, <1>2
<1> QED
  BY <1>2, <1>3, <1>9, <1>11, <1>13, <1>14 DEF Live, Ready, Sane, u, s

\* What the round-robin of w writes, from packet a of transfer t on, and r reads asks.
RoundRobin(t, a, w, r) ==
  [k \in 1..w + r |->
     IF WriteNumber(w, r, k) > 0
       THEN [rq |-> "RQ_WRITE", packet |-> <<t, a + WriteNumber(w, r, k)>>]
       ELSE [rq |-> "RQ_READ"]]

LEMMA RoundRobinSends ==
  ASSUME NEW t \in Nat, NEW a \in Nat, NEW w \in Nat, NEW r \in Nat
  PROVE  LET new == RoundRobin(t, a, w, r)
         IN /\ new \in Seq(HostRequest) /\ Len(new) = w + r /\ WritesAscend(new)
            /\ \A q \in Writes(new) : q[1] = t /\ q[2] \in a + 1 .. a + w
<1> DEFINE new == RoundRobin(t, a, w, r)
           N(k) == WriteNumber(w, r, k)
           L == w + r
<1>1. /\ L \in Nat /\ \A k \in 1..L : N(k) \in 0..w
      /\ \A j, k \in 1..L : j < k /\ N(j) > 0 /\ N(k) > 0 => N(j) < N(k)
  BY WriteNumbers
<1>2. /\ new = [k \in 1..L |-> new[k]]
      /\ \A k \in 1..L : new[k] = IF N(k) > 0 THEN [rq |-> "RQ_WRITE", packet |-> <<t, a + N(k)>>]
                                             ELSE [rq |-> "RQ_READ"]
  BY DEF RoundRobin
<1> HIDE DEF new, N, L
<1>3. ASSUME NEW k \in 1..L
      PROVE  /\ new[k] \in HostRequest
             /\ IsWrite(new[k]) => /\ N(k) \in 1..w /\ new[k].packet = <<t, a + N(k)>>
  <2>1. CASE N(k) > 0
    <3>1. new[k] = [rq |-> "RQ_WRITE", packet |-> <<t, a + N(k)>>]
      BY <1>2, <2>1
    <3>2. N(k) \in 1..w /\ a + N(k) \in Nat
      BY <1>1, <2>1
    <3>3. <<t, a + N(k)>> \in Numbered
      BY <3>2 DEF Numbered
    <3>4. new[k] \in HostRequest
      BY <3>1, <3>3 DEF HostRequest
    <3> QED
      BY <3>1, <3>2, <3>4
  <2>2. CASE ~(N(k) > 0)
    <3>1. new[k] = [rq |-> "RQ_READ"]
      BY <1>2, <2>2
    <3> QED
      BY <3>1 DEF HostRequest, IsWrite
  <2> QED
    BY <2>1, <2>2
<1>4. new \in Seq(HostRequest) /\ Len(new) = L
  <2>1. \A k \in 1..L : new[k] \in HostRequest
    BY <1>3
  <2>2. new \in [1..L -> HostRequest]
    BY <1>2, <2>1
  <2> QED
    BY <1>1, <2>2
<1>5. WritesAscend(new)
  <2> SUFFICES ASSUME NEW j \in 1..L, NEW k \in 1..L, j < k, IsWrite(new[j]), IsWrite(new[k])
               PROVE  P!Before(new[j].packet, new[k].packet)
    BY <1>4 DEF WritesAscend
  <2>1. new[j].packet = <<t, a + N(j)>> /\ new[k].packet = <<t, a + N(k)>>
    BY <1>3
  <2>2. N(j) \in 1..w /\ N(k) \in 1..w /\ N(j) < N(k)
    <3>1. N(j) \in 1..w /\ N(k) \in 1..w
      BY <1>3
    <3>2. N(j) > 0 /\ N(k) > 0
      BY <3>1
    <3> QED
      BY <1>1, <3>1, <3>2
  <2>3. a + N(j) < a + N(k)
    BY <2>2
  <2> QED
    BY <2>1, <2>3 DEF P!Before
<1>6. \A q \in Writes(new) : q[1] = t /\ q[2] \in a + 1 .. a + w
  <2> SUFFICES ASSUME NEW k \in 1..L, IsWrite(new[k])
               PROVE  new[k].packet[1] = t /\ new[k].packet[2] \in a + 1 .. a + w
    BY <1>4 DEF Writes
  <2>1. new[k].packet = <<t, a + N(k)>> /\ N(k) \in 1..w
    BY <1>3
  <2> QED
    BY <2>1
<1> QED
  BY <1>4, <1>5, <1>6 DEF new, L

LEMMA RoundRobinNumbers ==
  ASSUME NEW w \in Nat, NEW r \in Nat, NEW k \in 1..w + r
  PROVE  LET paired == 2 * Min({w, r}) IN
         /\ k <= paired /\ k % 2 = 1
              => WriteNumber(w, r, k) = (k + 1) \div 2 /\ WriteNumber(w, r, k) > 0
         /\ k > paired /\ w > r
              => /\ WriteNumber(w, r, k) = k - r /\ WriteNumber(w, r, k) > 0
                 /\ ~(k <= paired)
         /\ ~(k <= paired /\ k % 2 = 1) /\ ~(k > paired /\ w > r)
              => WriteNumber(w, r, k) = 0
<1> DEFINE m == Min({w, r})
           N == WriteNumber(w, r, k)
<1>1. m \in Nat /\ (w > r => m = r)
  BY MinOfTwo
<1>2. N = IF k <= 2 * m /\ k % 2 = 1 THEN (k + 1) \div 2
          ELSE IF k > 2 * m /\ w > r THEN k - r ELSE 0
  <2> HIDE DEF m
  <2>1. N = CASE k <= 2 * m /\ k % 2 = 1 -> (k + 1) \div 2
              [] k > 2 * m /\ w > r -> k - r
              [] OTHER -> 0
    BY DEF WriteNumber, m
  <2>2. ~(k <= 2 * m) \/ ~(k > 2 * m)
    BY <1>1
  <2> HIDE DEF N
  <2> QED
    BY <2>1, <2>2
<1> HIDE DEF m, N
<1>3. k <= 2 * m /\ k % 2 = 1 => N = (k + 1) \div 2 /\ N > 0
  BY <1>2
<1>4. k > 2 * m /\ w > r => N = k - r /\ N > 0 /\ ~(k <= 2 * m)
  BY <1>1, <1>2
<1>5. ~(k <= 2 * m /\ k % 2 = 1) /\ ~(k > 2 * m /\ w > r) => N = 0
  BY <1>2
<1> QED
  BY <1>3, <1>4, <1>5 DEF m, N

RoundRobinRequest(t, a, w, r, k) ==
  LET paired == 2 * Min({w, r})
      write(i) == [rq |-> "RQ_WRITE", packet |-> <<t, a + i>>]
  IN CASE k <= paired /\ k % 2 = 1 -> write((k + 1) \div 2)
       [] k > paired /\ w > r -> write(k - r)
       [] OTHER -> [rq |-> "RQ_READ"]

LEMMA RoundRobinRequests ==
  ASSUME NEW w \in Nat, NEW r \in Nat, NEW k \in 1..w + r, NEW t, NEW a \in Nat
  PROVE  RoundRobinRequest(t, a, w, r, k) = RoundRobin(t, a, w, r)[k]
<1> DEFINE N == WriteNumber(w, r, k)
           paired == 2 * Min({w, r})
           write(i) == [rq |-> "RQ_WRITE", packet |-> <<t, a + i>>]
           p1 == k <= paired /\ k % 2 = 1
           p2 == k > paired /\ w > r
           nth == CASE p1 -> write((k + 1) \div 2) [] p2 -> write(k - r) [] OTHER -> [rq |-> "RQ_READ"]
<1>1. /\ p1 => N = (k + 1) \div 2 /\ N > 0
      /\ p2 => N = k - r /\ N > 0 /\ ~(k <= paired)
      /\ ~p1 /\ ~p2 => N = 0
  BY RoundRobinNumbers
<1>2. RoundRobin(t, a, w, r)[k] = IF N > 0 THEN write(N) ELSE [rq |-> "RQ_READ"]
  BY DEF RoundRobin
<1>3. ~(0 > 0) /\ (p1 => k <= paired)
  OBVIOUS
<1>4. RoundRobinRequest(t, a, w, r, k) = nth
  BY DEF RoundRobinRequest
<1> HIDE DEF N, p1, p2, write, paired
<1>5. ASSUME p1 PROVE nth = RoundRobin(t, a, w, r)[k]
  <2>1. nth = write((k + 1) \div 2)
    BY <1>1, <1>3, <1>5
  <2> QED
    BY <1>1, <1>2, <1>5, <2>1
<1>6. ASSUME p2 PROVE nth = RoundRobin(t, a, w, r)[k]
  <2>1. nth = write(k - r)
    BY <1>1, <1>3, <1>6
  <2> QED
    BY <1>1, <1>2, <1>6, <2>1
<1>7. ASSUME ~p1, ~p2 PROVE nth = RoundRobin(t, a, w, r)[k]
  <2>1. nth = [rq |-> "RQ_READ"]
    BY <1>7
  <2> QED
    BY <1>1, <1>2, <1>3, <1>7, <2>1
<1> HIDE DEF nth
<1> QED
  BY <1>4, <1>5, <1>6, <1>7

\* Which are the requests of Pump.
PumpWrites(h) == Min({h.countToWrite, nextForWrite(h)})

LEMMA PumpIs ==
  ASSUME NEW h, PumpWrites(h) \in Nat, nextForRead(h) \in Nat, Current(h).sent \in Nat
  PROVE  Pump(h) =
           [h EXCEPT
              !.ep0 = h.ep0 \o RoundRobin(h.currentTransfer, Current(h).sent,
                                          PumpWrites(h), nextForRead(h)),
              !.numIosPending = h.numIosPending + PumpWrites(h) + nextForRead(h),
              !.countToWrite = h.countToWrite - PumpWrites(h),
              !.countToRead = h.countToRead - nextForRead(h),
              !.xfers[h.currentTransfer] =
                 [Current(h) EXCEPT !.sent = Current(h).sent + PumpWrites(h),
                                    !.numWriting = Current(h).numWriting + PumpWrites(h)]]
<1> DEFINE t == h.currentTransfer
           w == PumpWrites(h)
           r == nextForRead(h)
           a == Current(h).sent
           nth(k) == RoundRobinRequest(t, a, w, r, k)
           news == [k \in 1..w + r |-> nth(k)]
<1>1. \A k \in 1..w + r : nth(k) = RoundRobin(t, a, w, r)[k]
  <2> HIDE DEF t, w, r, a
  <2>1. w \in Nat /\ r \in Nat /\ a \in Nat
    BY DEF w, r, a
  <2> QED
    BY <2>1, RoundRobinRequests
<1>2. news = RoundRobin(t, a, w, r)
  <2> HIDE DEF nth
  <2> QED
    BY <1>1 DEF RoundRobin
<1>3. Pump(h) = [h EXCEPT !.ep0 = h.ep0 \o news,
                          !.numIosPending = h.numIosPending + w + r,
                          !.countToWrite = h.countToWrite - w,
                          !.countToRead = h.countToRead - r,
                          !.xfers[h.currentTransfer] =
                                [Current(h) EXCEPT !.sent = Current(h).sent + w,
                                                   !.numWriting = Current(h).numWriting + w]]
  BY DEF Pump, PumpWrites, RoundRobinRequest
<1> HIDE DEF news
<1> QED
  BY <1>2, <1>3

LEMMA PumpLive ==
  ASSUME NEW E, NEW n \in Int, NEW h, Live(h, E, n), HasCurrent(h)
  PROVE  Live(Pump(h), E, n)
<1> DEFINE t == h.currentTransfer
           x == Current(h)
           a == x.sent
           w == PumpWrites(h)
           r == nextForRead(h)
           new == RoundRobin(t, a, w, r)
           y == [x EXCEPT !.sent = a + w, !.numWriting = x.numWriting + w]
           g == Pump(h)
<1>1. /\ h \in HostType /\ t \in 1..Len(h.xfers) /\ t \in Nat /\ x \in Xfer
      /\ a \in Nat /\ x.numWriting \in Int
      /\ a <= ToSend(x.d) /\ ToSend(x.d) \in Nat /\ Len(h.xfers) \in Nat
  <2>1. h \in HostType /\ t \in 1..Len(h.xfers) /\ Len(h.xfers) \in Nat /\ x \in XferType /\ x \in Xfer /\ a <= ToSend(x.d)
    BY LiveHost
  <2>2. a \in Nat /\ x.numWriting \in Int /\ x.d \in Program
    BY <2>1 DEF XferType
  <2> QED
    BY <2>1, <2>2, ToSendNat
<1>2. /\ h.numIosPending \in Int /\ h.countToWrite \in Nat /\ h.countToRead \in Nat
      /\ h.ep0 \in Seq(HostRequest)
  BY <1>1, HostFields, HostSeqs
<1>3. /\ w \in Nat /\ w <= h.countToWrite /\ a + w <= ToSend(x.d)
      /\ r \in Nat /\ r <= h.countToRead
  <2> DEFINE c == h.countToWrite
             b == ToSend(x.d) - a
  <2>1. c \in Nat /\ b \in Nat /\ nextForWrite(h) = b
    BY <1>1, <1>2 DEF nextForWrite
  <2>2. w = IF c <= b THEN c ELSE b
    BY <2>1, MinOfTwo DEF PumpWrites
  <2>3. r \in Nat /\ r <= h.countToRead
    BY <1>2 DEF nextForRead
  <2> HIDE DEF c
  <2>4. w \in Nat /\ w <= c /\ w <= b
    BY <2>1, <2>2
  <2>5. a + w <= ToSend(x.d)
    BY <1>1, <2>1, <2>4
  <2> QED
    BY <2>3, <2>4, <2>5 DEF c
<1>4. g = [h EXCEPT !.ep0 = h.ep0 \o new,
                    !.numIosPending = h.numIosPending + w + r,
                    !.countToWrite = h.countToWrite - w,
                    !.countToRead = h.countToRead - r,
                    !.xfers[t] = y]
  BY <1>1, <1>3, PumpIs
<1> HIDE DEF t, w, r, g
<1>5. /\ new \in Seq(HostRequest) /\ Len(new) = w + r /\ WritesAscend(new)
      /\ \A q \in Writes(new) : q[1] = t /\ q[2] \in a + 1 .. a + w
  BY <1>1, <1>3, RoundRobinSends
<1>6. y \in Xfer /\ y.sent = a + w
  <2> DEFINE b == x.numWriting
             c == ToSend(x.d)
  <2>1. x \in Xfer /\ a \in Nat /\ b \in Int /\ w \in Nat /\ c \in Nat /\ a + w <= c
    BY <1>1, <1>3
  <2> HIDE DEF a, b, c, x
  <2>2. a + w \in Nat /\ b + w \in Int
    BY <2>1
  <2> DEFINE m == a + w
             k == b + w
             z == Sending(x, m, k)
  <2>3. x \in Xfer /\ m \in Nat /\ k \in Int /\ m <= ToSend(x.d)
    BY <2>1, <2>2 DEF c
  <2>4. y = z
    BY DEF b, Sending
  <2> HIDE DEF m, k
  <2>5. z \in Xfer /\ z.sent = m
    BY <2>3, SendingXfer
  <2> HIDE DEF y, z
  <2> QED
    BY <2>4, <2>5 DEF m
<1> HIDE DEF new, y, a, x
<1>7. /\ h.numIosPending + w + r \in Int /\ h.countToWrite - w \in Nat
      /\ h.countToRead - r \in Nat /\ h.ep0 \o new \in Seq(HostRequest)
      /\ h.numIosPending + w + r = h.numIosPending + Len(new)
  <2> DEFINE i == h.numIosPending
             cw == h.countToWrite
             cr == h.countToRead
             k == Len(new)
  <2>1. /\ i \in Int /\ cw \in Nat /\ cr \in Nat /\ w \in Nat /\ r \in Nat
        /\ w <= cw /\ r <= cr /\ k = w + r
    BY <1>2, <1>3, <1>5
  <2>2. h.ep0 \o new \in Seq(HostRequest)
    BY <1>2, <1>5, ConcatProperties
  <2> HIDE DEF i, cw, cr, k
  <2>3. i + w + r \in Int /\ cw - w \in Nat /\ cr - r \in Nat /\ i + w + r = i + k
    BY <2>1
  <2> QED
    BY <2>2, <2>3 DEF i, cw, cr, k
<1>8. /\ g \in HostType /\ g.queue = h.queue /\ g.currentTransfer = h.currentTransfer
      /\ g.ep0 = h.ep0 \o new /\ g.thrown = h.thrown
      /\ g.numIosPending = h.numIosPending + w + r
      /\ Len(g.xfers) = Len(h.xfers) /\ g.xfers[t] = y
      /\ \A u \in 1..Len(h.xfers) : u # t => g.xfers[u] = h.xfers[u]
  <2> DEFINE asked == h.ep0 \o new
             count == h.numIosPending + w + r
             cw == h.countToWrite - w
             cr == h.countToRead - r
             sent == [h.xfers EXCEPT ![t] = y]
  <2>1. g = Pumped(h, asked, count, cw, cr, sent)
    BY <1>4 DEF Pumped
  <2>2. /\ sent \in Seq(Xfer) /\ Len(sent) = Len(h.xfers) /\ sent[t] = y
        /\ \A u \in 1..Len(h.xfers) : u # t => sent[u] = h.xfers[u]
    <3>1. h.xfers \in Seq(Xfer)
      BY <1>1, HostSeqs
    <3> QED
      BY <1>1, <1>6, <3>1, ExceptSeq
  <2>3. /\ h \in HostType /\ asked \in Seq(HostRequest) /\ count \in Int
        /\ cw \in Nat /\ cr \in Nat
    BY <1>1, <1>7
  <2> HIDE DEF asked, count, cw, cr, sent
  <2>4. sent \in Seq(Xfer)
    BY <2>2
  <2>5. After(g, h, asked, count, sent)
    BY <2>1, <2>3, <2>4, PumpedType
  <2> QED
    BY <2>2, <2>5 DEF After, asked, count
<1>9. Current(g).sent = a + w /\ Current(h).sent = a
  BY <1>6, <1>8 DEF Current, t, a, x
<1>10. \A k \in 1..Len(h.xfers) : k # h.currentTransfer => g.xfers[k].sent = h.xfers[k].sent
  BY <1>8 DEF t
<1>11. \A q \in Writes(new) : q[1] = h.currentTransfer /\ q[2] \in Current(h).sent + 1 .. Current(h).sent + w
  BY <1>5, <1>9 DEF t
<1>12. Live(g, E, n)
  BY <1>3, <1>5, <1>7, <1>8, <1>9, <1>10, <1>11, LiveSends
<1> QED
  BY <1>12 DEF g

LEMMA ServeCurrentLive ==
  ASSUME NEW E, NEW n \in Int, NEW h, Live(h, E, n)
  PROVE  Live(ServeCurrent(h), E, n)
<1>1. CASE ~HasCurrent(h)
  BY <1>1 DEF ServeCurrent
<1>2. CASE HasCurrent(h)
  <2> DEFINE m == transferMode(Current(h).d)
             f == IF h.canXfer THEN Pump(h) ELSE h
  <2>1. CASE m # "ANY" /\ m # h.currentMode
    <3>1. m \in Modes
      BY <2>1 DEF transferMode, Modes
    <3>2. ServeCurrent(h) = switchMode(h, m)
      BY <1>2, <2>1 DEF ServeCurrent
    <3> QED
      BY <3>1, <3>2, SwitchModeLive
  <2>2. CASE ~(m # "ANY" /\ m # h.currentMode)
    <3>1. ServeCurrent(h) = RequestStatusIfQuiet(f)
      BY <1>2, <2>2 DEF ServeCurrent
    <3>2. Live(f, E, n)
      BY <1>2, PumpLive
    <3> QED
      BY <3>1, <3>2, QuietStatusLive
  <2> QED
    BY <2>1, <2>2
<1> QED
  BY <1>1, <1>2

\* A transfer's own fields change, other than how much it has sent.
WithXfer(h, t, y) == [h EXCEPT !.xfers[t] = y]

LEMMA XferChangedLive ==
  ASSUME NEW E, NEW n \in Int, NEW h, Live(h, E, n), NEW t \in 1..Len(h.xfers),
         NEW y \in Xfer, y.sent = h.xfers[t].sent
  PROVE  /\ Live(WithXfer(h, t, y), E, n)
         /\ WithXfer(h, t, y).currentTransfer = h.currentTransfer
         /\ WithXfer(h, t, y).xfers[t] = y
         /\ Len(WithXfer(h, t, y).xfers) = Len(h.xfers)
<1> DEFINE X == [h.xfers EXCEPT ![t] = y]
           g == [h EXCEPT !.xfers = X]
<1>1. h \in HostType /\ h.xfers \in Seq(Xfer) /\ h.numIosPending = Len(h.ep0) + n
  BY LiveHost, HostSeqs
<1>2. /\ X \in Seq(Xfer) /\ Len(X) = Len(h.xfers) /\ X[t] = y
      /\ \A u \in 1..Len(h.xfers) : u # t => X[u] = h.xfers[u]
  BY <1>1, ExceptSeq
<1>3. WithXfer(h, t, y) = g
  BY DEF WithXfer
<1> HIDE DEF X
<1>4. After(g, h, h.ep0, h.numIosPending, X)
  BY <1>1, <1>2 DEF After, HostType
<1> HIDE DEF g
<1>5. \A u \in 1..Len(h.xfers) : X[u].sent = h.xfers[u].sent
  BY <1>2
<1>6. Live(g, E, n)
  BY <1>1, <1>2, <1>4, <1>5, LiveSame DEF After
<1> QED
  BY <1>2, <1>3, <1>4, <1>6 DEF After

LEMMA NoneCurrentLive ==
  ASSUME NEW E, NEW n \in Int, NEW h, Live(h, E, n)
  PROVE  Live([h EXCEPT !.currentTransfer = NoTransfer], E, n)
<1> DEFINE g == [h EXCEPT !.currentTransfer = NoTransfer]
<1>1. h \in HostType /\ h.numIosPending = Len(h.ep0) + n
  BY LiveHost
<1>2. /\ g \in HostType /\ g.queue = h.queue /\ g.currentTransfer = NoTransfer
      /\ g.xfers = h.xfers /\ g.ep0 = h.ep0 /\ g.thrown = h.thrown
      /\ g.numIosPending = h.numIosPending
  BY <1>1 DEF HostType, NoTransfer
<1> HIDE DEF g
<1>3. Live(g, E, n)
  BY <1>1, <1>2, LiveSame
<1> QED
  BY <1>3 DEF g

StatusXfer(x, status) == [x EXCEPT !.status = status]

LEMMA StatusXferType ==
  ASSUME NEW x \in Xfer, NEW status \in {"QUEUED", "COMPLETED", "TIMED_OUT", "CANCELLED"}
  PROVE  /\ StatusXfer(x, status) \in Xfer
         /\ StatusXfer(x, status).sent = x.sent
         /\ StatusXfer(x, status).status = status
<1> DEFINE y == StatusXfer(x, status)
<1>1. x \in XferType
  BY DEF Xfer
<1>2. y \in XferType /\ y.sent = x.sent /\ y.status = status /\ y.d = x.d
  BY <1>1 DEF XferType, StatusXfer
<1> HIDE DEF y
<1>3. y \in Xfer
  BY <1>2 DEF Xfer
<1> QED
  BY <1>2, <1>3 DEF y

\* No transfer of these programs has a callback.
LEMMA FinishLive ==
  ASSUME NEW E, NEW n \in Int, NEW h, Live(h, E, n), HasCurrent(h),
         NEW status \in {"QUEUED", "COMPLETED", "TIMED_OUT", "CANCELLED"}
  PROVE  LET g == updateTransferStatus(h, h.currentTransfer, status)
         IN Live(g, E, n) /\ g.xfers[h.currentTransfer].status = status
<1> DEFINE t == h.currentTransfer
           x == Current(h)
           y == StatusXfer(x, status)
           f == WithXfer(h, t, y)
           g == [f EXCEPT !.currentTransfer = NoTransfer]
<1>1. t \in 1..Len(h.xfers) /\ x \in Xfer /\ x = h.xfers[t]
  BY LiveHost DEF Current
<1>2. x.d.resubmits = 0
  <2>1. x.d \in Program
    BY <1>1 DEF Xfer, XferType
  <2> QED
    BY <2>1 DEF Program
<1>3. y \in Xfer /\ y.sent = x.sent /\ y.status = status
  BY <1>1, StatusXferType
<1>4. updateTransferStatus(h, t, status) = transferCompleted(f, t)
  <2>1. [h EXCEPT !.xfers[t].status = status] = f
    BY DEF StatusXfer, Current, WithXfer
  <2>2. ~(h.xfers[t].d.resubmits > 0)
    BY <1>1, <1>2
  <2> HIDE DEF f
  <2> QED
    BY <2>1, <2>2 DEF updateTransferStatus
<1> HIDE DEF y
<1>5. /\ Live(f, E, n) /\ f.currentTransfer = t /\ f.xfers[t] = y
  <2>1. y.sent = h.xfers[t].sent
    BY <1>1, <1>3
  <2> QED
    BY <1>1, <1>3, <2>1, XferChangedLive
<1> HIDE DEF f
<1>6. transferCompleted(f, t) = g
  BY <1>5 DEF transferCompleted
<1>7. Live(g, E, n)
  BY <1>5, NoneCurrentLive
<1>8. g.xfers = f.xfers
  <2>1. f \in HostType
    BY <1>5, LiveHost
  <2> QED
    BY <2>1 DEF HostType
<1> QED
  BY <1>3, <1>4, <1>5, <1>6, <1>7, <1>8

\* A transfer joins the queue.
LEMMA SubmittedLive ==
  ASSUME NEW E, NEW n \in Int, NEW h, Live(h, E, n), NEW y \in Xfer, y.sent = 0
  PROVE  Live([h EXCEPT !.xfers = Append(h.xfers, y),
                        !.queue = Append(h.queue, Len(h.xfers) + 1)], E, n)
<1> DEFINE X == Append(h.xfers, y)
           Q == Append(h.queue, Len(h.xfers) + 1)
           g == [h EXCEPT !.xfers = X, !.queue = Q]
           S == Started(h)
           L == Len(h.xfers)
           q == Len(h.queue)
<1>1. /\ h \in HostType /\ h.numIosPending = Len(h.ep0) + n
      /\ h.xfers \in Seq(Xfer) /\ h.queue \in Seq(Nat) /\ L \in Nat /\ q \in Nat
  BY LiveHost, HostSeqs
<1>2. /\ S \in Nat /\ \A i \in 1..q : h.queue[i] = S + i
      /\ h.currentTransfer \in {NoTransfer, S}
      /\ \A t \in 1..L : t > S => h.xfers[t].sent = 0
      /\ Used(h, E) /\ Used(h, Writes(h.ep0)) /\ Sane(h, E) /\ h.thrown = "nothing"
  BY DEF Live, Ready, QueueIsRest
<1>3. S = L - q
  BY DEF Started
<1>4. /\ X \in Seq(Xfer) /\ Len(X) = L + 1 /\ X[L + 1] = y /\ \A i \in 1..L : X[i] = h.xfers[i]
      /\ Q \in Seq(Nat) /\ Len(Q) = q + 1 /\ Q[q + 1] = L + 1 /\ \A i \in 1..q : Q[i] = h.queue[i]
  BY <1>1, AppendProperties
<1> HIDE DEF X, Q
<1>5. /\ g \in HostType /\ g.queue = Q /\ g.currentTransfer = h.currentTransfer
      /\ g.xfers = X /\ g.ep0 = h.ep0 /\ g.thrown = h.thrown
      /\ g.numIosPending = h.numIosPending
  BY <1>1, <1>4 DEF HostType
<1> HIDE DEF g, S, L, q
<1>6. Started(g) = S
  <2>1. Started(g) = (L + 1) - (q + 1)
    BY <1>4, <1>5 DEF Started
  <2> QED
    BY <1>1, <1>3, <2>1
<1>7. \A i \in 1..Len(g.queue) : g.queue[i] = S + i
  <2> SUFFICES ASSUME NEW i \in 1..q + 1 PROVE Q[i] = S + i
    BY <1>4, <1>5
  <2>1. CASE i = q + 1
    BY <1>1, <1>3, <1>4, <2>1
  <2>2. CASE i \in 1..q
    BY <1>2, <1>4, <2>2
  <2> QED
    BY <1>1, <2>1, <2>2
<1>8. \A t \in 1..Len(g.xfers) : t > S => g.xfers[t].sent = 0
  <2> SUFFICES ASSUME NEW t \in 1..L + 1, t > S PROVE X[t].sent = 0
    BY <1>4, <1>5
  <2>1. CASE t = L + 1
    BY <1>4, <2>1
  <2>2. CASE t \in 1..L
    BY <1>2, <1>4, <2>2
  <2> QED
    BY <1>1, <2>1, <2>2
<1>9. QueueIsRest(g)
  BY <1>2, <1>5, <1>6, <1>7, <1>8 DEF QueueIsRest
<1>10. \A i \in 1..S : X[i] = h.xfers[i]
  <2>1. \A i \in 1..S : i \in 1..L
    BY <1>1, <1>2, <1>3
  <2> QED
    BY <1>4, <2>1
<1>11. Used(g, E) /\ Used(g, Writes(g.ep0))
  BY <1>2, <1>5, <1>6, <1>10 DEF Used, S
<1>12. Sane(g, E)
  BY <1>2, <1>5 DEF Sane
<1>13. Live(g, E, n)
  BY <1>1, <1>2, <1>5, <1>9, <1>11, <1>12 DEF Live, Ready
<1> QED
  BY <1>13 DEF g, X, Q

\* The oldest transfer of the queue becomes the current one.
LEMMA DequeuedLive ==
  ASSUME NEW E, NEW n \in Int, NEW h, Live(h, E, n), h.queue # <<>>
  PROVE  LET g == [h EXCEPT !.currentTransfer = Head(h.queue), !.queue = Tail(h.queue)]
         IN Live(g, E, n) /\ HasCurrent(g)
<1> DEFINE Q == Tail(h.queue)
           c == Head(h.queue)
           g == [h EXCEPT !.currentTransfer = c, !.queue = Q]
           S == Started(h)
           L == Len(h.xfers)
           q == Len(h.queue)
<1>1. /\ h \in HostType /\ h.numIosPending = Len(h.ep0) + n
      /\ h.xfers \in Seq(Xfer) /\ h.queue \in Seq(Nat) /\ L \in Nat /\ q \in Nat
  BY LiveHost, HostSeqs
<1>2. /\ S \in Nat /\ \A i \in 1..q : h.queue[i] = S + i
      /\ \A t \in 1..L : t > S => h.xfers[t].sent = 0
      /\ Used(h, E) /\ Used(h, Writes(h.ep0)) /\ Sane(h, E) /\ h.thrown = "nothing"
  BY DEF Live, Ready, QueueIsRest
<1>3. S = L - q
  BY DEF Started
<1>4. /\ Q \in Seq(Nat) /\ Len(Q) = q - 1 /\ \A i \in 1..q - 1 : Q[i] = h.queue[i + 1]
      /\ c = h.queue[1] /\ q >= 1
  BY <1>1, HeadTailProperties, EmptySeq
<1>5. c = S + 1
  BY <1>1, <1>2, <1>4
<1> HIDE DEF Q, c, S
<1>6. /\ g \in HostType /\ g.queue = Q /\ g.currentTransfer = c
      /\ g.xfers = h.xfers /\ g.ep0 = h.ep0 /\ g.thrown = h.thrown
      /\ g.numIosPending = h.numIosPending
  <2>1. c \in Nat
    BY <1>2, <1>5
  <2> QED
    BY <1>1, <1>4, <2>1 DEF HostType
<1> HIDE DEF g, L, q
<1>7. Started(g) = S + 1
  <2>1. Started(g) = L - (q - 1)
    BY <1>4, <1>6 DEF Started, L
  <2> QED
    BY <1>1, <1>3, <2>1
<1>8. \A i \in 1..Len(g.queue) : g.queue[i] = (S + 1) + i
  <2> SUFFICES ASSUME NEW i \in 1..q - 1 PROVE Q[i] = (S + 1) + i
    BY <1>4, <1>6
  <2>1. i + 1 \in 1..q /\ S + (i + 1) = (S + 1) + i
    BY <1>1, <1>2
  <2> QED
    BY <1>2, <1>4, <2>1
<1>9. \A t \in 1..Len(g.xfers) : t > S + 1 => g.xfers[t].sent = 0
  <2>1. \A t \in 1..L : t > S + 1 => t > S
    BY <1>2
  <2> QED
    BY <1>2, <1>6, <2>1 DEF L
<1>10. QueueIsRest(g)
  BY <1>2, <1>5, <1>6, <1>7, <1>8, <1>9 DEF QueueIsRest
<1>11. \A i \in 1..S : i \in 1..S + 1
  BY <1>2
<1>12. Used(g, E) /\ Used(g, Writes(g.ep0))
  BY <1>2, <1>6, <1>7, <1>11 DEF Used, S
<1>13. Sane(g, E)
  BY <1>2, <1>6 DEF Sane
<1>14. Live(g, E, n)
  BY <1>1, <1>2, <1>6, <1>10, <1>12, <1>13 DEF Live, Ready
<1>15. HasCurrent(g)
  BY <1>2, <1>5, <1>6 DEF HasCurrent, NoTransfer
<1> QED
  BY <1>14, <1>15 DEF g, Q, c

LEMMA TransferStartedLive ==
  ASSUME NEW E, NEW n \in Int, NEW h, Live(h, E, n), HasCurrent(h)
  PROVE  Live(transferStarted(h), E, n)
<1> DEFINE d == Current(h).d
<1>1. d \in Program
  <2>1. Current(h) \in XferType
    BY LiveHost
  <2> QED
    BY <2>1 DEF XferType
<1>2. d.kind # "sweep"
  BY <1>1 DEF Program
<1>3. CASE d.kind = "conf"
  BY <1>3, ConfigureLive DEF transferStarted
<1>4. CASE d.kind = "open"
  BY <1>4, ConfigureLive DEF transferStarted
<1>5. CASE d.kind \in {"stream", "bulk"} /\ d.size = 0
  <2>1. transferStarted(h) = updateTransferStatus(h, h.currentTransfer, "COMPLETED")
    BY <1>5 DEF transferStarted
  <2> QED
    BY <2>1, FinishLive
<1>6. CASE /\ d.kind \notin {"conf", "open"} /\ ~(d.kind \in {"stream", "bulk"} /\ d.size = 0)
  <2>1. transferStarted(h) = h
    BY <1>2, <1>6 DEF transferStarted
  <2> QED
    BY <2>1
<1> QED
  BY <1>3, <1>4, <1>5, <1>6

LEMMA StartTransfersLive ==
  ASSUME NEW E, NEW n \in Int, NEW h, Live(h, E, n)
  PROVE  Live(startTransfers(h), E, n)
<1>1. CASE ~HasCurrent(h) /\ h.queue # <<>>
  <2> DEFINE f == [h EXCEPT !.currentTransfer = Head(h.queue), !.queue = Tail(h.queue)]
             g == transferStarted(f)
  <2>1. Live(f, E, n) /\ HasCurrent(f)
    BY <1>1, DequeuedLive
  <2>2. startTransfers(h) = IF HasCurrent(g) THEN ServeCurrent(g) ELSE requestStatus(g)
    BY <1>1 DEF startTransfers
  <2> HIDE DEF f
  <2>3. Live(g, E, n)
    BY <2>1, TransferStartedLive
  <2> HIDE DEF g
  <2> QED
    BY <2>2, <2>3, ServeCurrentLive, RequestStatusLive
<1>2. CASE ~(~HasCurrent(h) /\ h.queue # <<>>)
  <2>1. startTransfers(h) = ServeCurrent(h)
    BY <1>2 DEF startTransfers
  <2> QED
    BY <2>1, ServeCurrentLive
<1> QED
  BY <1>1, <1>2

LEMMA UpdateStatusLive ==
  ASSUME NEW E, NEW n \in Int, NEW h, Live(h, E, n), NEW w \in Int, NEW r \in Int
  PROVE  Live(updateStatus(h, w, r), E, n)
<1> DEFINE cw == IF w >= 0 THEN w ELSE h.countToWrite
           cr == IF r >= 0 THEN r ELSE h.countToRead
           g == [h EXCEPT !.countToWrite = cw, !.countToRead = cr]
<1>1. /\ h \in HostType /\ h.numIosPending = Len(h.ep0) + n
      /\ cw \in Nat /\ cr \in Nat
  <2>1. h \in HostType /\ h.numIosPending = Len(h.ep0) + n
    BY LiveHost
  <2>2. h.countToWrite \in Nat /\ h.countToRead \in Nat
    BY <2>1, HostFields
  <2> QED
    BY <2>1, <2>2
<1>2. updateStatus(h, w, r) = startTransfers(g)
  BY DEF updateStatus
<1> HIDE DEF cw, cr
<1>3. /\ g \in HostType /\ g.queue = h.queue /\ g.currentTransfer = h.currentTransfer
      /\ g.xfers = h.xfers /\ g.ep0 = h.ep0 /\ g.thrown = h.thrown
      /\ g.numIosPending = h.numIosPending
  BY <1>1 DEF HostType
<1> HIDE DEF g
<1>4. Live(g, E, n)
  BY <1>1, <1>3, LiveSame
<1> QED
  BY <1>2, <1>4, StartTransfersLive

LEMMA VerdictXferType ==
  ASSUME NEW x \in Xfer, NEW ok \in BOOLEAN
  PROVE  /\ [x EXCEPT !.lastWriteOk = ok] \in Xfer
         /\ [x EXCEPT !.lastWriteOk = ok].sent = x.sent
<1> DEFINE y == [x EXCEPT !.lastWriteOk = ok]
<1>1. x \in XferType
  BY DEF Xfer
<1>2. y \in XferType /\ y.sent = x.sent /\ y.d = x.d
  BY <1>1 DEF XferType
<1> HIDE DEF y
<1>3. y \in Xfer
  BY <1>2 DEF Xfer
<1> QED
  BY <1>2, <1>3 DEF y

LEMMA IdleStatusLive ==
  ASSUME NEW E, NEW n \in Int, NEW h, Live(h, E, n), NEW ok \in BOOLEAN, NEW timeUp
  PROVE  Live(updateIdleStatus(h, ok, timeUp), E, n)
<1> DEFINE t == h.currentTransfer
           x == h.xfers[t]
           y == [x EXCEPT !.lastWriteOk = ok]
           f == WithXfer(h, t, y)
           g == updateTransferStatus(f, t, "COMPLETED")
<1>1. CASE ~HasCurrent(h)
  BY <1>1 DEF updateIdleStatus
<1>2. CASE HasCurrent(h) /\ Current(h).d.kind \in {"conf", "open"}
  <2>1. ~(Current(h).d.kind \in IOKinds)
    BY <1>2 DEF IOKinds
  <2>2. updateIdleStatus(h, ok, timeUp) = updateTransferStatus(h, t, "COMPLETED")
    BY <1>2, <2>1 DEF updateIdleStatus, controlNowIdle
  <2> QED
    BY <1>2, <2>2, FinishLive
<1>3. CASE HasCurrent(h) /\ Current(h).d.kind \in IOKinds
  <2> DEFINE finished == x.d.kind # "read" /\ x.d.sync /\ AllAcknowledged(x)
  <2>1. /\ updateIdleStatus(h, ok, timeUp) = ioNowIdle(h, t, ok, timeUp)
        /\ t \in 1..Len(h.xfers) /\ x \in Xfer
    <3>1. t \in 1..Len(h.xfers) /\ x \in Xfer
      BY <1>3, LiveHost DEF Current
    <3>2. updateIdleStatus(h, ok, timeUp) = ioNowIdle(h, t, ok, timeUp)
      <4>1. ~(Current(h).d.kind \in {"conf", "open"})
        BY <1>3 DEF IOKinds
      <4> QED
        BY <1>3, <4>1 DEF updateIdleStatus
    <3> QED
      BY <3>1, <3>2
  <2>2. CASE finished
    <3>1. y \in Xfer /\ y.sent = x.sent
      BY <2>1, VerdictXferType
    <3>2. ioNowIdle(h, t, ok, timeUp) = checkTransferTimeout(g, t, timeUp)
      <4>1. [h EXCEPT !.xfers[t].lastWriteOk = ok] = f
        BY DEF WithXfer
      <4> QED
        BY <2>2, <4>1 DEF ioNowIdle
    <3> HIDE DEF y
    <3>3. Live(f, E, n) /\ f.currentTransfer = t
      BY <2>1, <3>1, XferChangedLive
    <3>4. HasCurrent(f)
      BY <1>3, <3>3 DEF HasCurrent
    <3> HIDE DEF f
    <3>5. Live(g, E, n) /\ g.xfers[t].status = "COMPLETED"
      BY <3>3, <3>4, FinishLive
    <3> HIDE DEF g
    <3>6. checkTransferTimeout(g, t, timeUp) = g
      BY <3>5 DEF checkTransferTimeout
    <3> QED
      BY <2>1, <3>2, <3>5, <3>6
  <2>3. CASE ~finished
    <3>1. ioNowIdle(h, t, ok, timeUp) = checkTransferTimeout(h, t, timeUp)
      BY <2>3 DEF ioNowIdle
    <3>2. Live(updateTransferStatus(h, t, "TIMED_OUT"), E, n)
      BY <1>3, FinishLive
    <3> QED
      BY <2>1, <3>1, <3>2 DEF checkTransferTimeout
  <2> QED
    BY <2>2, <2>3
<1>4. CASE HasCurrent(h) /\ ~(Current(h).d.kind \in IOKinds) /\ ~(Current(h).d.kind \in {"conf", "open"})
  BY <1>4 DEF updateIdleStatus
<1> QED
  BY <1>1, <1>2, <1>3, <1>4

\* The numbers of a status message.
StatusNumbers(s) ==
  /\ s.cb_size \in Int /\ s.cb_count \in Int /\ s.acb_size \in Int /\ s.acb_count \in Int

LEMMA StatusArrivedLive ==
  ASSUME NEW E, NEW n \in Int, NEW h, Live(h, E, n), NEW s, StatusNumbers(s), NEW timeUp
  PROVE  Live(statusUpdateArrived(h, s, timeUp), E, n)
<1> DEFINE f == [h EXCEPT !.interruptIsRunning = FALSE]
           ok == SaysLastOk(h, s)
           g == IF SaysIdle(s) THEN updateIdleStatus(f, ok, timeUp) ELSE f
           w == CanWrite(h, s)
           r == CanRead(h, s)
<1>1. statusUpdateArrived(h, s, timeUp) = updateStatus(g, w, r)
  BY DEF statusUpdateArrived
<1>2. w \in Int /\ r \in Int
  BY DEF StatusNumbers, CanWrite, CanRead
<1>3. Live(f, E, n)
  <2>1. h \in HostType /\ h.numIosPending = Len(h.ep0) + n
    BY LiveHost
  <2>2. /\ f \in HostType /\ f.queue = h.queue /\ f.currentTransfer = h.currentTransfer
        /\ f.xfers = h.xfers /\ f.ep0 = h.ep0 /\ f.thrown = h.thrown
        /\ f.numIosPending = h.numIosPending
    BY <2>1 DEF HostType
  <2> HIDE DEF f
  <2> QED
    BY <2>1, <2>2, LiveSame
<1>4. ok \in BOOLEAN
  BY DEF SaysLastOk
<1> HIDE DEF f, ok, w, r
<1>5. Live(g, E, n)
  BY <1>3, <1>4, IdleStatusLive
<1> HIDE DEF g
<1> QED
  BY <1>1, <1>2, <1>5, UpdateStatusLive

LEMMA IODoneLive ==
  ASSUME NEW E, NEW n \in Int, NEW h, Live(h, E, n)
  PROVE  Live(IODone(h), E, n - 1)
<1> DEFINE k == h.numIosPending - 1
           g == [h EXCEPT !.numIosPending = k]
<1>1. /\ h \in HostType /\ h.numIosPending = Len(h.ep0) + n /\ Len(h.ep0) \in Nat
  BY LiveHost
<1>2. k \in Int /\ k = Len(h.ep0) + (n - 1)
  BY <1>1
<1> HIDE DEF k
<1>3. /\ g \in HostType /\ g.queue = h.queue /\ g.currentTransfer = h.currentTransfer
      /\ g.xfers = h.xfers /\ g.ep0 = h.ep0 /\ g.thrown = h.thrown
      /\ g.numIosPending = k
  BY <1>1, <1>2 DEF HostType
<1>4. IODone(h) = RequestStatusIfQuiet(g)
  BY DEF IODone, k
<1> HIDE DEF g
<1>5. n - 1 \in Int /\ g.numIosPending = Len(h.ep0) + (n - 1)
  BY <1>2, <1>3
<1>6. Live(g, E, n - 1)
  BY <1>3, <1>5, LiveSame
<1> QED
  BY <1>4, <1>5, <1>6, QuietStatusLive

LEMMA CountedXferType ==
  ASSUME NEW x \in Xfer, NEW k \in Int, NEW s \in Seq(Numbered)
  PROVE  /\ [x EXCEPT !.numWriting = k] \in Xfer /\ [x EXCEPT !.recv = s] \in Xfer
         /\ [x EXCEPT !.numWriting = k].sent = x.sent /\ [x EXCEPT !.recv = s].sent = x.sent
<1> DEFINE y == [x EXCEPT !.numWriting = k]
           z == [x EXCEPT !.recv = s]
<1>1. x \in XferType
  BY DEF Xfer
<1>2. y \in XferType /\ y.sent = x.sent /\ y.d = x.d
  BY <1>1 DEF XferType
<1>3. z \in XferType /\ z.sent = x.sent /\ z.d = x.d
  BY <1>1 DEF XferType
<1> HIDE DEF y, z
<1>4. y \in Xfer /\ z \in Xfer
  BY <1>2, <1>3 DEF Xfer
<1> QED
  BY <1>2, <1>3, <1>4 DEF y, z

LEMMA BufferDoneLive ==
  ASSUME NEW E, NEW n \in Int, NEW h, Live(h, E, n), HasCurrent(h), NEW p \in Numbered
  PROVE  /\ Live(ioWriteDone(h, h.currentTransfer), E, n)
         /\ Live(ioReadDone(h, h.currentTransfer, p), E, n)
<1> DEFINE t == h.currentTransfer
           x == h.xfers[t]
           k == x.numWriting - 1
           s == Append(x.recv, p)
           y == [x EXCEPT !.numWriting = k]
           z == [x EXCEPT !.recv = s]
           f == WithXfer(h, t, y)
           g == WithXfer(h, t, z)
<1>1. t \in 1..Len(h.xfers) /\ x \in Xfer
  BY LiveHost DEF Current
<1>2. k \in Int /\ s \in Seq(Numbered)
  <2>1. x.numWriting \in Int /\ x.recv \in Seq(Numbered)
    BY <1>1 DEF Xfer, XferType
  <2> QED
    BY <2>1, AppendProperties
<1>3. /\ ioWriteDone(h, t) = IF ~y.d.sync /\ AllAcknowledged(y)
                               THEN updateTransferStatus(f, t, "COMPLETED") ELSE f
      /\ ioReadDone(h, t, p) = IF Len(z.recv) = ToReceive(z.d)
                                 THEN updateTransferStatus(g, t, "COMPLETED") ELSE g
  BY DEF ioWriteDone, ioReadDone, WithXfer
<1> HIDE DEF k, s
<1>4. y \in Xfer /\ z \in Xfer /\ y.sent = x.sent /\ z.sent = x.sent
  BY <1>1, <1>2, CountedXferType
<1> HIDE DEF y, z
<1>5. Live(f, E, n) /\ f.currentTransfer = t /\ Live(g, E, n) /\ g.currentTransfer = t
  BY <1>1, <1>4, XferChangedLive
<1>6. HasCurrent(f) /\ HasCurrent(g)
  BY <1>5 DEF HasCurrent
<1> HIDE DEF f, g
<1>7. /\ Live(updateTransferStatus(f, t, "COMPLETED"), E, n)
      /\ Live(updateTransferStatus(g, t, "COMPLETED"), E, n)
  BY <1>5, <1>6, FinishLive
<1> QED
  BY <1>3, <1>5, <1>7

LEMMA LiveGood ==
  ASSUME NEW E, NEW n \in Int, NEW h, Live(h, E, n)
  PROVE  Good(h, E, n)
  BY DEF Live, Good, Ready, HostType

LEMMA ThrowGood ==
  ASSUME NEW E, NEW n \in Int, NEW h, Live(h, E, n), NEW m, NEW what \in Exceptions
  PROVE  Good(Throw(h, what), E, m)
<1> DEFINE g == Throw(h, what)
<1>1. h \in HostType
  BY LiveHost
<1>2. {"ep0", "thrown"} \subseteq DOMAIN g /\ g.ep0 = h.ep0 /\ g.thrown = what
  BY <1>1 DEF Throw, HostType
<1>3. Sane(h, E) /\ what # "nothing"
  BY DEF Live, Exceptions
<1> HIDE DEF g
<1>4. Sane(g, E)
  BY <1>2, <1>3 DEF Sane
<1>5. Good(g, E, m)
  BY <1>2, <1>3, <1>4 DEF Good
<1> QED
  BY <1>5 DEF g

LEMMA WrittenGood ==
  ASSUME NEW E, NEW n \in Int, NEW h, Live(h, E, n)
  PROVE  Good(packetWritten(h), E, n - 1)
<1>1. CASE HasCurrent(h)
  <2> DEFINE g == IF Current(h).d.kind \in IOKinds THEN ioWriteDone(h, h.currentTransfer) ELSE h
  <2>1. packetWritten(h) = IODone(g)
    BY <1>1 DEF packetWritten
  <2>2. <<0, 0>> \in Numbered
    BY DEF Numbered
  <2>3. Live(g, E, n)
    BY <1>1, <2>2, BufferDoneLive
  <2> HIDE DEF g
  <2> QED
    BY <2>1, <2>3, IODoneLive, LiveGood
<1>2. CASE ~HasCurrent(h)
  BY <1>2, ThrowGood DEF packetWritten, Exceptions
<1> QED
  BY <1>1, <1>2

LEMMA ReadGood ==
  ASSUME NEW E, NEW n \in Int, NEW h, Live(h, E, n), NEW p \in Numbered
  PROVE  Good(bufferReadDone(h, p), E, n - 1)
<1>1. CASE HasCurrent(h)
  <2> DEFINE g == IF Current(h).d.kind \in IOKinds THEN ioReadDone(h, h.currentTransfer, p) ELSE h
  <2>1. bufferReadDone(h, p) = IODone(g)
    BY <1>1 DEF bufferReadDone
  <2>2. Live(g, E, n)
    BY <1>1, BufferDoneLive
  <2> HIDE DEF g
  <2> QED
    BY <2>1, <2>2, IODoneLive, LiveGood
<1>2. CASE ~HasCurrent(h)
  BY <1>2, ThrowGood DEF bufferReadDone, Exceptions
<1> QED
  BY <1>1, <1>2

LEMMA ObtainedGood ==
  ASSUME NEW E, NEW n \in Int, NEW h, Live(h, E, n), NEW reply, reply.packet \in Numbered
  PROVE  Good(packetObtained(h, reply), E, n - 1)
<1> DEFINE g == IF reply.more /\ h.numIosPending = 1 THEN updateStatus(h, -1, 1) ELSE h
<1>1. packetObtained(h, reply) = bufferReadDone(g, reply.packet)
  BY DEF packetObtained
<1>2. Live(g, E, n)
  <2>1. -1 \in Int /\ 1 \in Int
    OBVIOUS
  <2> QED
    BY <2>1, UpdateStatusLive
<1> HIDE DEF g
<1> QED
  BY <1>1, <1>2, ReadGood

LEMMA ControlDoneLive ==
  ASSUME NEW E, NEW n \in Int, NEW h, Live(h, E, n)
  PROVE  /\ Live(modeSwitched(h), E, n - 1)
         /\ Live(configureDone(h), E, n - 1)
         /\ Live(pipeOpenDone(h), E, n - 1)
<1> DEFINE k == h.numIosPending - 1
           m == h.nextMode
           f == [h EXCEPT !.canXfer = TRUE, !.numIosPending = k]
           g == [f EXCEPT !.currentMode = m]
<1>1. /\ h \in HostType /\ h.numIosPending = Len(h.ep0) + n /\ Len(h.ep0) \in Nat
      /\ m \in Modes
  BY LiveHost, HostFields
<1>2. k \in Int /\ k = Len(h.ep0) + (n - 1) /\ n - 1 \in Int
  BY <1>1
<1>3. /\ configureDone(h) = requestStatus(f) /\ pipeOpenDone(h) = requestStatus(f)
      /\ modeSwitched(h) = requestStatus(g)
  BY DEF configureDone, pipeOpenDone, modeSwitched, switchModeDone, ControlDone
<1> HIDE DEF k, m
<1>4. /\ f \in HostType /\ f.queue = h.queue /\ f.currentTransfer = h.currentTransfer
      /\ f.xfers = h.xfers /\ f.ep0 = h.ep0 /\ f.thrown = h.thrown
      /\ f.numIosPending = k
  BY <1>1, <1>2 DEF HostType
<1> HIDE DEF f
<1>5. /\ g \in HostType /\ g.queue = f.queue /\ g.currentTransfer = f.currentTransfer
      /\ g.xfers = f.xfers /\ g.ep0 = f.ep0 /\ g.thrown = f.thrown
      /\ g.numIosPending = f.numIosPending
  BY <1>1, <1>4 DEF HostType
<1> HIDE DEF g
<1>6. Live(f, E, n - 1)
  BY <1>2, <1>4, LiveSame
<1>7. Live(g, E, n - 1)
  BY <1>2, <1>4, <1>5, LiveSame
<1> QED
  BY <1>2, <1>3, <1>6, <1>7, RequestStatusLive

LEMMA CompletedGood ==
  ASSUME NEW E, NEW n \in Int, NEW h, Live(h, E, n), NEW c,
         c.rq \in {"RQ_WRITE", "RQ_READ", "RQ_MODE", "RQ_CONFIG", "RQ_OPEN_PIPE"},
         c.rq = "RQ_READ" => c.reply.packet \in Numbered
  PROVE  Good(Completed(h, c), E, n - 1)
<1>0. n - 1 \in Int
  OBVIOUS
<1>1. CASE c.rq = "RQ_WRITE"
  BY <1>1, WrittenGood DEF Completed
<1>2. CASE c.rq = "RQ_READ"
  BY <1>2, ObtainedGood DEF Completed
<1>3. CASE c.rq = "RQ_MODE"
  BY <1>0, <1>3, ControlDoneLive, LiveGood DEF Completed
<1>4. CASE c.rq = "RQ_CONFIG"
  BY <1>0, <1>4, ControlDoneLive, LiveGood DEF Completed
<1>5. CASE c.rq = "RQ_OPEN_PIPE"
  BY <1>0, <1>5, ControlDoneLive, LiveGood DEF Completed
<1> QED
  BY <1>1, <1>2, <1>3, <1>4, <1>5

LEMMA NewTransferType ==
  ASSUME NEW d \in Program
  PROVE  NewTransfer(d) \in Xfer /\ NewTransfer(d).sent = 0
<1> DEFINE x == NewTransfer(d)
<1>1. x \in XferType /\ x.sent = 0 /\ x.d = d
  BY DEF NewTransfer, XferType
<1>2. ToSend(d) \in Nat
  BY ToSendNat
<1> HIDE DEF x
<1>3. x \in Xfer
  BY <1>1, <1>2 DEF Xfer
<1> QED
  BY <1>1, <1>3 DEF x

LEMMA SubmitLive ==
  ASSUME NEW E, NEW n \in Int, NEW h, Live(h, E, n), NEW d \in Program
  PROVE  Live(submit(h, d), E, n)
<1> DEFINE x == NewTransfer(d)
           g == [h EXCEPT !.xfers = Append(h.xfers, x), !.queue = Append(h.queue, Len(h.xfers) + 1)]
<1>1. x \in Xfer /\ x.sent = 0
  BY NewTransferType
<1>2. submit(h, d) = startTransfers(g)
  BY DEF submit
<1> HIDE DEF x
<1>3. Live(g, E, n)
  BY <1>1, SubmittedLive
<1> HIDE DEF g
<1> QED
  BY <1>2, <1>3, StartTransfersLive

LEMMA SubmitAgainLive ==
  ASSUME NEW E, NEW n \in Int, NEW h, Live(h, E, n), NEW t \in 1..Len(h.xfers)
  PROVE  Live(submitAgain(h, t), E, n)
<1> DEFINE x == h.xfers[t]
           y == [x EXCEPT !.status = "QUEUED", !.sent = 0]
           g == [h EXCEPT !.xfers = Append(h.xfers, y), !.queue = Append(h.queue, Len(h.xfers) + 1)]
<1>1. y \in Xfer /\ y.sent = 0
  <2>1. x \in Xfer
    BY LiveHost, HostSeqs
  <2>2. x \in XferType
    BY <2>1 DEF Xfer
  <2>3. y \in XferType /\ y.sent = 0 /\ y.d = x.d /\ x.d \in Program
    BY <2>2 DEF XferType
  <2> HIDE DEF y
  <2>4. ToSend(y.d) \in Nat
    BY <2>3, ToSendNat
  <2> QED
    BY <2>3, <2>4 DEF Xfer
<1>2. submitAgain(h, t) = startTransfers(g)
  BY DEF submitAgain
<1> HIDE DEF y
<1>3. Live(g, E, n)
  BY <1>1, SubmittedLive
<1> HIDE DEF g
<1> QED
  BY <1>2, <1>3, StartTransfersLive

-----------------------------------------------------------------------------
(***************************************************************************)
(* The dongle in the link is the one that DongleProofs is about.           *)
(***************************************************************************)
LEMMA SameDongle ==
  /\ D!Init = P!Init /\ D!Data = P!Data
  /\ D!MainLoop \/ D!HostTakesInterrupt \/ D!RadioAcknowledged \/ D!RadioUnanswered
       \/ D!RadioReceives \/ UNCHANGED dongle => P!Alone
  /\ \A rq : D!Setup(rq) = P!Setup(rq)
  /\ D!ReadReply = P!ReadReply /\ D!OutRequests = P!OutRequests
  BY DEF P!Alone, P!vars, dongle, D!Acknowledged, P!Acknowledged, D!BulkPush, P!BulkPush, D!BulkRetry, P!BulkRetry,
         D!cb_flush, P!cb_flush, D!cb_get_slot, P!cb_get_slot, D!cb_is_empty, P!cb_is_empty,
         D!cb_is_full, P!cb_is_full, D!cb_read, P!cb_read, D!Complete, P!Complete, D!Data,
         P!Data, D!EndProcess, P!EndProcess, D!FIFO_DEPTH, P!FIFO_DEPTH, D!firmware, P!firmware,
         D!HasSlots, P!HasSlots, D!history, P!history, D!HostTakesInterrupt,
         P!HostTakesInterrupt, D!IdleWork, P!IdleWork, D!Init, P!Init, D!InProcess, P!InProcess,
         D!MainLoop, P!MainLoop, D!MainPost, P!MainPost, D!MakeRoom, P!MakeRoom, D!MayReceive,
         P!MayReceive, D!MaySend, P!MaySend, D!MayServe, P!MayServe, D!NextSlot, P!NextSlot,
         D!NoMessage, P!NoMessage, D!NoPacket, P!NoPacket, D!NoRequest, P!NoRequest, D!Oldest,
         P!Oldest, D!OutRequests, P!OutRequests, D!PollNothing, P!PollNothing,
         D!post_interrupt_message, P!post_interrupt_message, D!ProcessRadio, P!ProcessRadio,
         D!RadioAcknowledged, P!RadioAcknowledged, D!RadioFlushed, P!RadioFlushed,
         D!RadioReceives, P!RadioReceives, D!RadioReset, P!RadioReset, D!RadioUnanswered,
         P!RadioUnanswered, D!ReadMove, P!ReadMove, D!ReadReply, P!ReadReply, D!ReadRing,
         P!ReadRing, D!ReadWorkDone, P!ReadWorkDone, D!Received, P!Received, D!Resize, P!Resize,
         D!ResizedAcb, P!ResizedAcb, D!ResizedCb, P!ResizedCb, D!rf24_available,
         P!rf24_available, D!rf24_flush_rx, P!rf24_flush_rx, D!rf24_flush_tx, P!rf24_flush_tx,
         D!rf24_queue_push, P!rf24_queue_push, D!rf24_read, P!rf24_read, D!rf24_start_listening,
         P!rf24_start_listening, D!rf24_start_write, P!rf24_start_write, D!rf24_stop_listening,
         P!rf24_stop_listening, D!rf24_tx_empty, P!rf24_tx_empty, D!rf24_what_happened,
         P!rf24_what_happened, D!rf24_write_done, P!rf24_write_done, D!ring, P!ring, D!Ring,
         P!Ring, D!RqAnswerOnly, P!RqAnswerOnly, D!RqFlush, P!RqFlush, D!RqMode, P!RqMode,
         D!RqReadNothing, P!RqReadNothing, D!RqReadPacket, P!RqReadPacket, D!RqSync, P!RqSync,
         D!Setup, P!Setup, D!SetupOut, P!SetupOut, D!Status, P!Status, D!StreamFinish,
         P!StreamFinish, D!StreamStart, P!StreamStart, D!StreamWait, P!StreamWait, D!SyncReturn,
         P!SyncReturn, D!SyncTurn, P!SyncTurn, D!TxFull, P!TxFull, D!Unanswered, P!Unanswered,
         D!usb, P!usb, D!usb_init, P!usb_init, D!WriteConfig, P!WriteConfig, D!WriteHangs,
         P!WriteHangs, D!WriteOpenPipe, P!WriteOpenPipe, D!WritePacket, P!WritePacket,
         D!WriteRing, P!WriteRing

LEMMA DongleAssumptions == P!OneAckMode /\ P!HwBufferAssumption
  BY HwBufferAssumption DEF P!OneAckMode, P!HwBufferAssumption

-----------------------------------------------------------------------------
(***************************************************************************)
(* The invariant of the link.                                              *)
(***************************************************************************)
Served ==
       [rq : {"RQ_OPEN_PIPE", "RQ_CONFIG", "RQ_WRITE"}]
  \cup [rq : {"RQ_MODE", "RQ_READ"}, reply : [packet : Numbered, more : BOOLEAN]]
Completion == Served \cup [rq : {"STATUS"}, status : P!StatusType]

IsStatus(c) == c.rq = "STATUS"
HasStatus(s) == \E i \in 1..Len(s) : IsStatus(s[i])
OneStatus(s) == \A i, j \in 1..Len(s) : IsStatus(s[i]) /\ IsStatus(s[j]) => i = j

\* Requests that have left ep0 and are not called back.
Taken ==
  One(request.rq # "NONE") + One(phase = "hung") + One(serving.rq # "NONE")
    + Len(done) - One(HasStatus(done))

InDonglesHands == P!Gone \cup P!Announced

Bus ==
  /\ serving \in Served \cup {NoCompletion}
  /\ done \in Seq(Completion) /\ OneStatus(done)
  /\ request # P!NoRequest => serving = NoCompletion

LinkInv == P!RInv /\ P!OrderInv /\ Bus /\ Good(host, InDonglesHands, Taken)

LEMMA OneType == \A p : One(p) \in {0, 1}
  BY DEF One

LEMMA TakenType ==
  ASSUME Bus
  PROVE  Taken \in Int
<1>1. Len(done) \in Nat
  BY LenProperties DEF Bus
<1>2. /\ One(request.rq # "NONE") \in Int /\ One(phase = "hung") \in Int
      /\ One(serving.rq # "NONE") \in Int /\ One(HasStatus(done)) \in Int
  BY DEF One
<1> QED
  BY <1>1, <1>2 DEF Taken

LEMMA RequestIsNone ==
  ASSUME P!RInv
  PROVE  request.rq # "NONE" <=> request # P!NoRequest
<1>1. request \in P!Request \cup {P!NoRequest}
  BY DEF P!RInv, P!IInv, P!TypeOK
<1>2. \A rq \in P!Request : rq.rq # "NONE"
  BY DEF P!Request
<1>3. P!NoRequest.rq = "NONE"
  BY DEF P!NoRequest
<1> QED
  BY <1>1, <1>2, <1>3

\* The host's part of the invariant, with what the dongle holds becoming less.
LEMMA SaneLess ==
  ASSUME NEW E, NEW F \in SUBSET E, NEW h, Sane(h, E)
  PROVE  Sane(h, F)
  BY DEF Sane, P!AllBefore

LEMMA GoodLess ==
  ASSUME NEW E, NEW F \in SUBSET E, NEW n, NEW h, Good(h, E, n)
  PROVE  Good(h, F, n)
<1>1. Sane(h, F)
  BY SaneLess DEF Good
<1>2. Ready(h, E, n) => Ready(h, F, n)
  BY DEF Ready, Used
<1> QED
  BY <1>1, <1>2 DEF Good

\* The dongle takes the first request, and what it holds may grow by its packet.
Takes(h) == [h EXCEPT !.ep0 = Tail(h.ep0)]

LEMMA TakesType ==
  ASSUME NEW h \in HostType, h.ep0 # <<>>
  PROVE  LET g == Takes(h)
         IN /\ g \in HostType /\ g.ep0 = Tail(h.ep0) /\ g.queue = h.queue
            /\ g.currentTransfer = h.currentTransfer /\ g.xfers = h.xfers
            /\ g.thrown = h.thrown /\ g.numIosPending = h.numIosPending
<1>1. Tail(h.ep0) \in Seq(HostRequest)
  BY HostSeqs, HeadTailProperties
<1> QED
  BY <1>1 DEF HostType, Takes

LEMMA TakesGood ==
  ASSUME NEW E, NEW F, NEW n \in Int, NEW h, Good(h, E, n), h.ep0 # <<>>,
         F \subseteq E \cup Writes(<<Head(h.ep0)>>)
  PROVE  Good(Takes(h), F, n + 1)
<1> DEFINE g == Takes(h)
           s == h.ep0
           u == Tail(s)
           L == Len(s)
<1>1. /\ s \in Seq(HostRequest) /\ L \in Nat
      /\ u \in Seq(HostRequest) /\ Len(u) = L - 1 /\ L >= 1
      /\ \A i \in 1..L - 1 : u[i] = s[i + 1]
      /\ Head(s) = s[1]
  BY HeadTailProperties, EmptySeq, LenProperties DEF Good, Sane
<1>2. {"ep0", "thrown"} \subseteq DOMAIN g /\ g.ep0 = u /\ g.thrown = h.thrown
  BY DEF Good, Takes
<1>3. WritesAscend(s) /\ P!AllBefore(E, Writes(s)) /\ E \subseteq Numbered
  BY DEF Good, Sane
<1> HIDE DEF g, s, u, L
<1>4. /\ \A i \in 1..L - 1 : i + 1 \in 1..Len(s) /\ u[i] = s[i + 1]
      /\ 1 \in 1..Len(s)
  BY <1>1 DEF L
<1>5. Writes(u) \subseteq Writes(s)
  BY <1>1, <1>4 DEF Writes
<1>6. WritesAscend(u)
  <2> SUFFICES ASSUME NEW j \in 1..L - 1, NEW k \in 1..L - 1, j < k,
                      IsWrite(u[j]), IsWrite(u[k])
               PROVE  P!Before(u[j].packet, u[k].packet)
    BY <1>1 DEF WritesAscend
  <2>1. j + 1 < k + 1
    BY <1>1
  <2> QED
    BY <1>3, <1>4, <2>1 DEF WritesAscend
<1>7. ASSUME NEW p \in Writes(<<Head(s)>>)
      PROVE  /\ p \in Writes(s) /\ \A q \in Writes(u) : P!Before(p, q)
  <2>1. IsWrite(s[1]) /\ p = s[1].packet
    BY <1>1, <1>7 DEF Writes
  <2>2. p \in Writes(s)
    BY <1>4, <2>1 DEF Writes
  <2>3. ASSUME NEW i \in 1..L - 1, IsWrite(u[i]) PROVE P!Before(p, u[i].packet)
    <3>1. 1 < i + 1 /\ i + 1 \in 1..Len(s) /\ u[i] = s[i + 1]
      BY <1>1, <1>4
    <3> QED
      BY <1>3, <1>4, <2>1, <2>3, <3>1 DEF WritesAscend
  <2> QED
    BY <1>1, <2>2, <2>3 DEF Writes
<1>8. P!AllBefore(F, Writes(u))
  BY <1>3, <1>5, <1>7 DEF P!AllBefore, s
<1>9. F \subseteq Numbered
  BY <1>1, <1>3, <1>7, WritesNumbered DEF s
<1>10. Sane(g, F)
  BY <1>1, <1>2, <1>6, <1>8, <1>9 DEF Sane
<1>11. ASSUME h.thrown = "nothing" PROVE Ready(g, F, n + 1)
  <2>1. /\ QueueIsRest(h) /\ Used(h, E) /\ Used(h, Writes(s)) /\ h.numIosPending = L + n
        /\ h \in HostType
    BY <1>11 DEF Good, Ready, s, L
  <2>6. /\ g \in HostType /\ g.queue = h.queue
        /\ g.currentTransfer = h.currentTransfer /\ g.xfers = h.xfers
        /\ g.numIosPending = h.numIosPending
    BY <2>1, TakesType DEF g
  <2>2. Started(g) = Started(h)
    BY <2>6 DEF Started
  <2>3. QueueIsRest(g)
    BY <2>1, <2>2, <2>6 DEF QueueIsRest
  <2>4. Used(g, F) /\ Used(g, Writes(u))
    BY <1>5, <1>7, <2>1, <2>2, <2>6 DEF Used, s
  <2>5. g.numIosPending = Len(u) + (n + 1)
    BY <1>1, <2>1, <2>6
  <2> QED
    BY <1>2, <2>3, <2>4, <2>5, <2>6 DEF Ready
<1>12. Good(g, F, n + 1)
  BY <1>2, <1>10, <1>11 DEF Good
<1> QED
  BY <1>12 DEF g

\* What is called back next, and what is called back after it.
LEMMA DoneGrows ==
  ASSUME NEW s \in Seq(Completion), OneStatus(s), NEW c \in Completion,
         IsStatus(c) => ~HasStatus(s)
  PROVE  LET u == Append(s, c)
         IN /\ u \in Seq(Completion) /\ Len(u) = Len(s) + 1 /\ OneStatus(u)
            /\ HasStatus(u) <=> HasStatus(s) \/ IsStatus(c)
<1> DEFINE u == Append(s, c)
           L == Len(s)
<1>1. /\ u \in Seq(Completion) /\ L \in Nat /\ Len(u) = L + 1 /\ u[L + 1] = c
      /\ \A i \in 1..L : u[i] = s[i]
  BY AppendProperties, LenProperties
<1> HIDE DEF u, L
<1>2. \A i \in 1..L + 1 : i = L + 1 \/ i \in 1..L
  BY <1>1
<1>3. 1..L \subseteq 1..L + 1 /\ L + 1 \in 1..L + 1
  BY <1>1
<1>4. OneStatus(u)
  <2> SUFFICES ASSUME NEW i \in 1..L + 1, NEW j \in 1..L + 1, IsStatus(u[i]), IsStatus(u[j])
               PROVE  i = j
    BY <1>1 DEF OneStatus
  <2>1. CASE i \in 1..L /\ j \in 1..L
    BY <1>1, <2>1 DEF OneStatus, L
  <2>2. CASE i \in 1..L /\ j = L + 1
    BY <1>1, <2>2 DEF HasStatus, L
  <2>3. CASE j \in 1..L /\ i = L + 1
    BY <1>1, <2>3 DEF HasStatus, L
  <2> QED
    BY <1>2, <2>1, <2>2, <2>3
<1>5. HasStatus(u) <=> HasStatus(s) \/ IsStatus(c)
  BY <1>1, <1>2, <1>3 DEF HasStatus, L
<1> QED
  BY <1>1, <1>4, <1>5 DEF u, L

LEMMA DoneShrinks ==
  ASSUME NEW s \in Seq(Completion), OneStatus(s), s # <<>>
  PROVE  LET u == Tail(s)
         IN /\ Head(s) \in Completion /\ u \in Seq(Completion) /\ Len(u) = Len(s) - 1
            /\ OneStatus(u)
            /\ IsStatus(Head(s)) => HasStatus(s) /\ ~HasStatus(u)
            /\ ~IsStatus(Head(s)) => (HasStatus(u) <=> HasStatus(s))
<1> DEFINE u == Tail(s)
           L == Len(s)
           c == Head(s)
<1>1. /\ u \in Seq(Completion) /\ L \in Nat /\ L >= 1 /\ Len(u) = L - 1
      /\ c \in Completion /\ c = s[1]
      /\ \A i \in 1..L - 1 : u[i] = s[i + 1]
  BY HeadTailProperties, EmptySeq, LenProperties, ElementOfSeq
<1> HIDE DEF u, L, c
<1>2. /\ \A i \in 1..L - 1 : i + 1 \in 1..L /\ i + 1 # 1
      /\ \A i, j \in 1..L - 1 : i + 1 = j + 1 => i = j
      /\ \A i \in 1..L : i = 1 \/ (i - 1 \in 1..L - 1 /\ (i - 1) + 1 = i)
      /\ 1 \in 1..L
  BY <1>1
<1>3. OneStatus(u)
  BY <1>1, <1>2 DEF OneStatus, L
<1>4. IsStatus(c) => HasStatus(s) /\ ~HasStatus(u)
  BY <1>1, <1>2 DEF OneStatus, HasStatus, L
<1>5. ~IsStatus(c) => (HasStatus(u) <=> HasStatus(s))
  <2>1. HasStatus(u) => HasStatus(s)
    BY <1>1, <1>2 DEF HasStatus, L
  <2>2. ASSUME ~IsStatus(c), HasStatus(s) PROVE HasStatus(u)
    <3>1. PICK i \in 1..L : IsStatus(s[i])
      BY <2>2 DEF HasStatus, L
    <3>2. i - 1 \in 1..L - 1 /\ (i - 1) + 1 = i
      BY <1>1, <1>2, <2>2, <3>1
    <3> QED
      BY <1>1, <3>1, <3>2 DEF HasStatus
  <2> QED
    BY <2>1, <2>2
<1> QED
  BY <1>1, <1>3, <1>4, <1>5 DEF u, L, c

-----------------------------------------------------------------------------
(***************************************************************************)
(* Each action keeps the invariant.                                        *)
(***************************************************************************)
\* What the dongle holds only grows with a request that it takes.
LEMMA AloneStep ==
  ASSUME LinkInv, P!Alone, Bus', Good(host', InDonglesHands, Taken')
  PROVE  LinkInv'
<1>1. P!RInv' /\ P!OrderInv' /\ (P!Gone \cup P!Announced)' \subseteq InDonglesHands
  BY DongleAssumptions, P!AloneOrder DEF LinkInv, InDonglesHands
<1>2. Good(host', InDonglesHands', Taken')
  BY <1>1, GoodLess DEF InDonglesHands
<1> QED
  BY <1>1, <1>2 DEF LinkInv

\* Those of the program leave the dongle and the bus alone.
LEMMA ProgramStep ==
  ASSUME LinkInv, UNCHANGED <<dongle, bus>>, Good(host', InDonglesHands, Taken)
  PROVE  LinkInv'
<1>1. P!Alone
  BY SameDongle
<1>2. Bus' /\ Taken' = Taken
  BY DEF dongle, bus, LinkInv, Bus, Taken, OneStatus, HasStatus, One
<1> QED
  BY <1>1, <1>2, AloneStep

LEMMA GoodLive ==
  ASSUME LinkInv, Running
  PROVE  Live(host, InDonglesHands, Taken) /\ Taken \in Int
  BY TakenType DEF LinkInv, Good, Live, Running

LEMMA SubmitStep ==
  ASSUME LinkInv, NoSweeps, NEW d \in Menu, Submit(d)
  PROVE  LinkInv'
<1>1. d \in Program
  BY MenuAssumption DEF NoSweeps, Program, Descriptor
<1>2. Live(host, InDonglesHands, Taken) /\ Taken \in Int
  BY GoodLive DEF Submit
<1>3. Good(host', InDonglesHands, Taken)
  BY <1>1, <1>2, SubmitLive, LiveGood DEF Submit
<1> QED
  BY <1>3, ProgramStep DEF Submit

LEMMA PingAgainStep ==
  ASSUME LinkInv, PingAgain
  PROVE  LinkInv'
<1>1. Live(host, InDonglesHands, Taken) /\ Taken \in Int
  BY GoodLive DEF PingAgain
<1>2. Len(host.xfers) \in 1..Len(host.xfers)
  BY <1>1, LiveHost DEF PingAgain
<1>3. Good(host', InDonglesHands, Taken)
  BY <1>1, <1>2, SubmitAgainLive, LiveGood DEF PingAgain
<1> QED
  BY <1>3, ProgramStep DEF PingAgain

\* To cancel a transfer throws, whether it is current, in the queue or neither.
LEMMA CancelGood ==
  ASSUME NEW E, NEW n \in Int, NEW h, Live(h, E, n), NEW t \in 1..Len(h.xfers), NEW m
  PROVE  Good(cancel(h, t), E, m)
<1>1. CASE ~Contains(h.queue, t)
  BY <1>1, ThrowGood DEF cancel, Exceptions
<1>2. CASE Contains(h.queue, t)
  <2> DEFINE q == Remove(h.queue, t)
             x == h.xfers[t]
             y == StatusXfer(x, "CANCELLED")
             f == [h EXCEPT !.queue = q]
             told == [f EXCEPT !.xfers[t].status = "CANCELLED"]
             what == "Attempt to complete transfer not current"
             g == Throw(told, what)
  <2>1. /\ h \in HostType /\ x \in Xfer /\ Sane(h, E) /\ Len(h.queue) \in Nat
    BY LiveHost, HostSeqs DEF Live
  <2>2. x.d.resubmits = 0
    BY <2>1 DEF Xfer, XferType, Program
  <2>3. h.currentTransfer # t
    <3>1. /\ Started(h) \in Nat /\ h.currentTransfer \in {NoTransfer, Started(h)}
          /\ \A i \in 1..Len(h.queue) : h.queue[i] = Started(h) + i
      BY DEF Live, Ready, QueueIsRest
    <3>2. PICK i \in 1..Len(h.queue) : h.queue[i] = t
      BY <1>2 DEF Contains
    <3>3. t = Started(h) + i /\ i \in Nat /\ i > 0
      BY <2>1, <3>1, <3>2
    <3> QED
      BY <3>1, <3>3 DEF NoTransfer
  <2>4. cancel(h, t) = updateTransferStatus(f, t, "CANCELLED")
    BY <1>2 DEF cancel
  <2> HIDE DEF q
  <2>5. f.currentTransfer = h.currentTransfer /\ f.xfers = h.xfers /\ f.ep0 = h.ep0
        /\ {"ep0", "thrown", "currentTransfer", "xfers"} \subseteq DOMAIN f
    BY <2>1 DEF HostType
  <2> HIDE DEF f
  <2>6. told.currentTransfer = h.currentTransfer /\ told.ep0 = h.ep0
        /\ {"ep0", "thrown"} \subseteq DOMAIN told
    BY <2>5
  <2>7. updateTransferStatus(f, t, "CANCELLED") = transferCompleted(told, t)
    BY <2>2, <2>5 DEF updateTransferStatus
  <2> HIDE DEF told
  <2>8. transferCompleted(told, t) = g
    BY <2>3, <2>6 DEF transferCompleted
  <2>9. /\ g.ep0 = h.ep0 /\ g.thrown = what /\ {"ep0", "thrown"} \subseteq DOMAIN g
    BY <2>6 DEF Throw
  <2> HIDE DEF g
  <2>10. Sane(g, E)
    BY <2>1, <2>9 DEF Sane
  <2> QED
    BY <2>4, <2>7, <2>8, <2>9, <2>10 DEF Good
<1> QED
  BY <1>1, <1>2

LEMMA CancelStep ==
  ASSUME LinkInv, NEW t \in 1..Len(host.xfers), Cancel(t)
  PROVE  LinkInv'
<1>1. Live(host, InDonglesHands, Taken) /\ Taken \in Int
  BY GoodLive DEF Cancel
<1>2. Good(host', InDonglesHands, Taken)
  BY <1>1, CancelGood DEF Cancel
<1> QED
  BY <1>2, ProgramStep DEF Cancel

\* The oldest completion is called back.
LEMMA CallbackStep ==
  ASSUME LinkInv, Callback
  PROVE  LinkInv'
<1> DEFINE c == Head(done)
           E == InDonglesHands
<1>1. Live(host, E, Taken) /\ Taken \in Int
  BY GoodLive DEF Callback, TakesCompletion, InLoop
<1>2. /\ done \in Seq(Completion) /\ OneStatus(done) /\ done # <<>> /\ done' = Tail(done)
      /\ UNCHANGED <<dongle, serving>>
  BY DEF LinkInv, Bus, Callback, TakesCompletion
<1>3. /\ c \in Completion /\ done' \in Seq(Completion) /\ Len(done') = Len(done) - 1
      /\ OneStatus(done')
      /\ IsStatus(c) => HasStatus(done) /\ ~HasStatus(done')
      /\ ~IsStatus(c) => (HasStatus(done') <=> HasStatus(done))
      /\ Len(done) \in Nat
  BY <1>2, DoneShrinks, LenProperties
<1>4. Bus' /\ request' = request /\ phase' = phase
  BY <1>2, <1>3 DEF LinkInv, Bus, dongle
<1>5. /\ One(request.rq # "NONE") \in Int /\ One(phase = "hung") \in Int
      /\ One(serving.rq # "NONE") \in Int
  BY DEF One
<1>8. P!Alone
  BY <1>2, SameDongle
<1> HIDE DEF E, c
<1>6. CASE IsStatus(c)
  <2>1. Taken' = Taken
    BY <1>2, <1>3, <1>4, <1>5, <1>6 DEF Taken, One
  <2>2. StatusNumbers(c.status)
    BY <1>3, <1>6 DEF Completion, Served, IsStatus, P!StatusType, StatusNumbers
  <2>3. host' = statusUpdateArrived(host, c.status, host.currentTransfer \in late)
    BY <1>6 DEF Callback, IsStatus, c
  <2>4. Live(host', E, Taken)
    BY <1>1, <2>2, <2>3, StatusArrivedLive
  <2>5. Good(host', E, Taken')
    BY <1>1, <2>1, <2>4, LiveGood
  <2> QED
    BY <1>4, <1>8, <2>5, AloneStep DEF E
<1>7. CASE ~IsStatus(c)
  <2>1. Taken' = Taken - 1
    BY <1>2, <1>3, <1>4, <1>5, <1>7 DEF Taken, One
  <2>2. /\ c.rq \in {"RQ_WRITE", "RQ_READ", "RQ_MODE", "RQ_CONFIG", "RQ_OPEN_PIPE"}
        /\ c.rq = "RQ_READ" => c.reply.packet \in Numbered
    BY <1>3, <1>7 DEF Completion, Served, IsStatus
  <2>3. host' = Completed(host, c)
    BY <1>7 DEF Callback, IsStatus, c
  <2>4. Good(host', E, Taken')
    BY <1>1, <2>1, <2>2, <2>3, CompletedGood
  <2> QED
    BY <1>4, <1>8, <2>4, AloneStep DEF E
<1> QED
  BY <1>6, <1>7

LEMMA StatusStageStep ==
  ASSUME LinkInv, StatusStage
  PROVE  LinkInv'
<1>1. P!Alone
  BY SameDongle DEF StatusStage
<1>2. /\ done \in Seq(Completion) /\ OneStatus(done) /\ serving \in Served
      /\ done' = Append(done, serving) /\ serving' = NoCompletion
      /\ host' = host /\ request' = request /\ phase' = phase
  BY DEF StatusStage, LinkInv, Bus, program, dongle
<1>3. serving \in Completion /\ ~IsStatus(serving) /\ serving.rq # "NONE"
  BY <1>2 DEF Completion, Served, IsStatus
<1>4. /\ done' \in Seq(Completion) /\ Len(done') = Len(done) + 1 /\ OneStatus(done')
      /\ HasStatus(done') <=> HasStatus(done)
  BY <1>2, <1>3, DoneGrows
<1>5. Bus'
  BY <1>2, <1>4 DEF Bus
<1>6. Taken' = Taken
  <2>1. /\ One(request.rq # "NONE") \in Int /\ One(phase = "hung") \in Int
        /\ One(HasStatus(done)) \in Int /\ Len(done) \in Nat
    BY <1>2, LenProperties DEF One
  <2>2. One(serving.rq # "NONE") = 1 /\ One(serving'.rq # "NONE") = 0
    BY <1>2, <1>3 DEF One, NoCompletion
  <2>3. One(HasStatus(done')) = One(HasStatus(done))
    BY <1>4 DEF One
  <2> QED
    BY <1>2, <1>4, <2>1, <2>2, <2>3 DEF Taken
<1>7. Good(host', InDonglesHands, Taken')
  BY <1>2, <1>6 DEF LinkInv
<1> QED
  BY <1>1, <1>5, <1>7, AloneStep

LEMMA CollectStatusStep ==
  ASSUME LinkInv, CollectStatus
  PROVE  LinkInv'
<1> DEFINE c == [rq |-> "STATUS", status |-> intMsg]
<1>1. P!Alone
  BY SameDongle DEF CollectStatus
<1>2. /\ done \in Seq(Completion) /\ OneStatus(done) /\ ~HasStatus(done)
      /\ done' = Append(done, c) /\ serving' = serving
      /\ host' = host /\ request' = request /\ phase' = phase
  BY <1>1, DongleAssumptions, P!AloneNotes
     DEF CollectStatus, LinkInv, Bus, program, HasStatus, IsStatus, D!HostTakesInterrupt, D!firmware
<1>3. c \in Completion /\ IsStatus(c)
  <2>1. intMsg \in P!StatusType
    BY DEF CollectStatus, D!HostTakesInterrupt, D!NoMessage, P!NoMessage,
           LinkInv, P!RInv, P!IInv, P!TypeOK
  <2> QED
    BY <2>1 DEF Completion, IsStatus
<1> HIDE DEF c
<1>4. /\ done' \in Seq(Completion) /\ Len(done') = Len(done) + 1 /\ OneStatus(done')
      /\ HasStatus(done')
  BY <1>2, <1>3, DoneGrows
<1>5. Bus'
  BY <1>2, <1>4 DEF Bus, LinkInv
<1>6. Taken' = Taken
  <2>1. /\ One(request.rq # "NONE") \in Int /\ One(phase = "hung") \in Int
        /\ One(serving.rq # "NONE") \in Int /\ Len(done) \in Nat
    BY <1>2, LenProperties DEF One
  <2>2. One(HasStatus(done)) = 0 /\ One(HasStatus(done')) = 1
    BY <1>2, <1>4 DEF One
  <2>3. /\ One(request'.rq # "NONE") = One(request.rq # "NONE")
        /\ One(phase' = "hung") = One(phase = "hung")
        /\ One(serving'.rq # "NONE") = One(serving.rq # "NONE")
    BY <1>2
  <2> DEFINE a == One(request.rq # "NONE")
             b == One(phase = "hung")
             s == One(serving.rq # "NONE")
             n == Len(done)
  <2>4. /\ Taken = a + b + s + n - One(HasStatus(done))
        /\ Taken' = a' + b' + s' + n' - One(HasStatus(done'))
    BY DEF Taken
  <2>5. a' = a /\ b' = b /\ s' = s /\ n' = n + 1
    BY <1>4, <2>3
  <2>6. a \in Int /\ b \in Int /\ s \in Int /\ n \in Int
    BY <2>1
  <2> HIDE DEF a, b, s, n
  <2> QED
    BY <2>2, <2>4, <2>5, <2>6
<1>7. Good(host', InDonglesHands, Taken')
  BY <1>2, <1>6 DEF LinkInv
<1> QED
  BY <1>1, <1>5, <1>7, AloneStep

LEMMA DongleStep ==
  ASSUME LinkInv, DongleRuns \/ Acknowledged \/ Unanswered \/ Receives
  PROVE  LinkInv'
<1>1. P!Alone /\ UNCHANGED <<program, bus>>
  BY SameDongle DEF DongleRuns, Acknowledged, Unanswered, Receives
<1>2. request' = request /\ (phase = "hung") = (phase' = "hung")
  BY <1>1, DongleAssumptions, P!AloneNotes
<1>3. Bus' /\ Taken' = Taken /\ host' = host
  BY <1>1, <1>2 DEF program, bus, LinkInv, Bus, Taken, OneStatus, HasStatus, One
<1>4. Good(host', InDonglesHands, Taken')
  BY <1>3 DEF LinkInv
<1> QED
  BY <1>1, <1>3, <1>4, AloneStep

LEMMA TakesDataStep ==
  ASSUME LinkInv, DongleTakesData
  PROVE  LinkInv'
<1>1. P!Data /\ UNCHANGED <<host, done>>
  BY SameDongle DEF DongleTakesData, program
<1>2. /\ P!RInv' /\ P!OrderInv' /\ (P!Gone \cup P!Announced)' \subseteq InDonglesHands
  BY <1>1, DongleAssumptions, P!DataOrder DEF LinkInv, InDonglesHands
<1>3. phase = "poll" /\ request' = P!NoRequest /\ request.rq \in P!OutRequests
  BY <1>1, DongleAssumptions, P!DataNotes
<1>4. serving = NoCompletion
  BY <1>3 DEF LinkInv, Bus, P!OutRequests, P!NoRequest
<1>5. serving' = IF phase' = "hung" THEN NoCompletion ELSE [rq |-> request.rq]
  BY DEF DongleTakesData
<1>6. Bus'
  BY <1>1, <1>3, <1>5 DEF LinkInv, Bus, OneStatus, Served, P!OutRequests
<1>7. Taken' = Taken
  <2>1. /\ One(request.rq # "NONE") = 1 /\ One(request'.rq # "NONE") = 0
        /\ One(serving.rq # "NONE") = 0 /\ One(phase = "hung") = 0
        /\ One(serving'.rq # "NONE") + One(phase' = "hung") = 1
        /\ One(phase' = "hung") \in Int /\ One(serving'.rq # "NONE") \in Int
    BY <1>3, <1>4, <1>5 DEF One, NoCompletion, P!OutRequests, P!NoRequest
  <2>2. Len(done) \in Nat /\ One(HasStatus(done)) \in Int
    BY LenProperties DEF One, LinkInv, Bus
  <2>3. done' = done /\ HasStatus(done') = HasStatus(done)
    BY <1>1 DEF HasStatus
  <2> QED
    BY <2>1, <2>2, <2>3 DEF Taken
<1>8. Good(host', InDonglesHands', Taken')
  BY <1>1, <1>2, <1>7, GoodLess DEF LinkInv, InDonglesHands
<1> QED
  BY <1>2, <1>6, <1>8 DEF LinkInv

LEMMA TakesRequestStep ==
  ASSUME LinkInv, DongleTakesRequest
  PROVE  LinkInv'
<1> DEFINE rq == Head(host.ep0)
<1>1. /\ P!Setup(rq) /\ host' = Takes(host) /\ host.ep0 # <<>> /\ serving = NoCompletion
      /\ serving' = (IF rq.rq \in P!OutRequests THEN NoCompletion
                       ELSE [rq |-> rq.rq, reply |-> P!ReadReply])
      /\ done' = done
  BY SameDongle DEF DongleTakesRequest, Takes
<1>2. host.ep0 \in Seq(HostRequest) /\ rq \in HostRequest /\ rq = host.ep0[1] /\ 1 \in 1..Len(host.ep0)
  BY <1>1, HeadTailProperties, EmptySeq, LenProperties, ElementOfSeq DEF LinkInv, Good, Sane
<1>3. rq \in P!Request
  BY <1>2 DEF HostRequest, Modes, Numbered, P!Request, P!Mode, P!Packet
<1>4. rq.rq = "RQ_WRITE" => P!AllBefore(P!Gone, {rq.packet})
  <2>1. P!AllBefore(InDonglesHands, Writes(host.ep0))
    BY DEF LinkInv, Good, Sane
  <2>2. rq.rq = "RQ_WRITE" => rq.packet \in Writes(host.ep0)
    BY <1>2 DEF Writes, IsWrite
  <2> QED
    BY <2>1, <2>2 DEF P!AllBefore, InDonglesHands
<1>5. P!RInv' /\ P!OrderInv' /\ (P!Gone)' \subseteq P!Gone
  BY <1>1, <1>3, <1>4, DongleAssumptions, P!SetupOrder DEF LinkInv
<1>6. /\ phase = "poll" /\ request = P!NoRequest /\ phase' # "hung"
      /\ request' = IF rq.rq \in P!OutRequests THEN rq ELSE P!NoRequest
  BY <1>1, DongleAssumptions, P!SetupNotes
<1> HIDE DEF rq
<1>7. rq.rq \in {"RQ_MODE", "RQ_READ", "RQ_CONFIG", "RQ_WRITE", "RQ_OPEN_PIPE"}
  BY <1>2 DEF HostRequest
<1>8. serving' \in Served \cup {NoCompletion}
  <2>1. P!ReadReply \in [packet : Numbered, more : BOOLEAN]
    <3>1. P!ReadReply.packet \in Numbered
      BY DongleAssumptions, P!ReadReplyType DEF LinkInv, Numbered, P!Packet
    <3>2. CASE P!cb_is_empty(P!ReadRing)
      <4>1. P!ReadReply = [packet |-> P!NoPacket, more |-> FALSE]
        BY <3>2 DEF P!ReadReply
      <4> QED
        BY <3>1, <4>1
    <3>3. CASE ~P!cb_is_empty(P!ReadRing)
      <4> DEFINE packet == pcks[P!Oldest(P!ReadRing)]
                 more == P!ReadRing.count > 1
      <4>1. P!ReadReply = [packet |-> packet, more |-> more] /\ more \in BOOLEAN
        BY <3>3 DEF P!ReadReply
      <4> HIDE DEF packet, more
      <4> QED
        BY <3>1, <4>1
    <3> QED
      BY <3>2, <3>3
  <2> QED
    BY <1>1, <1>7, <2>1 DEF Served, P!OutRequests
<1>9. Bus'
  BY <1>1, <1>6, <1>8 DEF LinkInv, Bus, OneStatus
<1>10. Taken' = Taken + 1
  <2>1. /\ One(request.rq # "NONE") = 0 /\ One(serving.rq # "NONE") = 0
        /\ One(phase = "hung") = 0 /\ One(phase' = "hung") = 0
        /\ One(request'.rq # "NONE") + One(serving'.rq # "NONE") = 1
        /\ One(request'.rq # "NONE") \in Int /\ One(serving'.rq # "NONE") \in Int
    BY <1>1, <1>6, <1>7 DEF One, NoCompletion, P!OutRequests, P!NoRequest
  <2>2. Len(done) \in Nat /\ One(HasStatus(done)) \in Int
    BY LenProperties DEF One, LinkInv, Bus
  <2>3. HasStatus(done') = HasStatus(done)
    BY <1>1 DEF HasStatus
  <2> QED
    BY <1>1, <2>1, <2>2, <2>3 DEF Taken
<1>11. InDonglesHands' \subseteq InDonglesHands \cup Writes(<<rq>>)
  <2>1. (P!Announced)' \subseteq Writes(<<rq>>)
    BY <1>6 DEF P!Announced, Writes, IsWrite, P!NoRequest
  <2> QED
    BY <1>5, <2>1 DEF InDonglesHands
<1>12. Good(host', InDonglesHands', Taken')
  <2>1. Good(host, InDonglesHands, Taken) /\ Taken \in Int
    BY TakenType DEF LinkInv
  <2> QED
    BY <1>1, <1>10, <1>11, <2>1, TakesGood DEF rq
<1> QED
  BY <1>5, <1>9, <1>12 DEF LinkInv

LEMMA LinkInit ==
  ASSUME Init
  PROVE  LinkInv
<1>1. P!RInv /\ P!OrderInv
  BY SameDongle, DongleAssumptions, P!RInvInit, P!OrderInit DEF Init
<1>2. Bus
  BY DEF Init, D!Init, Bus, NoCompletion, OneStatus, D!NoRequest, P!NoRequest
<1>3. Taken = 0
  BY DEF Init, D!Init, Taken, One, NoCompletion, HasStatus, D!NoRequest
<1>4. InDonglesHands = {}
  BY SameDongle, DongleAssumptions, P!NothingAtFirst DEF Init, InDonglesHands
<1>5. Good(host, {}, 0)
  <2>1. /\ host = HostInit /\ Len(host.queue) = 0 /\ Len(host.xfers) = 0 /\ Len(host.ep0) = 0
    BY EmptySeq DEF Init, HostInit
  <2>2. Sane(host, {})
    BY <2>1, EmptySeq DEF HostInit, Sane, WritesAscend, P!AllBefore
  <2>3. host \in HostType
    BY <2>1, EmptySeq DEF HostInit, HostType, NoTransfer, Modes
  <2>4. Started(host) = 0 /\ QueueIsRest(host)
    BY <2>1 DEF HostInit, Started, QueueIsRest, NoTransfer
  <2>5. Used(host, {}) /\ Used(host, Writes(host.ep0))
    BY <2>1 DEF Used, Writes
  <2>6. Ready(host, {}, 0)
    BY <2>1, <2>3, <2>4, <2>5 DEF Ready, HostInit
  <2> QED
    BY <2>1, <2>2, <2>6 DEF Good, HostInit
<1> QED
  BY <1>1, <1>2, <1>3, <1>4, <1>5 DEF LinkInv

LEMMA LinkNext ==
  ASSUME NoSweeps, LinkInv, [Next]_vars
  PROVE  LinkInv'
<1>1. ASSUME NEW t \in 1..Len(host.xfers), TimeUp(t)
      PROVE  LinkInv'
  BY <1>1, ProgramStep DEF TimeUp, LinkInv
<1>2. CASE Return
  BY <1>2, ProgramStep DEF Return, LinkInv
<1>3. CASE UNCHANGED vars
  BY <1>3, ProgramStep DEF vars, program, LinkInv
<1> QED
  BY <1>1, <1>2, <1>3, SubmitStep, PingAgainStep, CancelStep, CallbackStep, TakesRequestStep,
     TakesDataStep, StatusStageStep, CollectStatusStep, DongleStep DEF Next

LEMMA LinkAlways ==
  ASSUME NoSweeps
  PROVE  Spec => []LinkInv
  BY LinkInit, LinkNext, PTL DEF Spec

-----------------------------------------------------------------------------
(***************************************************************************)
(* What follows.                                                           *)
(***************************************************************************)
LEMMA RequestsAreCounted ==
  ASSUME LinkInv
  PROVE  PendingIosExact
<1> SUFFICES ASSUME Running PROVE host.numIosPending = Outstanding
  BY DEF PendingIosExact
<1>1. host.numIosPending = Len(host.ep0) + Taken /\ Len(host.ep0) \in Nat /\ Taken \in Int
  BY TakenType, HostSeqs DEF LinkInv, Good, Ready, Running
<1>2. HasStatus(done) = \E i \in 1..Len(done) : done[i].rq = "STATUS"
  BY DEF HasStatus, IsStatus
<1> DEFINE a == One(request.rq # "NONE")
           b == One(phase = "hung")
           s == One(serving.rq # "NONE")
           n == Len(done)
           o == One(HasStatus(done))
           e == Len(host.ep0)
<1>3. Taken = a + b + s + n - o /\ Outstanding = e + a + b + s + n - o
  BY <1>2 DEF Taken, Outstanding
<1>4. a \in Int /\ b \in Int /\ s \in Int /\ n \in Int /\ o \in Int /\ e \in Int
  BY <1>1, LenProperties DEF One, LinkInv, Bus
<1>5. host.numIosPending = e + Taken
  BY <1>1
<1> HIDE DEF a, b, s, n, o, e
<1> QED
  BY <1>3, <1>4, <1>5

LEMMA AirIsInOrder ==
  ASSUME LinkInv
  PROVE  InOrderOnce
  BY DEF LinkInv, P!OrderInv, P!InLine, P!Ascending, P!Before, InOrderOnce

\* numIosPending is the number of requests on their way: for any number of transfers,
\* however they are queued, cancelled or timed out, whatever the dongle and the air
\* do, and up to the exception that ends a program.  packetWritten, bufferReadDone and
\* statusUpdateArrived (rf24libusbadaptor.cpp) ask for a status when it is 0.
THEOREM PendingIosAreExact ==
  ASSUME NoSweeps
  PROVE  Spec => []PendingIosExact
<1>1. LinkInv => PendingIosExact
  BY RequestsAreCounted
<1> QED
  BY <1>1, LinkAlways, PTL

\* Packets reach the air in the order in which the program wrote them, each at most
\* once: through the host's queue, the control endpoint, the ring, the radio's FIFO
\* and its retries, with any number of transfers, some of them cancelled or timed out,
\* and rings of any size.
THEOREM PacketsInOrderOnce ==
  ASSUME NoSweeps
  PROVE  Spec => []InOrderOnce
<1>1. LinkInv => InOrderOnce
  BY AirIsInOrder
<1> QED
  BY <1>1, LinkAlways, PTL

-----------------------------------------------------------------------------
(***************************************************************************)
(* A program that configures and writes, one transfer after the other.     *)
(***************************************************************************)
IsWriter(d) == d.kind \in {"conf", "stream", "bulk"} /\ (d.kind # "conf" => d.size > 0)

\* Only the current transfer, the last one, is under way.
InTurn(h) ==
  /\ h \in HostType /\ h.thrown = "nothing" /\ h.queue = <<>>
  /\ h.currentTransfer \in {NoTransfer, Len(h.xfers)}
  /\ h.countToRead = 0 /\ h.currentMode # "READ" /\ h.nextMode # "READ"
  /\ \A t \in 1..Len(h.xfers) :
       /\ IsWriter(h.xfers[t].d)
       /\ h.xfers[t].status = "QUEUED" <=> t = h.currentTransfer
       /\ t # h.currentTransfer => h.xfers[t].numWriting = 0
       /\ h.xfers[t].status = "COMPLETED" => h.xfers[t].sent = ToSend(h.xfers[t].d)

\* Nothing is under way; the mode or the configuration is being changed; packets are
\* being written or, when there are none left to call back, the status is awaited.
Rests(h) == h.numIosPending = 0 /\ h.canXfer /\ ~h.interruptIsRunning
Blocked(h) ==
  /\ h.numIosPending = 1 /\ ~h.canXfer /\ ~h.interruptIsRunning /\ h.countToWrite = 0
  /\ Current(h).numWriting = 0 /\ Current(h).sent = 0
  /\ Current(h).d.kind # "conf" => h.nextMode = transferMode(Current(h).d)
ModeFits(h) ==
  Current(h).d.kind # "conf" => h.currentMode = transferMode(Current(h).d)
Flowing(h) ==
  /\ h.canXfer /\ ModeFits(h)
  /\ h.numIosPending = Current(h).numWriting /\ h.numIosPending \in Nat
  /\ h.interruptIsRunning <=> h.numIosPending = 0
  /\ Current(h).d.kind = "conf" => h.numIosPending = 0

OneByOne(h) ==
  InTurn(h) /\ IF HasCurrent(h) THEN Blocked(h) \/ Flowing(h) ELSE Rests(h)

\* The current transfer is about to be served.
Served1(h) ==
  /\ InTurn(h) /\ HasCurrent(h) /\ ModeFits(h)
  /\ h.canXfer /\ h.numIosPending = 0 /\ ~h.interruptIsRunning
  /\ Current(h).numWriting = 0

\* What serving leaves alone.
SameCourse(g, h) ==
  /\ g.queue = h.queue /\ g.thrown = h.thrown /\ g.currentTransfer = h.currentTransfer
  /\ g.canXfer = h.canXfer /\ g.currentMode = h.currentMode /\ g.nextMode = h.nextMode

\* The current transfer sends w more packets, or asks for the status.
FlowsTo(g, h, w) ==
  /\ g \in HostType /\ SameCourse(g, h) /\ g.countToRead = 0
  /\ g.ep0 = h.ep0 \o RoundRobin(h.currentTransfer, Current(h).sent, w, 0)
  /\ g.numIosPending = w /\ g.countToWrite = h.countToWrite - w
  /\ g.interruptIsRunning <=> w = 0
  /\ Len(g.xfers) = Len(h.xfers)
  /\ \A t \in 1..Len(h.xfers) : t # h.currentTransfer => g.xfers[t] = h.xfers[t]
  /\ Current(g) = Sending(Current(h), Current(h).sent + w, w)

CreditLeft(g, h, cw, cr) ==
  /\ SameCourse(g, h) /\ g.interruptIsRunning = h.interruptIsRunning
  /\ g.countToWrite = cw /\ g.countToRead = cr

LEMMA PumpedRest ==
  ASSUME NEW h \in HostType, NEW s, NEW n, NEW cw, NEW cr, NEW X
  PROVE  CreditLeft(Pumped(h, s, n, cw, cr, X), h, cw, cr)
  BY DEF HostType, Pumped, SameCourse, CreditLeft

LEMMA RequestStatusFields ==
  ASSUME NEW h \in HostType
  PROVE  LET g == requestStatus(h) IN
         /\ g \in HostType /\ SameCourse(g, h) /\ g.interruptIsRunning
         /\ g.countToWrite = h.countToWrite /\ g.countToRead = h.countToRead
         /\ g.xfers = h.xfers /\ g.ep0 = h.ep0 /\ g.numIosPending = h.numIosPending
  BY DEF HostType, requestStatus, SameCourse

LEMMA WriterMode ==
  ASSUME NEW d, IsWriter(d)
  PROVE  /\ d.kind = "conf" <=> transferMode(d) = "ANY"
         /\ d.kind = "stream" <=> transferMode(d) = "WRITE_STREAM"
         /\ d.kind = "bulk" <=> transferMode(d) = "WRITE_BULK"
  BY DEF IsWriter, transferMode

LEMMA CurrentOfTurn ==
  ASSUME NEW h, InTurn(h), HasCurrent(h)
  PROVE  /\ h.currentTransfer = Len(h.xfers) /\ h.currentTransfer \in 1..Len(h.xfers)
         /\ Current(h) \in Xfer /\ IsWriter(Current(h).d) /\ Current(h).status = "QUEUED"
         /\ Current(h).sent \in Nat /\ Current(h).numWriting \in Int
         /\ Current(h).sent <= ToSend(Current(h).d) /\ ToSend(Current(h).d) \in Nat
         /\ h.xfers \in Seq(Xfer)
<1>1. h.currentTransfer = Len(h.xfers) /\ Len(h.xfers) \in Nat /\ h.currentTransfer # 0
  BY HostSeqs DEF InTurn, HasCurrent, NoTransfer
<1>2. h.currentTransfer \in 1..Len(h.xfers)
  BY <1>1
<1>3. Current(h) \in Xfer /\ h.xfers \in Seq(Xfer)
  BY <1>2, HostSeqs DEF InTurn, Current
<1>4. IsWriter(Current(h).d) /\ Current(h).status = "QUEUED"
  BY <1>2 DEF InTurn, Current
<1>5. /\ Current(h).sent \in Nat /\ Current(h).numWriting \in Int
      /\ Current(h).sent <= ToSend(Current(h).d) /\ Current(h).d \in Program
  BY <1>3 DEF Xfer, XferType
<1> QED
  BY <1>1, <1>2, <1>3, <1>4, <1>5, ToSendNat

LEMMA ServeFlows ==
  ASSUME NEW h, Served1(h)
  PROVE  \E w \in 0..h.countToWrite :
           FlowsTo(ServeCurrent(h), h, w) /\ Current(h).sent + w <= ToSend(Current(h).d)
<1> DEFINE t == h.currentTransfer
           x == Current(h)
           a == x.sent
           w == PumpWrites(h)
           new == RoundRobin(t, a, w, 0)
           y == Sending(x, a + w, w)
           X == [h.xfers EXCEPT ![t] = y]
           cw == h.countToWrite - w
           s == h.ep0 \o new
           p == Pumped(h, s, w, cw, 0, X)
           g == ServeCurrent(h)
<1>1. /\ h \in HostType /\ t \in 1..Len(h.xfers) /\ x \in Xfer /\ IsWriter(x.d)
      /\ a \in Nat /\ a <= ToSend(x.d) /\ ToSend(x.d) \in Nat /\ h.xfers \in Seq(Xfer)
      /\ x.numWriting = 0 /\ h.canXfer /\ h.numIosPending = 0 /\ ~h.interruptIsRunning
      /\ HasCurrent(h) /\ h.countToRead = 0 /\ ModeFits(h)
  BY CurrentOfTurn DEF Served1, InTurn
<1>2. /\ h.countToWrite \in Nat /\ h.ep0 \in Seq(HostRequest) /\ t \in Nat
  BY <1>1, HostFields, HostSeqs
<1>3. w \in Nat /\ w <= h.countToWrite /\ a + w <= ToSend(x.d)
  <2> DEFINE c == h.countToWrite
             b == ToSend(x.d) - a
  <2>1. c \in Nat /\ b \in Nat /\ nextForWrite(h) = b
    BY <1>1, <1>2 DEF nextForWrite
  <2>2. w = IF c <= b THEN c ELSE b
    BY <2>1, MinOfTwo DEF PumpWrites
  <2> HIDE DEF c
  <2>3. w \in Nat /\ w <= c /\ w <= b
    BY <2>1, <2>2
  <2>4. a + w <= ToSend(x.d)
    BY <1>1, <2>1, <2>3
  <2> QED
    BY <2>3, <2>4 DEF c
<1>4. nextForRead(h) = 0
  BY <1>1 DEF nextForRead
<1>5. Pump(h) = p
  <2>1. Pump(h) = [h EXCEPT
              !.ep0 = h.ep0 \o RoundRobin(h.currentTransfer, Current(h).sent,
                                          PumpWrites(h), nextForRead(h)),
              !.numIosPending = h.numIosPending + PumpWrites(h) + nextForRead(h),
              !.countToWrite = h.countToWrite - PumpWrites(h),
              !.countToRead = h.countToRead - nextForRead(h),
              !.xfers[h.currentTransfer] =
                 [Current(h) EXCEPT !.sent = Current(h).sent + PumpWrites(h),
                                    !.numWriting = Current(h).numWriting + PumpWrites(h)]]
    <3>1. PumpWrites(h) \in Nat /\ nextForRead(h) \in Nat /\ Current(h).sent \in Nat
      BY <1>1, <1>3, <1>4
    <3> QED
      BY <3>1, PumpIs
  <2>2. 0 + w + 0 = w /\ 0 - 0 = 0 /\ 0 + w = w
    BY <1>3
  <2> HIDE DEF t, x, a, w
  <2> QED
    BY <1>1, <1>4, <2>1, <2>2 DEF Pumped, Sending, t, x, a, w
<1>6. /\ new \in Seq(HostRequest) /\ s \in Seq(HostRequest)
  BY <1>1, <1>2, <1>3, RoundRobinSends, ConcatProperties
<1>7. y \in Xfer /\ cw \in Nat /\ w \in Int
  BY <1>1, <1>2, <1>3, SendingXfer
<1>8. /\ X \in Seq(Xfer) /\ Len(X) = Len(h.xfers) /\ X[t] = y
      /\ \A u \in 1..Len(h.xfers) : u # t => X[u] = h.xfers[u]
  BY <1>1, <1>7, ExceptSeq
<1> HIDE DEF t, x, a, w, y, X, cw, s, new
<1>9. After(p, h, s, w, X) /\ SameCourse(p, h) /\ ~p.interruptIsRunning
      /\ p.countToWrite = cw /\ p.countToRead = 0
  <2>1. h \in HostType /\ s \in Seq(HostRequest) /\ w \in Int /\ cw \in Nat /\ 0 \in Nat
        /\ X \in Seq(Xfer)
    BY <1>1, <1>6, <1>7, <1>8
  <2>2. After(p, h, s, w, X)
    BY <2>1, PumpedType
  <2>3. CreditLeft(p, h, cw, 0)
    BY <2>1, PumpedRest
  <2> QED
    BY <1>1, <2>2, <2>3 DEF CreditLeft
<1> HIDE DEF p
<1>10. g = IF w = 0 THEN requestStatus(p) ELSE p
  <2>1. HasCurrent(p) /\ p.numIosPending = w
    BY <1>1, <1>9 DEF HasCurrent, After
  <2>2. ~(transferMode(x.d) # "ANY" /\ transferMode(x.d) # h.currentMode)
    BY <1>1, WriterMode DEF ModeFits, IsWriter, x
  <2>3. g = RequestStatusIfQuiet(p)
    BY <1>1, <1>5, <2>2 DEF ServeCurrent, x
  <2> QED
    BY <2>1, <2>3 DEF RequestStatusIfQuiet
<1>11. /\ g \in HostType /\ SameCourse(g, h) /\ g.countToRead = 0 /\ g.countToWrite = cw
       /\ g.ep0 = s /\ g.numIosPending = w /\ g.xfers = X
       /\ g.interruptIsRunning <=> w = 0
  BY <1>9, <1>10, RequestStatusFields DEF After, SameCourse
<1>12. Current(g) = y
  BY <1>8, <1>11 DEF Current, SameCourse, t
<1> HIDE DEF g
<1>13. FlowsTo(g, h, w)
  BY <1>8, <1>11, <1>12 DEF FlowsTo, s, new, cw, y, t, x, a
<1> QED
  BY <1>2, <1>3, <1>13 DEF g, x, a

LEMMA FlowsOneByOne ==
  ASSUME NEW h, Served1(h), NEW g, NEW w \in Nat, FlowsTo(g, h, w),
         Current(h).sent + w <= ToSend(Current(h).d)
  PROVE  OneByOne(g) /\ HasCurrent(g) /\ Flowing(g)
<1> DEFINE t == h.currentTransfer
           x == Current(h)
           y == Sending(x, x.sent + w, w)
<1>1. /\ t = Len(h.xfers) /\ t \in 1..Len(h.xfers) /\ x \in Xfer /\ IsWriter(x.d)
      /\ x.status = "QUEUED" /\ x.sent \in Nat /\ ToSend(x.d) \in Nat
  BY CurrentOfTurn DEF Served1
<1>2. /\ g \in HostType /\ SameCourse(g, h) /\ g.countToRead = 0 /\ g.numIosPending = w
      /\ g.interruptIsRunning <=> w = 0
      /\ Len(g.xfers) = Len(h.xfers)
      /\ \A u \in 1..Len(h.xfers) : u # t => g.xfers[u] = h.xfers[u]
      /\ Current(g) = y /\ g.currentTransfer = t
  BY DEF FlowsTo, SameCourse
<1>3. y.d = x.d /\ y.status = "QUEUED" /\ y.numWriting = w
  BY <1>1 DEF Sending, Xfer, XferType
<1>4. g.xfers[t] = y
  BY <1>2 DEF Current
<1>5. x.d.kind = "conf" => w = 0
  <2> SUFFICES ASSUME x.d.kind = "conf" PROVE w = 0
    OBVIOUS
  <2>1. ToSend(x.d) = 0
    BY DEF ToSend
  <2> QED
    BY <1>1, <2>1
<1>6. InTurn(h) /\ HasCurrent(h) /\ ModeFits(h) /\ h.canXfer
  BY DEF Served1
<1> HIDE DEF y
<1>7. InTurn(g)
  <2>1. ASSUME NEW u \in 1..Len(g.xfers)
        PROVE  /\ IsWriter(g.xfers[u].d)
               /\ g.xfers[u].status = "QUEUED" <=> u = g.currentTransfer
               /\ u # g.currentTransfer => g.xfers[u].numWriting = 0
               /\ g.xfers[u].status = "COMPLETED" => g.xfers[u].sent = ToSend(g.xfers[u].d)
    <3>1. CASE u = t
      BY <1>1, <1>2, <1>3, <1>4, <3>1
    <3>2. CASE u # t
      BY <1>2, <1>6, <2>1, <3>2 DEF InTurn
    <3> QED
      BY <3>1, <3>2
  <2> QED
    BY <1>2, <1>6, <2>1 DEF InTurn, SameCourse
<1>8. HasCurrent(g) /\ Flowing(g)
  <2>1. HasCurrent(g) /\ g.canXfer /\ g.currentMode = h.currentMode
    BY <1>2, <1>6 DEF HasCurrent, SameCourse
  <2>2. ModeFits(g)
    BY <1>2, <1>3, <1>6, <2>1 DEF ModeFits
  <2> QED
    BY <1>2, <1>3, <1>5, <2>1, <2>2 DEF Flowing
<1> QED
  BY <1>7, <1>8 DEF OneByOne

\* The transfer that is submitted becomes the current one at once.
Begun(h, y) == [h EXCEPT !.xfers = Append(h.xfers, y), !.currentTransfer = Len(h.xfers) + 1]

LEMMA BegunTurn ==
  ASSUME NEW h, OneByOne(h), ~HasCurrent(h), NEW y \in Xfer, IsWriter(y.d),
         y.status = "QUEUED"
  PROVE  LET f == Begun(h, y) IN
         /\ InTurn(f) /\ HasCurrent(f) /\ Current(f) = y /\ Rests(f)
         /\ Len(f.xfers) = Len(h.xfers) + 1 /\ f.currentTransfer = Len(h.xfers) + 1
         /\ \A t \in 1..Len(h.xfers) : f.xfers[t] = h.xfers[t]
         /\ f.ep0 = h.ep0 /\ f.currentMode = h.currentMode /\ f.nextMode = h.nextMode
         /\ f.countToWrite = h.countToWrite
<1> DEFINE X == Append(h.xfers, y)
           n == Len(h.xfers)
           f == Begun(h, y)
<1>1. h \in HostType /\ InTurn(h) /\ Rests(h) /\ h.currentTransfer = 0
  BY DEF OneByOne, InTurn, HasCurrent, NoTransfer
<1>2. n \in Nat /\ h.xfers \in Seq(Xfer) /\ n + 1 \in Nat
  BY <1>1, HostSeqs
<1>3. /\ X \in Seq(Xfer) /\ Len(X) = n + 1 /\ X[n + 1] = y
      /\ \A t \in 1..n : X[t] = h.xfers[t]
  BY <1>2, AppendProperties
<1> HIDE DEF X
<1>4. /\ f \in HostType /\ f.xfers = X /\ f.currentTransfer = n + 1
      /\ f.queue = h.queue /\ f.thrown = h.thrown /\ f.countToRead = h.countToRead
      /\ f.currentMode = h.currentMode /\ f.nextMode = h.nextMode /\ f.ep0 = h.ep0
      /\ f.numIosPending = h.numIosPending /\ f.canXfer = h.canXfer
      /\ f.interruptIsRunning = h.interruptIsRunning /\ f.countToWrite = h.countToWrite
  BY <1>1, <1>2, <1>3 DEF HostType, Begun, X
<1> HIDE DEF f
<1>5. Current(f) = y /\ HasCurrent(f)
  BY <1>2, <1>3, <1>4 DEF Current, HasCurrent, NoTransfer
<1>6. ASSUME NEW t \in 1..Len(f.xfers)
      PROVE  /\ IsWriter(f.xfers[t].d)
             /\ f.xfers[t].status = "QUEUED" <=> t = f.currentTransfer
             /\ t # f.currentTransfer => f.xfers[t].numWriting = 0
             /\ f.xfers[t].status = "COMPLETED" => f.xfers[t].sent = ToSend(f.xfers[t].d)
  <2>1. CASE t = n + 1
    BY <1>3, <1>4, <2>1
  <2>2. CASE t # n + 1
    <3>1. t \in 1..n /\ t # h.currentTransfer /\ f.xfers[t] = h.xfers[t]
      BY <1>1, <1>2, <1>3, <1>4, <1>6, <2>2
    <3> QED
      BY <1>1, <1>4, <2>2, <3>1 DEF InTurn
  <2> QED
    BY <2>1, <2>2
<1>7. InTurn(f)
  BY <1>1, <1>3, <1>4, <1>6 DEF InTurn
<1>8. Rests(f)
  BY <1>1, <1>4 DEF Rests
<1> QED
  BY <1>3, <1>4, <1>5, <1>7, <1>8 DEF f

\* A configuration or a mode switch blocks what follows.
Blocks(g, f) ==
  /\ g \in HostType /\ g.queue = f.queue /\ g.thrown = f.thrown /\ g.xfers = f.xfers
  /\ g.currentTransfer = f.currentTransfer /\ g.currentMode = f.currentMode
  /\ g.interruptIsRunning = f.interruptIsRunning /\ ~g.canXfer
  /\ g.countToWrite = 0 /\ g.countToRead = 0 /\ g.numIosPending = f.numIosPending + 1
  /\ IF Current(f).d.kind = "conf"
       THEN /\ g.ep0 = Append(f.ep0, [rq |-> "RQ_CONFIG", ack_payloads |-> FALSE])
            /\ g.nextMode = f.nextMode
       ELSE /\ g.ep0 = Append(f.ep0, [rq |-> "RQ_MODE", mode |-> g.nextMode])
            /\ g.nextMode = transferMode(Current(f).d) /\ g.nextMode # f.currentMode

LEMMA BlocksOneByOne ==
  ASSUME NEW f, InTurn(f), HasCurrent(f), Rests(f), NEW g, Blocks(g, f),
         Current(f).sent = 0, Current(f).numWriting = 0
  PROVE  OneByOne(g) /\ HasCurrent(g) /\ Blocked(g)
<1>1. Current(g) = Current(f) /\ HasCurrent(g) /\ IsWriter(Current(f).d)
  BY CurrentOfTurn DEF Blocks, Current, HasCurrent
<1>2. g.nextMode # "READ"
  BY <1>1 DEF Blocks, InTurn, IsWriter, transferMode
<1>3. InTurn(g)
  BY <1>2 DEF Blocks, InTurn
<1>4. Blocked(g)
  BY <1>1 DEF Blocks, Blocked, Rests
<1> QED
  BY <1>1, <1>3, <1>4 DEF OneByOne

LEMMA ConfigureBlocks ==
  ASSUME NEW f \in HostType, Current(f).d.kind = "conf"
  PROVE  Blocks(configureStart(f), f)
<1> DEFINE rq == [rq |-> "RQ_CONFIG", ack_payloads |-> FALSE]
           g == configureStart(f)
           s == Append(f.ep0, rq)
           k == f.numIosPending + 1
<1>1. rq \in HostRequest
  BY DEF HostRequest, Modes
<1>2. s \in Seq(HostRequest) /\ k \in Int
  BY <1>1, HostSeqs, HostFields, AppendProperties
<1>3. g = [f EXCEPT !.ep0 = s, !.canXfer = FALSE, !.numIosPending = k,
                    !.countToRead = 0, !.countToWrite = 0]
  BY <1>1 DEF configureStart, StartControl, ControlRequest, DropCredit, HostType
<1> HIDE DEF rq, s, k, g
<1>4. /\ g \in HostType /\ g.queue = f.queue /\ g.thrown = f.thrown /\ g.xfers = f.xfers
      /\ g.currentTransfer = f.currentTransfer /\ g.currentMode = f.currentMode
      /\ g.interruptIsRunning = f.interruptIsRunning /\ ~g.canXfer
      /\ g.countToWrite = 0 /\ g.countToRead = 0 /\ g.numIosPending = k
      /\ g.ep0 = s /\ g.nextMode = f.nextMode
  BY <1>1, <1>2, <1>3 DEF HostType
<1> QED
  BY <1>4 DEF Blocks, rq, s, k, g

LEMMA SwitchBlocks ==
  ASSUME NEW f \in HostType, Current(f).d.kind # "conf", NEW m \in Modes,
         m = transferMode(Current(f).d), m # f.currentMode
  PROVE  Blocks(switchMode(f, m), f)
<1> DEFINE rq == [rq |-> "RQ_MODE", mode |-> m]
           g == switchMode(f, m)
           s == Append(f.ep0, rq)
           k == f.numIosPending + 1
<1>1. rq \in HostRequest
  BY DEF HostRequest, Modes
<1>2. s \in Seq(HostRequest) /\ k \in Int
  BY <1>1, HostSeqs, HostFields, AppendProperties
<1>3. g = [f EXCEPT !.ep0 = s, !.canXfer = FALSE, !.numIosPending = k,
                    !.countToRead = 0, !.countToWrite = 0, !.nextMode = m]
  BY <1>1 DEF switchMode, StartControl, ControlRequest, DropCredit, HostType
<1> HIDE DEF rq, s, k, g
<1>4. /\ g \in HostType /\ g.queue = f.queue /\ g.thrown = f.thrown /\ g.xfers = f.xfers
      /\ g.currentTransfer = f.currentTransfer /\ g.currentMode = f.currentMode
      /\ g.interruptIsRunning = f.interruptIsRunning /\ ~g.canXfer
      /\ g.countToWrite = 0 /\ g.countToRead = 0 /\ g.numIosPending = k
      /\ g.ep0 = s /\ g.nextMode = m
  BY <1>1, <1>2, <1>3 DEF HostType
<1> QED
  BY <1>4 DEF Blocks, rq, s, k, g

\* How a transfer that is submitted when none is under way starts.
Starts(g, f) ==
  \/ Blocks(g, f)
  \/ Served1(f) /\ \E w \in 0..f.countToWrite :
       FlowsTo(g, f, w) /\ Current(f).sent + w <= ToSend(Current(f).d)

LEMMA TakenUp ==
  ASSUME NEW h \in HostType, NEW X, NEW n, NEW q
  PROVE  [[h EXCEPT !.xfers = X, !.queue = q] EXCEPT !.currentTransfer = n, !.queue = h.queue]
           = [h EXCEPT !.xfers = X, !.currentTransfer = n]
  BY DEF HostType

LEMMA StartsAtOnce ==
  ASSUME NEW h, OneByOne(h), ~HasCurrent(h), NEW y \in Xfer, IsWriter(y.d),
         y.status = "QUEUED", y.sent = 0, y.numWriting = 0
  PROVE  Starts(startTransfers([h EXCEPT !.xfers = Append(h.xfers, y),
                                         !.queue = Append(h.queue, Len(h.xfers) + 1)]),
                Begun(h, y))
<1> DEFINE e == [h EXCEPT !.xfers = Append(h.xfers, y),
                          !.queue = Append(h.queue, Len(h.xfers) + 1)]
           f == Begun(h, y)
           g == startTransfers(e)
<1> SUFFICES Starts(g, f)
  OBVIOUS
<1>1. /\ InTurn(f) /\ HasCurrent(f) /\ Current(f) = y /\ Rests(f)
      /\ f.currentTransfer = Len(h.xfers) + 1
  BY BegunTurn
<1>2. f \in HostType /\ f.numIosPending = 0 /\ f.canXfer
  BY <1>1 DEF InTurn, Rests
<1>3. h \in HostType /\ h.queue = <<>> /\ h.currentTransfer = 0
  BY DEF OneByOne, InTurn, HasCurrent, NoTransfer
<1>4. /\ e.queue = <<Len(h.xfers) + 1>> /\ ~HasCurrent(e)
      /\ [e EXCEPT !.currentTransfer = Head(e.queue), !.queue = Tail(e.queue)] = f
  <2> DEFINE X == Append(h.xfers, y)
             n == Len(h.xfers) + 1
  <2>1. Append(<<>>, n) = <<n>> /\ Head(<<n>>) = n /\ Tail(<<n>>) = <<>>
    OBVIOUS
  <2> HIDE DEF X, n
  <2>2. e = [h EXCEPT !.xfers = X, !.queue = <<n>>] /\ f = [h EXCEPT !.xfers = X, !.currentTransfer = n]
    BY <1>3, <2>1 DEF X, n, Begun
  <2>3. e.queue = <<n>> /\ ~HasCurrent(e)
    BY <1>3, <2>2 DEF HostType, HasCurrent, NoTransfer
  <2>4. Head(e.queue) = n /\ Tail(e.queue) = h.queue
    BY <1>3, <2>1, <2>3
  <2>5. [e EXCEPT !.currentTransfer = Head(e.queue), !.queue = Tail(e.queue)]
          = [e EXCEPT !.currentTransfer = n, !.queue = h.queue]
    BY <2>4
  <2>6. [e EXCEPT !.currentTransfer = n, !.queue = h.queue] = f
    BY <1>3, <2>2, TakenUp
  <2> QED
    BY <2>3, <2>5, <2>6 DEF n
<1> HIDE DEF e
<1>5. e.queue # <<>>
  BY <1>4
<1>6. g = IF HasCurrent(transferStarted(f)) THEN ServeCurrent(transferStarted(f))
            ELSE requestStatus(transferStarted(f))
  BY <1>4, <1>5 DEF startTransfers
<1> HIDE DEF f, g
<1>7. CASE y.d.kind = "conf"
  <2> DEFINE s == configureStart(f)
  <2>1. Blocks(s, f)
    BY <1>1, <1>2, <1>7, ConfigureBlocks
  <2>2. transferStarted(f) = s
    BY <1>1, <1>7 DEF transferStarted
  <2> HIDE DEF s
  <2>3. /\ HasCurrent(s) /\ Current(s) = y /\ ~s.canXfer /\ s.numIosPending = 1
    BY <1>1, <1>2, <2>1 DEF Blocks, HasCurrent, Current
  <2>4. transferMode(y.d) = "ANY"
    BY <1>7 DEF transferMode
  <2>5. ServeCurrent(s) = s
    BY <2>3, <2>4 DEF ServeCurrent, RequestStatusIfQuiet
  <2> QED
    BY <1>6, <2>1, <2>2, <2>3, <2>5 DEF Starts
<1>8. CASE y.d.kind # "conf"
  <2>1. y.d.kind \in {"stream", "bulk"} /\ y.d.size > 0 /\ y.d \in Descriptor
    BY <1>8 DEF IsWriter, Xfer, XferType, Program
  <2>2. y.d.size # 0
    BY <2>1 DEF Descriptor
  <2>3. transferStarted(f) = f
    BY <1>1, <2>1, <2>2 DEF transferStarted
  <2>4. g = ServeCurrent(f)
    BY <1>1, <1>6, <2>3
  <2> DEFINE m == transferMode(y.d)
  <2>5. m \in Modes /\ m # "ANY"
    BY <2>1 DEF transferMode, Modes
  <2>6. CASE m # f.currentMode
    <3>1. g = switchMode(f, m)
      BY <1>1, <2>4, <2>5, <2>6 DEF ServeCurrent
    <3>2. Blocks(g, f)
      BY <1>1, <1>2, <1>8, <2>5, <2>6, <3>1, SwitchBlocks
    <3> QED
      BY <3>2 DEF Starts
  <2>7. CASE m = f.currentMode
    <3>1. Served1(f)
      BY <1>1, <2>7 DEF Served1, ModeFits, Rests
    <3> QED
      BY <2>4, <3>1, ServeFlows DEF Starts
  <2> QED
    BY <2>6, <2>7
<1> QED
  BY <1>7, <1>8

\* The current transfer ends, as y.
EndsAs(g, h, y) ==
  /\ g \in HostType /\ SameCourse(g, [h EXCEPT !.currentTransfer = NoTransfer])
  /\ g.ep0 = h.ep0 /\ g.numIosPending = h.numIosPending
  /\ g.interruptIsRunning = h.interruptIsRunning
  /\ Len(g.xfers) = Len(h.xfers) /\ g.xfers[h.currentTransfer] = y
  /\ \A t \in 1..Len(h.xfers) : t # h.currentTransfer => g.xfers[t] = h.xfers[t]

\* A transfer that has ended as it should.
Over(x, y) ==
  /\ y \in Xfer /\ y.d = x.d /\ y.sent = x.sent /\ y.numWriting = 0
  /\ y.status \in {"COMPLETED", "TIMED_OUT"}
  /\ y.status = "COMPLETED" => y.sent = ToSend(y.d)

LEMMA CourseEnds ==
  ASSUME NEW h \in HostType, NEW g, NEW y, EndsAs(g, h, y)
  PROVE  /\ g.queue = h.queue /\ g.thrown = h.thrown /\ g.canXfer = h.canXfer
         /\ g.currentMode = h.currentMode /\ g.nextMode = h.nextMode
         /\ g.currentTransfer = NoTransfer
  BY DEF HostType, EndsAs, SameCourse

LEMMA EndsOneByOne ==
  ASSUME NEW h, InTurn(h), HasCurrent(h), h.numIosPending = 0, h.canXfer, ~h.interruptIsRunning,
         NEW y, Over(Current(h), y), NEW g, EndsAs(g, h, y), g.countToRead = 0
  PROVE  OneByOne(g) /\ ~HasCurrent(g)
<1> DEFINE t == h.currentTransfer
<1>1. h \in HostType /\ t \in 1..Len(h.xfers) /\ IsWriter(Current(h).d) /\ t # 0
  BY CurrentOfTurn DEF InTurn
<1>2. /\ g.queue = h.queue /\ g.thrown = h.thrown /\ g.canXfer = h.canXfer
      /\ g.currentMode = h.currentMode /\ g.nextMode = h.nextMode
      /\ g.currentTransfer = 0
  BY <1>1, CourseEnds DEF NoTransfer
<1>3. ASSUME NEW u \in 1..Len(g.xfers)
      PROVE  /\ IsWriter(g.xfers[u].d)
             /\ g.xfers[u].status = "QUEUED" <=> u = g.currentTransfer
             /\ u # g.currentTransfer => g.xfers[u].numWriting = 0
             /\ g.xfers[u].status = "COMPLETED" => g.xfers[u].sent = ToSend(g.xfers[u].d)
  <2>1. u # 0 /\ Len(h.xfers) \in Nat
    BY <1>1, <1>3, HostSeqs DEF EndsAs
  <2>2. CASE u = t
    BY <1>1, <1>2, <2>1, <2>2 DEF EndsAs, Over
  <2>3. CASE u # t
    BY <1>1, <1>2, <1>3, <2>1, <2>3 DEF EndsAs, InTurn
  <2> QED
    BY <2>2, <2>3
<1>4. InTurn(g)
  BY <1>2, <1>3 DEF InTurn, EndsAs, NoTransfer
<1> QED
  BY <1>2, <1>4 DEF OneByOne, Rests, HasCurrent, NoTransfer, EndsAs

LEMMA FinishEnds ==
  ASSUME NEW h \in HostType, h.currentTransfer \in 1..Len(h.xfers),
         NEW status \in {"COMPLETED", "TIMED_OUT"}
  PROVE  LET g == updateTransferStatus(h, h.currentTransfer, status) IN
         /\ EndsAs(g, h, StatusXfer(Current(h), status))
         /\ g.countToWrite = h.countToWrite /\ g.countToRead = h.countToRead
<1> DEFINE t == h.currentTransfer
           x == Current(h)
           y == StatusXfer(x, status)
           X == [h.xfers EXCEPT ![t] = y]
           f == [h EXCEPT !.xfers = X]
           g == [f EXCEPT !.currentTransfer = NoTransfer]
<1>1. x \in Xfer /\ x = h.xfers[t] /\ h.xfers \in Seq(Xfer)
  BY HostSeqs DEF Current
<1>2. ~(x.d.resubmits > 0)
  <2>1. x.d \in Program
    BY <1>1 DEF Xfer, XferType
  <2>2. x.d.resubmits = 0
    BY <2>1 DEF Program
  <2> QED
    BY <2>2
<1>3. y \in Xfer
  BY <1>1, StatusXferType
<1>4. updateTransferStatus(h, t, status) = transferCompleted(f, t)
  <2>1. [h EXCEPT !.xfers[t].status = status] = f
    BY DEF StatusXfer, Current
  <2> HIDE DEF f
  <2> QED
    BY <1>1, <1>2, <2>1 DEF updateTransferStatus
<1> HIDE DEF y
<1>5. /\ X \in Seq(Xfer) /\ Len(X) = Len(h.xfers) /\ X[t] = y
      /\ \A u \in 1..Len(h.xfers) : u # t => X[u] = h.xfers[u]
  BY <1>1, <1>3, ExceptSeq
<1> HIDE DEF X
<1>6. f.currentTransfer = t
  BY DEF HostType
<1>7. transferCompleted(f, t) = g
  <2> HIDE DEF f
  <2> QED
    BY <1>6 DEF transferCompleted
<1>8. /\ g \in HostType /\ SameCourse(g, [h EXCEPT !.currentTransfer = NoTransfer])
      /\ g.ep0 = h.ep0 /\ g.numIosPending = h.numIosPending
      /\ g.interruptIsRunning = h.interruptIsRunning /\ g.xfers = X
      /\ g.countToWrite = h.countToWrite /\ g.countToRead = h.countToRead
  BY <1>5 DEF HostType, SameCourse, NoTransfer
<1> HIDE DEF f, g
<1>9. EndsAs(g, h, y)
  BY <1>5, <1>8 DEF EndsAs
<1> QED
  BY <1>4, <1>7, <1>8, <1>9 DEF y

LEMMA StatusOver ==
  ASSUME NEW x \in Xfer, x.numWriting = 0, NEW status \in {"COMPLETED", "TIMED_OUT"},
         status = "COMPLETED" => x.sent = ToSend(x.d)
  PROVE  /\ Over(x, StatusXfer(x, status)) /\ StatusXfer(x, status).status = status
         /\ StatusXfer(x, status).lastWriteOk = x.lastWriteOk
<1> DEFINE y == StatusXfer(x, status)
<1>1. y \in Xfer /\ y.sent = x.sent /\ y.status = status
  BY StatusXferType
<1>2. y.d = x.d /\ y.numWriting = x.numWriting /\ y.lastWriteOk = x.lastWriteOk
  BY DEF StatusXfer, Xfer, XferType
<1> HIDE DEF y
<1> QED
  BY <1>1, <1>2 DEF Over, y

\* The mode is set, or the configuration: packets may be sent.
LEMMA ControlFlows ==
  ASSUME NEW h, OneByOne(h), HasCurrent(h), Blocked(h), NEW c,
         c.rq = IF Current(h).d.kind = "conf" THEN "RQ_CONFIG" ELSE "RQ_MODE"
  PROVE  LET g == Completed(h, c) IN
         /\ OneByOne(g) /\ HasCurrent(g) /\ Flowing(g) /\ g.numIosPending = 0
         /\ g.xfers = h.xfers /\ g.currentTransfer = h.currentTransfer /\ g.ep0 = h.ep0
         /\ g.countToWrite = 0 /\ g.nextMode = h.nextMode
         /\ g.currentMode = IF c.rq = "RQ_CONFIG" THEN h.currentMode ELSE h.nextMode
<1> DEFINE k == h.numIosPending - 1
           m == IF c.rq = "RQ_CONFIG" THEN h.currentMode ELSE h.nextMode
           g == [h EXCEPT !.canXfer = TRUE, !.numIosPending = k, !.currentMode = m,
                          !.interruptIsRunning = TRUE]
<1>1. h \in HostType /\ InTurn(h) /\ m \in Modes /\ m # "READ" /\ k = 0 /\ k \in Int
  BY HostFields DEF OneByOne, InTurn, Blocked
<1>2. Completed(h, c) = g
  <2>1. CASE c.rq = "RQ_CONFIG"
    <3>1. Completed(h, c) = [h EXCEPT !.canXfer = TRUE, !.numIosPending = k,
                                      !.interruptIsRunning = TRUE]
      BY <2>1 DEF Completed, configureDone, requestStatus, ControlDone
    <3>2. m = h.currentMode
      BY <2>1
    <3> HIDE DEF k, m
    <3> QED
      BY <1>1, <3>1, <3>2 DEF HostType
  <2>2. CASE c.rq = "RQ_MODE"
    <3>1. Completed(h, c) = [h EXCEPT !.canXfer = TRUE, !.numIosPending = k,
                                      !.currentMode = h.nextMode,
                                      !.interruptIsRunning = TRUE]
      BY <2>2 DEF Completed, modeSwitched, switchModeDone, requestStatus, ControlDone
    <3>2. m = h.nextMode
      BY <2>2
    <3> HIDE DEF k, m
    <3> QED
      BY <1>1, <3>1, <3>2
  <2> QED
    BY <2>1, <2>2
<1>3. m = IF Current(h).d.kind = "conf" THEN h.currentMode ELSE h.nextMode
  OBVIOUS
<1> HIDE DEF k, m
<1>4. /\ g \in HostType /\ g.canXfer /\ g.numIosPending = 0 /\ g.currentMode = m
      /\ g.interruptIsRunning /\ g.xfers = h.xfers /\ g.currentTransfer = h.currentTransfer
      /\ g.ep0 = h.ep0 /\ g.countToWrite = h.countToWrite /\ g.countToRead = h.countToRead
      /\ g.nextMode = h.nextMode /\ g.queue = h.queue /\ g.thrown = h.thrown
  BY <1>1 DEF HostType
<1> HIDE DEF g
<1>5. InTurn(g) /\ HasCurrent(g) /\ Current(g) = Current(h)
  BY <1>1, <1>4 DEF InTurn, HasCurrent, Current
<1>6. ModeFits(g)
  BY <1>3, <1>4, <1>5 DEF ModeFits, Blocked
<1>7. Flowing(g)
  BY <1>4, <1>5, <1>6 DEF Flowing, Blocked
<1>8. OneByOne(g)
  BY <1>5, <1>7 DEF OneByOne
<1> QED
  BY <1>2, <1>4, <1>5, <1>7, <1>8 DEF m, Blocked

LEMMA IODoneFields ==
  ASSUME NEW h \in HostType
  PROVE  LET g == IODone(h) IN
         /\ g \in HostType /\ SameCourse(g, h) /\ g.ep0 = h.ep0 /\ g.xfers = h.xfers
         /\ g.countToWrite = h.countToWrite /\ g.countToRead = h.countToRead
         /\ g.numIosPending = h.numIosPending - 1
         /\ g.interruptIsRunning <=>
              h.interruptIsRunning \/ (g.numIosPending = 0 /\ HasCurrent(h))
<1> DEFINE k == h.numIosPending - 1
           f == [h EXCEPT !.numIosPending = k]
           g == IODone(h)
<1>1. k \in Int
  BY HostFields
<1>2. g = RequestStatusIfQuiet(f)
  BY DEF IODone
<1> HIDE DEF k
<1>3. /\ f \in HostType /\ SameCourse(f, h) /\ f.ep0 = h.ep0 /\ f.xfers = h.xfers
      /\ f.countToWrite = h.countToWrite /\ f.countToRead = h.countToRead
      /\ f.numIosPending = k /\ f.interruptIsRunning = h.interruptIsRunning
      /\ h.interruptIsRunning \in BOOLEAN
  BY <1>1 DEF HostType, SameCourse
<1> HIDE DEF f
<1>4. g = IF k = 0 /\ HasCurrent(h) THEN requestStatus(f) ELSE f
  BY <1>2, <1>3 DEF RequestStatusIfQuiet, SameCourse, HasCurrent
<1>5. CASE k = 0 /\ HasCurrent(h)
  <2> DEFINE r == requestStatus(f)
  <2>1. /\ r \in HostType /\ SameCourse(r, f) /\ r.interruptIsRunning
        /\ r.countToWrite = f.countToWrite /\ r.countToRead = f.countToRead
        /\ r.xfers = f.xfers /\ r.ep0 = f.ep0 /\ r.numIosPending = f.numIosPending
    BY <1>3, RequestStatusFields
  <2>2. g = r
    BY <1>4, <1>5
  <2> HIDE DEF r, g
  <2> QED
    BY <1>3, <1>5, <2>1, <2>2 DEF SameCourse, k, g
<1>6. CASE ~(k = 0 /\ HasCurrent(h))
  <2>1. g = f
    BY <1>4, <1>6
  <2> HIDE DEF g
  <2> QED
    BY <1>3, <1>6, <2>1 DEF k, g
<1> QED
  BY <1>5, <1>6

\* A packet has been written.
LEMMA WrittenFlows ==
  ASSUME NEW h, OneByOne(h), HasCurrent(h), Flowing(h), h.numIosPending > 0
  PROVE  LET g == packetWritten(h)
             t == h.currentTransfer
             x == h.xfers[t]
             y == g.xfers[t]
         IN
         /\ OneByOne(g) /\ g.ep0 = h.ep0 /\ g.canXfer /\ g.countToWrite = h.countToWrite
         /\ g.currentMode = h.currentMode /\ g.nextMode = h.nextMode
         /\ g.numIosPending = h.numIosPending - 1
         /\ Len(g.xfers) = Len(h.xfers)
         /\ \A u \in 1..Len(h.xfers) : u # t => g.xfers[u] = h.xfers[u]
         /\ y.d = x.d /\ y.sent = x.sent /\ y.lastWriteOk = x.lastWriteOk
         /\ \/ g.currentTransfer = t /\ y.status = "QUEUED"
            \/ /\ g.currentTransfer = NoTransfer /\ y.status = "COMPLETED" /\ ~x.d.sync
               /\ x.sent = ToSend(x.d) /\ g.numIosPending = 0
<1> DEFINE t == h.currentTransfer
           x == h.xfers[t]
           n == x.numWriting - 1
           y == [x EXCEPT !.numWriting = n]
           X == [h.xfers EXCEPT ![t] = y]
           f == [h EXCEPT !.xfers = X]
           c == updateTransferStatus(f, t, "COMPLETED")
           over == ~x.d.sync /\ AllAcknowledged(y)
           e == IF over THEN c ELSE f
           g == packetWritten(h)
<1>1. /\ h \in HostType /\ InTurn(h) /\ h.canXfer /\ ModeFits(h) /\ ~h.interruptIsRunning
      /\ h.numIosPending = x.numWriting /\ h.countToRead = 0 /\ x.d.kind # "conf"
      /\ h.thrown = "nothing" /\ h.queue = <<>>
  BY DEF OneByOne, Flowing, InTurn, Current
<1>2. /\ t = Len(h.xfers) /\ t \in 1..Len(h.xfers) /\ x \in Xfer /\ IsWriter(x.d)
      /\ x.status = "QUEUED" /\ x.sent \in Nat /\ ToSend(x.d) \in Nat /\ x.numWriting \in Int
      /\ h.xfers \in Seq(Xfer)
  BY <1>1, CurrentOfTurn DEF Current
<1>3. x.d.kind \in IOKinds
  BY <1>1, <1>2 DEF IsWriter, IOKinds
<1>4. n \in Int
  BY <1>2
<1>5. g = IODone(e)
  <2>1. g = IODone(ioWriteDone(h, t))
    BY <1>3 DEF packetWritten, Current
  <2>2. [h EXCEPT !.xfers[t] = y] = f
    OBVIOUS
  <2>3. y.d = x.d
    BY <1>2 DEF Xfer, XferType
  <2>4. ioWriteDone(h, t) = e
    BY <2>2, <2>3 DEF ioWriteDone
  <2> QED
    BY <2>1, <2>4
<1>6. /\ y \in Xfer /\ y.sent = x.sent /\ y.numWriting = n /\ y.d = x.d
      /\ y.status = "QUEUED" /\ y.lastWriteOk = x.lastWriteOk
  <2>1. y \in Xfer /\ y.sent = x.sent
    <3> HIDE DEF n
    <3>1. <<>> \in Seq(Numbered)
      BY EmptySeq
    <3> QED
      BY <1>2, <1>4, <3>1, CountedXferType
  <2>2. y.numWriting = n /\ y.d = x.d /\ y.status = x.status /\ y.lastWriteOk = x.lastWriteOk
    <3> HIDE DEF n
    <3> QED
      BY <1>2 DEF Xfer, XferType
  <2> QED
    BY <1>2, <2>1, <2>2
<1>7. n = h.numIosPending - 1
  BY <1>1
<1>8. over => ~x.d.sync /\ n = 0 /\ x.sent = ToSend(x.d)
  BY <1>6 DEF AllAcknowledged
<1> HIDE DEF y, over, n
<1>9. /\ X \in Seq(Xfer) /\ Len(X) = Len(h.xfers) /\ X[t] = y
      /\ \A u \in 1..Len(h.xfers) : u # t => X[u] = h.xfers[u]
  BY <1>2, <1>6, ExceptSeq
<1> HIDE DEF X
<1>10. /\ f \in HostType /\ SameCourse(f, h) /\ f.ep0 = h.ep0 /\ f.xfers = X
       /\ f.countToWrite = h.countToWrite /\ f.countToRead = h.countToRead
       /\ f.numIosPending = h.numIosPending /\ f.interruptIsRunning = h.interruptIsRunning
  BY <1>1, <1>9 DEF HostType, SameCourse
<1> HIDE DEF f
<1>11. f.currentTransfer = t /\ Current(f) = y
  BY <1>9, <1>10 DEF SameCourse, Current
<1>12. h.numIosPending \in Nat /\ h.numIosPending > 0
  BY DEF Flowing
<1>13. CASE ~over
  <2>1. /\ g \in HostType /\ SameCourse(g, f) /\ g.ep0 = f.ep0 /\ g.xfers = f.xfers
        /\ g.countToWrite = f.countToWrite /\ g.countToRead = f.countToRead
        /\ g.numIosPending = f.numIosPending - 1
        /\ g.interruptIsRunning <=> f.interruptIsRunning \/ (g.numIosPending = 0 /\ HasCurrent(f))
    BY <1>5, <1>10, <1>13, IODoneFields
  <2> HIDE DEF g
  <2>2. /\ g.queue = h.queue /\ g.thrown = h.thrown /\ g.currentTransfer = t
        /\ g.canXfer /\ g.currentMode = h.currentMode /\ g.nextMode = h.nextMode
        /\ HasCurrent(f)
    BY <1>1, <1>10, <1>11, <2>1 DEF SameCourse, HasCurrent
  <2>3. Current(g) = y /\ HasCurrent(g) /\ g.xfers[t] = y
    BY <1>9, <1>10, <2>1, <2>2 DEF Current, HasCurrent
  <2>4. ASSUME NEW u \in 1..Len(g.xfers)
        PROVE  /\ IsWriter(g.xfers[u].d)
               /\ g.xfers[u].status = "QUEUED" <=> u = g.currentTransfer
               /\ u # g.currentTransfer => g.xfers[u].numWriting = 0
               /\ g.xfers[u].status = "COMPLETED" => g.xfers[u].sent = ToSend(g.xfers[u].d)
    <3>1. CASE u = t
      BY <1>2, <1>6, <2>2, <2>3, <3>1
    <3>2. CASE u # t
      BY <1>1, <1>9, <1>10, <2>1, <2>2, <2>4, <3>2 DEF InTurn
    <3> QED
      BY <3>1, <3>2
  <2>5. InTurn(g)
    BY <1>1, <1>9, <1>10, <2>1, <2>2, <2>4 DEF InTurn
  <2>6. Flowing(g)
    BY <1>1, <1>6, <1>7, <1>10, <1>12, <2>1, <2>2, <2>3 DEF Flowing, ModeFits, Current
  <2>7. OneByOne(g)
    BY <2>3, <2>5, <2>6 DEF OneByOne
  <2> QED
    BY <1>6, <1>9, <1>10, <2>1, <2>2, <2>3, <2>7 DEF g
<1>14. CASE over
  <2> DEFINE z == StatusXfer(y, "COMPLETED")
  <2>1. Over(y, z) /\ z.status = "COMPLETED" /\ z.lastWriteOk = y.lastWriteOk
    BY <1>6, <1>8, <1>14, StatusOver
  <2>2. /\ EndsAs(c, f, z) /\ c.countToWrite = f.countToWrite /\ c.countToRead = f.countToRead
    BY <1>2, <1>9, <1>10, <1>11, FinishEnds
  <2> HIDE DEF c, z
  <2>3. c \in HostType
    BY <2>2 DEF EndsAs
  <2>4. /\ c.queue = f.queue /\ c.thrown = f.thrown /\ c.canXfer = f.canXfer
        /\ c.currentMode = f.currentMode /\ c.nextMode = f.nextMode
        /\ c.currentTransfer = NoTransfer
    BY <1>10, <2>2, CourseEnds
  <2>5. /\ c.ep0 = f.ep0 /\ c.numIosPending = f.numIosPending
        /\ c.interruptIsRunning = f.interruptIsRunning
        /\ Len(c.xfers) = Len(f.xfers) /\ c.xfers[t] = z
        /\ \A u \in 1..Len(f.xfers) : u # t => c.xfers[u] = f.xfers[u]
    BY <1>11, <2>2 DEF EndsAs
  <2>6. /\ g \in HostType /\ SameCourse(g, c) /\ g.ep0 = c.ep0 /\ g.xfers = c.xfers
        /\ g.countToWrite = c.countToWrite /\ g.countToRead = c.countToRead
        /\ g.numIosPending = c.numIosPending - 1
        /\ g.interruptIsRunning = c.interruptIsRunning
    <3>1. ~HasCurrent(c) /\ c.interruptIsRunning \in BOOLEAN
      BY <2>3, <2>4 DEF HasCurrent, HostType
    <3>2. g \in HostType /\ g.interruptIsRunning \in BOOLEAN
      <4>1. g \in HostType
        BY <1>5, <1>14, <2>3, IODoneFields
      <4> QED
        BY <4>1 DEF HostType
    <3> QED
      BY <1>5, <1>14, <2>3, <3>1, <3>2, IODoneFields
  <2> HIDE DEF g
  <2>7. /\ g.queue = <<>> /\ g.thrown = "nothing" /\ g.canXfer /\ g.currentTransfer = NoTransfer
        /\ g.currentMode = h.currentMode /\ g.nextMode = h.nextMode /\ g.ep0 = h.ep0
        /\ g.countToWrite = h.countToWrite /\ g.countToRead = 0 /\ ~g.interruptIsRunning
        /\ g.numIosPending = h.numIosPending - 1
        /\ Len(g.xfers) = Len(h.xfers) /\ g.xfers[t] = z
        /\ \A u \in 1..Len(h.xfers) : u # t => g.xfers[u] = h.xfers[u]
    BY <1>1, <1>9, <1>10, <2>2, <2>4, <2>5, <2>6 DEF SameCourse
  <2>8. /\ z.d = x.d /\ z.sent = x.sent /\ z.numWriting = 0 /\ z.sent = ToSend(z.d)
    BY <1>6, <2>1 DEF Over
  <2>9. ASSUME NEW u \in 1..Len(g.xfers)
        PROVE  /\ IsWriter(g.xfers[u].d)
               /\ g.xfers[u].status = "QUEUED" <=> u = g.currentTransfer
               /\ u # g.currentTransfer => g.xfers[u].numWriting = 0
               /\ g.xfers[u].status = "COMPLETED" => g.xfers[u].sent = ToSend(g.xfers[u].d)
    <3>0. u # 0 /\ Len(h.xfers) \in Nat
      BY <1>1, <2>7, <2>9, HostSeqs
    <3>1. CASE u = t
      BY <1>2, <2>1, <2>7, <2>8, <3>0, <3>1 DEF NoTransfer
    <3>2. CASE u # t
      BY <1>1, <2>7, <2>9, <3>0, <3>2 DEF InTurn, NoTransfer
    <3> QED
      BY <3>1, <3>2
  <2>10. InTurn(g)
    BY <1>1, <2>6, <2>7, <2>9 DEF InTurn
  <2>11. g.numIosPending = 0
    BY <1>7, <1>8, <1>14, <2>7
  <2>12. OneByOne(g)
    BY <2>7, <2>10, <2>11 DEF OneByOne, Rests, HasCurrent
  <2> QED
    BY <1>6, <1>8, <1>14, <2>1, <2>7, <2>8, <2>11, <2>12 DEF g
<1> QED
  BY <1>13, <1>14

\* What a transfer that completes is told about its last packet.
Verdict(x, y, ok) ==
  y.status = "COMPLETED" /\ x.d.kind # "conf" => x.d.sync /\ y.lastWriteOk = ok

LEMMA EndsAsAlso ==
  ASSUME NEW h \in HostType, NEW X \in Seq(Xfer), Len(X) = Len(h.xfers),
         \A t \in 1..Len(h.xfers) : t # h.currentTransfer => X[t] = h.xfers[t],
         NEW g, NEW y, EndsAs(g, [h EXCEPT !.xfers = X], y)
  PROVE  EndsAs(g, h, y)
<1> DEFINE f == [h EXCEPT !.xfers = X]
<1>1. /\ f.ep0 = h.ep0 /\ f.numIosPending = h.numIosPending /\ f.xfers = X
      /\ f.interruptIsRunning = h.interruptIsRunning /\ f.currentTransfer = h.currentTransfer
      /\ SameCourse([f EXCEPT !.currentTransfer = NoTransfer],
                    [h EXCEPT !.currentTransfer = NoTransfer])
  BY DEF HostType, SameCourse
<1> HIDE DEF f
<1>2. SameCourse(g, [f EXCEPT !.currentTransfer = NoTransfer])
  BY DEF EndsAs, f
<1>3. SameCourse(g, [h EXCEPT !.currentTransfer = NoTransfer])
  BY <1>1, <1>2 DEF SameCourse
<1> QED
  BY <1>1, <1>3 DEF EndsAs, f

LEMMA IdleEnds ==
  ASSUME NEW h, InTurn(h), HasCurrent(h), Current(h).numWriting = 0,
         NEW ok \in BOOLEAN, NEW timeUp
  PROVE  LET g == updateIdleStatus(h, ok, timeUp) IN
         \/ g = h
         \/ /\ g.countToWrite = h.countToWrite /\ g.countToRead = h.countToRead
            /\ \E y : EndsAs(g, h, y) /\ Over(Current(h), y) /\ Verdict(Current(h), y, ok)
<1> DEFINE t == h.currentTransfer
           x == Current(h)
           g == updateIdleStatus(h, ok, timeUp)
<1> SUFFICES ASSUME g # h
             PROVE  /\ g.countToWrite = h.countToWrite /\ g.countToRead = h.countToRead
                    /\ \E y : EndsAs(g, h, y) /\ Over(x, y) /\ Verdict(x, y, ok)
  OBVIOUS
<1>1. /\ h \in HostType /\ t \in 1..Len(h.xfers) /\ x \in Xfer /\ IsWriter(x.d)
      /\ x.sent \in Nat /\ x.sent <= ToSend(x.d) /\ h.xfers \in Seq(Xfer) /\ x = h.xfers[t]
      /\ x.status = "QUEUED"
  BY CurrentOfTurn DEF InTurn, Current
<1>2. ASSUME NEW status \in {"COMPLETED", "TIMED_OUT"},
             status = "COMPLETED" => x.sent = ToSend(x.d) /\ x.d.kind = "conf",
             g = updateTransferStatus(h, t, status)
      PROVE  /\ g.countToWrite = h.countToWrite /\ g.countToRead = h.countToRead
             /\ \E y : EndsAs(g, h, y) /\ Over(x, y) /\ Verdict(x, y, ok)
  <2> DEFINE y == StatusXfer(x, status)
  <2>1. EndsAs(g, h, y) /\ g.countToWrite = h.countToWrite /\ g.countToRead = h.countToRead
    BY <1>1, <1>2, FinishEnds
  <2>2. Over(x, y) /\ y.status = status
    BY <1>1, <1>2, StatusOver
  <2>3. Verdict(x, y, ok)
    BY <1>2, <2>2 DEF Verdict
  <2> HIDE DEF y, g
  <2> QED
    BY <2>1, <2>2, <2>3
<1>3. CASE x.d.kind = "conf"
  <2>1. ToSend(x.d) = 0
    BY <1>3 DEF ToSend
  <2>2. x.sent = ToSend(x.d)
    BY <1>1, <2>1
  <2>3. g = updateTransferStatus(h, t, "COMPLETED")
    BY <1>3 DEF updateIdleStatus, controlNowIdle, IOKinds
  <2> QED
    BY <1>2, <1>3, <2>2, <2>3
<1>4. CASE x.d.kind # "conf"
  <2> DEFINE finished == x.d.kind # "read" /\ x.d.sync /\ AllAcknowledged(x)
             z == [x EXCEPT !.lastWriteOk = ok]
             X == [h.xfers EXCEPT ![t] = z]
             f == [h EXCEPT !.xfers = X]
             e == updateTransferStatus(f, t, "COMPLETED")
  <2>1. g = ioNowIdle(h, t, ok, timeUp)
    BY <1>1, <1>4 DEF updateIdleStatus, IsWriter, IOKinds
  <2>2. CASE ~finished
    <3>1. g = checkTransferTimeout(h, t, timeUp)
      BY <1>1, <2>1, <2>2 DEF ioNowIdle
    <3>2. g = updateTransferStatus(h, t, "TIMED_OUT")
      BY <3>1 DEF checkTransferTimeout
    <3> QED
      BY <1>2, <3>2
  <2>3. CASE finished
    <3>1. z \in Xfer /\ z.sent = x.sent
      BY <1>1, VerdictXferType
    <3>2. z.d = x.d /\ z.numWriting = x.numWriting /\ z.lastWriteOk = ok /\ z.status = x.status
      BY <1>1 DEF Xfer, XferType
    <3>3. g = checkTransferTimeout(e, t, timeUp)
      <4>1. [h EXCEPT !.xfers[t].lastWriteOk = ok] = f
        BY <1>1
      <4> HIDE DEF f
      <4> QED
        BY <1>1, <2>1, <2>3, <4>1 DEF ioNowIdle
    <3> HIDE DEF z
    <3>4. /\ X \in Seq(Xfer) /\ Len(X) = Len(h.xfers) /\ X[t] = z
          /\ \A u \in 1..Len(h.xfers) : u # t => X[u] = h.xfers[u]
      BY <1>1, <3>1, ExceptSeq
    <3> HIDE DEF X
    <3>5. /\ f \in HostType /\ f.xfers = X /\ f.currentTransfer = t
          /\ f.countToWrite = h.countToWrite /\ f.countToRead = h.countToRead
      BY <1>1, <3>4 DEF HostType
    <3>6. Current(f) = z
      BY <3>4, <3>5 DEF Current
    <3> DEFINE y == StatusXfer(z, "COMPLETED")
    <3>7. EndsAs(e, f, y) /\ e.countToWrite = f.countToWrite /\ e.countToRead = f.countToRead
      <4> HIDE DEF f
      <4> QED
        BY <1>1, <3>4, <3>5, <3>6, FinishEnds
    <3>8. Over(z, y) /\ y.status = "COMPLETED" /\ y.lastWriteOk = ok
      BY <2>3, <3>1, <3>2, StatusOver DEF AllAcknowledged
    <3> HIDE DEF y, e
    <3>9. EndsAs(e, h, y)
      BY <1>1, <3>4, <3>7, EndsAsAlso
    <3>10. Over(x, y) /\ Verdict(x, y, ok)
      BY <2>3, <3>1, <3>2, <3>8 DEF Over, Verdict
    <3>11. e.xfers[t] = y
      BY <3>9 DEF EndsAs
    <3>12. g = e
      BY <3>3, <3>8, <3>11 DEF checkTransferTimeout
    <3> HIDE DEF g
    <3> QED
      BY <3>5, <3>7, <3>9, <3>10, <3>12
  <2> QED
    BY <2>2, <2>3
<1> QED
  BY <1>3, <1>4

\* The adaptor has heard of room for cw packets.
Heard(h, cw) ==
  [h EXCEPT !.interruptIsRunning = FALSE, !.countToWrite = cw, !.countToRead = 0]
RoomTold(h, s) ==
  IF s.cb_size - s.cb_count >= 0 THEN s.cb_size - s.cb_count ELSE h.countToWrite

LEMMA HeardTurn ==
  ASSUME NEW h, InTurn(h), NEW cw \in Nat
  PROVE  LET f == Heard(h, cw) IN
         /\ InTurn(f) /\ SameCourse(f, h) /\ f.ep0 = h.ep0 /\ f.xfers = h.xfers
         /\ f.numIosPending = h.numIosPending /\ ~f.interruptIsRunning
         /\ f.countToWrite = cw /\ f.countToRead = 0
<1> DEFINE f == Heard(h, cw)
<1>1. h \in HostType
  BY DEF InTurn
<1>2. /\ f \in HostType /\ SameCourse(f, h) /\ f.ep0 = h.ep0 /\ f.xfers = h.xfers
      /\ f.numIosPending = h.numIosPending /\ ~f.interruptIsRunning
      /\ f.countToWrite = cw /\ f.countToRead = 0
  BY <1>1 DEF HostType, Heard, SameCourse
<1> HIDE DEF f
<1>3. InTurn(f)
  BY <1>2 DEF InTurn, SameCourse
<1> QED
  BY <1>2, <1>3 DEF f

LEMMA StatusTurns ==
  ASSUME NEW h, OneByOne(h), h.interruptIsRunning, NEW s, StatusNumbers(s), s.acb_count = 0,
         NEW timeUp
  PROVE  LET g == statusUpdateArrived(h, s, timeUp)
             f == Heard(h, RoomTold(h, s))
         IN
         /\ HasCurrent(h) /\ Flowing(h) /\ h.numIosPending = 0 /\ RoomTold(h, s) \in Nat
         /\ \/ /\ Served1(f)
               /\ \E w \in 0..f.countToWrite :
                    FlowsTo(g, f, w) /\ Current(f).sent + w <= ToSend(Current(f).d)
            \/ /\ SaysIdle(s) /\ g.countToWrite = f.countToWrite /\ g.countToRead = 0
               /\ \E y : /\ EndsAs(g, f, y) /\ Over(Current(h), y)
                         /\ Verdict(Current(h), y, SaysLastOk(h, s))
<1> DEFINE g == statusUpdateArrived(h, s, timeUp)
           cw == RoomTold(h, s)
           f == Heard(h, cw)
           e == [h EXCEPT !.interruptIsRunning = FALSE]
           ok == SaysLastOk(h, s)
           told == IF SaysIdle(s) THEN updateIdleStatus(e, ok, timeUp) ELSE e
<1>1. /\ InTurn(h) /\ HasCurrent(h) /\ Flowing(h) /\ h.numIosPending = 0 /\ h.canXfer
      /\ ModeFits(h) /\ Current(h).numWriting = 0 /\ h.countToRead = 0
      /\ h.currentMode # "READ" /\ h \in HostType
  BY DEF OneByOne, Blocked, Flowing, Rests, InTurn
<1>2. cw \in Nat /\ h.countToWrite \in Nat
  BY <1>1, HostFields DEF RoomTold, StatusNumbers
<1>3. ok \in BOOLEAN
  BY DEF SaysLastOk
<1>4. /\ CanWrite(h, s) = s.cb_size - s.cb_count /\ CanRead(h, s) = 0
      /\ s.cb_size - s.cb_count \in Int
  BY <1>1 DEF CanWrite, CanRead, StatusNumbers
<1>5. cw = IF CanWrite(h, s) >= 0 THEN CanWrite(h, s) ELSE h.countToWrite
  BY <1>4 DEF RoomTold
<1>6. /\ InTurn(f) /\ SameCourse(f, h) /\ f.ep0 = h.ep0 /\ f.xfers = h.xfers
      /\ f.numIosPending = h.numIosPending /\ ~f.interruptIsRunning
      /\ f.countToWrite = cw /\ f.countToRead = 0
  BY <1>1, <1>2, HeardTurn
<1>7. /\ e \in HostType /\ SameCourse(e, h) /\ e.ep0 = h.ep0 /\ e.xfers = h.xfers
      /\ e.numIosPending = h.numIosPending /\ ~e.interruptIsRunning
      /\ e.countToWrite = h.countToWrite /\ e.countToRead = h.countToRead
  BY <1>1 DEF HostType, SameCourse
<1>8. g = startTransfers(
            [told EXCEPT
               !.countToWrite = IF CanWrite(h, s) >= 0 THEN CanWrite(h, s) ELSE told.countToWrite,
               !.countToRead = 0])
  BY <1>4 DEF statusUpdateArrived, updateStatus
<1>9. [e EXCEPT !.countToWrite = cw, !.countToRead = 0] = f
  BY DEF Heard
<1> HIDE DEF cw, f, ok
<1>10. HasCurrent(e) /\ Current(e) = Current(h) /\ HasCurrent(f) /\ Current(f) = Current(h)
  BY <1>1, <1>6, <1>7 DEF HasCurrent, Current, SameCourse
<1>11. InTurn(e)
  BY <1>1, <1>7 DEF InTurn, SameCourse
<1>12. CASE told = e
  <2>1. [told EXCEPT
           !.countToWrite = IF CanWrite(h, s) >= 0 THEN CanWrite(h, s) ELSE told.countToWrite,
           !.countToRead = 0] = f
    <3> HIDE DEF e, told
    <3> QED
      BY <1>5, <1>7, <1>9, <1>12
  <2>2. g = startTransfers(f)
    <3> HIDE DEF told, g
    <3> QED
      BY <1>8, <2>1
  <2>3. g = ServeCurrent(f)
    BY <1>10, <2>2 DEF startTransfers
  <2>4. Served1(f)
    BY <1>1, <1>6, <1>10 DEF Served1, ModeFits, SameCourse
  <2> HIDE DEF g
  <2>5. \E w \in 0..f.countToWrite :
          FlowsTo(g, f, w) /\ Current(f).sent + w <= ToSend(Current(f).d)
    BY <2>3, <2>4, ServeFlows
  <2> QED
    BY <1>1, <1>2, <2>4, <2>5 DEF g, f, cw
<1>13. CASE told # e
  <2>1. SaysIdle(s) /\ told = updateIdleStatus(e, ok, timeUp)
    BY <1>13
  <2> HIDE DEF told, e
  <2>2. /\ told.countToWrite = e.countToWrite /\ told.countToRead = e.countToRead
        /\ \E y : EndsAs(told, e, y) /\ Over(Current(e), y) /\ Verdict(Current(e), y, ok)
    BY <1>1, <1>3, <1>10, <1>11, <1>13, <2>1, IdleEnds
  <2>3. PICK y : EndsAs(told, e, y) /\ Over(Current(e), y) /\ Verdict(Current(e), y, ok)
    BY <2>2
  <2> DEFINE r == [told EXCEPT !.countToWrite = cw, !.countToRead = 0]
  <2>4. told \in HostType
    BY <2>3 DEF EndsAs
  <2>5. /\ told.queue = e.queue /\ told.thrown = e.thrown /\ told.canXfer = e.canXfer
        /\ told.currentMode = e.currentMode /\ told.nextMode = e.nextMode
        /\ told.currentTransfer = NoTransfer
    BY <1>7, <2>3, CourseEnds
  <2>6. /\ r \in HostType /\ SameCourse(r, told) /\ r.ep0 = told.ep0 /\ r.xfers = told.xfers
        /\ r.numIosPending = told.numIosPending
        /\ r.interruptIsRunning = told.interruptIsRunning
        /\ r.countToWrite = cw /\ r.countToRead = 0
    BY <1>2, <2>4 DEF HostType, SameCourse
  <2>7. g = startTransfers(r)
    <3>1. told.countToWrite = h.countToWrite
      BY <1>7, <2>2
    <3> HIDE DEF g
    <3> QED
      BY <1>5, <1>8, <3>1
  <2> HIDE DEF r
  <2>8. ~HasCurrent(r) /\ r.queue = <<>>
    BY <1>1, <1>7, <2>5, <2>6 DEF HasCurrent, SameCourse, InTurn
  <2>9. g = r
    BY <2>7, <2>8 DEF startTransfers, ServeCurrent
  <2> HIDE DEF g
  <2>10. e.currentTransfer = f.currentTransfer /\ e.queue = f.queue /\ e.thrown = f.thrown
         /\ e.canXfer = f.canXfer /\ e.currentMode = f.currentMode /\ e.nextMode = f.nextMode
         /\ f \in HostType
    BY <1>6, <1>7 DEF SameCourse, InTurn
  <2>11. SameCourse(g, [f EXCEPT !.currentTransfer = NoTransfer])
    <3> DEFINE i == [f EXCEPT !.currentTransfer = NoTransfer]
    <3>1. /\ i.queue = f.queue /\ i.thrown = f.thrown /\ i.canXfer = f.canXfer
          /\ i.currentMode = f.currentMode /\ i.nextMode = f.nextMode
          /\ i.currentTransfer = NoTransfer
      BY <2>10 DEF HostType
    <3> HIDE DEF i
    <3>2. SameCourse(g, i)
      BY <2>5, <2>6, <2>9, <2>10, <3>1 DEF SameCourse
    <3> QED
      BY <3>2 DEF i
  <2>12. EndsAs(g, f, y)
    <3>1. e.interruptIsRunning = f.interruptIsRunning
      BY <1>6, <1>7, <2>10 DEF HostType
    <3> QED
      BY <1>6, <1>7, <2>3, <2>6, <2>9, <2>10, <2>11, <3>1 DEF EndsAs
  <2>13. g.countToWrite = f.countToWrite /\ g.countToRead = 0
    BY <1>6, <2>6, <2>9
  <2> QED
    BY <1>1, <1>2, <1>10, <2>1, <2>3, <2>12, <2>13 DEF g, f, cw, ok
<1> QED
  BY <1>12, <1>13

-----------------------------------------------------------------------------
(***************************************************************************)
(* The invariant of a program that configures and writes.                  *)
(***************************************************************************)
Writers == \A d \in Menu : IsWriter(d)

\* What is on its way is what the adaptor is doing.
Asks(h) ==
  IF h.canXfer THEN "RQ_WRITE"
    ELSE IF Current(h).d.kind = "conf" THEN "RQ_CONFIG" ELSE "RQ_MODE"
BusAsks ==
  /\ phase # "hung" /\ request.rq \in {Asks(host), "NONE"} /\ serving.rq \in {Asks(host), "NONE"}
  /\ \A i \in 1..Len(host.ep0) :
       /\ host.ep0[i].rq = Asks(host)
       /\ Asks(host) = "RQ_MODE" => host.ep0[i].mode = host.nextMode
  /\ \A i \in 1..Len(done) : IsStatus(done[i]) \/ done[i].rq = Asks(host)

\* The dongle is in the mode that the host last asked for.
ModeAsked ==
  /\ system_state # "READ"
  /\ system_state = IF Asks(host) = "RQ_MODE" /\ host.ep0 = <<>>
                      THEN host.nextMode ELSE host.currentMode

\* What is on its way to the ring, and what may still be sent, has its slots.
HasRoom ==
  host.canXfer =>
    host.countToWrite + Len(host.ep0) + One(request.rq # "NONE") + cb.count <= cb.size

\* The statuses on their way to the adaptor are true.
ToldTrue ==
  /\ P!PrimedTells
  /\ \A i \in 1..Len(done) : IsStatus(done[i]) => P!Tells(done[i].status)

HostFlows ==
  /\ OneByOne(host) /\ (HasStatus(done) => host.interruptIsRunning)
  /\ executing \in {Idle, Len(host.xfers)} /\ (executing = Idle => ~HasCurrent(host))

Flows == HostFlows /\ BusAsks /\ ModeAsked /\ HasRoom /\ ToldTrue
WriterInv == LinkInv /\ (Executes => Flows)

\* Nothing pending, nothing on its way.
LEMMA QuietBus ==
  ASSUME LinkInv, Running
  PROVE  /\ host.numIosPending \in Nat
         /\ host.numIosPending = 0 =>
              /\ host.ep0 = <<>> /\ request.rq = "NONE" /\ serving.rq = "NONE"
              /\ \A i \in 1..Len(done) : IsStatus(done[i])
         /\ Len(host.ep0) + One(request.rq # "NONE") <= host.numIosPending
<1> DEFINE a == One(request.rq # "NONE")
           b == One(phase = "hung")
           s == One(serving.rq # "NONE")
           n == Len(done)
           o == One(HasStatus(done))
           e == Len(host.ep0)
           m == n - o
<1>1. /\ host \in HostType /\ host.numIosPending = e + Taken /\ done \in Seq(Completion)
      /\ OneStatus(done) /\ host.ep0 \in Seq(HostRequest) /\ e \in Nat
  BY HostSeqs DEF LinkInv, Good, Ready, Running, Bus
<1>2. n \in Nat /\ a \in {0, 1} /\ b \in {0, 1} /\ s \in {0, 1} /\ o \in {0, 1}
  BY <1>1, LenProperties DEF One
<1>3. Taken = a + b + s + n - o
  BY DEF Taken
<1>4. m \in Nat /\ (m = 0 => \A i \in 1..n : IsStatus(done[i]))
  <2>1. CASE HasStatus(done)
    <3>1. PICK i \in 1..n : IsStatus(done[i])
      BY <2>1 DEF HasStatus
    <3>2. n >= 1 /\ o = 1
      BY <1>2, <2>1, <3>1 DEF One
    <3>3. m = 0 => n = 1
      BY <1>2, <3>2
    <3>4. n = 1 => \A j \in 1..n : j = i
      BY <3>1
    <3> QED
      BY <1>2, <3>1, <3>2, <3>3, <3>4
  <2>2. CASE ~HasStatus(done)
    <3>1. o = 0 /\ m = n
      BY <1>2, <2>2 DEF One
    <3> QED
      BY <1>2, <3>1
  <2> QED
    BY <2>1, <2>2
<1>5. host.numIosPending = e + a + b + s + m
  <2> HIDE DEF a, b, s, n, o, e
  <2> QED
    BY <1>1, <1>2, <1>3
<1> HIDE DEF m
<1>6. /\ host.numIosPending \in Nat
      /\ host.numIosPending = 0 => e = 0 /\ a = 0 /\ s = 0 /\ m = 0
      /\ e + a <= host.numIosPending
  <2> HIDE DEF a, b, s, e
  <2> QED
    BY <1>1, <1>2, <1>4, <1>5
<1>7. e = 0 => host.ep0 = <<>>
  BY <1>1, EmptySeq
<1>8. /\ a = 0 => request.rq = "NONE"
      /\ s = 0 => serving.rq = "NONE"
  BY DEF One
<1> HIDE DEF a, s, e
<1>9. Len(host.ep0) + One(request.rq # "NONE") = e + a
  BY DEF e, a
<1> QED
  BY <1>4, <1>6, <1>7, <1>8, <1>9

\* Flowing or resting, the pending requests are writes.
LEMMA WritesAsked ==
  ASSUME NEW w \in Nat, NEW t \in Nat, NEW a \in Nat
  PROVE  LET new == RoundRobin(t, a, w, 0) IN
         /\ Len(new) = w /\ new \in Seq(HostRequest)
         /\ \A i \in 1..Len(new) : new[i].rq = "RQ_WRITE" /\ new[i].packet = <<t, a + i>>
<1> DEFINE new == RoundRobin(t, a, w, 0)
<1>1. Len(new) = w /\ new \in Seq(HostRequest)
  BY RoundRobinSends
<1>2. ASSUME NEW i \in 1..w
      PROVE  new[i].rq = "RQ_WRITE" /\ new[i].packet = <<t, a + i>>
  <2>1. Min({w, 0}) = 0
    BY MinOfTwo
  <2>2. WriteNumber(w, 0, i) = i
    <3>1. ~(i <= 2 * 0) /\ i > 2 * 0 /\ w > 0 /\ i - 0 = i
      BY <1>2
    <3> QED
      BY <2>1, <3>1 DEF WriteNumber
  <2>3. i \in 1..w + 0 /\ i > 0
    BY <1>2
  <2> QED
    BY <2>2, <2>3 DEF RoundRobin
<1> HIDE DEF new
<1> QED
  BY <1>1, <1>2 DEF new

\* Writes that are served use up the credit.
LEMMA ServedFlows ==
  ASSUME NEW f, Served1(f), NEW g, NEW w \in 0..f.countToWrite, FlowsTo(g, f, w),
         Current(f).sent + w <= ToSend(Current(f).d), f.ep0 = <<>>
  PROVE  /\ OneByOne(g) /\ HasCurrent(g) /\ g.canXfer /\ Asks(g) = "RQ_WRITE"
         /\ Len(g.xfers) = Len(f.xfers)
         /\ \A i \in 1..Len(g.ep0) : g.ep0[i].rq = "RQ_WRITE"
         /\ g.countToWrite + Len(g.ep0) = f.countToWrite
         /\ g.currentMode = f.currentMode /\ g.nextMode = f.nextMode
<1>1. /\ f.currentTransfer \in 1..Len(f.xfers) /\ Current(f).sent \in Nat /\ f \in HostType
      /\ f.canXfer
  BY CurrentOfTurn DEF Served1, InTurn
<1>2. w \in Nat /\ f.countToWrite \in Nat /\ f.currentTransfer \in Nat
  BY <1>1, HostFields
<1>3. OneByOne(g) /\ HasCurrent(g) /\ Flowing(g)
  BY <1>2, FlowsOneByOne
<1> DEFINE t == f.currentTransfer
           a == Current(f).sent
           new == RoundRobin(t, a, w, 0)
<1>4. /\ Len(new) = w /\ new \in Seq(HostRequest)
      /\ \A i \in 1..Len(new) : new[i].rq = "RQ_WRITE"
  <2> HIDE DEF t, a
  <2>1. t \in Nat /\ a \in Nat
    BY <1>1, <1>2 DEF t, a
  <2>2. /\ Len(new) = w /\ new \in Seq(HostRequest)
        /\ \A i \in 1..Len(new) : new[i].rq = "RQ_WRITE" /\ new[i].packet = <<t, a + i>>
    BY <1>2, <2>1, WritesAsked, Zenon
  <2> QED
    BY <2>2, Zenon
<1> HIDE DEF new
<1>5. g.ep0 = new
  <2>1. <<>> \o new = new
    BY <1>4
  <2> QED
    BY <2>1 DEF FlowsTo, new
<1>6. g.countToWrite + Len(g.ep0) = f.countToWrite
  <2>1. g.countToWrite = f.countToWrite - w
    BY DEF FlowsTo
  <2> QED
    BY <1>2, <1>4, <1>5, <2>1
<1>7. /\ g.canXfer /\ g.currentMode = f.currentMode /\ g.nextMode = f.nextMode
      /\ Len(g.xfers) = Len(f.xfers)
  BY <1>1 DEF FlowsTo, SameCourse
<1>8. Asks(g) = "RQ_WRITE"
  BY <1>7 DEF Asks
<1> QED
  BY <1>3, <1>4, <1>5, <1>6, <1>7, <1>8

\* A transfer starts while nothing is under way.
LEMMA StartFlows ==
  ASSUME LinkInv, Flows, UNCHANGED <<dongle, bus>>, ~HasCurrent(host),
         NEW y \in Xfer, IsWriter(y.d), y.status = "QUEUED", y.sent = 0, y.numWriting = 0,
         Starts(host', Begun(host, y)), executing' = Len(host.xfers) + 1
  PROVE  Flows'
<1> DEFINE f == Begun(host, y)
           g == host'
<1>1. OneByOne(host) /\ InTurn(host) /\ Rests(host) /\ Running
  BY DEF Flows, HostFlows, OneByOne, Running, InTurn
<1>2. /\ InTurn(f) /\ HasCurrent(f) /\ Current(f) = y /\ Rests(f)
      /\ Len(f.xfers) = Len(host.xfers) + 1
      /\ f.ep0 = host.ep0 /\ f.currentMode = host.currentMode /\ f.nextMode = host.nextMode
      /\ f.countToWrite = host.countToWrite
  BY <1>1, BegunTurn
<1>3. /\ host.ep0 = <<>> /\ request.rq = "NONE" /\ serving.rq = "NONE"
      /\ \A i \in 1..Len(done) : IsStatus(done[i])
  BY <1>1, QuietBus DEF Rests
<1>4. ~HasStatus(done) /\ host.canXfer /\ Asks(host) = "RQ_WRITE"
  BY <1>1 DEF Flows, HostFlows, Rests, Asks
<1>5. /\ request' = request /\ serving' = serving /\ done' = done /\ phase' = phase
      /\ cb' = cb /\ system_state' = system_state /\ intMsg' = intMsg /\ radio' = radio
      /\ last_tx_failed' = last_tx_failed
  BY DEF dongle, bus
<1>6. ToldTrue' /\ ~HasStatus(done')
  BY <1>4, <1>5 DEF Flows, ToldTrue, P!PrimedTells, P!Tells, HasStatus
<1>7. /\ phase' # "hung" /\ request'.rq = "NONE" /\ serving'.rq = "NONE"
      /\ \A i \in 1..Len(done') : IsStatus(done'[i])
      /\ system_state' # "READ" /\ system_state' = host.currentMode
  BY <1>3, <1>4, <1>5 DEF Flows, BusAsks, ModeAsked
<1> HIDE DEF f
<1>8. CASE Blocks(g, f)
  <2>1. OneByOne(g) /\ HasCurrent(g) /\ Blocked(g)
    BY <1>2, <1>8, BlocksOneByOne
  <2>2. g.xfers = f.xfers /\ ~g.canXfer /\ g.currentMode = host.currentMode /\ Current(g) = y
    BY <1>2, <1>8 DEF Blocks, Current
  <2>3. /\ Asks(g) = IF y.d.kind = "conf" THEN "RQ_CONFIG" ELSE "RQ_MODE"
    BY <2>2 DEF Asks
  <2>4. /\ Len(g.ep0) = 1 /\ g.ep0[1].rq = Asks(g)
        /\ Asks(g) = "RQ_MODE" => g.ep0[1].mode = g.nextMode
    <3>1. \A rq : Append(<<>>, rq) = <<rq>>
      OBVIOUS
    <3>2. PICK rq : g.ep0 = Append(f.ep0, rq) /\ rq.rq = Asks(g)
                    /\ (Asks(g) = "RQ_MODE" => rq.mode = g.nextMode)
      BY <1>2, <1>8, <2>3 DEF Blocks
    <3>3. g.ep0 = <<rq>>
      BY <1>2, <1>3, <3>1, <3>2
    <3> QED
      BY <3>2, <3>3
  <2>5. g.ep0 # <<>>
    BY <2>4, EmptySeq
  <2>6. HostFlows'
    <3>1. executing' = Len(g.xfers) /\ executing' # Idle
      BY <1>1, <1>2, <2>2, HostSeqs DEF InTurn, Idle
    <3> QED
      BY <1>6, <2>1, <3>1 DEF HostFlows
  <2>7. BusAsks'
    BY <1>7, <2>4 DEF BusAsks
  <2>8. ModeAsked' /\ HasRoom'
    BY <1>7, <2>2, <2>5 DEF ModeAsked, HasRoom
  <2> QED
    BY <1>6, <2>6, <2>7, <2>8 DEF Flows
<1>9. CASE ~Blocks(g, f)
  <2>1. Served1(f)
    BY <1>9 DEF Starts, f
  <2>2. PICK w \in 0..f.countToWrite :
          FlowsTo(g, f, w) /\ Current(f).sent + w <= ToSend(Current(f).d)
    BY <1>9 DEF Starts, f
  <2>3. f.ep0 = <<>>
    BY <1>2, <1>3
  <2>4. /\ OneByOne(g) /\ HasCurrent(g) /\ g.canXfer /\ Asks(g) = "RQ_WRITE"
        /\ Len(g.xfers) = Len(f.xfers)
        /\ \A i \in 1..Len(g.ep0) : g.ep0[i].rq = "RQ_WRITE"
        /\ g.countToWrite + Len(g.ep0) = f.countToWrite
        /\ g.currentMode = f.currentMode /\ g.nextMode = f.nextMode
    BY <2>1, <2>2, <2>3, ServedFlows
  <2>5. HostFlows'
    <3>1. executing' = Len(g.xfers) /\ executing' # Idle
      BY <1>1, <1>2, <2>4, HostSeqs DEF InTurn, Idle
    <3> QED
      BY <1>6, <2>4, <3>1 DEF HostFlows
  <2>6. BusAsks' /\ ModeAsked'
    BY <1>2, <1>7, <2>4 DEF BusAsks, ModeAsked
  <2>7. HasRoom'
    <3>1. One(request.rq # "NONE") = 0 /\ One(request'.rq # "NONE") = 0 /\ Len(host.ep0) = 0
      BY <1>3, <1>7, EmptySeq DEF One
    <3>2. host.countToWrite + cb.count <= cb.size
      <4>1. host.countToWrite + 0 + 0 + cb.count <= cb.size
        BY <1>4, <3>1 DEF Flows, HasRoom
      <4>2. host.countToWrite \in Nat
        BY <1>1, HostFields DEF InTurn
      <4> QED
        BY <4>1, <4>2
    <3>3. (g.countToWrite + Len(g.ep0)) + 0 + cb.count <= cb.size
      <4>1. host.countToWrite \in Nat
        BY <1>1, HostFields DEF InTurn
      <4> QED
        BY <1>2, <2>4, <3>2, <4>1
    <3> QED
      BY <1>5, <3>1, <3>3 DEF HasRoom
  <2> QED
    BY <1>6, <2>5, <2>6, <2>7 DEF Flows
<1> QED
  BY <1>8, <1>9

\* y, the transfer that is submitted, starts.
Starting(y) ==
  /\ y \in Xfer /\ IsWriter(y.d) /\ y.status = "QUEUED" /\ y.sent = 0 /\ y.numWriting = 0
  /\ Starts(host', Begun(host, y))

LEMMA Submits ==
  ASSUME Executes, Flows, Writers, PingAgain \/ \E d \in Menu : Submit(d)
  PROVE  /\ ~HasCurrent(host) /\ UNCHANGED <<dongle, bus>> /\ executing' = Len(host.xfers) + 1
         /\ \E y : Starting(y)
<1>1. /\ ~HasCurrent(host) /\ OneByOne(host) /\ InTurn(host)
      /\ UNCHANGED <<dongle, bus>> /\ executing' = Len(host.xfers) + 1
  BY DEF Submit, PingAgain, Executes, Flows, HostFlows, OneByOne
<1>2. ASSUME NEW y \in Xfer, IsWriter(y.d), y.status = "QUEUED", y.sent = 0, y.numWriting = 0,
             host' = startTransfers([host EXCEPT !.xfers = Append(host.xfers, y),
                                                 !.queue = Append(host.queue, Len(host.xfers) + 1)])
      PROVE  \E z : Starting(z)
  BY <1>1, <1>2, StartsAtOnce DEF Starting
<1>3. ASSUME NEW d \in Menu, Submit(d)
      PROVE  \E z : Starting(z)
  <2> DEFINE y == NewTransfer(d)
  <2>1. d \in Program /\ IsWriter(d)
    BY MenuAssumption DEF Writers, IsWriter, Program, Descriptor
  <2>2. y \in Xfer /\ y.sent = 0
    BY <2>1, NewTransferType
  <2>3. y.d = d /\ y.status = "QUEUED" /\ y.numWriting = 0
    BY DEF NewTransfer
  <2> HIDE DEF y
  <2>4. host' = startTransfers([host EXCEPT !.xfers = Append(host.xfers, y),
                                            !.queue = Append(host.queue, Len(host.xfers) + 1)])
    BY <1>3 DEF Submit, submit, y
  <2> QED
    BY <1>2, <2>1, <2>2, <2>3, <2>4
<1>4. ASSUME PingAgain
      PROVE  \E z : Starting(z)
  <2> DEFINE t == Len(host.xfers)
             x == host.xfers[t]
             y == [x EXCEPT !.status = "QUEUED", !.sent = 0]
  <2>1. t \in 1..t /\ x \in Xfer /\ IsWriter(x.d) /\ x.numWriting = 0
    <3>1. host \in HostType /\ t \in Nat /\ t >= 1
      BY <1>1, <1>4, HostSeqs DEF InTurn, PingAgain
    <3>2. t \in 1..t /\ t # host.currentTransfer
      BY <1>1, <3>1 DEF HasCurrent, NoTransfer
    <3> QED
      BY <1>1, <3>1, <3>2, HostSeqs DEF InTurn
  <2>2. y \in Xfer /\ y.sent = 0 /\ y.d = x.d /\ y.status = "QUEUED" /\ y.numWriting = 0
    <3>1. y \in XferType /\ y.sent = 0 /\ y.d = x.d /\ y.status = "QUEUED" /\ y.numWriting = 0
      BY <2>1 DEF Xfer, XferType
    <3>2. x.d \in Program
      BY <2>1 DEF Xfer, XferType
    <3>3. ToSend(x.d) \in Nat
      BY <3>2, ToSendNat
    <3> HIDE DEF y
    <3> QED
      BY <3>1, <3>3 DEF Xfer
  <2>3. host' = startTransfers([host EXCEPT !.xfers = Append(host.xfers, y),
                                            !.queue = Append(host.queue, Len(host.xfers) + 1)])
    BY <1>4 DEF PingAgain, submitAgain
  <2> HIDE DEF y
  <2> QED
    BY <1>2, <2>1, <2>2, <2>3
<1> QED
  BY <1>1, <1>3, <1>4

LEMMA SubmitFlows ==
  ASSUME LinkInv, Executes, Flows, Writers, PingAgain \/ \E d \in Menu : Submit(d)
  PROVE  Flows'
<1>1. PICK y : Starting(y)
  BY Submits
<1> QED
  BY <1>1, StartFlows, Submits DEF Starting

\* execute() returns, or a transfer's time is up.
LEMMA ReturnFlows ==
  ASSUME LinkInv, Executes, Flows, Return \/ \E t \in 1..Len(host.xfers) : Cancel(t) \/ TimeUp(t)
  PROVE  Flows'
<1>1. ~\E t \in 1..Len(host.xfers) : Cancel(t)
  BY DEF Cancel, Executes
<1>2. UNCHANGED <<dongle, bus, host>>
  BY <1>1 DEF Return, TimeUp
<1>3. executing' \in {Idle, Len(host.xfers)} /\ (executing' = Idle => ~HasCurrent(host))
  <2>1. CASE Return
    <3>1. executing' = Idle /\ executing = Len(host.xfers) /\ host.xfers[executing].status # "QUEUED"
      BY <2>1 DEF Return, Flows, HostFlows
    <3>2. /\ InTurn(host) /\ host \in HostType
      BY DEF Flows, HostFlows, OneByOne, InTurn
    <3>3. ~HasCurrent(host)
      <4>1. HasCurrent(host) => Current(host).status = "QUEUED" /\ host.currentTransfer = Len(host.xfers)
        BY <3>2, CurrentOfTurn
      <4> QED
        BY <3>1, <4>1 DEF Current
    <3> QED
      BY <3>1, <3>3
  <2>2. CASE ~Return
    BY <1>1, <2>2 DEF TimeUp, Flows, HostFlows
  <2> QED
    BY <2>1, <2>2
<1> QED
  BY <1>2, <1>3 DEF Flows, HostFlows, HasStatus, BusAsks, ModeAsked, HasRoom, ToldTrue,
     P!PrimedTells, P!Tells, dongle, bus

Quiet ==
  /\ host.ep0 = <<>> /\ request.rq = "NONE" /\ serving.rq = "NONE"
  /\ \A i \in 1..Len(done) : IsStatus(done[i])

LEMMA QuietIfNone == LinkInv /\ Running /\ host.numIosPending = 0 => Quiet
  BY QuietBus DEF Quiet

LEMMA QuietThen == (LinkInv /\ Running /\ host.numIosPending = 0)' => Quiet'
  BY QuietIfNone, PTL

\* While a request is on its way, no status is.
LEMMA NoStatusYet ==
  ASSUME LinkInv, Flows, ~Quiet
  PROVE  /\ ~HasStatus(done) /\ ~host.interruptIsRunning /\ HasCurrent(host)
         /\ host.numIosPending \in Nat /\ host.numIosPending > 0
         /\ IF host.canXfer THEN Flowing(host) ELSE Blocked(host)
<1>1. Running /\ OneByOne(host)
  BY DEF Flows, HostFlows, OneByOne, InTurn, Running
<1>2. host.numIosPending # 0 /\ host.numIosPending \in Nat
  BY <1>1, QuietBus, QuietIfNone
<1>3. HasCurrent(host) /\ (Blocked(host) \/ Flowing(host))
  BY <1>1, <1>2 DEF OneByOne, Rests
<1>4. ~host.interruptIsRunning
  BY <1>2, <1>3 DEF Blocked, Flowing
<1>5. IF host.canXfer THEN Flowing(host) ELSE Blocked(host)
  BY <1>3 DEF Blocked, Flowing
<1> QED
  BY <1>2, <1>3, <1>4, <1>5 DEF Flows, HostFlows

LEMMA TailElements ==
  ASSUME NEW S, NEW s \in Seq(S), s # <<>>
  PROVE  /\ Tail(s) \in Seq(S) /\ 1 \in 1..Len(s) /\ Head(s) = s[1]
         /\ \A i \in 1..Len(Tail(s)) : i + 1 \in 1..Len(s) /\ Tail(s)[i] = s[i + 1]
<1>1. Len(s) \in Nat /\ Len(s) > 0
  BY EmptySeq, LenProperties
<1>2. /\ Tail(s) \in Seq(S) /\ Len(Tail(s)) = Len(s) - 1 /\ Head(s) = s[1]
      /\ \A i \in 1..Len(Tail(s)) : Tail(s)[i] = s[i + 1]
  BY HeadTailProperties
<1> QED
  BY <1>1, <1>2

\* A status is called back.
LEMMA StatusFlows ==
  ASSUME LinkInv, Executes, Flows, Callback, IsStatus(Head(done))
  PROVE  Flows'
<1> DEFINE c == Head(done)
           s == c.status
           cw == RoomTold(host, s)
           f == Heard(host, cw)
           g == host'
<1>1. /\ done \in Seq(Completion) /\ OneStatus(done) /\ done # <<>> /\ done' = Tail(done)
      /\ UNCHANGED <<dongle, serving, executing>>
      /\ g = statusUpdateArrived(host, s, host.currentTransfer \in late)
  BY DEF LinkInv, Bus, Callback, TakesCompletion, IsStatus
<1>2. /\ c \in Completion /\ c = done[1] /\ 1 \in 1..Len(done) /\ HasStatus(done)
      /\ ~HasStatus(done')
  BY <1>1, TailElements, DoneShrinks DEF HasStatus
<1>3. /\ OneByOne(host) /\ host.interruptIsRunning /\ Running /\ InTurn(host)
  BY <1>2 DEF Flows, HostFlows, OneByOne, Running, InTurn
<1>4. s \in P!StatusType /\ P!Tells(s)
  BY <1>2 DEF Completion, Served, IsStatus, Flows, ToldTrue
<1>5. StatusNumbers(s) /\ s.acb_count = 0 /\ s.cb_size - s.cb_count <= cb.size - cb.count
  BY <1>4 DEF P!StatusType, StatusNumbers, P!Tells
<1> HIDE DEF c, s
<1>6. /\ HasCurrent(host) /\ Flowing(host) /\ host.numIosPending = 0 /\ cw \in Nat
      /\ \/ /\ Served1(f)
            /\ \E w \in 0..f.countToWrite :
                 FlowsTo(g, f, w) /\ Current(f).sent + w <= ToSend(Current(f).d)
         \/ /\ SaysIdle(s) /\ g.countToWrite = f.countToWrite /\ g.countToRead = 0
            /\ \E y : /\ EndsAs(g, f, y) /\ Over(Current(host), y)
                      /\ Verdict(Current(host), y, SaysLastOk(host, s))
  <2> DEFINE timeUp == host.currentTransfer \in late
  <2> HIDE DEF timeUp
  <2>1. g = statusUpdateArrived(host, s, timeUp)
    BY <1>1 DEF timeUp
  <2> QED
    BY <1>3, <1>5, <2>1, StatusTurns
<1>7. Quiet
  BY <1>3, <1>6, QuietIfNone
<1>8. /\ InTurn(f) /\ SameCourse(f, host) /\ f.ep0 = host.ep0 /\ f.xfers = host.xfers
      /\ f.numIosPending = host.numIosPending /\ ~f.interruptIsRunning
      /\ f.countToWrite = cw /\ f.countToRead = 0
  BY <1>3, <1>6, HeardTurn
<1> HIDE DEF f
<1>9. /\ request' = request /\ serving' = serving /\ phase' = phase
      /\ cb' = cb /\ system_state' = system_state /\ intMsg' = intMsg /\ radio' = radio
      /\ last_tx_failed' = last_tx_failed
  BY <1>1 DEF dongle
<1>10. ToldTrue'
  <2>1. \A i \in 1..Len(done') : ~IsStatus(done'[i])
    BY <1>2 DEF HasStatus
  <2> QED
    BY <1>9, <2>1 DEF Flows, ToldTrue, P!PrimedTells, P!Tells
<1>11. /\ phase' # "hung" /\ request'.rq = "NONE" /\ serving'.rq = "NONE"
       /\ \A i \in 1..Len(done') : IsStatus(done'[i])
  <2>1. \A i \in 1..Len(done') : IsStatus(done'[i])
    BY <1>1, <1>7, TailElements DEF Quiet
  <2> QED
    BY <1>7, <1>9, <2>1 DEF Flows, BusAsks, Quiet
<1>12. /\ host.canXfer /\ f.canXfer /\ system_state' = host.currentMode
       /\ system_state' # "READ"
  BY <1>6, <1>8, <1>9 DEF Flowing, Flows, ModeAsked, Asks, SameCourse
<1>13. /\ One(request'.rq # "NONE") = 0 /\ One(request.rq # "NONE") = 0
       /\ Len(host.ep0) = 0 /\ host.ep0 = <<>> /\ f.ep0 = <<>>
  BY <1>7, <1>8, <1>11, EmptySeq DEF One, Quiet
<1>14. cb.count \in Nat /\ cb.size \in Nat
  BY HwBufferAssumption DEF LinkInv, P!RInv, P!IInv, P!TypeOK, P!RingType
<1>15. cw + cb.count <= cb.size
  <2>1. CASE s.cb_size - s.cb_count >= 0
    <3>1. cw = s.cb_size - s.cb_count
      BY <2>1 DEF RoomTold
    <3> QED
      BY <1>5, <1>6, <1>14, <3>1
  <2>2. CASE ~(s.cb_size - s.cb_count >= 0)
    <3>1. cw = host.countToWrite
      BY <2>2 DEF RoomTold
    <3>2. cw + 0 + 0 + cb.count <= cb.size
      BY <1>12, <1>13, <3>1 DEF Flows, HasRoom
    <3> QED
      BY <1>6, <1>14, <3>2
  <2> QED
    BY <2>1, <2>2
<1>16. executing' = Len(host.xfers) /\ executing' # Idle
  BY <1>1, <1>6 DEF Flows, HostFlows
<1> HIDE DEF cw
<1>17. ASSUME OneByOne(g), g.canXfer, Len(g.xfers) = Len(host.xfers),
              g.currentMode = host.currentMode,
              \A i \in 1..Len(g.ep0) : g.ep0[i].rq = "RQ_WRITE",
              g.countToWrite + Len(g.ep0) = cw
       PROVE  Flows'
  <2>1. Asks(g) = "RQ_WRITE"
    BY <1>17 DEF Asks
  <2>2. HostFlows'
    BY <1>2, <1>16, <1>17 DEF HostFlows
  <2>3. BusAsks'
    BY <1>11, <1>17, <2>1 DEF BusAsks
  <2>4. ModeAsked'
    BY <1>12, <1>17, <2>1 DEF ModeAsked
  <2>5. HasRoom'
    <3>1. g.countToWrite + Len(g.ep0) + 0 + cb.count <= cb.size
      BY <1>6, <1>14, <1>15, <1>17
    <3> QED
      BY <1>9, <1>13, <3>1 DEF HasRoom
  <2> QED
    BY <1>10, <2>2, <2>3, <2>4, <2>5 DEF Flows
<1>18. CASE Served1(f) /\ \E w \in 0..f.countToWrite :
              FlowsTo(g, f, w) /\ Current(f).sent + w <= ToSend(Current(f).d)
  <2>1. PICK w \in 0..f.countToWrite :
          FlowsTo(g, f, w) /\ Current(f).sent + w <= ToSend(Current(f).d)
    BY <1>18
  <2>2. /\ OneByOne(g) /\ g.canXfer /\ Len(g.xfers) = Len(f.xfers)
        /\ \A i \in 1..Len(g.ep0) : g.ep0[i].rq = "RQ_WRITE"
        /\ g.countToWrite + Len(g.ep0) = f.countToWrite
        /\ g.currentMode = f.currentMode
    BY <1>13, <1>18, <2>1, ServedFlows
  <2> QED
    BY <1>8, <1>17, <2>2 DEF SameCourse
<1>19. CASE /\ g.countToWrite = f.countToWrite /\ g.countToRead = 0
            /\ \E y : EndsAs(g, f, y) /\ Over(Current(host), y)
  <2>1. PICK y : EndsAs(g, f, y) /\ Over(Current(host), y)
    BY <1>19
  <2>2. HasCurrent(f) /\ Current(f) = Current(host) /\ f \in HostType
    BY <1>6, <1>8 DEF HasCurrent, Current, SameCourse, InTurn
  <2>3. OneByOne(g)
    BY <1>6, <1>8, <1>12, <1>19, <2>1, <2>2, EndsOneByOne
  <2>4. g.canXfer = f.canXfer /\ g.currentMode = f.currentMode
    BY <2>1, <2>2, CourseEnds
  <2>5. g.ep0 = <<>> /\ Len(g.xfers) = Len(f.xfers)
    BY <1>13, <2>1 DEF EndsAs
  <2>6. g.countToWrite + Len(g.ep0) = cw /\ Len(g.ep0) = 0
    BY <1>6, <1>8, <1>19, <2>5, EmptySeq
  <2> QED
    BY <1>8, <1>12, <1>17, <2>3, <2>4, <2>5, <2>6 DEF SameCourse
<1> QED
  BY <1>6, <1>18, <1>19

\* A request is called back.
LEMMA DoneFlows ==
  ASSUME LinkInv, LinkInv', Executes, Flows, Callback, ~IsStatus(Head(done))
  PROVE  Flows'
<1> DEFINE c == Head(done)
           g == host'
<1>1. /\ done \in Seq(Completion) /\ OneStatus(done) /\ done # <<>> /\ done' = Tail(done)
      /\ UNCHANGED <<dongle, serving, executing>>
      /\ g = Completed(host, c)
  BY DEF LinkInv, Bus, Callback, TakesCompletion, IsStatus
<1>2. /\ c = done[1] /\ 1 \in 1..Len(done)
      /\ \A i \in 1..Len(done') : i + 1 \in 1..Len(done) /\ done'[i] = done[i + 1]
  BY <1>1, TailElements
<1> HIDE DEF c
<1>3. ~Quiet /\ c.rq = Asks(host)
  BY <1>2 DEF Quiet, Flows, BusAsks, c
<1>4. /\ ~HasStatus(done) /\ ~host.interruptIsRunning /\ HasCurrent(host)
      /\ host.numIosPending \in Nat /\ host.numIosPending > 0
      /\ IF host.canXfer THEN Flowing(host) ELSE Blocked(host)
  BY <1>3, NoStatusYet
<1>5. ~HasStatus(done')
  BY <1>2, <1>4 DEF HasStatus
<1>6. /\ request' = request /\ serving' = serving /\ phase' = phase
      /\ cb' = cb /\ system_state' = system_state /\ intMsg' = intMsg /\ radio' = radio
      /\ last_tx_failed' = last_tx_failed
  BY <1>1 DEF dongle
<1>7. ToldTrue'
  <2>1. \A i \in 1..Len(done') : ~IsStatus(done'[i])
    BY <1>5 DEF HasStatus
  <2> QED
    BY <1>6, <2>1 DEF Flows, ToldTrue, P!PrimedTells, P!Tells
<1>8. executing' = Len(host.xfers) /\ executing' # Idle
  BY <1>1, <1>4 DEF Flows, HostFlows
<1>9. phase' # "hung" /\ system_state' # "READ" /\ OneByOne(host)
  BY <1>6 DEF Flows, BusAsks, ModeAsked, HostFlows
<1>10. CASE host.canXfer
  <2>1. c.rq = "RQ_WRITE" /\ Asks(host) = "RQ_WRITE" /\ g = packetWritten(host)
    BY <1>1, <1>3, <1>10 DEF Asks, Completed
  <2>2. /\ OneByOne(g) /\ g.ep0 = host.ep0 /\ g.canXfer /\ g.countToWrite = host.countToWrite
        /\ g.currentMode = host.currentMode /\ Len(g.xfers) = Len(host.xfers)
    BY <1>4, <1>9, <1>10, <2>1, WrittenFlows
  <2>3. Asks(g) = "RQ_WRITE"
    BY <2>2 DEF Asks
  <2>4. HostFlows'
    BY <1>5, <1>8, <2>2 DEF HostFlows
  <2>5. BusAsks'
    BY <1>2, <1>6, <2>1, <2>2, <2>3 DEF Flows, BusAsks
  <2>6. ModeAsked'
    BY <1>6, <2>1, <2>2, <2>3 DEF Flows, ModeAsked
  <2>7. HasRoom'
    <3>1. One(request'.rq # "NONE") = One(request.rq # "NONE")
      BY <1>6
    <3>2. host.countToWrite + Len(host.ep0) + One(request.rq # "NONE") + cb.count <= cb.size
      BY <1>10 DEF Flows, HasRoom
    <3> QED
      BY <1>6, <2>2, <3>1, <3>2 DEF HasRoom
  <2> QED
    BY <1>7, <2>4, <2>5, <2>6, <2>7 DEF Flows
<1>11. CASE ~host.canXfer
  <2>1. c.rq = IF Current(host).d.kind = "conf" THEN "RQ_CONFIG" ELSE "RQ_MODE"
    BY <1>3, <1>11 DEF Asks
  <2>2. /\ OneByOne(g) /\ HasCurrent(g) /\ Flowing(g) /\ g.numIosPending = 0
        /\ g.xfers = host.xfers /\ g.ep0 = host.ep0 /\ g.countToWrite = 0
        /\ g.currentMode = IF c.rq = "RQ_CONFIG" THEN host.currentMode ELSE host.nextMode
    BY <1>1, <1>4, <1>9, <1>11, <2>1, ControlFlows
  <2>3. Running'
    BY <2>2 DEF OneByOne, InTurn, Running
  <2>4. Quiet'
    BY <2>2, <2>3, QuietThen
  <2>5. g.canXfer /\ Asks(g) = "RQ_WRITE" /\ Len(g.ep0) = 0 /\ g.ep0 = <<>>
    BY <2>2, <2>4, EmptySeq DEF Flowing, Asks, Quiet
  <2>6. HostFlows'
    BY <1>5, <1>8, <2>2 DEF HostFlows
  <2>7. BusAsks'
    BY <1>9, <2>4, <2>5 DEF BusAsks, Quiet
  <2>8. ModeAsked'
    BY <1>3, <1>6, <2>1, <2>2, <2>5 DEF Flows, ModeAsked
  <2>9. HasRoom'
    <3>1. cb.count \in Nat /\ cb.count <= cb.size
      <4>1. P!RInv
        BY DEF LinkInv
      <4>2. P!RingsFit /\ cb.count \in Nat
        BY <4>1, HwBufferAssumption DEF P!RInv, P!IInv, P!TypeOK, P!RingType
      <4> QED
        BY <4>1, DongleAssumptions, P!RingsAreQueues DEF P!FitRing
    <3>2. One(request'.rq # "NONE") = 0
      BY <2>4 DEF Quiet, One
    <3>3. 0 + 0 + 0 + cb.count <= cb.size
      BY <3>1
    <3> QED
      BY <1>6, <2>2, <2>5, <3>2, <3>3 DEF HasRoom
  <2> QED
    BY <1>7, <2>6, <2>7, <2>8, <2>9 DEF Flows
<1> QED
  BY <1>10, <1>11

LEMMA AppendElements ==
  ASSUME NEW S, NEW s \in Seq(S), NEW c \in S
  PROVE  /\ Len(Append(s, c)) = Len(s) + 1 /\ Append(s, c)[Len(s) + 1] = c
         /\ \A i \in 1..Len(Append(s, c)) : i = Len(s) + 1 \/ (i \in 1..Len(s) /\ Append(s, c)[i] = s[i])
<1>1. Len(s) \in Nat
  BY LenProperties
<1>2. /\ Len(Append(s, c)) = Len(s) + 1 /\ Append(s, c)[Len(s) + 1] = c
      /\ \A i \in 1..Len(s) : Append(s, c)[i] = s[i]
  BY AppendProperties
<1> QED
  BY <1>1, <1>2

LEMMA StatusStageFlows ==
  ASSUME LinkInv, Executes, Flows, StatusStage
  PROVE  Flows'
<1>1. /\ done \in Seq(Completion) /\ serving \in Served /\ serving.rq = Asks(host)
      /\ done' = Append(done, serving) /\ serving' = NoCompletion
      /\ UNCHANGED <<dongle, host, executing>>
  BY DEF StatusStage, LinkInv, Bus, program, Flows, BusAsks, Served
<1>2. serving \in Completion /\ ~IsStatus(serving)
  BY <1>1 DEF Completion, Served, IsStatus
<1>3. \A i \in 1..Len(done') :
        \/ done'[i] = serving
        \/ i \in 1..Len(done) /\ done'[i] = done[i]
  BY <1>1, <1>2, AppendElements
<1>4. HasStatus(done') => HasStatus(done)
  BY <1>2, <1>3 DEF HasStatus
<1>5. /\ request' = request /\ phase' = phase
      /\ cb' = cb /\ system_state' = system_state /\ intMsg' = intMsg /\ radio' = radio
      /\ last_tx_failed' = last_tx_failed
  BY <1>1 DEF dongle
<1>6. HostFlows'
  BY <1>1, <1>4 DEF Flows, HostFlows
<1>7. BusAsks'
  BY <1>1, <1>3, <1>5 DEF Flows, BusAsks, NoCompletion
<1>8. ModeAsked'
  BY <1>1, <1>5 DEF Flows, ModeAsked
<1>9. HasRoom'
  BY <1>1, <1>5 DEF Flows, HasRoom
<1>10. ToldTrue'
  BY <1>1, <1>2, <1>3, <1>5 DEF Flows, ToldTrue, P!PrimedTells, P!Tells
<1> QED
  BY <1>6, <1>7, <1>8, <1>9, <1>10 DEF Flows

LEMMA CollectFlows ==
  ASSUME LinkInv, Executes, Flows, CollectStatus
  PROVE  Flows'
<1> DEFINE c == [rq |-> "STATUS", status |-> intMsg]
<1>1. /\ done \in Seq(Completion) /\ host.interruptIsRunning /\ intMsg # P!NoMessage
      /\ done' = Append(done, c) /\ serving' = serving /\ host' = host /\ executing' = executing
      /\ intMsg' = P!NoMessage
      /\ request' = request /\ phase' = phase
      /\ cb' = cb /\ system_state' = system_state /\ radio' = radio
      /\ last_tx_failed' = last_tx_failed
  BY DEF CollectStatus, LinkInv, Bus, program, D!HostTakesInterrupt, D!NoMessage, P!NoMessage,
     D!firmware, D!ring
<1>2. intMsg \in P!StatusType /\ P!Tells(intMsg)
  BY <1>1 DEF LinkInv, P!RInv, P!IInv, P!TypeOK, Flows, ToldTrue, P!PrimedTells
<1>3. c \in Completion /\ IsStatus(c) /\ c.status = intMsg
  BY <1>2 DEF Completion, IsStatus
<1> HIDE DEF c
<1>4. \A i \in 1..Len(done') :
        \/ done'[i] = c
        \/ i \in 1..Len(done) /\ done'[i] = done[i]
  BY <1>1, <1>3, AppendElements
<1>6. HostFlows'
  BY <1>1 DEF Flows, HostFlows
<1>7. BusAsks'
  BY <1>1, <1>3, <1>4 DEF Flows, BusAsks
<1>8. ModeAsked'
  BY <1>1 DEF Flows, ModeAsked
<1>9. HasRoom'
  BY <1>1 DEF Flows, HasRoom
<1>10. ToldTrue'
  <2>1. ASSUME NEW i \in 1..Len(done'), IsStatus(done'[i])
        PROVE  P!Tells(done[i].status)' 
    <3>1. \A s : P!Tells(s) => P!Tells(s)'
      BY <1>1 DEF P!Tells
    <3> QED
      BY <1>2, <1>3, <1>4, <2>1, <3>1 DEF Flows, ToldTrue
  <2> QED
    BY <1>1, <2>1 DEF ToldTrue, P!PrimedTells
<1> QED
  BY <1>6, <1>7, <1>8, <1>9, <1>10 DEF Flows

\* The dongle does something by itself.
LEMMA DongleFlows ==
  ASSUME LinkInv, LinkInv', Executes, Flows,
         DongleRuns \/ Acknowledged \/ Unanswered \/ Receives
  PROVE  Flows'
<1>1. P!Alone /\ UNCHANGED <<program, bus>>
  BY SameDongle DEF DongleRuns, Acknowledged, Unanswered, Receives
<1>2. /\ request' = request /\ (phase = "hung") = (phase' = "hung")
      /\ host' = host /\ executing' = executing /\ serving' = serving /\ done' = done
  BY <1>1, DongleAssumptions, P!AloneNotes DEF program, bus
<1>3. P!RInv /\ P!RInv' /\ P!Skips /\ system_state # "READ" /\ P!PrimedTells
  BY DEF LinkInv, P!OrderInv, Flows, ModeAsked, ToldTrue
<1>4. P!Moves
  BY <1>1, <1>3, DongleAssumptions, P!AloneMoves
<1>5. /\ system_state' = system_state /\ cb'.size = cb.size /\ cb'.count <= cb.count
      /\ cb.count \in Nat /\ cb'.count \in Nat /\ cb.size \in Nat
  BY <1>3, <1>4, DongleAssumptions, P!MovesKeepRing
<1>6. P!PrimedTells'
  BY <1>3, <1>4, DongleAssumptions, P!MovesKeepPrimed
<1>7. ASSUME NEW i \in 1..Len(done), IsStatus(done[i])
      PROVE  P!Tells(done[i].status)'
  <2> DEFINE s == done[i].status
  <2>1. done[i] \in Completion
    <3>1. done \in Seq(Completion)
      BY DEF LinkInv, Bus
    <3> QED
      BY <1>7, <3>1, ElementOfSeq
  <2>2. s \in P!StatusType /\ P!Tells(s)
    BY <1>7, <2>1 DEF Completion, Served, IsStatus, Flows, ToldTrue
  <2>3. s' = s
    BY <1>2
  <2> HIDE DEF s
  <2>4. P!Tells(s)'
    BY <1>3, <1>4, <2>2, <2>3, DongleAssumptions, P!MovesKeepTold
  <2> QED
    BY <2>4 DEF s
<1>8. ToldTrue'
  BY <1>2, <1>6, <1>7 DEF ToldTrue
<1>9. HostFlows' /\ BusAsks'
  BY <1>2 DEF Flows, HostFlows, BusAsks, HasStatus
<1>10. ModeAsked'
  BY <1>2, <1>5 DEF Flows, ModeAsked
<1>11. HasRoom'
  <2> SUFFICES ASSUME host.canXfer
               PROVE  host.countToWrite + Len(host.ep0) + One(request.rq # "NONE") + cb'.count
                        <= cb'.size
    BY <1>2 DEF HasRoom
  <2> DEFINE k == host.countToWrite + Len(host.ep0) + One(request.rq # "NONE")
  <2>1. k + cb.count <= cb.size
    BY DEF Flows, HasRoom
  <2>2. k \in Nat
    <3>1. host \in HostType
      BY DEF Flows, HostFlows, OneByOne, InTurn
    <3>2. host.countToWrite \in Nat /\ Len(host.ep0) \in Nat /\ One(request.rq # "NONE") \in {0, 1}
      BY <3>1, HostFields, HostSeqs DEF One
    <3> QED
      BY <3>2
  <2> HIDE DEF k
  <2>3. k + cb'.count <= cb'.size
    BY <1>5, <2>1, <2>2
  <2> QED
    BY <2>3 DEF k
<1> QED
  BY <1>8, <1>9, <1>10, <1>11 DEF Flows

\* A packet that was announced has its slot.
LEMMA RoomIsThere ==
  ASSUME LinkInv, Flows
  PROVE  P!WriteFits
<1> SUFFICES ASSUME request.rq = "RQ_WRITE"
             PROVE  P!HasSlots(P!WriteRing) /\ ~P!cb_is_full(P!WriteRing)
  BY DEF P!WriteFits
<1>1. host.canXfer
  BY DEF Flows, BusAsks, Asks
<1>2. P!WriteRing = cb
  BY DEF Flows, ModeAsked, P!WriteRing
<1>3. host.countToWrite + Len(host.ep0) + 1 + cb.count <= cb.size
  <2>1. One(request.rq # "NONE") = 1
    BY DEF One
  <2> QED
    BY <1>1, <2>1 DEF Flows, HasRoom
<1>4. /\ host.countToWrite \in Nat /\ Len(host.ep0) \in Nat /\ cb.count \in Nat /\ cb.size \in Nat
  BY HostFields, HostSeqs, HwBufferAssumption
     DEF Flows, HostFlows, OneByOne, InTurn, LinkInv, P!RInv, P!IInv, P!TypeOK, P!RingType
<1>5. cb.size > 0 /\ cb.count # cb.size
  BY <1>3, <1>4
<1> QED
  BY <1>2, <1>5 DEF P!HasSlots, P!cb_is_full

\* The dongle has the data of the request it noted.
LEMMA DataFlows ==
  ASSUME LinkInv, LinkInv', Executes, Flows, DongleTakesData
  PROVE  Flows'
<1>1. /\ P!Data /\ host' = host /\ done' = done /\ executing' = executing
      /\ serving' = IF phase' = "hung" THEN NoCompletion ELSE [rq |-> request.rq]
  BY SameDongle DEF DongleTakesData, program
<1>2. phase = "poll" /\ request' = P!NoRequest /\ request.rq \in P!OutRequests
  BY <1>1, DongleAssumptions, P!DataNotes
<1>3. request.rq = Asks(host) /\ request.rq # "NONE" /\ ~Quiet
  BY <1>2 DEF Flows, BusAsks, P!OutRequests, Quiet
<1>4. /\ ~HasStatus(done) /\ HasCurrent(host) /\ host.numIosPending > 0
      /\ IF host.canXfer THEN Flowing(host) ELSE Blocked(host)
  BY <1>3, NoStatusYet
<1>5. P!RInv /\ P!RInv' /\ system_state # "READ" /\ P!WriteFits
  BY RoomIsThere DEF LinkInv, Flows, ModeAsked
<1>6. /\ system_state' = system_state /\ phase' # "hung" /\ P!PrimedTells'
      /\ host.canXfer => cb'.count = cb.count + 1 /\ cb'.size = cb.size
  <2>1. CASE P!WritePacket
    <3>1. phase' # "hung"
      BY <2>1 DEF P!WritePacket
    <3> QED
      BY <1>5, <2>1, <3>1, DongleAssumptions, P!PacketIsPut
  <2>2. CASE P!WriteConfig
    <3>1. phase' # "hung" /\ request.rq = "RQ_CONFIG"
      BY <2>2 DEF P!WriteConfig, P!Complete
    <3>2. ~host.canXfer
      BY <1>3, <3>1 DEF Asks
    <3> QED
      BY <1>5, <2>2, <3>1, <3>2, DongleAssumptions, P!ConfigIsDone
  <2>3. ~P!WriteHangs /\ ~P!WriteOpenPipe
    BY <1>3, <1>5 DEF P!WriteHangs, P!WriteOpenPipe, P!Complete, P!WriteFits, Asks
  <2> QED
    BY <1>1, <2>1, <2>2, <2>3 DEF P!Data
<1>7. serving'.rq = Asks(host) /\ request'.rq = "NONE"
  BY <1>1, <1>2, <1>3, <1>6 DEF P!NoRequest
<1>8. HostFlows'
  BY <1>1, <1>4 DEF Flows, HostFlows, HasStatus
<1>9. BusAsks' /\ ModeAsked'
  BY <1>1, <1>6, <1>7 DEF Flows, BusAsks, ModeAsked
<1>10. ToldTrue'
  BY <1>1, <1>4, <1>6 DEF ToldTrue, HasStatus
<1>11. HasRoom'
  <2> SUFFICES ASSUME host.canXfer
               PROVE  host.countToWrite + Len(host.ep0) + One(request'.rq # "NONE") + cb'.count
                        <= cb'.size
    BY <1>1 DEF HasRoom
  <2> DEFINE a == host.countToWrite
             b == Len(host.ep0)
  <2>1. One(request'.rq # "NONE") = 0 /\ One(request.rq # "NONE") = 1
    BY <1>3, <1>7 DEF One
  <2>2. a \in Nat /\ b \in Nat /\ cb.count \in Nat
    BY HostFields, HostSeqs, HwBufferAssumption
       DEF Flows, HostFlows, OneByOne, InTurn, LinkInv, P!RInv, P!IInv, P!TypeOK, P!RingType
  <2>3. a + b + 1 + cb.count <= cb.size
    BY <2>1 DEF Flows, HasRoom
  <2> HIDE DEF a, b
  <2>4. a + b + 0 + cb'.count <= cb'.size
    BY <1>6, <2>2, <2>3
  <2> QED
    BY <2>1, <2>4 DEF a, b
<1> QED
  BY <1>8, <1>9, <1>10, <1>11 DEF Flows

LEMMA TakesFields ==
  ASSUME NEW h \in HostType, h.ep0 # <<>>
  PROVE  LET g == Takes(h) IN
         /\ g \in HostType /\ SameCourse(g, h) /\ g.ep0 = Tail(h.ep0) /\ g.xfers = h.xfers
         /\ g.numIosPending = h.numIosPending /\ g.countToWrite = h.countToWrite
         /\ g.countToRead = h.countToRead /\ g.interruptIsRunning = h.interruptIsRunning
         /\ Len(g.ep0) = Len(h.ep0) - 1 /\ Len(h.ep0) \in Nat
         /\ \A i \in 1..Len(g.ep0) : i + 1 \in 1..Len(h.ep0) /\ g.ep0[i] = h.ep0[i + 1]
<1> DEFINE s == Tail(h.ep0)
           g == Takes(h)
<1>1. /\ h.ep0 \in Seq(HostRequest) /\ Len(h.ep0) \in Nat
  BY HostSeqs
<1>2. /\ s \in Seq(HostRequest) /\ Len(s) = Len(h.ep0) - 1
      /\ \A i \in 1..Len(s) : i + 1 \in 1..Len(h.ep0) /\ s[i] = h.ep0[i + 1]
  BY <1>1, TailElements, HeadTailProperties
<1> HIDE DEF s
<1>3. g = [h EXCEPT !.ep0 = s]
  BY DEF HostType, Takes, s
<1>4. /\ g \in HostType /\ SameCourse(g, h) /\ g.ep0 = s /\ g.xfers = h.xfers
      /\ g.numIosPending = h.numIosPending /\ g.countToWrite = h.countToWrite
      /\ g.countToRead = h.countToRead /\ g.interruptIsRunning = h.interruptIsRunning
  BY <1>2, <1>3 DEF HostType, SameCourse
<1> HIDE DEF g
<1> QED
  BY <1>1, <1>2, <1>4 DEF g, s

\* The host is as it was, but for its queue of requests.
LEMMA SameTurn ==
  ASSUME NEW h, OneByOne(h), NEW g \in HostType, SameCourse(g, h), g.xfers = h.xfers,
         g.numIosPending = h.numIosPending, g.countToWrite = h.countToWrite,
         g.countToRead = h.countToRead, g.interruptIsRunning = h.interruptIsRunning
  PROVE  OneByOne(g) /\ Asks(g) = Asks(h) /\ HasCurrent(g) = HasCurrent(h)
<1>1. InTurn(g) /\ HasCurrent(g) = HasCurrent(h) /\ Current(g) = Current(h)
  BY DEF OneByOne, InTurn, SameCourse, HasCurrent, Current
<1>2. /\ Blocked(h) => Blocked(g)
      /\ Flowing(h) => Flowing(g)
      /\ Rests(h) => Rests(g)
  BY <1>1 DEF Blocked, Flowing, Rests, SameCourse, ModeFits
<1> QED
  BY <1>1, <1>2 DEF OneByOne, Asks, SameCourse

LEMMA RequestFlows ==
  ASSUME LinkInv, LinkInv', Executes, Flows, DongleTakesRequest
  PROVE  Flows'
<1> DEFINE rq == Head(host.ep0)
           g == host'
<1>1. /\ P!Setup(rq) /\ host' = Takes(host) /\ host.ep0 # <<>> /\ serving = NoCompletion
      /\ serving' = (IF rq.rq \in P!OutRequests THEN NoCompletion
                       ELSE [rq |-> rq.rq, reply |-> P!ReadReply])
      /\ done' = done /\ executing' = executing
  BY SameDongle DEF DongleTakesRequest, Takes
<1>2. OneByOne(host) /\ host \in HostType /\ Running
  BY DEF Flows, HostFlows, OneByOne, InTurn, Running
<1>3. rq = host.ep0[1] /\ 1 \in 1..Len(host.ep0) /\ host.ep0 \in Seq(HostRequest)
  BY <1>1, <1>2, HostSeqs, TailElements
<1> HIDE DEF rq
<1>4. /\ rq.rq = Asks(host) /\ (Asks(host) = "RQ_MODE" => rq.mode = host.nextMode) /\ ~Quiet
  BY <1>1, <1>3 DEF Flows, BusAsks, Quiet
<1>5. /\ ~HasStatus(done) /\ HasCurrent(host) /\ host.numIosPending > 0
      /\ IF host.canXfer THEN Flowing(host) ELSE Blocked(host)
  BY <1>4, NoStatusYet
<1>6. /\ g \in HostType /\ SameCourse(g, host) /\ g.ep0 = Tail(host.ep0) /\ g.xfers = host.xfers
      /\ g.numIosPending = host.numIosPending /\ g.countToWrite = host.countToWrite
      /\ g.countToRead = host.countToRead /\ g.interruptIsRunning = host.interruptIsRunning
      /\ Len(g.ep0) = Len(host.ep0) - 1 /\ Len(host.ep0) \in Nat
      /\ \A i \in 1..Len(g.ep0) : i + 1 \in 1..Len(host.ep0) /\ g.ep0[i] = host.ep0[i + 1]
  BY <1>1, <1>2, TakesFields
<1>7. /\ OneByOne(g) /\ Asks(g) = Asks(host) /\ HasCurrent(g) = HasCurrent(host)
      /\ g.canXfer = host.canXfer /\ g.nextMode = host.nextMode
      /\ g.currentMode = host.currentMode
  BY <1>2, <1>6, SameTurn DEF SameCourse
<1>8. /\ phase = "poll" /\ request = P!NoRequest /\ phase' # "hung"
      /\ request' = IF rq.rq \in P!OutRequests THEN rq ELSE P!NoRequest
  BY <1>1, DongleAssumptions, P!SetupNotes
<1>9. HostFlows'
  BY <1>1, <1>5, <1>6, <1>7 DEF Flows, HostFlows, HasStatus
<1>10. BusAsks'
  <2>1. request'.rq \in {Asks(host), "NONE"} /\ serving'.rq \in {Asks(host), "NONE"}
    BY <1>1, <1>4, <1>8 DEF NoCompletion, P!NoRequest
  <2> QED
    BY <1>1, <1>6, <1>7, <1>8, <2>1 DEF Flows, BusAsks
<1>11. P!RInv /\ P!PrimedTells
  BY DEF LinkInv, Flows, ToldTrue
<1>12. CASE rq.rq = "RQ_MODE"
  <2>1. P!RqMode(rq)
    BY <1>1, <1>12 DEF P!Setup, P!RqReadNothing, P!RqReadPacket, P!RqFlush, P!RqAnswerOnly, P!RqSync,
       P!SetupOut, P!OutRequests
  <2>2. system_state' = rq.mode /\ P!PrimedTells'
    BY <1>11, <2>1, DongleAssumptions, P!ModeIsSet
  <2>3. ~host.canXfer
    BY <1>4, <1>12 DEF Asks
  <2>4. g.ep0 = <<>>
    <3>1. Len(host.ep0) + One(request.rq # "NONE") <= 1
      BY <1>2, <1>5, <2>3, QuietBus DEF Blocked
    <3>2. Len(g.ep0) = 0
      <4> DEFINE b == Len(host.ep0)
                 o == One(request.rq # "NONE")
      <4>1. o \in {0, 1}
        BY DEF One
      <4>2. b \in Nat /\ Len(g.ep0) = b - 1
        BY <1>6
      <4>3. 1 \in 1..b
        BY <1>3
      <4>4. b + o <= 1
        BY <3>1
      <4> HIDE DEF b, o
      <4>5. b = 1
        BY <4>1, <4>2, <4>3, <4>4
      <4> QED
        BY <4>2, <4>5
    <3> QED
      BY <1>6, <3>2, EmptySeq, HostSeqs
  <2>5. ModeAsked'
    <3>1. host.nextMode # "READ"
      BY <1>2 DEF OneByOne, InTurn
    <3> QED
      BY <1>4, <1>7, <1>12, <2>2, <2>4, <3>1 DEF ModeAsked
  <2>6. HasRoom'
    BY <1>7, <2>3 DEF HasRoom
  <2>7. ToldTrue'
    BY <1>1, <1>5, <2>2 DEF ToldTrue, HasStatus
  <2> QED
    BY <1>9, <1>10, <2>5, <2>6, <2>7 DEF Flows
<1>13. CASE rq.rq # "RQ_MODE"
  <2>1. rq.rq \in {"RQ_WRITE", "RQ_CONFIG"}
    BY <1>4, <1>13 DEF Asks
  <2>2. P!SetupOut(rq)
    BY <1>1, <2>1 DEF P!Setup, P!RqMode, P!RqReadNothing, P!RqReadPacket, P!RqFlush,
       P!RqAnswerOnly, P!RqSync
  <2>3. /\ system_state' = system_state /\ cb' = cb /\ request' = rq /\ P!PrimedTells'
    BY <1>11, <2>2, DongleAssumptions, P!OutIsNoted
  <2>4. ModeAsked'
    BY <1>4, <1>7, <1>13, <2>3 DEF Flows, ModeAsked
  <2>5. HasRoom'
    <3> SUFFICES ASSUME host.canXfer
                 PROVE  g.countToWrite + Len(g.ep0) + One(request'.rq # "NONE") + cb'.count
                          <= cb'.size
      BY <1>7 DEF HasRoom
    <3>1. One(request.rq # "NONE") = 0 /\ One(request'.rq # "NONE") = 1
      BY <1>8, <2>1, <2>3 DEF One, P!NoRequest
    <3> DEFINE a == host.countToWrite
               b == Len(host.ep0)
    <3>2. a + b + 0 + cb.count <= cb.size
      BY <3>1 DEF Flows, HasRoom
    <3>3. a \in Nat /\ b \in Nat /\ cb.count \in Nat
      BY <1>2, HostFields, HostSeqs, HwBufferAssumption
         DEF LinkInv, P!RInv, P!IInv, P!TypeOK, P!RingType
    <3>4. g.countToWrite = a /\ Len(g.ep0) = b - 1
      BY <1>6
    <3> HIDE DEF a, b
    <3>5. a + (b - 1) + 1 + cb.count <= cb.size
      BY <3>2, <3>3
    <3> QED
      BY <2>3, <3>1, <3>4, <3>5
  <2>6. ToldTrue'
    BY <1>1, <1>5, <2>3 DEF ToldTrue, HasStatus
  <2> QED
    BY <1>9, <1>10, <2>4, <2>5, <2>6 DEF Flows
<1> QED
  BY <1>12, <1>13

LEMMA WriterInit ==
  ASSUME Init
  PROVE  Flows
<1>1. /\ host = HostInit /\ Len(host.xfers) = 0 /\ Len(host.ep0) = 0 /\ Len(done) = 0
      /\ host.ep0 = <<>> /\ done = <<>> /\ executing = Idle /\ serving.rq = "NONE"
  BY EmptySeq DEF Init, HostInit, NoCompletion
<1>2. /\ P!Init /\ phase = "poll" /\ request.rq = "NONE" /\ system_state = "IDLE"
      /\ cb.count = 0 /\ cb.size = 0 /\ intMsg = P!NoMessage
  <2>1. P!Init
    BY SameDongle DEF Init
  <2>2. cb = P!Ring(0, 0) /\ request = P!NoRequest /\ phase = "poll" /\ intMsg = P!NoMessage
        /\ system_state = "IDLE"
    BY <2>1 DEF P!Init
  <2> QED
    BY <2>1, <2>2 DEF P!NoRequest, P!Ring
<1>3. /\ host.thrown = "nothing" /\ host.queue = <<>> /\ host.currentTransfer = NoTransfer
      /\ host.countToRead = 0 /\ host.countToWrite = 0
      /\ host.currentMode = "IDLE" /\ host.nextMode = "IDLE"
      /\ host.numIosPending = 0 /\ host.canXfer /\ ~host.interruptIsRunning
  BY <1>1 DEF HostInit
<1>4. host \in HostType
  BY <1>1, EmptySeq DEF HostInit, HostType, NoTransfer, Modes
<1>5. InTurn(host) /\ Rests(host)
  BY <1>1, <1>3, <1>4 DEF InTurn, Rests
<1>6. HostFlows
  BY <1>1, <1>3, <1>5 DEF HostFlows, OneByOne, HasCurrent, HasStatus
<1>7. BusAsks /\ ToldTrue
  BY <1>1, <1>2 DEF BusAsks, ToldTrue, P!PrimedTells
<1>8. ModeAsked
  BY <1>2, <1>3 DEF ModeAsked, Asks
<1>9. HasRoom
  <2>1. One(request.rq # "NONE") = 0
    BY <1>2 DEF One
  <2> QED
    BY <1>1, <1>2, <1>3, <2>1 DEF HasRoom
<1> QED
  BY <1>6, <1>7, <1>8, <1>9 DEF Flows

LEMMA WritersDoNotSweep ==
  ASSUME Writers
  PROVE  NoSweeps
  BY DEF Writers, IsWriter, NoSweeps

LEMMA NothingFlows ==
  ASSUME Flows, UNCHANGED vars
  PROVE  Flows'
<1>1. UNCHANGED <<dongle, host, executing, bus>>
  BY DEF vars, program
<1>2. /\ UNCHANGED <<host, executing, serving, done, request, phase, system_state, cb, intMsg>>
      /\ UNCHANGED <<radio, last_tx_failed>>
  BY <1>1 DEF dongle, bus
<1>3. HostFlows' /\ HasRoom' /\ BusAsks' /\ ModeAsked'
  BY <1>2 DEF Flows, HostFlows, HasRoom, BusAsks, ModeAsked, HasStatus
<1>4. ToldTrue'
  BY <1>2 DEF Flows, ToldTrue, P!PrimedTells, P!Tells
<1> QED
  BY <1>3, <1>4 DEF Flows

LEMMA SameStyle ==
  ASSUME [Next]_vars
  PROVE  style' = style /\ Executes' = Executes
<1>1. style' = style
  BY DEF Next, vars, program, Submit, PingAgain, Return, Cancel, TimeUp, Callback,
         DongleTakesRequest, DongleTakesData, StatusStage, CollectStatus, DongleRuns,
         Acknowledged, Unanswered, Receives
<1> QED
  BY <1>1 DEF Executes

LEMMA WriterNext ==
  ASSUME Writers, WriterInv, [Next]_vars
  PROVE  WriterInv'
<1>1. LinkInv /\ LinkInv'
  BY WritersDoNotSweep, LinkNext DEF WriterInv
<1> SUFFICES ASSUME Executes PROVE Flows'
  BY <1>1, SameStyle DEF WriterInv
<1>3. Flows
  BY DEF WriterInv
<1>4. CASE Callback
  BY <1>1, <1>3, <1>4, StatusFlows, DoneFlows
<1>5. CASE PingAgain \/ \E d \in Menu : Submit(d)
  BY <1>1, <1>3, <1>5, SubmitFlows
<1>7. CASE Return \/ \E t \in 1..Len(host.xfers) : Cancel(t) \/ TimeUp(t)
  BY <1>1, <1>3, <1>7, ReturnFlows
<1>8. CASE DongleTakesRequest \/ DongleTakesData
  BY <1>1, <1>3, <1>8, RequestFlows, DataFlows
<1>9. CASE StatusStage \/ CollectStatus
  BY <1>1, <1>3, <1>9, StatusStageFlows, CollectFlows
<1>10. CASE DongleRuns \/ Acknowledged \/ Unanswered \/ Receives
  BY <1>1, <1>3, <1>10, DongleFlows
<1>11. CASE UNCHANGED vars
  BY <1>3, <1>11, NothingFlows
<1> QED
  BY <1>4, <1>5, <1>7, <1>8, <1>9, <1>10, <1>11 DEF Next

LEMMA WriterAlways ==
  ASSUME Writers
  PROVE  Spec => []WriterInv
<1>1. Init => WriterInv
  BY LinkInit, WriterInit DEF WriterInv
<1> QED
  BY <1>1, WriterNext, PTL DEF Spec

LEMMA StyleStays ==
  ASSUME Styles \subseteq {"execute"}
  PROVE  Spec => []Executes
<1>1. Init => Executes
  BY DEF Init, Executes
<1>2. Executes /\ [Next]_vars => Executes'
  BY SameStyle
<1> QED
  BY <1>1, <1>2, PTL DEF Spec

-----------------------------------------------------------------------------
(***************************************************************************)
(* What follows for such a program.                                        *)
(***************************************************************************)

\* The host never writes a packet to a full ring of the dongle, where the oldest packet
\* would be dropped, nor to one without slots, where the firmware would hang: for any
\* program that configures, streams and writes in bulk, rings of any size, any air, and
\* transfers that time out.  What the statuses said, less what is on its way, is room
\* that is there (countToWrite in rf24libusbadaptor.cpp).
THEOREM NoFullRingIsWritten ==
  ASSUME Writers
  PROVE  Spec => []NoWriteToFullRing
<1>1. ASSUME WriterInv
      PROVE  NoWriteToFullRing
  <2> SUFFICES ASSUME Executes, request.rq = "RQ_WRITE"
               PROVE  D!HasSlots(D!WriteRing) /\ ~D!cb_is_full(D!WriteRing)
    BY DEF NoWriteToFullRing
  <2>1. P!HasSlots(P!WriteRing) /\ ~P!cb_is_full(P!WriteRing)
    BY <1>1, RoomIsThere DEF WriterInv, P!WriteFits
  <2> QED
    BY <2>1 DEF D!HasSlots, P!HasSlots, D!cb_is_full, P!cb_is_full, D!WriteRing, P!WriteRing
<1> QED
  BY <1>1, WriterAlways, PTL

\* When a transfer that was executed has ended, completed or timed out, libusb holds
\* none of its packets (rf24iotransfer.cpp deletes them with the transfer).
THEOREM PacketsOutliveRequests ==
  ASSUME Writers
  PROVE  Spec => []BuffersOutliveRequests
<1>1. ASSUME WriterInv
      PROVE  BuffersOutliveRequests
  <2> SUFFICES ASSUME Executes, NEW t \in Transfers, host.xfers[t].status # "QUEUED"
               PROVE  host.xfers[t].numWriting = 0
    BY DEF BuffersOutliveRequests
  <2>1. InTurn(host)
    BY <1>1 DEF WriterInv, Flows, HostFlows, OneByOne
  <2> QED
    BY <2>1 DEF InTurn, Transfers
<1> QED
  BY <1>1, WriterAlways, PTL

\* No callback of such a program throws or uses a transfer that is not there: there is a
\* current transfer whenever a packet, a switch or a status comes back that is about one,
\* and only the current transfer is completed.  In the style "queue", cancel() throws.
THEOREM NoCallbackThrows ==
  ASSUME Writers, Styles \subseteq {"execute"}
  PROVE  Spec => []NothingThrown
<1>1. ASSUME WriterInv, Executes
      PROVE  NothingThrown
  BY <1>1 DEF WriterInv, Flows, HostFlows, OneByOne, InTurn, NothingThrown, Running
<1> QED
  BY <1>1, WriterAlways, StyleStays, PTL

-----------------------------------------------------------------------------
(***************************************************************************)
(* What becomes of the packets of a program that configures and writes.    *)
(***************************************************************************)

\* The packets in the dongle and on the way there, and those that were sent.
Here == P!Held \cup P!Announced \cup Writes(host.ep0)
Aired == P!Elements(air)

\* The packets of the bulk writes at the end of the program so far are all there; while
\* there are any, no mode switch and no configuration is on its way that would flush them.
Unended(x) == x.d.kind = "bulk" /\ x.status \in {"QUEUED", "COMPLETED"}
Chain(h, u) == \A v \in u..Len(h.xfers) : Unended(h.xfers[v])
BulkKept ==
  \A u \in Transfers : Chain(host, u) /\ host.xfers[u].sent > 0 =>
    /\ host.canXfer /\ host.currentMode = "WRITE_BULK"
    /\ \A i \in 1..host.xfers[u].sent : <<u, i>> \in Here \cup Aired

\* The last packet of a stream that was sent is the last one on its way or, when none
\* is, the one that the verdict is about.
LastSent(p) ==
  IF host.ep0 # <<>> THEN host.ep0[Len(host.ep0)].packet = p
    ELSE IF request.rq # "NONE" THEN request.packet = p ELSE P!LastIs(p)
LastKept ==
  HasCurrent(host) /\ host.canXfer /\ Current(host).d.kind = "stream" /\ Current(host).sent > 0 =>
    \A p : p = <<host.currentTransfer, Current(host).sent>> => LastSent(p)

\* What a synchronous write that COMPLETED can rely on.
AllBulk(u, t) ==
  \A v \in u..t : host.xfers[v].d.kind = "bulk" /\ host.xfers[v].status = "COMPLETED"
AllAired(u) == \A i \in 1..ToSend(host.xfers[u].d) : <<u, i>> \in Aired
Ended(t) ==
  LET x == host.xfers[t] IN
  x.status = "COMPLETED" /\ x.d.sync /\ x.d.kind \in {"stream", "bulk"}
Outcome(t) ==
  LET x == host.xfers[t] IN
  /\ \A p \in Here : p[1] # t
  /\ x.d.kind = "bulk" => \A u \in 1..t : AllBulk(u, t) => AllAired(u)
  /\ x.d.kind = "stream" /\ x.lastWriteOk => <<t, ToSend(x.d)>> \in Aired
Outcomes == \A t \in Transfers : Ended(t) => Outcome(t)
SentInv == P!SentTrue /\ BulkKept /\ LastKept /\ Outcomes

LEMMA HereIs ==
  ASSUME LinkInv
  PROVE  InDongle \cup OnTheWay = Here
<1> DEFINE c == P!Contents(cb, pcks)
<1>1. D!Contents(cb, pcks) = c
  BY DEF D!Contents, P!Contents, D!Slot, P!Slot
<1>2. Len(c) = cb.count
  <2>1. P!RInv
    BY DEF LinkInv
  <2> QED
    BY <2>1, DongleAssumptions, P!RingsAreQueues, P!ContentsSeq
<1> HIDE DEF c
<1>3. InDongle = P!Held
  BY <1>1, <1>2 DEF InDongle, P!Held, P!Elements, c
<1>4. OnTheWay = P!Announced \cup Writes(host.ep0)
  <2>1. host.ep0 \in Seq(HostRequest)
    BY DEF LinkInv, Good, Sane
  <2>2. ToSet(host.ep0) = {host.ep0[i] : i \in 1..Len(host.ep0)}
    BY <2>1 DEF ToSet
  <2>3. {r \in {request} : r.rq = "RQ_WRITE"} = IF request.rq = "RQ_WRITE" THEN {request} ELSE {}
    OBVIOUS
  <2> QED
    BY <2>2, <2>3 DEF OnTheWay, P!Announced, Writes, IsWrite
<1> QED
  BY <1>3, <1>4 DEF Here

LEMMA SentIs == \A t, i : Sent(t, i) <=> <<t, i>> \in Aired
  BY DEF Sent, Aired, P!Elements

LEMMA BulkSame ==
  ASSUME BulkKept, Len(host'.xfers) = Len(host.xfers), Len(host.xfers) \in Nat,
         \A t \in Transfers :
           /\ host'.xfers[t].d = host.xfers[t].d /\ host'.xfers[t].sent = host.xfers[t].sent
           /\ host'.xfers[t].status \in {"QUEUED", "COMPLETED"} =>
                host.xfers[t].status \in {"QUEUED", "COMPLETED"},
         host.canXfer => host'.canXfer /\ host'.currentMode = host.currentMode,
         host.canXfer /\ host.currentMode = "WRITE_BULK" =>
           Here \cup Aired \subseteq Here' \cup Aired'
  PROVE  BulkKept'
<1> SUFFICES ASSUME NEW u \in Transfers', Chain(host', u), host'.xfers[u].sent > 0
             PROVE  /\ host'.canXfer /\ host'.currentMode = "WRITE_BULK"
                    /\ \A i \in 1..host'.xfers[u].sent : <<u, i>> \in Here' \cup Aired'
  BY DEF BulkKept, Chain
<1>1. u \in Transfers /\ u \in Nat
  BY DEF Transfers
<1>2. Chain(host, u)
  BY <1>1 DEF Chain, Unended, Transfers
<1>3. /\ host.canXfer /\ host.currentMode = "WRITE_BULK"
      /\ \A i \in 1..host.xfers[u].sent : <<u, i>> \in Here \cup Aired
  BY <1>1, <1>2 DEF BulkKept
<1> QED
  BY <1>1, <1>3

Same(x, y) == x.d = y.d /\ x.status = y.status /\ x.lastWriteOk = y.lastWriteOk

\* Only the last transfer changes, and if that is its end, nothing is left.
LEMMA OutcomesKept ==
  ASSUME Flows', Outcomes, BulkKept', Aired \subseteq Aired', NEW n, n = Len(host'.xfers),
         \A t \in 1..n : t # n => t \in Transfers /\ Same(host.xfers[t], host'.xfers[t]),
         n \in 1..n =>
           \/ n \in Transfers /\ Same(host.xfers[n], host'.xfers[n])
           \/ ~Ended(n)'
           \/ Here' = {} /\ LET x == host'.xfers[n] IN
                x.d.kind = "stream" /\ x.lastWriteOk => <<n, ToSend(x.d)>> \in Aired',
         \A p \in Here' : p \in Here \/ (p[1] = host'.currentTransfer /\ HasCurrent(host'))
  PROVE  Outcomes'
<1>1. InTurn(host') /\ host' \in HostType /\ n \in Nat
  BY HostSeqs DEF Flows, HostFlows, OneByOne, InTurn
<1> SUFFICES ASSUME NEW t \in 1..n, Ended(t)'
             PROVE  Outcome(t)'
  BY DEF Outcomes, Transfers
<1>2. host'.xfers[t].status = "COMPLETED" /\ t # host'.currentTransfer
  BY <1>1 DEF Ended, InTurn
<1>3. CASE t \in Transfers /\ Same(host.xfers[t], host'.xfers[t])
  <2>1. Ended(t) /\ Outcome(t)
    BY <1>3 DEF Outcomes, Ended, Same
  <2>2. ASSUME NEW p \in Here' PROVE p[1] # t
    BY <1>2, <2>1, <2>2 DEF Outcome
  <2>3. ASSUME NEW u \in 1..t, AllBulk(u, t)', host'.xfers[t].d.kind = "bulk"
        PROVE  AllAired(u)'
    <3>1. ASSUME NEW v \in u..t PROVE Same(host.xfers[v], host'.xfers[v])
      <4>1. v = t \/ (v \in 1..n /\ v # n)
        BY <1>1, <2>3, <3>1
      <4> QED
        BY <1>3, <4>1
    <3>2. AllBulk(u, t)
      BY <2>3, <3>1 DEF AllBulk, Same
    <3>3. AllAired(u) /\ u \in u..t
      BY <1>3, <2>1, <2>3, <3>2 DEF Outcome, Same
    <3> QED
      BY <3>1, <3>3 DEF AllAired, Same
  <2>4. host'.xfers[t].d.kind = "stream" /\ host'.xfers[t].lastWriteOk =>
          <<t, ToSend(host'.xfers[t].d)>> \in Aired'
    BY <1>3, <2>1 DEF Outcome, Same
  <2> QED
    BY <2>2, <2>3, <2>4 DEF Outcome
<1>4. CASE ~(t \in Transfers /\ Same(host.xfers[t], host'.xfers[t]))
  <2>1. t = n
    BY <1>4
  <2>2. /\ Here' = {}
        /\ host'.xfers[t].d.kind = "stream" /\ host'.xfers[t].lastWriteOk =>
             <<t, ToSend(host'.xfers[t].d)>> \in Aired'
    BY <1>4, <2>1
  <2>3. ASSUME NEW u \in 1..t, AllBulk(u, t)'
        PROVE  AllAired(u)'
    <3>1. Chain(host', u)
      BY <2>1, <2>3 DEF AllBulk, Chain, Unended
    <3>2. /\ host'.xfers[u].d.kind = "bulk" /\ host'.xfers[u].status = "COMPLETED"
          /\ u \in 1..n
      <4>1. u \in u..t /\ u \in 1..n
        BY <1>1, <2>1, <2>3
      <4> QED
        BY <2>3, <4>1 DEF AllBulk
    <3>3. /\ host'.xfers[u].sent = ToSend(host'.xfers[u].d)
          /\ IsWriter(host'.xfers[u].d)
      BY <1>1, <3>2 DEF InTurn
    <3>4. ToSend(host'.xfers[u].d) > 0
      BY <3>2, <3>3 DEF IsWriter, ToSend
    <3>5. \A i \in 1..host'.xfers[u].sent : <<u, i>> \in Here' \cup Aired'
      BY <3>1, <3>2, <3>3, <3>4 DEF BulkKept, Transfers, Chain
    <3> QED
      BY <2>2, <3>3, <3>5 DEF AllAired
  <2> QED
    BY <2>2, <2>3 DEF Outcome
<1> QED
  BY <1>3, <1>4

LEMMA FlowsHost ==
  ASSUME Flows
  PROVE  /\ host \in HostType /\ InTurn(host) /\ Len(host.xfers) \in Nat
         /\ host.ep0 \in Seq(HostRequest) /\ system_state # "READ"
         /\ host.canXfer => system_state = host.currentMode /\ Asks(host) = "RQ_WRITE"
<1>1. host \in HostType /\ InTurn(host)
  BY DEF Flows, HostFlows, OneByOne, InTurn
<1> QED
  BY <1>1, HostSeqs DEF Flows, ModeAsked, Asks

\* The transfers are as they were, and no packet joins.
LEMMA HostKept ==
  ASSUME Flows, Flows', SentInv, host'.xfers = host.xfers, SameCourse(host', host),
         P!SentTrue', Here' \subseteq Here, Aired \subseteq Aired',
         host.canXfer /\ host.currentMode = "WRITE_BULK" => Here \subseteq Here' \cup Aired',
         \A p : host.canXfer /\ host.currentMode = "WRITE_STREAM" /\ LastSent(p) => LastSent(p)'
  PROVE  SentInv'
<1>1. Len(host.xfers) \in Nat /\ OneByOne(host)
  BY FlowsHost DEF Flows, HostFlows
<1>2. BulkKept'
  BY <1>1, BulkSame DEF SentInv, SameCourse
<1>3. Outcomes'
  <2> DEFINE n == Len(host.xfers)
  <2>1. \A t \in 1..n : t \in Transfers /\ Same(host.xfers[t], host'.xfers[t])
    BY DEF Transfers, Same
  <2>2. n = Len(host'.xfers)
    OBVIOUS
  <2> HIDE DEF n
  <2> QED
    BY <1>2, <2>1, <2>2, OutcomesKept DEF SentInv
<1>4. LastKept'
  <2> SUFFICES ASSUME HasCurrent(host'), host'.canXfer, Current(host').d.kind = "stream",
                      Current(host').sent > 0, NEW p,
                      p = <<host'.currentTransfer, Current(host').sent>>
               PROVE  LastSent(p)'
    BY DEF LastKept
  <2>1. /\ HasCurrent(host) /\ host.canXfer /\ Current(host) = Current(host')
        /\ p = <<host.currentTransfer, Current(host).sent>>
    BY DEF SameCourse, HasCurrent, Current
  <2>2. LastSent(p)
    BY <2>1 DEF SentInv, LastKept
  <2>3. Flowing(host)
    BY <1>1, <2>1 DEF OneByOne, Blocked
  <2>4. host.currentMode = "WRITE_STREAM"
    BY <2>1, <2>3 DEF Flowing, ModeFits, transferMode
  <2> QED
    BY <2>1, <2>2, <2>4
<1> QED
  BY <1>2, <1>3, <1>4 DEF SentInv

\* What has no part in it.
LEMMA NothingSent ==
  ASSUME SentInv, Flows, Flows',
         UNCHANGED <<system_state, writing, last_tx_failed, cb, pcks, radio, air, request, host>>
  PROVE  SentInv'
<1>1. /\ P!Held' = P!Held /\ P!Elements(air') = P!Elements(air)
      /\ P!SentTrue => P!SentTrue'
      /\ \A p : P!LastIs(p) => P!LastIs(p)'
  BY DongleAssumptions, P!SentStays
<1>2. P!Announced' = P!Announced
  BY DEF P!Announced
<1>3. Here' = Here /\ Aired' = Aired /\ P!SentTrue'
  BY <1>1, <1>2 DEF Here, Aired, SentInv
<1>4. \A p : LastSent(p) => LastSent(p)'
  BY <1>1 DEF LastSent
<1> QED
  BY <1>3, <1>4, HostKept DEF SameCourse

LEMMA AsideSent ==
  ASSUME SentInv, Flows, Flows', Executes,
         \/ StatusStage \/ CollectStatus \/ Return \/ UNCHANGED vars
         \/ \E t \in 1..Len(host.xfers) : Cancel(t) \/ TimeUp(t)
  PROVE  SentInv'
<1>1. ~\E t \in 1..Len(host.xfers) : Cancel(t)
  BY DEF Cancel, Executes
<1>2. UNCHANGED <<system_state, writing, last_tx_failed, cb, pcks, radio, air, request, host>>
  BY <1>1 DEF StatusStage, CollectStatus, Return, TimeUp, vars, dongle, program,
     D!HostTakesInterrupt, D!firmware, D!ring, D!history
<1> QED
  BY <1>2, NothingSent

\* The dongle does something by itself.
LEMMA DongleSent ==
  ASSUME LinkInv, SentInv, Flows, Flows', DongleRuns \/ Acknowledged \/ Unanswered \/ Receives
  PROVE  SentInv'
<1>1. P!Alone /\ UNCHANGED <<program, bus>>
  BY SameDongle DEF DongleRuns, Acknowledged, Unanswered, Receives
<1>2. request' = request /\ host' = host
  BY <1>1, DongleAssumptions, P!AloneNotes DEF program
<1>3. /\ P!RInv /\ P!Skips /\ P!SentTrue /\ system_state # "READ" /\ P!WriteFits
      /\ host.canXfer => system_state = host.currentMode
  BY FlowsHost, RoomIsThere DEF LinkInv, P!OrderInv, SentInv
<1>4. P!Moves /\ P!Steps
  BY <1>1, <1>3, DongleAssumptions, P!AloneMoves
<1>5. P!SentTrue'
  BY <1>3, <1>4, DongleAssumptions, P!SentTrueStep
<1>6. Aired \subseteq Aired'
  BY <1>3, <1>4, DongleAssumptions, P!AirGrows DEF Aired
<1>7. /\ P!Held' \subseteq P!Held
      /\ system_state = "WRITE_BULK" => P!Held \subseteq P!Held' \cup P!Elements(air')
  BY <1>3, <1>4, DongleAssumptions, P!MovesKeepHeld
<1>8. P!Announced' = P!Announced
  BY <1>2 DEF P!Announced
<1>9. /\ Here' \subseteq Here
      /\ system_state = "WRITE_BULK" => Here \subseteq Here' \cup Aired'
  BY <1>2, <1>7, <1>8 DEF Here, Aired
<1>10. ASSUME NEW p, system_state = "WRITE_STREAM", LastSent(p)
       PROVE  LastSent(p)'
  <2>1. P!LastIs(p) => P!LastIs(p)'
    BY <1>3, <1>4, <1>10, DongleAssumptions, P!MovesKeepLast
  <2> QED
    BY <1>2, <1>10, <2>1 DEF LastSent
<1> QED
  BY <1>2, <1>3, <1>5, <1>6, <1>9, <1>10, HostKept DEF SameCourse

LEMMA WritesOfTail ==
  ASSUME NEW s \in Seq(HostRequest), s # <<>>
  PROVE  /\ Writes(s) = Writes(Tail(s)) \cup (IF IsWrite(Head(s)) THEN {Head(s).packet} ELSE {})
         /\ Tail(s) # <<>> => Tail(s)[Len(Tail(s))] = s[Len(s)]
         /\ Tail(s) = <<>> => Head(s) = s[Len(s)]
<1> DEFINE r == Tail(s)
           n == Len(s)
<1>1. /\ r \in Seq(HostRequest) /\ 1 \in 1..n /\ Head(s) = s[1]
      /\ Len(r) = n - 1 /\ n \in Nat /\ n > 0
      /\ \A i \in 1..Len(r) : i + 1 \in 1..n /\ r[i] = s[i + 1]
  BY TailElements, HeadTailProperties, EmptySeq, LenProperties
<1> HIDE DEF r, n
<1>2. \A i \in 1..n : i = 1 \/ (i - 1 \in 1..Len(r) /\ r[i - 1] = s[i])
  <2> TAKE i \in 1..n
  <2>1. i = 1 \/ i - 1 \in 1..Len(r)
    BY <1>1
  <2>2. (i - 1) + 1 = i
    BY <1>1
  <2> QED
    BY <1>1, <2>1, <2>2
<1>3. Writes(s) = Writes(r) \cup (IF IsWrite(Head(s)) THEN {Head(s).packet} ELSE {})
  <2>1. ASSUME NEW p \in Writes(s)
        PROVE  p \in Writes(r) \cup (IF IsWrite(Head(s)) THEN {Head(s).packet} ELSE {})
    <3>1. PICK i \in 1..n : IsWrite(s[i]) /\ p = s[i].packet
      BY <2>1 DEF Writes, n
    <3>2. CASE i = 1
      BY <1>1, <3>1, <3>2
    <3>3. CASE i # 1
      <4>1. i - 1 \in 1..Len(r) /\ r[i - 1] = s[i]
        BY <1>2, <3>3
      <4> QED
        BY <3>1, <4>1 DEF Writes
    <3> QED
      BY <3>2, <3>3
  <2>2. Writes(r) \subseteq Writes(s)
    BY <1>1 DEF Writes, n
  <2>3. IsWrite(Head(s)) => Head(s).packet \in Writes(s)
    BY <1>1 DEF Writes, n
  <2> QED
    BY <2>1, <2>2, <2>3
<1>4. r # <<>> => r[Len(r)] = s[n]
  <2> SUFFICES ASSUME r # <<>> PROVE r[Len(r)] = s[n]
    OBVIOUS
  <2>1. Len(r) \in 1..Len(r)
    BY <1>1, EmptySeq, LenProperties
  <2>2. Len(r) + 1 = n
    BY <1>1
  <2> QED
    BY <1>1, <2>1, <2>2
<1>5. r = <<>> => Head(s) = s[n]
  <2> SUFFICES ASSUME r = <<>> PROVE Head(s) = s[n]
    OBVIOUS
  <2>1. Len(r) = 0
    BY EmptySeq
  <2>2. n = 1
    BY <1>1, <2>1
  <2> QED
    BY <1>1, <2>2
<1> QED
  BY <1>3, <1>4, <1>5 DEF r, n

LEMMA RequestSent ==
  ASSUME LinkInv, SentInv, Flows, Flows', DongleTakesRequest
  PROVE  SentInv'
<1> DEFINE rq == Head(host.ep0)
           s == host.ep0
<1>1. P!Setup(rq) /\ host' = Takes(host) /\ s # <<>>
  BY SameDongle DEF DongleTakesRequest, Takes
<1>2. host \in HostType /\ s \in Seq(HostRequest)
  BY FlowsHost
<1>3. rq = s[1] /\ 1 \in 1..Len(s) /\ rq \in HostRequest
  BY <1>1, <1>2, TailElements, ElementOfSeq
<1>4. /\ SameCourse(host', host) /\ host'.ep0 = Tail(s) /\ host'.xfers = host.xfers
  BY <1>1, <1>2, TakesFields
<1>5. /\ Writes(s) = Writes(Tail(s)) \cup (IF IsWrite(rq) THEN {rq.packet} ELSE {})
      /\ Tail(s) # <<>> => Tail(s)[Len(Tail(s))] = s[Len(s)]
      /\ Tail(s) = <<>> => rq = s[Len(s)]
  BY <1>1, <1>2, WritesOfTail
<1>6. rq \in P!Request /\ rq.rq = Asks(host)
  BY <1>3 DEF HostRequest, Modes, Numbered, P!Request, P!Mode, P!Packet, Flows, BusAsks
<1> HIDE DEF rq, s
<1>7. request = P!NoRequest /\ request' = IF rq.rq \in P!OutRequests THEN rq ELSE P!NoRequest
  BY <1>1, DongleAssumptions, P!SetupNotes
<1>8. P!RInv /\ P!WriteFits /\ P!SentTrue
  BY RoomIsThere DEF LinkInv, SentInv
<1>9. P!Steps
  BY <1>1, <1>6, DongleAssumptions, P!SetupOfAnyHost
<1>10. P!SentTrue' /\ Aired \subseteq Aired'
  BY <1>8, <1>9, DongleAssumptions, P!SentTrueStep, P!AirGrows DEF Aired
<1>11. P!Announced = {}
  BY <1>7 DEF P!Announced, P!NoRequest
<1>12. CASE rq.rq = "RQ_MODE"
  <2>1. P!RqMode(rq)
    BY <1>1, <1>12 DEF P!Setup, P!RqReadNothing, P!RqReadPacket, P!RqFlush, P!RqAnswerOnly, P!RqSync,
       P!SetupOut, P!OutRequests
  <2>2. P!Held' = {}
    BY <1>8, <2>1, DongleAssumptions, P!NothingHeld
  <2>3. P!Announced' = {}
    BY <1>7, <1>12 DEF P!Announced, P!NoRequest, P!OutRequests
  <2>4. Here' \subseteq Here
    BY <1>4, <1>5, <2>2, <2>3 DEF Here, s
  <2>5. ~host.canXfer
    BY <1>6, <1>12 DEF Asks
  <2> QED
    BY <1>4, <1>10, <2>4, <2>5, HostKept
<1>13. CASE rq.rq # "RQ_MODE"
  <2>1. rq.rq \in {"RQ_WRITE", "RQ_CONFIG"}
    BY <1>6, <1>13 DEF Asks
  <2>2. P!SetupOut(rq)
    BY <1>1, <2>1 DEF P!Setup, P!RqMode, P!RqReadNothing, P!RqReadPacket, P!RqFlush,
       P!RqAnswerOnly, P!RqSync
  <2>3. /\ UNCHANGED <<system_state, writing, last_tx_failed, cb, pcks, radio, air>>
        /\ request' = rq
    BY <2>2, DongleAssumptions, P!OutIsNoted DEF Flows, ToldTrue
  <2>4. /\ P!Held' = P!Held /\ \A p : P!LastIs(p) => P!LastIs(p)'
    BY <2>3, DongleAssumptions, P!SentStays
  <2>5. P!Announced' = IF IsWrite(rq) THEN {rq.packet} ELSE {}
    BY <2>3 DEF P!Announced, IsWrite
  <2>6. Here' = Here
    BY <1>4, <1>5, <1>11, <2>4, <2>5 DEF Here, s
  <2>7. ASSUME NEW p, LastSent(p) PROVE LastSent(p)'
    <3>1. s[Len(s)].packet = p
      BY <1>1, <2>7 DEF LastSent, s
    <3>2. CASE Tail(s) # <<>>
      BY <1>4, <1>5, <3>1, <3>2 DEF LastSent
    <3>3. CASE Tail(s) = <<>>
      <4>1. rq.packet = p /\ request'.rq # "NONE"
        BY <1>5, <2>1, <2>3, <3>1, <3>3
      <4> QED
        BY <1>4, <2>3, <3>3, <4>1 DEF LastSent
    <3> QED
      BY <3>2, <3>3
  <2> QED
    BY <1>4, <1>10, <2>6, <2>7, HostKept
<1> QED
  BY <1>12, <1>13

LEMMA DataSent ==
  ASSUME LinkInv, SentInv, Flows, Flows', DongleTakesData
  PROVE  SentInv'
<1>1. P!Data /\ host' = host
  BY SameDongle DEF DongleTakesData, program
<1>2. phase = "poll" /\ request' = P!NoRequest /\ request.rq \in P!OutRequests
  BY <1>1, DongleAssumptions, P!DataNotes
<1>3. request.rq = Asks(host) /\ request.rq # "NONE"
  BY <1>2 DEF Flows, BusAsks, P!OutRequests
<1>4. P!RInv /\ system_state # "READ" /\ P!WriteFits /\ P!SentTrue
  BY RoomIsThere, FlowsHost DEF LinkInv, SentInv
<1>5. P!Steps
  BY <1>1, DongleAssumptions, P!DataSteps
<1>6. P!SentTrue' /\ Aired \subseteq Aired'
  BY <1>4, <1>5, DongleAssumptions, P!SentTrueStep, P!AirGrows DEF Aired
<1>7. P!Announced' = {}
  BY <1>2 DEF P!Announced, P!NoRequest
<1>8. CASE P!WritePacket
  <2>1. request.rq = "RQ_WRITE"
    BY <1>8 DEF P!WritePacket, P!Complete
  <2>2. ASSUME NEW p, p = request.packet
        PROVE  P!Held' = P!Held \cup {p} /\ P!LastIs(p)'
    BY <1>4, <1>8, <2>2, DongleAssumptions, P!PacketIsHeld
  <2>3. P!Announced = {request.packet}
    BY <2>1 DEF P!Announced
  <2>4. Here' = Here
    <3>1. P!Held' = P!Held \cup {request.packet}
      BY <2>2
    <3> QED
      BY <1>1, <1>7, <2>3, <3>1 DEF Here
  <2>5. ASSUME NEW p, LastSent(p) PROVE LastSent(p)'
    <3>1. CASE host.ep0 # <<>>
      BY <1>1, <2>5, <3>1 DEF LastSent
    <3>2. CASE host.ep0 = <<>>
      <4>1. request.packet = p
        BY <1>3, <2>5, <3>2 DEF LastSent
      <4>2. P!LastIs(p)'
        BY <2>2, <4>1
      <4> QED
        BY <1>1, <1>2, <3>2, <4>2 DEF LastSent, P!NoRequest
    <3> QED
      BY <3>1, <3>2
  <2> QED
    BY <1>1, <1>6, <2>4, <2>5, HostKept DEF SameCourse
<1>9. CASE P!WriteConfig
  <2>1. P!Held' = {}
    BY <1>4, <1>9, DongleAssumptions, P!NothingHeld
  <2>2. request.rq = "RQ_CONFIG"
    BY <1>9 DEF P!WriteConfig, P!Complete
  <2>3. ~host.canXfer
    BY <1>3, <2>2 DEF Asks
  <2>4. Here' \subseteq Here
    BY <1>1, <1>7, <2>1 DEF Here
  <2> QED
    BY <1>1, <1>6, <2>3, <2>4, HostKept DEF SameCourse
<1>10. ~P!WriteHangs /\ ~P!WriteOpenPipe
  BY <1>3, <1>4 DEF P!WriteHangs, P!WriteOpenPipe, P!Complete, P!WriteFits, Asks
<1> QED
  BY <1>1, <1>8, <1>9, <1>10 DEF P!Data

\* What the host does by itself: the dongle is as it was.
LEMMA OfHost ==
  ASSUME UNCHANGED dongle, SentInv
  PROVE  /\ P!SentTrue' /\ Aired' = Aired /\ P!Held' = P!Held /\ P!Announced' = P!Announced
         /\ request' = request
         /\ \A p : P!LastIs(p) => P!LastIs(p)'
<1>1. UNCHANGED <<system_state, writing, last_tx_failed, cb, pcks, radio, air, request>>
  BY DEF dongle
<1>2. /\ P!Held' = P!Held /\ P!Elements(air') = P!Elements(air)
      /\ P!SentTrue => P!SentTrue'
      /\ \A p : P!LastIs(p) => P!LastIs(p)'
  BY <1>1, DongleAssumptions, P!SentStays
<1> QED
  BY <1>1, <1>2 DEF P!Announced, Aired, SentInv

LEMMA WrittenSent ==
  ASSUME LinkInv, SentInv, Executes, Flows, Flows', Callback, ~IsStatus(Head(done)), host.canXfer
  PROVE  SentInv'
<1> DEFINE c == Head(done)
           g == host'
           t == host.currentTransfer
           n == Len(host.xfers)
<1>1. /\ done \in Seq(Completion) /\ done # <<>> /\ UNCHANGED dongle /\ g = Completed(host, c)
  BY DEF LinkInv, Bus, Callback, TakesCompletion, IsStatus
<1>2. c = done[1] /\ 1 \in 1..Len(done)
  BY <1>1, TailElements
<1> HIDE DEF c
<1>3. ~Quiet /\ c.rq = "RQ_WRITE"
  BY <1>2, FlowsHost DEF Quiet, Flows, BusAsks, c
<1>4. HasCurrent(host) /\ host.numIosPending > 0 /\ Flowing(host) /\ OneByOne(host)
  BY <1>3, NoStatusYet DEF Flows, HostFlows
<1>5. g = packetWritten(host)
  BY <1>1, <1>3 DEF Completed
<1>6. /\ g.ep0 = host.ep0 /\ g.canXfer /\ g.currentMode = host.currentMode /\ Len(g.xfers) = n
      /\ \A u \in 1..n : u # t => g.xfers[u] = host.xfers[u]
      /\ g.xfers[t].d = host.xfers[t].d /\ g.xfers[t].sent = host.xfers[t].sent
      /\ g.xfers[t].lastWriteOk = host.xfers[t].lastWriteOk
      /\ \/ g.currentTransfer = t /\ g.xfers[t].status = "QUEUED"
         \/ g.currentTransfer = NoTransfer /\ ~host.xfers[t].d.sync
  BY <1>4, <1>5, WrittenFlows
<1> HIDE DEF g
<1>7. t = n /\ t \in 1..n /\ n \in Nat /\ host.xfers[t].status = "QUEUED"
  BY <1>4, FlowsHost, CurrentOfTurn DEF Current
<1>8. P!SentTrue' /\ Aired' = Aired /\ Here' = Here
  BY <1>1, <1>6, OfHost DEF Here, g
<1>9. BulkKept'
  <2>1. \A u \in Transfers :
          /\ host'.xfers[u].d = host.xfers[u].d /\ host'.xfers[u].sent = host.xfers[u].sent
          /\ host'.xfers[u].status \in {"QUEUED", "COMPLETED"} =>
               host.xfers[u].status \in {"QUEUED", "COMPLETED"}
    BY <1>6, <1>7 DEF Transfers, g
  <2> QED
    BY <1>6, <1>7, <1>8, <2>1, BulkSame DEF SentInv, g
<1>10. Outcomes'
  <2> SUFFICES ASSUME NEW m, m = n
               PROVE  Outcomes'
    OBVIOUS
  <2>1. ~Ended(m)' \/ (m \in Transfers /\ Same(host.xfers[m], host'.xfers[m]))
    BY <1>6, <1>7 DEF Ended, Same, Transfers, g
  <2>2. \A u \in 1..m : u # m => u \in Transfers /\ Same(host.xfers[u], host'.xfers[u])
    BY <1>6, <1>7 DEF Transfers, Same, g
  <2>3. m = Len(host'.xfers)
    BY <1>6 DEF g
  <2> HIDE DEF n
  <2> QED
    BY <1>8, <1>9, <2>1, <2>2, <2>3, OutcomesKept DEF SentInv
<1>11. LastKept'
  <2> SUFFICES ASSUME HasCurrent(host'), Current(host').d.kind = "stream",
                      Current(host').sent > 0, NEW p,
                      p = <<host'.currentTransfer, Current(host').sent>>
               PROVE  LastSent(p)'
    BY DEF LastKept
  <2>1. g.currentTransfer = t
    BY <1>6 DEF HasCurrent, g
  <2>2. LastSent(p)
    BY <1>4, <1>6, <2>1 DEF SentInv, LastKept, Current, g
  <2>3. \A q : P!LastIs(q) => P!LastIs(q)'
    BY <1>1, OfHost
  <2>4. request' = request /\ host'.ep0 = host.ep0
    BY <1>1, <1>6 DEF dongle, g
  <2> QED
    BY <2>2, <2>3, <2>4 DEF LastSent
<1> QED
  BY <1>8, <1>9, <1>10, <1>11 DEF SentInv

LEMMA ControlSent ==
  ASSUME LinkInv, SentInv, Executes, Flows, Flows', Callback, ~IsStatus(Head(done)), ~host.canXfer
  PROVE  SentInv'
<1> DEFINE c == Head(done)
           g == host'
<1>1. /\ done \in Seq(Completion) /\ done # <<>> /\ UNCHANGED dongle /\ g = Completed(host, c)
  BY DEF LinkInv, Bus, Callback, TakesCompletion, IsStatus
<1>2. c = done[1] /\ 1 \in 1..Len(done)
  BY <1>1, TailElements
<1> HIDE DEF c
<1>3. ~Quiet /\ c.rq = Asks(host)
  BY <1>2 DEF Quiet, Flows, BusAsks, c
<1>4. HasCurrent(host) /\ Blocked(host) /\ OneByOne(host)
  BY <1>3, NoStatusYet DEF Flows, HostFlows
<1>5. /\ g.xfers = host.xfers /\ g.currentTransfer = host.currentTransfer /\ g.ep0 = host.ep0
  <2>1. c.rq = IF Current(host).d.kind = "conf" THEN "RQ_CONFIG" ELSE "RQ_MODE"
    BY <1>3 DEF Asks
  <2> QED
    BY <1>1, <1>4, <2>1, ControlFlows
<1> HIDE DEF g
<1>6. P!SentTrue' /\ Aired' = Aired /\ Here' = Here
  BY <1>1, <1>5, OfHost DEF Here, g
<1>7. BulkKept'
  BY <1>5, FlowsHost, BulkSame DEF SentInv, g
<1>8. Outcomes'
  <2> DEFINE n == Len(host.xfers)
  <2>1. \A u \in 1..n : u \in Transfers /\ Same(host.xfers[u], host'.xfers[u])
    BY <1>5 DEF Transfers, Same, g
  <2>2. n = Len(host'.xfers)
    BY <1>5 DEF g
  <2> HIDE DEF n
  <2> QED
    BY <1>6, <1>7, <2>1, <2>2, OutcomesKept DEF SentInv
<1>9. LastKept'
  <2>1. Current(host').sent = 0
    BY <1>4, <1>5 DEF Blocked, Current, g
  <2> QED
    BY <2>1 DEF LastKept
<1> QED
  BY <1>6, <1>7, <1>8, <1>9 DEF SentInv

\* f is the adaptor when it starts to serve its current transfer: a new one, or the one
\* that it was serving.
Follows(f) ==
  /\ f.currentMode = host.currentMode /\ f.ep0 = <<>>
  /\ \A u \in 1..Len(f.xfers) :
       u # f.currentTransfer => u \in Transfers /\ f.xfers[u] = host.xfers[u]
  /\ \/ Current(f).sent = 0 /\ Len(f.xfers) = Len(host.xfers) + 1
     \/ /\ f.xfers = host.xfers /\ f.currentTransfer = host.currentTransfer
        /\ HasCurrent(host)

LEMMA ServedSent ==
  ASSUME SentInv, Flows, Flows', UNCHANGED dongle, Quiet, host.canXfer,
         NEW f, Follows(f), Served1(f), NEW w \in Nat, FlowsTo(host', f, w)
  PROVE  SentInv'
<1> DEFINE g == host'
           x == Current(f)
<1>1. PICK n, a : n = Len(f.xfers) /\ a = Current(f).sent
  OBVIOUS
<1>2. /\ n = f.currentTransfer /\ n \in 1..n /\ n \in Nat /\ a \in Nat /\ x \in Xfer
      /\ x.status = "QUEUED" /\ IsWriter(x.d) /\ ModeFits(f) /\ f.canXfer /\ x = f.xfers[n]
  <2>1. /\ f.currentTransfer = Len(f.xfers) /\ f.currentTransfer \in 1..Len(f.xfers)
        /\ Current(f) \in Xfer /\ IsWriter(Current(f).d) /\ Current(f).status = "QUEUED"
        /\ Current(f).sent \in Nat /\ f.xfers \in Seq(Xfer)
    BY CurrentOfTurn DEF Served1
  <2>2. Len(f.xfers) \in Nat
    BY <2>1, LenProperties
  <2> QED
    BY <1>1, <2>1, <2>2 DEF Served1, Current
<1>3. /\ g.canXfer /\ g.currentMode = host.currentMode /\ g.currentTransfer = n
      /\ Len(g.xfers) = n
      /\ \A u \in 1..n : u # n => u \in Transfers /\ g.xfers[u] = host.xfers[u]
      /\ g.xfers[n] = Sending(x, a + w, w)
  BY <1>1, <1>2 DEF FlowsTo, SameCourse, Follows, Current
<1>4. /\ g.xfers[n].d = x.d /\ g.xfers[n].status = "QUEUED" /\ g.xfers[n].sent = a + w
  BY <1>2, <1>3 DEF Sending, Xfer, XferType
<1>5. /\ Len(g.ep0) = w /\ g.ep0 \in Seq(HostRequest)
      /\ \A i \in 1..w : g.ep0[i].rq = "RQ_WRITE" /\ g.ep0[i].packet = <<n, a + i>>
  <2> DEFINE new == RoundRobin(n, a, w, 0)
  <2>1. /\ Len(new) = w /\ new \in Seq(HostRequest)
        /\ \A i \in 1..Len(new) : new[i].rq = "RQ_WRITE" /\ new[i].packet = <<n, a + i>>
    <3>1. n \in Nat /\ a \in Nat /\ w \in Nat
      BY <1>2
    <3> QED
      BY <3>1, WritesAsked
  <2>2. g.ep0 = <<>> \o new
    BY <1>1, <1>2 DEF FlowsTo, Follows
  <2> HIDE DEF new, g
  <2>3. g.ep0 = new
    BY <2>1, <2>2
  <2> QED
    BY <2>1, <2>3
<1>6. /\ P!SentTrue' /\ Aired' = Aired /\ P!Held' = P!Held /\ request' = request
      /\ P!Announced' = P!Announced
      /\ \A p : P!LastIs(p) => P!LastIs(p)'
  BY OfHost
<1>7. host.ep0 = <<>> /\ request.rq = "NONE" /\ Len(host.xfers) \in Nat
  BY FlowsHost DEF Quiet
<1>8. Writes(g.ep0) = {<<n, a + i>> : i \in 1..w} /\ Writes(host.ep0) = {}
  <2>1. Len(host.ep0) = 0
    BY <1>7, EmptySeq
  <2>2. Writes(host.ep0) = {}
    BY <2>1 DEF Writes
  <2> HIDE DEF g
  <2>3. ASSUME NEW q PROVE q \in Writes(g.ep0) <=> \E i \in 1..w : q = <<n, a + i>>
    BY <1>5 DEF Writes, IsWrite
  <2> QED
    BY <2>2, <2>3
<1>9. Here' = Here \cup {<<n, a + i>> : i \in 1..w}
  BY <1>6, <1>8 DEF Here
<1> HIDE DEF g
<1>10. \/ a = 0 /\ n = Len(host.xfers) + 1
       \/ /\ n = Len(host.xfers) /\ n = host.currentTransfer /\ HasCurrent(host)
          /\ x = host.xfers[n] /\ x = Current(host)
  BY <1>1, <1>2 DEF Follows, Current
<1>11. BulkKept'
  <2> SUFFICES ASSUME NEW u \in 1..n, Chain(g, u), g.xfers[u].sent > 0
               PROVE  /\ g.canXfer /\ g.currentMode = "WRITE_BULK"
                      /\ \A i \in 1..g.xfers[u].sent : <<u, i>> \in Here' \cup Aired'
    BY <1>3 DEF BulkKept, Transfers, Chain, g
  <2>1. x.d.kind = "bulk" /\ g.currentMode = "WRITE_BULK"
    <3>1. n \in u..n
      BY <1>2
    <3>2. x.d.kind = "bulk"
      BY <1>3, <1>4, <3>1 DEF Chain, Unended
    <3> QED
      BY <1>2, <1>3, <3>2 DEF ModeFits, transferMode, Follows
  <2>2. ASSUME u \in Transfers
        PROVE  /\ Chain(host, u)
               /\ host.xfers[u].sent > 0 =>
                    \A i \in 1..host.xfers[u].sent : <<u, i>> \in Here \cup Aired
    <3>1. ASSUME NEW v \in u..Len(host.xfers) PROVE Unended(host.xfers[v])
      <4>1. v \in 1..n
        BY <1>7, <1>10, <3>1
      <4>2. CASE v = n
        <5>1. x = host.xfers[v]
          BY <1>7, <1>10, <3>1, <4>2
        <5> QED
          BY <1>2, <2>1, <5>1 DEF Unended
      <4>3. CASE v # n
        <5>1. v \in u..n /\ g.xfers[v] = host.xfers[v]
          BY <1>3, <3>1, <4>1, <4>3
        <5> QED
          BY <1>3, <5>1 DEF Chain
      <4> QED
        BY <4>2, <4>3
    <3>2. Chain(host, u)
      BY <3>1 DEF Chain
    <3> QED
      BY <2>2, <3>2 DEF SentInv, BulkKept
  <2>3. CASE u # n
    <3>1. u \in Transfers /\ g.xfers[u] = host.xfers[u]
      BY <1>3, <2>3
    <3> QED
      BY <1>3, <1>6, <1>9, <2>1, <2>2, <3>1
  <2>4. CASE u = n
    <3>1. ASSUME NEW i \in 1..(a + w)
          PROVE  <<n, i>> \in Here' \cup Aired'
      <4>1. CASE i \in 1..a
        <5>1. a # 0 /\ a > 0
          BY <1>2, <4>1
        <5>2. u \in Transfers /\ host.xfers[u].sent = a
          BY <1>1, <1>2, <1>10, <2>4, <5>1 DEF Transfers
        <5> QED
          BY <1>6, <1>9, <2>2, <2>4, <4>1, <5>1, <5>2
      <4>2. CASE ~(i \in 1..a)
        <5>1. i - a \in 1..w /\ a + (i - a) = i
          BY <1>2, <3>1, <4>2
        <5> QED
          BY <1>9, <5>1
      <4> QED
        BY <4>1, <4>2
    <3> QED
      BY <1>3, <1>4, <2>1, <2>4, <3>1
  <2> QED
    BY <2>3, <2>4
<1>12. Outcomes'
  <2>1. ~Ended(n)'
    BY <1>4 DEF Ended, g
  <2>2. \A u \in 1..n : u # n => u \in Transfers /\ Same(host.xfers[u], host'.xfers[u])
    BY <1>3 DEF Same, g
  <2>3. HasCurrent(host') /\ host'.currentTransfer = n /\ n = Len(host'.xfers)
    BY <1>2, <1>3 DEF HasCurrent, NoTransfer, g
  <2>4. \A p \in Here' : p \in Here \/ p[1] = n
    BY <1>9
  <2> QED
    BY <1>6, <1>11, <2>1, <2>2, <2>3, <2>4, OutcomesKept DEF SentInv
<1>13. LastKept'
  <2> SUFFICES ASSUME x.d.kind = "stream", a + w > 0, NEW p, p = <<n, a + w>>
               PROVE  LastSent(p)'
    BY <1>3, <1>4 DEF LastKept, Current, g
  <2>1. CASE w = 0
    <3>1. a > 0 /\ a # 0 /\ p = <<n, a>>
      BY <1>2, <2>1
    <3>2. LastSent(p)
      BY <1>1, <1>10, <3>1 DEF SentInv, LastKept
    <3>3. g.ep0 = <<>>
      BY <1>5, <2>1, EmptySeq
    <3> QED
      BY <1>6, <1>7, <3>2, <3>3 DEF LastSent, g
  <2>2. CASE w # 0
    <3>1. g.ep0 # <<>> /\ w \in 1..w
      BY <1>5, <2>2, EmptySeq
    <3> QED
      BY <1>5, <3>1 DEF LastSent, g
  <2> QED
    BY <2>1, <2>2
<1> QED
  BY <1>6, <1>11, <1>12, <1>13 DEF SentInv

LEMMA NothingHere ==
  ASSUME Quiet, P!Held = {}
  PROVE  Here = {}
<1>1. Len(host.ep0) = 0
  BY EmptySeq DEF Quiet
<1>2. Writes(host.ep0) = {}
  BY <1>1 DEF Writes
<1> QED
  BY <1>2 DEF Here, P!Announced, Quiet

\* The current transfer ends, and the dongle has said that nothing is left.
LEMMA EndsSent ==
  ASSUME SentInv, Flows, Flows', UNCHANGED dongle, Quiet, HasCurrent(host), Flowing(host),
         P!Held = {}, cb.count = 0, NEW ok \in BOOLEAN,
         host.currentMode = "WRITE_STREAM" /\ ok => last_tx_failed = "ok",
         NEW f, f \in HostType, SameCourse(f, host), f.ep0 = host.ep0, f.xfers = host.xfers,
         NEW y, EndsAs(host', f, y), Over(Current(host), y), Verdict(Current(host), y, ok)
  PROVE  SentInv'
<1> DEFINE g == host'
           x == Current(host)
<1>1. PICK n : n = Len(host.xfers)
  OBVIOUS
<1>2. /\ n = host.currentTransfer /\ n \in 1..n /\ n \in Nat /\ x = host.xfers[n]
      /\ x.status = "QUEUED" /\ IsWriter(x.d) /\ x.sent \in Nat
  BY <1>1, FlowsHost, CurrentOfTurn DEF Current
<1>3. /\ g.canXfer = host.canXfer /\ g.currentMode = host.currentMode
      /\ g.currentTransfer = NoTransfer /\ g.ep0 = host.ep0 /\ Len(g.xfers) = n
      /\ g.xfers[n] = y /\ \A u \in 1..n : u # n => g.xfers[u] = host.xfers[u]
  <2>1. /\ g.canXfer = f.canXfer /\ g.currentMode = f.currentMode
        /\ g.currentTransfer = NoTransfer
    BY CourseEnds
  <2> QED
    BY <1>1, <1>2, <2>1 DEF EndsAs, SameCourse
<1> HIDE DEF g
<1>4. y.d = x.d /\ y.sent = x.sent /\ (y.status = "COMPLETED" => y.sent = ToSend(y.d))
  BY DEF Over
<1>5. P!SentTrue' /\ Aired' = Aired /\ Here' = Here
  BY <1>3, OfHost DEF Here, g
<1>6. Here' = {}
  BY <1>5, NothingHere
<1>7. BulkKept'
  <2>1. \A u \in Transfers :
          /\ host'.xfers[u].d = host.xfers[u].d /\ host'.xfers[u].sent = host.xfers[u].sent
          /\ host'.xfers[u].status \in {"QUEUED", "COMPLETED"} =>
               host.xfers[u].status \in {"QUEUED", "COMPLETED"}
    BY <1>1, <1>2, <1>3, <1>4 DEF Transfers, g
  <2> QED
    BY <1>1, <1>2, <1>3, <1>5, <2>1, BulkSame DEF SentInv, g
<1>8. Outcomes'
  <2>1. \A u \in 1..n : u # n => u \in Transfers /\ Same(host.xfers[u], host'.xfers[u])
    BY <1>1, <1>3 DEF Transfers, Same, g
  <2>2. ASSUME y.d.kind = "stream", y.lastWriteOk, y.status = "COMPLETED"
        PROVE  <<n, ToSend(y.d)>> \in Aired'
    <3>1. ok
      BY <1>4, <2>2 DEF Verdict
    <3>2. host.currentMode = "WRITE_STREAM" /\ host.canXfer
      BY <1>4, <2>2 DEF Flowing, ModeFits, transferMode
    <3>3. last_tx_failed = "ok"
      BY <3>1, <3>2
    <3>4. x.sent = ToSend(x.d) /\ x.sent > 0
      BY <1>2, <1>4, <2>2 DEF IsWriter, ToSend
    <3>5. LastSent(<<n, x.sent>>)
      BY <1>2, <1>4, <2>2, <3>2, <3>4 DEF SentInv, LastKept
    <3>6. P!LastIs(<<n, x.sent>>)
      BY <3>5 DEF LastSent, Quiet
    <3>7. <<n, x.sent>> \in Aired
      BY <3>3, <3>6 DEF P!LastIs, Aired
    <3> QED
      BY <1>4, <1>5, <3>4, <3>7
  <2>3. \/ ~Ended(n)'
        \/ Here' = {} /\ (host'.xfers[n].d.kind = "stream" /\ host'.xfers[n].lastWriteOk =>
                            <<n, ToSend(host'.xfers[n].d)>> \in Aired')
    <3>1. host'.xfers[n] = y
      BY <1>3 DEF g
    <3> QED
      BY <1>6, <2>2, <3>1 DEF Ended
  <2>4. n = Len(host'.xfers)
    BY <1>3 DEF g
  <2> QED
    BY <1>5, <1>6, <1>7, <2>1, <2>3, <2>4, OutcomesKept DEF SentInv
<1>9. LastKept'
  BY <1>3 DEF LastKept, HasCurrent, g
<1> QED
  BY <1>5, <1>7, <1>8, <1>9 DEF SentInv

LEMMA StatusSent ==
  ASSUME LinkInv, SentInv, Executes, Flows, Flows', Callback, IsStatus(Head(done))
  PROVE  SentInv'
<1> DEFINE c == Head(done)
           s == c.status
           f == Heard(host, RoomTold(host, s))
           g == host'
<1>1. /\ done \in Seq(Completion) /\ done # <<>> /\ UNCHANGED dongle
      /\ g = statusUpdateArrived(host, s, host.currentTransfer \in late)
  BY DEF LinkInv, Bus, Callback, TakesCompletion, IsStatus
<1>2. /\ c \in Completion /\ c = done[1] /\ 1 \in 1..Len(done) /\ HasStatus(done)
  BY <1>1, TailElements, ElementOfSeq DEF HasStatus
<1>3. /\ OneByOne(host) /\ host.interruptIsRunning /\ Running /\ InTurn(host)
  BY <1>2 DEF Flows, HostFlows, OneByOne, Running, InTurn
<1>4. s \in P!StatusType /\ P!Tells(s)
  BY <1>2 DEF Completion, Served, IsStatus, Flows, ToldTrue
<1>5. StatusNumbers(s) /\ s.acb_count = 0
  BY <1>4 DEF P!StatusType, StatusNumbers, P!Tells
<1> HIDE DEF c, s
<1>6. /\ HasCurrent(host) /\ Flowing(host) /\ host.numIosPending = 0 /\ RoomTold(host, s) \in Nat
      /\ \/ /\ Served1(f)
            /\ \E w \in 0..f.countToWrite :
                 FlowsTo(g, f, w) /\ Current(f).sent + w <= ToSend(Current(f).d)
         \/ /\ SaysIdle(s)
            /\ \E y : /\ EndsAs(g, f, y) /\ Over(Current(host), y)
                      /\ Verdict(Current(host), y, SaysLastOk(host, s))
  <2> DEFINE timeUp == host.currentTransfer \in late
  <2> HIDE DEF timeUp
  <2>1. g = statusUpdateArrived(host, s, timeUp)
    BY <1>1 DEF timeUp
  <2> QED
    BY <1>3, <1>5, <2>1, StatusTurns
<1>7. Quiet /\ host.canXfer
  BY <1>3, <1>6, QuietIfNone DEF Flowing
<1>8. /\ InTurn(f) /\ SameCourse(f, host) /\ f.ep0 = host.ep0 /\ f.xfers = host.xfers
      /\ f.countToWrite \in Nat
  BY <1>3, <1>6, HeardTurn
<1> HIDE DEF f, g
<1>9. CASE Served1(f) /\ \E w \in 0..f.countToWrite : FlowsTo(g, f, w)
  <2>1. PICK w \in 0..f.countToWrite : FlowsTo(g, f, w)
    BY <1>9
  <2>2. w \in Nat
    BY <1>8
  <2>3. \A u \in 1..Len(f.xfers) :
          u # f.currentTransfer => u \in Transfers /\ f.xfers[u] = host.xfers[u]
    BY <1>8 DEF Transfers
  <2>4. Follows(f)
    BY <1>6, <1>7, <1>8, <2>3 DEF Follows, SameCourse, Quiet
  <2> QED
    BY <1>1, <1>7, <1>9, <2>1, <2>2, <2>4, ServedSent DEF g
<1>10. CASE /\ SaysIdle(s)
            /\ \E y : /\ EndsAs(g, f, y) /\ Over(Current(host), y)
                      /\ Verdict(Current(host), y, SaysLastOk(host, s))
  <2>1. PICK y : /\ EndsAs(g, f, y) /\ Over(Current(host), y)
                 /\ Verdict(Current(host), y, SaysLastOk(host, s))
    BY <1>10
  <2>2. cb.count = 0 /\ radio.tx = <<>> /\ last_tx_failed = s.last_tx_failed
    BY <1>4, <1>10 DEF SaysIdle, P!Tells, P!SaysNothingLeft
  <2>3. P!Held = {}
    BY <2>2, DongleAssumptions, P!EmptyHolds
  <2>4. /\ SaysLastOk(host, s) \in BOOLEAN
        /\ host.currentMode = "WRITE_STREAM" /\ SaysLastOk(host, s) => last_tx_failed = "ok"
    BY <2>2 DEF SaysLastOk
  <2>5. f \in HostType
    BY <1>8 DEF InTurn
  <2> QED
    BY <1>1, <1>6, <1>7, <1>8, <2>1, <2>2, <2>3, <2>4, <2>5, EndsSent DEF g
<1> QED
  BY <1>6, <1>9, <1>10

LEMMA StartSent ==
  ASSUME LinkInv, SentInv, Flows, Flows', UNCHANGED dongle, ~HasCurrent(host),
         NEW y \in Xfer, IsWriter(y.d), y.status = "QUEUED", y.sent = 0, y.numWriting = 0,
         Starts(host', Begun(host, y))
  PROVE  SentInv'
<1> DEFINE f == Begun(host, y)
           g == host'
<1>1. OneByOne(host) /\ Rests(host) /\ Running
  BY DEF Flows, HostFlows, OneByOne, Running, InTurn
<1>2. PICK n : n = Len(host.xfers)
  OBVIOUS
<1>3. n \in Nat /\ n + 1 \in Nat /\ n + 1 \in 1..(n + 1)
  BY <1>2, FlowsHost
<1>4. /\ HasCurrent(f) /\ Current(f) = y /\ f.currentTransfer = n + 1 /\ Len(f.xfers) = n + 1
      /\ \A t \in 1..n : f.xfers[t] = host.xfers[t]
      /\ f.ep0 = host.ep0 /\ f.currentMode = host.currentMode
      /\ f.countToWrite = host.countToWrite
  BY <1>1, <1>2, BegunTurn
<1>5. Quiet /\ host.canXfer
  BY <1>1, QuietIfNone DEF Rests
<1>6. f.ep0 = <<>> /\ f.countToWrite \in Nat
  BY <1>4, <1>5, FlowsHost, HostFields DEF Quiet
<1> HIDE DEF f, g
<1>7. \A t \in 1..(n + 1) : t # n + 1 => t \in Transfers /\ f.xfers[t] = host.xfers[t]
  BY <1>2, <1>3, <1>4 DEF Transfers
<1>8. CASE Blocks(g, f)
  <2>1. /\ ~g.canXfer /\ g.xfers = f.xfers /\ Len(g.xfers) = n + 1 /\ g.xfers[n + 1] = y
    BY <1>4, <1>8 DEF Blocks, Current
  <2>2. /\ y.d.kind = "bulk" => host.currentMode # "WRITE_BULK"
    BY <1>4, <1>8 DEF Blocks, transferMode
  <2>3. Writes(g.ep0) = {} /\ Writes(host.ep0) = {}
    <3>1. PICK rq : g.ep0 = Append(<<>>, rq) /\ rq.rq # "RQ_WRITE"
      BY <1>4, <1>6, <1>8 DEF Blocks
    <3>2. Append(<<>>, rq) = <<rq>>
      OBVIOUS
    <3>3. g.ep0 = <<rq>> /\ Len(g.ep0) = 1 /\ g.ep0[1] = rq
      BY <3>1, <3>2
    <3>4. Len(host.ep0) = 0
      BY <1>5, EmptySeq DEF Quiet
    <3> QED
      BY <3>1, <3>3, <3>4 DEF Writes, IsWrite
  <2>4. P!SentTrue' /\ Aired' = Aired /\ Here' = Here
    BY <2>3, OfHost DEF Here, g
  <2>5. BulkKept'
    <3> SUFFICES ASSUME NEW u \in 1..(n + 1), Chain(g, u), g.xfers[u].sent > 0
                 PROVE  FALSE
      BY <2>1 DEF BulkKept, Transfers, Chain, g
    <3>1. u \in Transfers /\ g.xfers[u] = host.xfers[u]
      BY <1>7, <2>1
    <3>2. y.d.kind = "bulk"
      <4>1. n + 1 \in u..(n + 1)
        BY <1>3
      <4> QED
        BY <2>1, <4>1 DEF Chain, Unended
    <3>3. ASSUME NEW v \in u..n PROVE Unended(host.xfers[v])
      <4>1. v \in u..(n + 1) /\ v \in 1..(n + 1) /\ v # n + 1
        BY <1>3, <3>3
      <4> QED
        BY <1>7, <2>1, <4>1 DEF Chain
    <3>4. Chain(host, u)
      BY <1>2, <3>3 DEF Chain
    <3>5. host.currentMode = "WRITE_BULK"
      BY <3>1, <3>4 DEF SentInv, BulkKept
    <3> QED
      BY <2>2, <3>2, <3>5
  <2>6. Outcomes'
    <3> SUFFICES ASSUME NEW m, m = n + 1
                 PROVE  Outcomes'
      OBVIOUS
    <3>1. ~Ended(m)'
      BY <2>1 DEF Ended, g
    <3>2. \A t \in 1..m : t # m => t \in Transfers /\ Same(host.xfers[t], host'.xfers[t])
      BY <1>7, <2>1 DEF Same, g
    <3>3. m = Len(host'.xfers)
      BY <2>1 DEF g
    <3> QED
      BY <2>4, <2>5, <3>1, <3>2, <3>3, OutcomesKept DEF SentInv
  <2>7. LastKept'
    BY <2>1 DEF LastKept, g
  <2> QED
    BY <2>4, <2>5, <2>6, <2>7 DEF SentInv
<1>9. CASE ~Blocks(g, f)
  <2>1. Served1(f) /\ \E w \in 0..f.countToWrite : FlowsTo(g, f, w)
    BY <1>9 DEF Starts, f, g
  <2>2. PICK w \in 0..f.countToWrite : FlowsTo(g, f, w)
    BY <2>1
  <2>3. w \in Nat
    BY <1>6
  <2>4. Follows(f)
    BY <1>2, <1>4, <1>6, <1>7 DEF Follows
  <2> QED
    BY <1>5, <2>1, <2>2, <2>3, <2>4, ServedSent DEF g
<1> QED
  BY <1>8, <1>9

LEMMA SubmitSent ==
  ASSUME LinkInv, SentInv, Executes, Flows, Flows', Writers,
         PingAgain \/ \E d \in Menu : Submit(d)
  PROVE  SentInv'
<1>1. PICK y : Starting(y)
  BY Submits
<1> QED
  BY <1>1, StartSent, Submits DEF Starting

LEMMA SentInit ==
  ASSUME Init
  PROVE  SentInv
<1>1. P!SentTrue
  BY SameDongle, DongleAssumptions, P!SentTrueInit DEF Init
<1>2. Len(host.xfers) = 0 /\ ~HasCurrent(host)
  BY EmptySeq DEF Init, HostInit, HasCurrent
<1>3. Transfers = {}
  BY <1>2 DEF Transfers
<1> QED
  BY <1>1, <1>2, <1>3 DEF SentInv, BulkKept, LastKept, Outcomes

DeliveredInv == WriterInv /\ (Executes => SentInv)

LEMMA DeliveredNext ==
  ASSUME Writers, DeliveredInv, [Next]_vars
  PROVE  DeliveredInv'
<1>1. WriterInv /\ WriterInv' /\ Executes' = Executes
  BY WriterNext, SameStyle DEF DeliveredInv
<1> SUFFICES ASSUME Executes PROVE SentInv'
  BY <1>1 DEF DeliveredInv
<1>2. LinkInv /\ Flows /\ Flows' /\ SentInv
  BY <1>1 DEF WriterInv, DeliveredInv
<1>3. CASE Callback
  BY <1>2, <1>3, StatusSent, WrittenSent, ControlSent
<1>4. CASE PingAgain \/ \E d \in Menu : Submit(d)
  BY <1>2, <1>4, SubmitSent
<1>5. CASE DongleTakesRequest \/ DongleTakesData
  BY <1>2, <1>5, RequestSent, DataSent
<1>6. CASE DongleRuns \/ Acknowledged \/ Unanswered \/ Receives
  BY <1>2, <1>6, DongleSent
<1>7. CASE \/ StatusStage \/ CollectStatus \/ Return \/ UNCHANGED vars
           \/ \E t \in 1..Len(host.xfers) : Cancel(t) \/ TimeUp(t)
  BY <1>2, <1>7, AsideSent
<1> QED
  BY <1>3, <1>4, <1>5, <1>6, <1>7 DEF Next

LEMMA DeliveredAlways ==
  ASSUME Writers
  PROVE  Spec => []DeliveredInv
<1>1. Init => DeliveredInv
  BY LinkInit, WriterInit, SentInit DEF DeliveredInv, WriterInv
<1> QED
  BY <1>1, DeliveredNext, PTL DEF Spec

\* When a synchronous write of such a program has COMPLETED, nothing of it is left in
\* the dongle or on the way there: a status that says that nothing is left is made up
\* after the last packet was taken, because it is only asked for when no request is
\* pending (RequestStatusIfQuiet), and is still true when it arrives.
THEOREM CompletedIsSettled ==
  ASSUME Writers
  PROVE  Spec => []SyncMeansSettled
<1>1. ASSUME DeliveredInv
      PROVE  SyncMeansSettled
  <2> SUFFICES ASSUME NEW t \in Transfers, Finished(t, {"stream", "bulk"}),
                      NEW p \in InDongle \cup OnTheWay
               PROVE  p[1] # t
    BY DEF SyncMeansSettled
  <2>1. LinkInv /\ Ended(t) /\ Outcome(t)
    BY <1>1 DEF DeliveredInv, WriterInv, SentInv, Outcomes, Finished, Ended
  <2> QED
    BY <2>1, HereIs DEF Outcome
<1> QED
  BY <1>1, DeliveredAlways, PTL

\* A synchronous bulk write that COMPLETED reached the peer, with the asynchronous ones
\* just before it, packet by packet: the ring never drops one, the radio retries them
\* all, and no mode switch or configuration flushes between them.
THEOREM CompletedIsDelivered ==
  ASSUME Writers
  PROVE  Spec => []BulkDelivered
<1>1. ASSUME DeliveredInv
      PROVE  BulkDelivered
  <2> SUFFICES ASSUME NEW t \in Transfers, Finished(t, {"bulk"}), NEW u \in 1..t, AllBulk(u, t),
                      NEW i \in 1..ToSend(host.xfers[u].d)
               PROVE  Sent(u, i)
    BY DEF BulkDelivered, AllBulk
  <2>1. Ended(t) /\ Outcome(t) /\ host.xfers[t].d.kind = "bulk"
    BY <1>1 DEF DeliveredInv, SentInv, Outcomes, Finished, Ended
  <2>2. AllAired(u)
    BY <2>1 DEF Outcome
  <2> QED
    BY <2>2, SentIs DEF AllAired
<1> QED
  BY <1>1, DeliveredAlways, PTL

\* write() tells such a program the truth: when getLastWriteResult is true, the last
\* packet of the stream transfer reached the peer.
THEOREM VerdictIsTrue ==
  ASSUME Writers
  PROVE  Spec => []StreamVerdictTrue
<1>1. ASSUME DeliveredInv
      PROVE  StreamVerdictTrue
  <2> SUFFICES ASSUME NEW t \in Transfers, Finished(t, {"stream"}), host.xfers[t].lastWriteOk
               PROVE  Sent(t, ToSend(host.xfers[t].d))
    BY DEF StreamVerdictTrue
  <2>1. Ended(t) /\ Outcome(t) /\ host.xfers[t].d.kind = "stream"
    BY <1>1 DEF DeliveredInv, SentInv, Outcomes, Finished, Ended
  <2> QED
    BY <2>1, SentIs DEF Outcome
<1> QED
  BY <1>1, DeliveredAlways, PTL
=============================================================================
