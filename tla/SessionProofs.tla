----------------------------- MODULE SessionProofs -----------------------------
(***************************************************************************)
(* What a whole session leaves, for every geometry of the target, every    *)
(* size of image and every sequence of sessions: no block is lost.         *)
(*                                                                         *)
(* ImageProofs says that no byte of the image is at a wrong address.  Here  *)
(* the first block on the path finds everything before it in its place     *)
(* (Reached), the last block of a session that wrote all of its own ends   *)
(* the image (Ends), and what the target takes from the path moves the     *)
(* first of these towards the second.  When no block is left they meet.    *)
(***************************************************************************)
EXTENDS ImageProofs

-----------------------------------------------------------------------------
(***************************************************************************)
(* The last block on a path.                                               *)
(***************************************************************************)
LastIn(s, G) ==
  \A i \in 1 .. Len(s) : IsBlock(s[i]) /\ (\A j \in i + 1 .. Len(s) : ~IsBlock(s[j])) => s[i] \in G

LEMMA LastOfTail ==
  ASSUME NEW V, NEW s \in Seq(V), s # <<>>
  PROVE  /\ \A G : LastIn(s, G) => LastIn(Tail(s), G)
         /\ \A G : LastIn(s, G) /\ NoBlocks(Tail(s)) /\ IsBlock(Head(s)) => Head(s) \in G
         /\ NoBlocks(Tail(s)) /\ ~IsBlock(Head(s)) => NoBlocks(s)
         /\ NoBlocks(s) => NoBlocks(Tail(s))
<1> DEFINE l == Len(s)
           t == Tail(s)
           h == Head(s)
<1>1. /\ l \in Nat /\ l > 0 /\ Len(t) = l - 1 /\ h = s[1]
      /\ \A i \in 1 .. l - 1 : t[i] = s[i + 1]
  BY TailFacts
<1> HIDE DEF l, t, h
<1>2. ASSUME NEW G, LastIn(s, G), NEW i \in 1 .. Len(t), IsBlock(t[i]),
             \A j \in i + 1 .. Len(t) : ~IsBlock(t[j])
      PROVE  t[i] \in G
  <2>1. i \in 1 .. l - 1 /\ i + 1 \in 1 .. l /\ t[i] = s[i + 1]
    BY <1>1
  <2>2. ASSUME NEW j \in (i + 1) + 1 .. l PROVE ~IsBlock(s[j])
    <3>1. j - 1 \in i + 1 .. Len(t) /\ j - 1 \in 1 .. l - 1 /\ (j - 1) + 1 = j
      BY <1>1, <2>1
    <3>2. t[j - 1] = s[j]
      BY <1>1, <3>1
    <3> QED
      BY <1>2, <3>1, <3>2
  <2> QED
    BY <1>2, <2>1, <2>2 DEF LastIn, l
<1>3. ASSUME NoBlocks(t), NEW j \in 2 .. l PROVE ~IsBlock(s[j])
  <2>1. j - 1 \in 1 .. Len(t) /\ j - 1 \in 1 .. l - 1 /\ (j - 1) + 1 = j
    BY <1>1
  <2>2. t[j - 1] = s[j]
    BY <1>1, <2>1
  <2> QED
    BY <1>3, <2>1, <2>2 DEF NoBlocks
<1>4. ASSUME NEW G, LastIn(s, G), NoBlocks(t), IsBlock(h) PROVE h \in G
  <2>1. 1 \in 1 .. l /\ \A j \in 1 + 1 .. l : j \in 2 .. l
    BY <1>1
  <2> QED
    BY <1>1, <1>3, <1>4, <2>1 DEF LastIn, l
<1>5. ASSUME NoBlocks(t), ~IsBlock(h) PROVE NoBlocks(s)
  <2>1. \A j \in 1 .. l : j = 1 \/ j \in 2 .. l
    BY <1>1
  <2> QED
    BY <1>1, <1>3, <1>5, <2>1 DEF NoBlocks, l
<1>6. ASSUME NoBlocks(s) PROVE NoBlocks(t)
  <2>1. \A i \in 1 .. Len(t) : i \in 1 .. l - 1 /\ i + 1 \in 1 .. l
    BY <1>1
  <2> QED
    BY <1>1, <1>6, <2>1 DEF NoBlocks, l
<1> QED
  BY <1>2, <1>4, <1>5, <1>6 DEF LastIn, t, h

LEMMA LastOfEnd ==
  ASSUME NEW V, NEW s \in Seq(V), NEW e \in V, ~IsBlock(e)
  PROVE  /\ \A G : LastIn(s, G) => LastIn(Append(s, e), G)
         /\ NoBlocks(Append(s, e)) <=> NoBlocks(s)
<1> DEFINE l == Len(s)
           u == Append(s, e)
<1>1. /\ l \in Nat /\ Len(u) = l + 1 /\ u[l + 1] = e
      /\ \A i \in 1 .. l : u[i] = s[i]
  BY AppendProperties, LenProperties
<1> HIDE DEF l, u
<1>2. ASSUME NEW G, LastIn(s, G), NEW i \in 1 .. Len(u), IsBlock(u[i]),
             \A j \in i + 1 .. Len(u) : ~IsBlock(u[j])
      PROVE  u[i] \in G
  <2>1. i # l + 1
    BY <1>1, <1>2
  <2>2. i \in 1 .. l /\ u[i] = s[i] /\ \A j \in i + 1 .. l : j \in i + 1 .. Len(u) /\ j \in 1 .. l
    BY <1>1, <2>1
  <2>3. \A j \in i + 1 .. l : ~IsBlock(s[j])
    BY <1>1, <1>2, <2>2
  <2> QED
    BY <1>2, <2>2, <2>3 DEF LastIn, l
<1>3. NoBlocks(u) <=> NoBlocks(s)
  <2>1. \A i \in 1 .. l : i \in 1 .. Len(u)
    BY <1>1
  <2>2. \A i \in 1 .. Len(u) : i \in 1 .. l \/ i = l + 1
    BY <1>1
  <2> QED
    BY <1>1, <2>1, <2>2 DEF NoBlocks, l
<1> QED
  BY <1>2, <1>3 DEF LastIn, u

\* More blocks come behind.
LEMMA LastOfMore ==
  ASSUME NEW V, NEW s \in Seq(V), NEW b \in Seq(V), b # <<>>, IsBlock(b[Len(b)])
  PROVE  ~NoBlocks(s \o b) /\ \A G : b[Len(b)] \in G => LastIn(s \o b, G)
<1> DEFINE l == Len(s)
           m == Len(b)
           u == s \o b
           z == b[m]
<1>1. /\ l \in Nat /\ m \in Nat /\ m > 0 /\ Len(u) = l + m
      /\ \A i \in 1 .. m : u[l + i] = b[i]
  BY ConcatIs, TailFacts
<1>2. IsBlock(z)
  OBVIOUS
<1> HIDE DEF l, m, u
<1>3. m \in 1 .. m /\ l + m \in 1 .. Len(u)
  BY <1>1
<1>4. u[l + m] = z
  BY <1>1, <1>3
<1>5. ~NoBlocks(u)
  BY <1>2, <1>3, <1>4 DEF NoBlocks
<1>6. ASSUME NEW G, z \in G, NEW i \in 1 .. Len(u), IsBlock(u[i]),
             \A j \in i + 1 .. Len(u) : ~IsBlock(u[j])
      PROVE  u[i] \in G
  <2>1. i # l + m => l + m \in i + 1 .. Len(u)
    BY <1>1, <1>3
  <2> QED
    BY <1>2, <1>4, <1>6, <2>1
<1> QED
  BY <1>5, <1>6 DEF LastIn, u, m

\* A block that was planned is not sent: the last one is then the one before it.
LEMMA LastOfFewer ==
  ASSUME NEW V, NEW s \in Seq(V), NEW f \in V, IsBlock(f), Consecutive(Append(s, f))
  PROVE  /\ \A G : (\A c \in V : IsBlock(c) /\ Follows(c, f) => c \in G) => LastIn(s, G)
         /\ \A G : FirstIn(Append(s, f), G) /\ NoBlocks(s) => f \in G
<1> DEFINE l == Len(s)
           u == Append(s, f)
<1>1. /\ l \in Nat /\ Len(u) = l + 1 /\ u[l + 1] = f
      /\ \A i \in 1 .. l : u[i] = s[i]
  BY AppendProperties, LenProperties
<1>2. \A i \in 1 .. l : s[i] \in V
  BY ElementOfSeq
<1>3. \A i \in 1 .. Len(u) - 1 : IsBlock(u[i]) =>
        IF IsBlock(u[i + 1]) THEN Follows(u[i], u[i + 1])
                             ELSE \A j \in i + 1 .. Len(u) : ~IsBlock(u[j])
  BY DEF Consecutive
<1> HIDE DEF l, u
<1>4. ASSUME NEW G, \A c \in V : IsBlock(c) /\ Follows(c, f) => c \in G,
             NEW i \in 1 .. l, IsBlock(s[i]), \A j \in i + 1 .. l : ~IsBlock(s[j])
      PROVE  s[i] \in G
  <2>1. i \in 1 .. Len(u) - 1 /\ l + 1 \in i + 1 .. Len(u) /\ u[i] = s[i]
    BY <1>1
  <2>2. IsBlock(u[i + 1]) /\ Follows(u[i], u[i + 1])
    BY <1>1, <1>3, <1>4, <2>1
  <2>3. i = l
    <3>1. i # l => i + 1 \in i + 1 .. l /\ i + 1 \in 1 .. l
      BY <1>1
    <3> QED
      BY <1>1, <1>4, <2>2, <3>1
  <2> QED
    BY <1>1, <1>2, <1>4, <2>1, <2>2, <2>3
<1>5. ASSUME NEW G, FirstIn(u, G), NoBlocks(s) PROVE f \in G
  <2>1. l + 1 \in 1 .. Len(u) /\ \A j \in 1 .. (l + 1) - 1 : j \in 1 .. l
    BY <1>1
  <2>2. \A j \in 1 .. (l + 1) - 1 : ~IsBlock(u[j])
    BY <1>1, <1>5, <2>1 DEF NoBlocks, l
  <2> QED
    BY <1>1, <1>5, <2>1, <2>2 DEF FirstIn
<1> QED
  BY <1>4, <1>5 DEF LastIn, l, u

-----------------------------------------------------------------------------
(***************************************************************************)
(* Which work comes next.                                                  *)
(***************************************************************************)
LEMMA WorkWanted ==
  ASSUME NEW n \in 1 .. 4, NEW failed
  PROVE  /\ Work(n, failed) = "run" => session.run
         /\ session.write /\ n <= 2 => Work(n, failed) \in {"save", "restore"}
         /\ session.verify /\ n <= 3 => Work(n, failed) \notin {"run", "done"}
         /\ session.run /\ ~failed => Work(n, failed) # "done"
<1> DEFINE works == <<"save", "restore", "verify", "run">>
           wanted == [save |-> session.read, restore |-> session.write,
                      verify |-> session.verify, run |-> session.run /\ ~failed]
           left == {i \in n .. 4 : wanted[works[i]]}
           first == Min(left)
<1>1. Work(n, failed) = IF left = {} THEN "done" ELSE works[first]
  BY DEF Work
<1>2. /\ left \subseteq 1 .. 4
      /\ 4 \in left => session.run
      /\ session.write /\ n <= 2 => 2 \in left
      /\ session.verify /\ n <= 3 => 3 \in left
      /\ session.run /\ ~failed => 4 \in left
  <2>1. /\ works[2] = "restore" /\ works[3] = "verify" /\ works[4] = "run"
        /\ wanted["restore"] = session.write /\ wanted["verify"] = session.verify
        /\ wanted["run"] = (session.run /\ ~failed)
    OBVIOUS
  <2>2. 4 \in n .. 4 /\ (n <= 2 => 2 \in n .. 4) /\ (n <= 3 => 3 \in n .. 4) /\ n .. 4 \subseteq 1 .. 4
    OBVIOUS
  <2> HIDE DEF works, wanted
  <2>3. wanted[works[2]] = session.write /\ wanted[works[3]] = session.verify
        /\ wanted[works[4]] = (session.run /\ ~failed)
    BY <2>1, Zenon
  <2> QED
    BY <2>2, <2>3, Zenon
<1> HIDE DEF left
<1>3. ASSUME left # {} PROVE first \in left /\ \A y \in left : first <= y
  <2>1. \E x \in left : \A y \in left : x <= y
    <3>1. CASE 1 \in left
      BY <1>2, <3>1
    <3>2. CASE 1 \notin left /\ 2 \in left
      BY <1>2, <3>2
    <3>3. CASE 1 \notin left /\ 2 \notin left /\ 3 \in left
      BY <1>2, <3>3
    <3>4. CASE 1 \notin left /\ 2 \notin left /\ 3 \notin left
      <4>1. \A x \in left : x = 4
        <5> TAKE x \in left
        <5>1. x \in 1 .. 4 /\ x # 1 /\ x # 2 /\ x # 3
          BY <1>2, <3>4
        <5> QED
          BY <5>1
      <4> QED
        BY <1>3, <4>1
    <3> QED
      BY <3>1, <3>2, <3>3, <3>4
  <2> QED
    BY <2>1 DEF Min
<1> HIDE DEF first
<1>4. /\ works[1] = "save" /\ works[2] = "restore" /\ works[3] = "verify" /\ works[4] = "run"
  OBVIOUS
<1> HIDE DEF works
<1>5. left # {} => first \in 1 .. 4 /\ (first = 1 \/ first = 2 \/ first = 3 \/ first = 4)
  <2>1. \A x \in 1 .. 4 : x = 1 \/ x = 2 \/ x = 3 \/ x = 4
    OBVIOUS
  <2> QED
    BY <1>2, <1>3, <2>1
<1>6. Work(n, failed) = "run" => session.run
  <2>1. Work(n, failed) = "run" => left # {} /\ first = 4
    BY <1>1, <1>4, <1>5
  <2> QED
    BY <1>2, <1>3, <2>1
<1>7. ASSUME 2 \in left PROVE Work(n, failed) \in {"save", "restore"}
  <2>1. left # {} /\ (first = 1 \/ first = 2)
    BY <1>3, <1>5, <1>7
  <2> QED
    BY <1>1, <1>4, <2>1
<1>8. ASSUME 3 \in left PROVE Work(n, failed) \notin {"run", "done"}
  <2>1. left # {} /\ (first = 1 \/ first = 2 \/ first = 3)
    BY <1>3, <1>5, <1>8
  <2> QED
    BY <1>1, <1>4, <2>1
<1>9. ASSUME 4 \in left PROVE Work(n, failed) # "done"
  BY <1>1, <1>4, <1>5, <1>9
<1> QED
  BY <1>2, <1>6, <1>7, <1>8, <1>9, Zenon

-----------------------------------------------------------------------------
(***************************************************************************)
(* The command that starts the application.                                *)
(***************************************************************************)
\* It is on its way.
Booting == "BOOT" \in Ops(Heard) \cup Ops(outgoing) \cup Ops(sendQueue)

BootInv ==
  /\ LastOnly(sendQueue, {"BOOT"}) /\ LastOnly(outgoing, {"BOOT"})
  /\ "BOOT" \in Ops(outgoing) => sendQueue = <<>>
  /\ at = "loop" =>
       /\ LastOnly(rxFifo, {"BOOT"})
       /\ "BOOT" \in Ops(rxFifo) => sendQueue = <<>> /\ outgoing = <<>>
  /\ Booting => pc \in {"ran"} \cup Ended /\ session.run /\ mode = "BULK"
  /\ pc = "run" => session.run

LEMMA NotBooting ==
  ASSUME "BOOT" \notin Ops(sendQueue), "BOOT" \notin Ops(outgoing), at = "loop" => "BOOT" \notin Ops(rxFifo),
         pc = "run" => session.run
  PROVE  BootInv
<1>1. \A s : "BOOT" \notin Ops(s) => LastOnly(s, {"BOOT"})
  BY LastNone
<1>2. ~Booting
  BY OpsEmpty DEF Booting, Heard
<1> QED
  BY <1>1, <1>2 DEF BootInv

LEMMA NotBootingNext ==
  ("BOOT" \notin Ops(sendQueue) /\ "BOOT" \notin Ops(outgoing) /\ (at = "loop" => "BOOT" \notin Ops(rxFifo))
     /\ (pc = "run" => session.run) => BootInv)'
<1>1. "BOOT" \notin Ops(sendQueue) /\ "BOOT" \notin Ops(outgoing) /\ (at = "loop" => "BOOT" \notin Ops(rxFifo))
        /\ (pc = "run" => session.run) => BootInv
  BY NotBooting
<1> QED
  BY <1>1, PTL

LEMMA BootingIs ==
  Booting <=> \/ "BOOT" \in Ops(sendQueue) \/ "BOOT" \in Ops(outgoing)
              \/ at = "loop" /\ "BOOT" \in Ops(rxFifo)
BY OpsEmpty DEF Booting, Heard

LEMMA BootingIsNext ==
  (Booting <=> \/ "BOOT" \in Ops(sendQueue) \/ "BOOT" \in Ops(outgoing)
               \/ at = "loop" /\ "BOOT" \in Ops(rxFifo))'
<1>1. Booting <=> \/ "BOOT" \in Ops(sendQueue) \/ "BOOT" \in Ops(outgoing)
                  \/ at = "loop" /\ "BOOT" \in Ops(rxFifo)
  BY BootingIs
<1> QED
  BY <1>1, PTL

\* Steps of the link.
LEMMA LinkBoot ==
  ASSUME FlInv, BootInv,
         HandOver \/ WriteReturns \/ Collect \/ ReadReturns
           \/ BulkArrives \/ StreamArrives \/ StreamFails \/ AnswerArrives
  PROVE  BootInv' /\ (Booting' => Booting)
<1> DEFINE C == Commands(fileSize)
<1>0. /\ sendQueue \in Seq(C) /\ outgoing \in Seq(C) /\ rxFifo \in Seq(C)
      /\ UNCHANGED <<pc, session, mode, at>>
  BY DEF FlInv, TypeInv, PacketTypes, HandOver, WriteReturns, Collect, ReadReturns,
         BulkArrives, StreamArrives, StreamFails, AnswerArrives, others, program, loader, link, target
<1> HIDE DEF C
<1>1. CASE HandOver
  <2>1. /\ sendQueue # <<>> /\ sendQueue' = Tail(sendQueue) /\ outgoing' = Append(outgoing, Head(sendQueue))
        /\ rxFifo' = rxFifo
    BY <1>1 DEF HandOver, target, fifos
  <2>2. /\ "BOOT" \notin Ops(outgoing) /\ LastOnly(sendQueue, {"BOOT"})
        /\ at = "loop" => "BOOT" \notin Ops(rxFifo) /\ LastOnly(rxFifo, {"BOOT"})
    BY <2>1 DEF BootInv
  <2>3. /\ LastOnly(sendQueue', {"BOOT"}) /\ LastOnly(outgoing', {"BOOT"})
        /\ Head(sendQueue).op \in {"BOOT"} => sendQueue' = <<>>
    BY <1>0, <2>1, <2>2, MoveLast
  <2>4. /\ Ops(sendQueue') \subseteq Ops(sendQueue) /\ Head(sendQueue).op \in Ops(sendQueue)
        /\ Ops(outgoing') = Ops(outgoing) \cup {Head(sendQueue).op}
    BY <1>0, <2>1, Move
  <2>5. Booting' => Booting
    BY <1>0, <2>1, <2>4, BootingIs, BootingIsNext
  <2> QED
    BY <1>0, <2>1, <2>2, <2>3, <2>4, <2>5 DEF BootInv
<1>2. CASE WriteReturns \/ Collect \/ ReadReturns \/ AnswerArrives
  <2>1. UNCHANGED <<sendQueue, outgoing, rxFifo>>
    BY <1>2 DEF WriteReturns, Collect, ReadReturns, AnswerArrives, link, target, fifos, loader, io
  <2>2. Booting' = Booting
    BY <1>0, <2>1 DEF Booting, Heard
  <2> QED
    BY <1>0, <2>1, <2>2 DEF BootInv
<1>3. CASE BulkArrives \/ StreamArrives
  <2>1. /\ outgoing # <<>> /\ outgoing' = Tail(outgoing) /\ rxFifo' = Append(rxFifo, Head(outgoing))
        /\ at = "loop" /\ sendQueue' = sendQueue
    BY <1>3 DEF BulkArrives, StreamArrives, Hears, others, io
  <2>2. "BOOT" \notin Ops(rxFifo) /\ LastOnly(outgoing, {"BOOT"}) /\ LastOnly(sendQueue, {"BOOT"})
        /\ ("BOOT" \in Ops(outgoing) => sendQueue = <<>>)
    BY <2>1 DEF BootInv
  <2>3. /\ LastOnly(outgoing', {"BOOT"}) /\ LastOnly(rxFifo', {"BOOT"})
        /\ Head(outgoing).op \in {"BOOT"} => outgoing' = <<>>
    BY <1>0, <2>1, <2>2, MoveLast
  <2>4. /\ Ops(outgoing') \subseteq Ops(outgoing) /\ Head(outgoing).op \in Ops(outgoing)
        /\ Ops(rxFifo') = Ops(rxFifo) \cup {Head(outgoing).op}
    BY <1>0, <2>1, Move
  <2>5. Booting' => Booting
    BY <1>0, <2>1, <2>4, BootingIs, BootingIsNext
  <2> QED
    BY <1>0, <2>1, <2>2, <2>3, <2>4, <2>5 DEF BootInv
<1>4. CASE StreamFails
  <2>1. /\ outgoing # <<>> /\ outgoing' = Tail(outgoing) /\ sendQueue' = sendQueue /\ mode = "STREAM"
        /\ rxFifo' = rxFifo \/ (at = "loop" /\ rxFifo' = Append(rxFifo, Head(outgoing)))
    BY <1>4 DEF StreamFails, Hears, others, io
  <2>2. ~Booting
    BY <2>1 DEF BootInv
  <2>3. /\ Ops(outgoing') \subseteq Ops(outgoing) /\ Head(outgoing).op \in Ops(outgoing)
        /\ Ops(Append(rxFifo, Head(outgoing))) = Ops(rxFifo) \cup {Head(outgoing).op}
    BY <1>0, <2>1, Move
  <2>4. /\ "BOOT" \notin Ops(sendQueue') /\ "BOOT" \notin Ops(outgoing')
        /\ at' = "loop" => "BOOT" \notin Ops(rxFifo')
    BY <1>0, <2>1, <2>2, <2>3, BootingIs
  <2>5. pc' = "run" => session'.run
    BY <1>0 DEF BootInv
  <2> QED
    BY <2>4, <2>5, NotBootingNext, BootingIsNext
<1> QED
  BY <1>1, <1>2, <1>3, <1>4

\* Steps of the target, and what befalls it.
LEMMA TargetBoot ==
  ASSUME FlInv, BootInv, TargetActs \/ TargetResets \/ PowerCut
  PROVE  BootInv' /\ (Booting' => Booting)
<1> DEFINE C == Commands(fileSize)
<1>0. /\ rxFifo \in Seq(C) /\ UNCHANGED <<pc, session, mode, sendQueue, outgoing>>
  BY DEF FlInv, TypeInv, PacketTypes, TargetActs, TargetResets, PowerCut, loader, link, io
<1> HIDE DEF C
<1>1. ASSUME at' = "loop" => rxFifo' = <<>> PROVE BootInv' /\ (Booting' => Booting)
  <2>1. at' = "loop" => LastOnly(rxFifo', {"BOOT"}) /\ "BOOT" \notin Ops(rxFifo')
    BY <1>1, OpsEmpty
  <2>2. Booting' => Booting
    BY <1>0, <2>1, BootingIs, BootingIsNext
  <2> QED
    BY <1>0, <2>1, <2>2 DEF BootInv
<1>2. ASSUME at = "loop", rxFifo # <<>>, rxFifo' = Tail(rxFifo) PROVE BootInv' /\ (Booting' => Booting)
  <2>1. LastOnly(rxFifo', {"BOOT"}) /\ Ops(rxFifo') \subseteq Ops(rxFifo)
    BY <1>0, <1>2, LastTail, OpsTail DEF BootInv
  <2>2. Booting' => Booting
    BY <1>0, <1>2, <2>1, BootingIs, BootingIsNext
  <2> QED
    BY <1>0, <1>2, <2>1, <2>2 DEF BootInv
<1>3. ASSUME at = "loop", rxFifo' = rxFifo PROVE BootInv' /\ (Booting' => Booting)
  <2>1. Booting' => Booting
    BY <1>0, <1>3, BootingIs, BootingIsNext
  <2> QED
    BY <1>0, <1>3, <2>1 DEF BootInv
<1>4. CASE TargetResets \/ PowerCut
  BY <1>1, <1>4 DEF TargetResets, PowerCut, GiveUpAnswering, Reset, PowerFails, RamLost
<1>5. CASE TargetActs
  <2>1. CASE TakeHello
    BY <1>1, <2>1 DEF TakeHello
  <2>2. CASE TakeRead \/ TakeWrite \/ TakeBoot \/ TakeOther
    BY <1>2, <2>2 DEF TakeRead, TakeWrite, TakeBoot, TakeOther, HasCommand, Drop
  <2>3. CASE PushHello \/ PushBlock
    BY <1>1, <2>3 DEF PushHello, PushBlock, MayPush
  <2>4. CASE ListenAgain
    <3>1. at = "sync" /\ txFifo = <<>> /\ rxFifo' = rxFifo
      BY <2>4 DEF ListenAgain, fifos
    <3>2. rxFifo = <<>>
      BY <3>1 DEF FlInv, ConvInv, Links
    <3> QED
      BY <1>1, <3>1, <3>2
  <2>5. CASE BootTimerTick
    BY <1>3, <2>5 DEF BootTimerTick, fifos
  <2> QED
    BY <1>5, <2>1, <2>2, <2>3, <2>4, <2>5 DEF TargetActs, TargetNext, TakeCommand
<1> QED
  BY <1>4, <1>5

LEMMA UserBoot ==
  ASSUME FlInv, BootInv, UserStarts \/ UserKills
  PROVE  BootInv' /\ (Booting' => Booting) /\ (UserStarts => ~Booting')
<1>1. CASE UserStarts
  <2>1. /\ sendQueue' = <<>> /\ outgoing' = <<>> /\ (at' = "loop" => rxFifo' = <<>>) /\ pc' = "ping"
    BY <1>1 DEF UserStarts, Start, target, fifos
  <2>2. /\ "BOOT" \notin Ops(sendQueue') /\ "BOOT" \notin Ops(outgoing')
        /\ at' = "loop" => "BOOT" \notin Ops(rxFifo')
    BY <2>1, OpsEmpty
  <2> QED
    BY <2>1, <2>2, NotBootingNext, BootingIsNext
<1>2. CASE UserKills
  <2>1. /\ sendQueue' = <<>> /\ pc' = "killed" /\ pc \notin Ended
        /\ UNCHANGED <<at, rxFifo, outgoing, mode, session>>
    BY <1>2 DEF UserKills, Kill, target, fifos, link
  <2>2. LastOnly(sendQueue', {"BOOT"}) /\ "BOOT" \notin Ops(sendQueue')
    BY <2>1, OpsEmpty
  <2>3. Booting' => Booting
    BY <2>1, <2>2, BootingIs, BootingIsNext
  <2>4. pc' \in Ended /\ pc' # "run"
    BY <2>1 DEF Ended
  <2>5. Booting' => pc' \in {"ran"} \cup Ended /\ session'.run /\ mode' = "BULK"
    BY <2>1, <2>3, <2>4 DEF BootInv
  <2>6. at' = "loop" => /\ LastOnly(rxFifo', {"BOOT"})
                        /\ "BOOT" \in Ops(rxFifo') => sendQueue' = <<>> /\ outgoing' = <<>>
    BY <2>1 DEF BootInv
  <2>7. LastOnly(outgoing', {"BOOT"}) /\ ("BOOT" \in Ops(outgoing') => sendQueue' = <<>>)
    BY <2>1 DEF BootInv
  <2>8. ~UserStarts
    BY <2>1 DEF UserStarts, Start
  <2> QED
    BY <2>2, <2>3, <2>4, <2>5, <2>6, <2>7, <2>8 DEF BootInv
<1> QED
  BY <1>1, <1>2

\* Only Run sends it.
LEMMA RunSends ==
  ASSUME FlInv, LoaderActs, ~Run
  PROVE  "BOOT" \notin Ops(sendQueue) => "BOOT" \notin Ops(sendQueue')
<1>1. ASSUME UNCHANGED io PROVE sendQueue' = sendQueue
  BY <1>1 DEF io
<1>2. ASSUME NEW n, Read(n) PROVE "BOOT" \notin Ops(sendQueue')
  BY <1>2, OpsEmpty DEF Read
<1>3. CASE Ping \/ Hello
  <2>1. sendQueue' = <<[op |-> "NOP"]>> \/ sendQueue' = <<[op |-> "HELLO"]>>
    BY <1>3 DEF Ping, Hello, Write
  <2>2. /\ Ops(<<[op |-> "NOP"]>>) = {"NOP"}
        /\ Ops(<<[op |-> "HELLO"]>>) = {"HELLO"}
    BY DEF Ops
  <2> QED
    BY <2>1, <2>2
<1>4. CASE Save \/ Verify
  <2>1. PICK a : sendQueue' = ReadCommand(a)
    BY <1>4 DEF Save, Verify, Write
  <2>2. Ops(ReadCommand(a)) = {"READ"}
    BY DEF Ops, ReadCommand
  <2> QED
    BY <2>1, <2>2
<1>5. CASE WriteSome
  <2>1. sendQueue' = batch /\ batch \in Seq(Writes(fileSize))
    BY <1>5 DEF WriteSome, Write, FlInv, TypeInv, CursorTypes
  <2> QED
    BY <2>1, OpsOfWrites
<1>6. CASE Pad
  <2>1. sendQueue' = PadBlocks /\ pc = "pad"
    BY <1>6 DEF Pad, Write, At
  <2>2. PadBlocks \in Seq(Writes(fileSize))
    BY <2>1, PadsAreWrites
  <2> QED
    BY <2>1, <2>2, OpsOfWrites
<1>7. CASE AwaitHello \/ SaveRead \/ VerifyRead
  BY <1>2, <1>7 DEF AwaitHello, SaveRead, VerifyRead
<1>8. CASE \/ Pinged \/ HelloAnswered \/ Partitions
           \/ Restore \/ QueueBlock \/ QueueLastAgain \/ BatchFull \/ NothingQueued \/ Restored
           \/ SaveSome \/ VerifySome \/ Ran
  <2>1. UNCHANGED io \/ \E n : Read(n)
    BY <1>8 DEF Pinged, HelloAnswered, Partitions, Restore, QueueBlock, QueueLastAgain, BatchFull,
                NothingQueued, Restored, SaveSome, VerifySome, Ran
  <2> QED
    BY <1>1, <1>2, <2>1
<1> QED
  BY <1>3, <1>4, <1>5, <1>6, <1>7, <1>8 DEF LoaderActs, LoaderCalls

\* It is run only on demand.
LEMMA RunWanted ==
  ASSUME LoaderActs, pc' = "run"
  PROVE  session.run /\ session' = session
<1>1. \A n \in 1 .. 4 : \A failed : Work(n, failed) = "run" => session.run
  BY WorkWanted, Zenon
<1>2. 1 \in 1 .. 4 /\ 2 \in 1 .. 4 /\ 3 \in 1 .. 4 /\ 4 \in 1 .. 4
  OBVIOUS
<1>3. pc' \in {Work(1, FALSE), Work(2, FALSE), Work(3, FALSE), Work(4, verifyFailed'), Work(4, verifyFailed)}
      /\ session' = session
  BY DEF LoaderActs, LoaderCalls, Executes, Ping, Pinged, Hello, AwaitHello, HelloAnswered, Partitions,
         Restore, QueueBlock, QueueLastAgain, BatchFull, NothingQueued, WriteSome, Pad, Restored,
         Save, SaveRead, SaveSome, Verify, VerifyRead, VerifySome, Run, Ran
<1> QED
  BY <1>1, <1>2, <1>3, Zenon

LEMMA LoaderBoot ==
  ASSUME FlInv, FlInv', ImageInv, BootInv, LoaderActs
  PROVE  BootInv' /\ (Booting' => Booting \/ (Run /\ pc' = "ran"))
<1>0. /\ UNCHANGED <<at, rxFifo, session>> /\ transfer.kind = "none" /\ sendQueue = <<>> /\ pc \notin Ended
      /\ outgoing' \in {outgoing, <<>>} /\ mode' = Mode(transfer'.kind)
      /\ outgoing' = IF mode' = mode THEN outgoing ELSE <<>>
  BY LoaderLink
<1>1. pc' = "run" => session'.run
  BY RunWanted
<1>2. "BOOT" \notin Ops(sendQueue)
  BY <1>0, OpsEmpty
<1>3. "BOOT" \in Ops(outgoing') => "BOOT" \in Ops(outgoing)
  BY <1>0, OpsEmpty
<1>4. CASE Run
  <2>1. pc = "run" /\ pc' = "ran" /\ sendQueue' = <<[op |-> "BOOT", part |-> currentPartId]>>
        /\ transfer'.kind = "bulkSync"
    BY <1>4 DEF Run, Executes, At, Write
  <2>2. pc \notin {"ran"} \cup Ended
    BY <2>1 DEF Ended
  <2>3. ~Booting
    BY <2>2 DEF BootInv
  <2>4. LastOnly(sendQueue', {"BOOT"})
    <3>1. \A e : LastOnly(<<e>>, {"BOOT"})
      BY DEF LastOnly
    <3> QED
      BY <2>1, <3>1
  <2>5. "BOOT" \notin Ops(outgoing') /\ (at' = "loop" => "BOOT" \notin Ops(rxFifo'))
    BY <1>0, <1>3, <2>3, BootingIs
  <2>6. LastOnly(outgoing', {"BOOT"}) /\ (at' = "loop" => LastOnly(rxFifo', {"BOOT"}))
    BY <2>5, LastNone
  <2>7. mode' = "BULK" /\ session'.run
    BY <1>0, <2>1, ModeOf DEF BootInv
  <2> QED
    BY <1>1, <1>4, <2>1, <2>4, <2>5, <2>6, <2>7 DEF BootInv
<1>5. CASE ~Run
  <2>1. "BOOT" \notin Ops(sendQueue')
    BY <1>2, <1>5, RunSends
  <2>2. CASE ~Booting
    <3>1. "BOOT" \notin Ops(outgoing') /\ (at' = "loop" => "BOOT" \notin Ops(rxFifo'))
      BY <1>0, <1>3, <2>2, BootingIs
    <3> QED
      BY <1>1, <2>1, <3>1, NotBootingNext, BootingIsNext
  <2>3. CASE Booting
    <3>1. pc = "ran"
      BY <1>0, <2>3 DEF BootInv
    <3>2. Ran
      BY <3>1 DEF LoaderActs, LoaderCalls, Executes, At, Ping, Pinged, Hello, AwaitHello, HelloAnswered,
             Partitions, Restore, QueueBlock, QueueLastAgain, BatchFull, NothingQueued, WriteSome, Pad,
             Restored, Save, SaveRead, SaveSome, Verify, VerifyRead, VerifySome, Run
    <3>3. UNCHANGED <<io, sendQueue, transfer>> /\ pc' = "done"
      BY <3>2 DEF Ran, io
    <3>4. mode' = mode /\ outgoing' = outgoing
      BY <1>0, <3>3, ModeOf
    <3>5. pc' \in Ended /\ pc' # "run"
      BY <3>3 DEF Ended
    <3> QED
      BY <1>0, <2>3, <3>3, <3>4, <3>5 DEF BootInv
  <2> QED
    BY <2>2, <2>3
<1> QED
  BY <1>4, <1>5

LEMMA BootNext ==
  ASSUME FlInv, FlInv', ImageInv, BootInv, Next
  PROVE  BootInv' /\ (Booting' => Booting \/ (LoaderActs /\ Run /\ pc' = "ran"))
         /\ (UserStarts => ~Booting')
<1>1. UserStarts => pc' = "ping" /\ pc \in Ended /\ sessions' = sessions + 1 /\ sessions \in Nat
  BY DEF UserStarts, Start, FlInv, TypeInv, ProgramTypes
<1>2. CASE UserStarts \/ UserKills
  BY <1>2, UserBoot
<1>3. CASE ~UserStarts
  BY <1>3, UserBoot, LoaderBoot, LinkBoot, TargetBoot DEF Next
<1> QED
  BY <1>2, <1>3

-----------------------------------------------------------------------------
(***************************************************************************)
(* The conversation: a program that works has been answered, by a target    *)
(* that has not left and does not count down.                              *)
(***************************************************************************)
Answered == txFifo # <<>> \/ incoming # <<>> \/ recvQueue # <<>>

TalkInv == Undisturbed =>
  /\ pc \in Greeting /\ (pc = "partitions" \/ Answered) => got_hello /\ peer /\ at # "app"
  /\ pc \in Working \cup {"done"} => got_hello /\ peer
  /\ pc \in Working \ {"ran"} => at # "app"
  /\ Booting => got_hello /\ peer

\* A read does not flush what a write has left in the dongle.
SyncInv ==
  /\ pc = "verifyRead" => transfer.kind \in {"none", "bulkSync"} /\ (transfer.kind = "none" => outgoing = <<>>)
  /\ pc = "verifySome" => transfer.kind \in {"none", "read"} /\ outgoing = <<>>
  /\ pc = "done" => mode \in {"READ", "BULK"}

LEMMA LoaderTalk ==
  ASSUME BLDADDR > 0, FlInv, FlInv', ImageInv, BootInv, TalkInv, LoaderActs
  PROVE  TalkInv'
<1>0. /\ UNCHANGED <<at, peer, got_hello, txFifo, lastReset, sessions>>
      /\ incoming' \in {incoming, <<>>}
      /\ Booting' => Booting \/ (Run /\ pc' = "ran")
      /\ Undisturbed' = Undisturbed
  BY LoaderLink, LoaderBoot DEF LoaderActs, target, fifos, Undisturbed
<1>1. SUFFICES ASSUME Undisturbed
               PROVE  /\ pc' \in Greeting /\ (pc' = "partitions" \/ Answered') => got_hello /\ peer /\ at # "app"
                      /\ pc' \in Working \cup {"done"} => got_hello /\ peer
                      /\ pc' \in Working \ {"ran"} => at # "app"
                      /\ Booting' => got_hello /\ peer
  BY <1>0 DEF TalkInv
<1>2. CASE pc \in Working
  <2>1. pc' \in Working \cup {"done"}
    BY <1>2, WorkingConv
  <2>2. got_hello /\ peer /\ (pc # "ran" => at # "app")
    BY <1>1, <1>2 DEF TalkInv
  <2>3. pc' \notin Greeting
    BY <2>1 DEF Working, Greeting
  <2>4. pc = "ran" => pc' = "done"
    BY DEF LoaderActs, LoaderCalls, Executes, At, Ping, Pinged, Hello, AwaitHello, HelloAnswered,
           Partitions, Restore, QueueBlock, QueueLastAgain, BatchFull, NothingQueued, WriteSome, Pad,
           Restored, Save, SaveRead, SaveSome, Verify, VerifyRead, VerifySome, Run, Ran
  <2> QED
    BY <2>1, <2>2, <2>3, <2>4 DEF Working
<1>3. CASE pc \notin Working
  <2>0. Ping \/ Pinged \/ Hello \/ AwaitHello \/ HelloAnswered \/ Partitions
    BY <1>3 DEF LoaderActs, LoaderCalls, At, Executes, Working,
           Restore, QueueBlock, QueueLastAgain, BatchFull, NothingQueued, WriteSome, Pad, Restored,
           Save, SaveRead, SaveSome, Verify, VerifyRead, VerifySome, Run, Ran
  <2>1. Booting' => got_hello /\ peer
    <3>1. ~Run
      BY <1>3 DEF Run, Executes, At, Working
    <3> QED
      BY <1>0, <1>1, <3>1 DEF TalkInv
  <2>2. CASE Ping \/ Pinged
    <3>1. pc' \in {"pinged", "ping", "hello"}
      BY <2>2 DEF Ping, Pinged, Executes
    <3> QED
      BY <2>1, <3>1 DEF Greeting, Working
  <2>3. CASE Hello
    <3>1. pc = "hello" /\ pc' = "helloSent" /\ recvQueue' = <<>>
      BY <2>3 DEF Hello, Executes, At, Write
    <3>2. mode \in {"IDLE", "STREAM"} /\ lastWriteOk
      BY <3>1 DEF FlInv, ConvInv, WaitingInv, Waiting
    <3>3. incoming = <<>> /\ txFifo = <<>>
      BY <3>1, <3>2 DEF FlInv, ConvInv, Links, WaitingInv, Waiting
    <3>4. ~Answered'
      BY <1>0, <3>1, <3>3 DEF Answered
    <3> QED
      BY <2>1, <3>1, <3>4 DEF Greeting, Working
  <2>4. CASE AwaitHello
    <3>1. pc = "helloSent" /\ pc' = "helloAnswered" /\ recvQueue' = <<>>
      BY <2>4 DEF AwaitHello, Executes, At, Read
    <3>2. Answered' => Answered
      BY <1>0, <3>1 DEF Answered
    <3> QED
      BY <1>1, <2>1, <3>1, <3>2 DEF TalkInv, Greeting, Working
  <2>5. CASE HelloAnswered
    <3>1. /\ pc = "helloAnswered" /\ pc' \in {"failed", "partitions", "misled"}
          /\ pc' = "partitions" => recvQueue # <<>>
      BY <2>5 DEF HelloAnswered, At
    <3> QED
      BY <1>1, <2>1, <3>1 DEF TalkInv, Greeting, Working, Answered
  <2>6. CASE Partitions
    <3>1. pc = "partitions"
      BY <2>6 DEF Partitions, At
    <3>2. got_hello /\ peer /\ at # "app"
      BY <1>1, <3>1 DEF TalkInv, Greeting
    <3> QED
      BY <3>2
  <2> QED
    BY <2>0, <2>2, <2>3, <2>4, <2>5, <2>6
<1> QED
  BY <1>2, <1>3

LEMMA TargetTalk ==
  ASSUME FlInv, BootInv, TalkInv, TargetActs
  PROVE  TalkInv'
<1>0. UNCHANGED <<pc, incoming, recvQueue, lastReset, sessions>> /\ Undisturbed' = Undisturbed
  BY DEF TargetActs, loader, link, io, Undisturbed
<1>1. Booting' => Booting
  BY TargetBoot
<1>2. (got_hello => got_hello') /\ (peer => peer')
  BY DEF TargetActs, TargetNext, TakeCommand, TakeHello, TakeRead, TakeWrite, TakeBoot, TakeOther,
         PushHello, PushBlock, ListenAgain, BootTimerTick
<1>3. at' = "app" => at = "app" \/ TakeBoot \/ ~got_hello
  BY DEF TargetActs, TargetNext, TakeCommand, TakeHello, TakeRead, TakeWrite, TakeOther,
         PushHello, PushBlock, ListenAgain, BootTimerTick
<1>4. TakeBoot => pc \in {"ran"} \cup Ended
  <2>1. TakeBoot => at = "loop" /\ "BOOT" \in Ops(rxFifo)
    BY OpsTail DEF TakeBoot, HasCommand, FlInv, TypeInv, PacketTypes
  <2> QED
    BY <2>1, BootingIs DEF BootInv
<1>5. pc \in Greeting /\ Answered' => Answered \/ (got_hello' /\ peer' /\ at' # "app")
  <2>1. CASE PushHello
    <3>1. at = "answer" /\ got_hello' /\ peer' = peer /\ at' # "app"
      BY <2>1 DEF PushHello, MayPush
    <3>2. pc \in Greeting => peer
      BY <3>1 DEF FlInv, ConvInv, GreetingInv
    <3> QED
      BY <3>1, <3>2
  <2>2. CASE PushBlock
    <3>1. at = "answer" /\ job.op = "READ"
      BY <2>2 DEF PushBlock, MayPush
    <3>2. pc \notin Greeting
      BY <3>1 DEF FlInv, ConvInv, GreetingInv
    <3> QED
      BY <3>2
  <2>3. CASE ~PushHello /\ ~PushBlock
    <3>1. txFifo' = txFifo
      BY <2>3 DEF TargetActs, TargetNext, TakeCommand, TakeHello, TakeRead, TakeWrite, TakeBoot, TakeOther,
                  ListenAgain, BootTimerTick, fifos
    <3> QED
      BY <1>0, <3>1 DEF Answered
  <2> QED
    BY <2>1, <2>2, <2>3
<1>6. pc \notin Ended => (TakeBoot => pc = "ran") 
  BY <1>4
<1>7. pc \in Greeting \cup Working => pc \notin Ended /\ (pc \in Greeting => pc # "ran")
  BY DEF Greeting, Working, Ended
<1> QED
  BY <1>0, <1>1, <1>2, <1>3, <1>5, <1>6, <1>7 DEF TalkInv

LEMMA TalkNext ==
  ASSUME BLDADDR > 0, FlInv, FlInv', ImageInv, BootInv, TalkInv, Next
  PROVE  TalkInv'
<1>1. CASE LoaderActs
  BY <1>1, LoaderTalk
<1>2. CASE TargetActs
  BY <1>2, TargetTalk
<1>3. CASE TargetResets \/ PowerCut
  <2>1. lastReset' = sessions' 
    BY <1>3 DEF TargetResets, PowerCut, loader
  <2> QED
    BY <2>1 DEF TalkInv, Undisturbed
<1>4. CASE UserStarts
  <2>1. pc' = "ping" /\ ~Booting'
    BY <1>4, UserBoot DEF UserStarts, Start
  <2> QED
    BY <2>1 DEF TalkInv, Greeting, Working
<1>5. CASE UserKills
  <2>1. /\ pc' = "killed" /\ UNCHANGED <<at, peer, got_hello, lastReset, sessions>>
        /\ Booting' => Booting
    BY <1>5, UserBoot DEF UserKills, Kill, target
  <2> QED
    BY <2>1 DEF TalkInv, Greeting, Working, Undisturbed
<1>6. CASE HandOver \/ WriteReturns \/ Collect \/ ReadReturns
           \/ BulkArrives \/ StreamArrives \/ StreamFails \/ AnswerArrives
  <2>1. UNCHANGED <<pc, at, peer, got_hello, lastReset, sessions>>
    BY <1>6 DEF HandOver, WriteReturns, Collect, ReadReturns, BulkArrives, StreamArrives, StreamFails,
                AnswerArrives, others, program, loader, target
  <2>2. Booting' => Booting
    BY <1>6, LinkBoot
  <2>3. Answered' => Answered
    BY <1>6 DEF Answered, HandOver, WriteReturns, Collect, ReadReturns, BulkArrives, StreamArrives,
                StreamFails, AnswerArrives, others, loader, target, link, fifos, io
  <2> QED
    BY <2>1, <2>2, <2>3 DEF TalkInv, Undisturbed
<1> QED
  BY <1>1, <1>2, <1>3, <1>4, <1>5, <1>6 DEF Next

LEMMA SyncNext ==
  ASSUME FlInv, FlInv', ImageInv, SyncInv, Next
  PROVE  SyncInv'
<1>1. CASE LoaderActs
  <2>0. /\ transfer.kind = "none" /\ mode' = Mode(transfer'.kind)
        /\ outgoing' = IF mode' = mode THEN outgoing ELSE <<>>
    BY <1>1, LoaderLink
  <2>1. LET after == {"save", "restore", "verify", "run", "done"}
        IN  /\ Work(1, FALSE) \in after /\ Work(2, FALSE) \in after /\ Work(3, FALSE) \in after
            /\ Work(4, verifyFailed) \in after /\ Work(4, verifyFailed') \in after
    <3>1. 1 \in 1 .. 4 /\ 2 \in 1 .. 4 /\ 3 \in 1 .. 4 /\ 4 \in 1 .. 4
      OBVIOUS
    <3> QED
      BY <3>1, WorkIs
  <2>2. pc' = "verifyRead" => transfer'.kind = "bulkSync"
    <3>1. ASSUME Verify PROVE transfer'.kind = "bulkSync"
      BY <3>1 DEF Verify, Write, ReadCommand
    <3>2. pc' = "verifyRead" => Verify
      BY <1>1, <2>1 DEF LoaderActs, LoaderCalls, Executes, Ping, Pinged, Hello, AwaitHello, HelloAnswered,
           Partitions, Restore, QueueBlock, QueueLastAgain, BatchFull, NothingQueued, WriteSome, Pad,
           Restored, Save, SaveRead, SaveSome, VerifyRead, VerifySome, Run, Ran
    <3> QED
      BY <3>1, <3>2
  <2>3. pc' = "verifySome" => (VerifyRead \/ VerifySome)
    <3> QED
      BY <1>1, <2>1 DEF LoaderActs, LoaderCalls, Executes, Ping, Pinged, Hello, AwaitHello, HelloAnswered,
           Partitions, Restore, QueueBlock, QueueLastAgain, BatchFull, NothingQueued, WriteSome, Pad,
           Restored, Save, SaveRead, SaveSome, Verify, Run, Ran
  <2>4. VerifyRead \/ VerifySome => outgoing' = <<>> /\ transfer'.kind \in {"none", "read"}
    <3>1. VerifyRead \/ VerifySome => outgoing = <<>>
      BY <2>0 DEF VerifyRead, VerifySome, Executes, At, SyncInv
    <3>2. VerifyRead \/ VerifySome => UNCHANGED io \/ \E n : Read(n)
      BY DEF VerifyRead, VerifySome
    <3>3. VerifyRead \/ VerifySome => transfer'.kind \in {"none", "read"}
      BY <2>0, <3>2 DEF io, Read
    <3> QED
      BY <2>0, <3>1, <3>3
  <2>5. pc' = "done" => mode' \in {"READ", "BULK"}
    <3>1. pc' = "done" => Partitions \/ SaveSome \/ Restored \/ VerifySome \/ Ran
      BY <1>1 DEF LoaderActs, LoaderCalls, Executes, Ping, Pinged, Hello, AwaitHello, HelloAnswered,
           Restore, QueueBlock, QueueLastAgain, BatchFull, NothingQueued, WriteSome, Pad,
           Save, SaveRead, Verify, VerifyRead, Run
    <3>2. Partitions \/ SaveSome \/ Restored \/ VerifySome \/ Ran =>
            /\ pc \in {"partitions", "saveSome", "restored", "verifySome", "ran"}
            /\ UNCHANGED io \/ \E n : Read(n)
      BY DEF Partitions, SaveSome, Restored, VerifySome, Ran, At
    <3>3. pc \in {"partitions", "saveSome", "restored", "verifySome", "ran"} => mode \in {"READ", "BULK"}
      BY DEF FlInv, ConvInv, GreetingInv, Greeting, Working, ImageInv, ModeInv
    <3>4. UNCHANGED io \/ (\E n : Read(n)) => mode' \in {mode, "READ"}
      BY <2>0, ModeOf DEF io, Read
    <3> QED
      BY <3>1, <3>2, <3>3, <3>4
  <2> QED
    BY <2>2, <2>3, <2>4, <2>5 DEF SyncInv
<1>2. CASE TargetActs \/ TargetResets \/ PowerCut \/ Collect \/ AnswerArrives
  <2>1. UNCHANGED <<pc, transfer, outgoing, mode>>
    BY <1>2 DEF TargetActs, TargetResets, PowerCut, Collect, AnswerArrives, loader, link, program, io
  <2> QED
    BY <2>1 DEF SyncInv
<1>3. CASE UserStarts \/ UserKills
  BY <1>3 DEF UserStarts, Start, UserKills, Kill, SyncInv
<1>4. CASE HandOver
  <2>1. sendQueue # <<>> /\ UNCHANGED <<pc, transfer, mode>>
    BY <1>4 DEF HandOver, program
  <2>2. transfer.kind \notin {"none", "read"}
    BY <2>1 DEF FlInv, ConvInv, Links
  <2> QED
    BY <2>1, <2>2 DEF SyncInv
<1>5. CASE WriteReturns
  <2>1. /\ transfer'.kind = "none" /\ transfer.kind # "none" /\ transfer.kind # "read" /\ UNCHANGED <<pc, outgoing, mode>>
        /\ transfer.kind = "bulkSync" => outgoing = <<>>
    BY <1>5 DEF WriteReturns, Returns, Settled, program, link, FlInv, TypeInv, ProgramTypes
  <2> QED
    BY <2>1 DEF SyncInv
<1>6. CASE ReadReturns
  <2>1. transfer'.kind = "none" /\ transfer.kind = "read" /\ UNCHANGED <<pc, outgoing, mode>>
    BY <1>6 DEF ReadReturns, Returns, program, link, FlInv, TypeInv, ProgramTypes
  <2> QED
    BY <2>1 DEF SyncInv
<1>7. CASE BulkArrives \/ StreamArrives \/ StreamFails
  <2>1. outgoing # <<>> /\ UNCHANGED <<pc, transfer, mode>>
    BY <1>7 DEF BulkArrives, StreamArrives, StreamFails, others, program, io
  <2> QED
    BY <2>1 DEF SyncInv
<1> QED
  BY <1>1, <1>2, <1>3, <1>4, <1>5, <1>6, <1>7 DEF Next

-----------------------------------------------------------------------------
(***************************************************************************)
(* How far a partition is written.                                         *)
(***************************************************************************)
\* What comes before address a is in its place, what shares its page in the buffer.
Reached(a) ==
  IF Chosen = 1
    THEN \A x \in 0 .. E2END : x < a /\ x < fileSize => eeprom[x] = x
    ELSE /\ \A x \in 0 .. FLASHEND : x < PageOf(a) /\ x < fileSize /\ x < BLDADDR => flash[x] = x
         /\ \A o \in 0 .. Rest(a, SPM_PAGESIZE) - 1 :
              PageOf(a) + o < fileSize /\ PageOf(a) + o < BLDADDR => pbuf[o] = PageOf(a) + o

\* A block for the partition that finds everything before it in its place.
Exact == {c \in Items : IsBlock(c) /\ c.part = Chosen /\ Reached(c.addr)}

\* The image ends at or before a, and so do its pages.
Ends(a) ==
  /\ a >= fileSize \/ a >= parts[Chosen].size
  /\ Chosen = 2 => Rest(a, SPM_PAGESIZE) = 0
Final == {c \in Items : IsBlock(c) /\ Ends(c.addr + IOSIZE)}

LEMMA ChosenIs ==
  ASSUME session \in Command_line
  PROVE  /\ Chosen \in {1, 2} /\ Chosen \in 1 .. partcount /\ parts[Chosen].name = session.part
         /\ Chosen = 2 <=> session.part = "flash"
         /\ ptable = parts => currentPartId = Chosen /\ currentPart = parts[Chosen]
<1>1. session.part \in {"eeprom", "flash"}
  BY DEF Command_line
<1>2. \E i \in 1 .. partcount : parts[i].name = session.part
  BY <1>1, Partitions2
<1>3. Chosen \in 1 .. partcount /\ parts[Chosen].name = session.part
  BY <1>2 DEF Chosen
<1> HIDE DEF Chosen
<1>4. Chosen \in {1, 2} /\ (Chosen = 2 <=> session.part = "flash")
  BY <1>1, <1>3, Partitions2
<1>5. ASSUME ptable = parts PROVE currentPartId = Chosen
  <2> DEFINE named == {i \in DOMAIN ptable : ptable[i].name = session.part}
  <2>1. currentPartId = IF named = {} THEN 1 ELSE Min(named)
    BY DEF currentPartId
  <2>2. named = {Chosen}
    <3>1. \A i \in 1 .. 2 : parts[i].name = session.part => i = Chosen
      BY <1>1, <1>3, <1>4, Partitions2
    <3> QED
      BY <1>3, <1>5, <3>1, Partitions2
  <2> HIDE DEF named
  <2>3. Chosen \in Int /\ Min({Chosen}) = Chosen
    BY <1>4 DEF Min
  <2> QED
    BY <2>1, <2>2, <2>3
<1> QED
  BY <1>3, <1>4, <1>5 DEF currentPart

LEMMA ChosenType == TypeInv => session \in Command_line
BY DEF TypeInv, ProgramTypes

LEMMA SameMemory ==
  ASSUME UNCHANGED <<flash, eeprom, pbuf, session, fileSize>>
  PROVE  /\ Exact' = Exact /\ Final' = Final /\ Items' = Items
         /\ InPlace(Chosen)' <=> InPlace(Chosen)
<1>1. Chosen' = Chosen /\ Items' = Items
  BY DEF Chosen, Items
<1>2. \A a : Reached(a)' <=> Reached(a)
  BY <1>1 DEF Reached
<1>3. \A a : Ends(a)' <=> Ends(a)
  BY <1>1 DEF Ends
<1>4. InPlace(Chosen)' <=> InPlace(Chosen)
  BY <1>1 DEF InPlace, Image, contents
<1> QED
  BY <1>1, <1>2, <1>3, <1>4 DEF Exact, Final

LEMMA ExactOfPlaces == OfPlaces(Exact)
BY DEF OfPlaces, Exact

\* At the start there is nothing to reach.
LEMMA ReachedStart ==
  ASSUME TypeInv
  PROVE  Reached(0)
<1>1. PageOf(0) = 0 /\ Rest(0, SPM_PAGESIZE) = 0
  <2>1. Rest(SPM_PAGESIZE * 0, SPM_PAGESIZE) = 0 /\ SPM_PAGESIZE * 0 = 0
    BY RestOfMultiple, Sizes
  <2> QED
    BY <2>1, PageFacts
<1> QED
  BY <1>1, Sizes DEF Reached

LEMMA SomeLess ==
  ASSUME TypeInv
  PROVE  /\ fileSize \in Nat /\ parts[Chosen].size \in Nat
         /\ \A x \in Image(Chosen) : x \in Nat /\ x < fileSize /\ x < parts[Chosen].size
<1>1. fileSize \in Nat /\ Chosen \in 1 .. 2
  BY ItemsAre, ChosenIs, ChosenType
<1> DEFINE s == parts[Chosen].size
<1>2. s \in Nat
  BY <1>1, Partitions2
<1> HIDE DEF s
<1>3. Min({fileSize, s}) \in Int /\ Min({fileSize, s}) <= fileSize /\ Min({fileSize, s}) <= s
  BY <1>1, <1>2, MinOfTwo
<1> DEFINE m == Min({fileSize, s})
<1>4. Image(Chosen) = 0 .. m - 1
  BY DEF Image, s
<1> HIDE DEF m
<1>5. m \in Int /\ m <= fileSize /\ m <= s
  BY <1>3 DEF m
<1> QED
  BY <1>1, <1>2, <1>4, <1>5 DEF s

\* Where the image ends, all of it is in its place.
LEMMA ReachedEnd ==
  ASSUME TypeInv, NEW a \in Nat, Reached(a), Ends(a)
  PROVE  InPlace(Chosen)
<1>1. ASSUME NEW x \in Image(Chosen) PROVE contents(Chosen)[x] = x
  <2>1. x \in Nat /\ x < fileSize /\ x < parts[Chosen].size /\ x < a
    BY SomeLess DEF Ends
  <2>2. CASE Chosen = 1
    <3>1. contents(Chosen) = eeprom /\ parts[Chosen].size = E2END + 1
      BY <2>2, Partitions2 DEF contents
    <3>2. x \in 0 .. E2END
      BY <2>1, <3>1, Sizes
    <3> QED
      BY <2>1, <2>2, <3>1, <3>2 DEF Reached
  <2>3. CASE Chosen = 2
    <3>1. contents(Chosen) = flash /\ parts[Chosen].size = BLDADDR
      BY <2>3, Partitions2 DEF contents
    <3>2. PageOf(a) = a
      <4>1. PageOf(a) = a - Rest(a, SPM_PAGESIZE) /\ Rest(a, SPM_PAGESIZE) = 0
        BY <2>3, PageFacts DEF Ends
      <4> QED
        BY <4>1
    <3>3. x \in 0 .. FLASHEND
      BY <2>1, <3>1, Sizes
    <3>4. x < PageOf(a) /\ x < BLDADDR
      BY <2>1, <3>1, <3>2
    <3> QED
      BY <2>1, <2>3, <3>1, <3>3, <3>4 DEF Reached
  <2> QED
    BY <2>2, <2>3, ChosenIs, ChosenType
<1> QED
  BY <1>1 DEF InPlace

\* A block that arrives is reached, and so is its end.
LEMMA BlockReaches ==
  ASSUME TypeInv, TakeWrite, Command \in Exact, UNCHANGED <<session, fileSize>>,
         NEW a \in {Command.addr, Command.addr + IOSIZE}
  PROVE  Reached(a)'
<1> DEFINE c == Command
<1>0. Chosen' = Chosen /\ Chosen \in {1, 2}
  BY ChosenIs, ChosenType DEF Chosen
<1>1. /\ c \in Writes(fileSize) /\ c.part = Chosen /\ Reached(c.addr)
  BY CommandIs DEF Exact, TakeWrite, HasCommand, Command
<1>2. /\ c.addr \in Nat /\ Rest(c.addr, IOSIZE) = 0 /\ a \in Nat
      /\ c.data \in Seq(Int) /\ Len(c.data) = IOSIZE
  <2> DEFINE p == c.addr
             d == c.data
  <2>1. p \in Nat /\ Rest(p, IOSIZE) = 0 /\ d \in Block
    BY <1>1, WriteIs
  <2>2. a = p \/ a = p + IOSIZE
    OBVIOUS
  <2> HIDE DEF p, d
  <2>3. d \in Seq(Int) /\ Len(d) = IOSIZE
    BY <2>1, BlockIsSeq
  <2>4. a \in Nat
    BY <2>1, <2>2, Sizes
  <2> QED
    BY <2>1, <2>3, <2>4 DEF p, d
<1>3. CASE Chosen = 1
  <2> DEFINE d == c.data
             b == c.addr
  <2>1. flash' = flash /\ eeprom' = Patch(eeprom, b % (E2END + 1), d)
    BY <1>1, <1>3, Partitions2 DEF TakeWrite, do_eeprom_write
  <2>2. b \in Nat /\ b < E2END + 1 /\ E2END \in Nat
        /\ \A k \in 1 .. IOSIZE : b + k - 1 < fileSize /\ b + k - 1 < E2END + 1 => d[k] = b + k - 1
    <3>1. b < E2END + 1 /\ Carries(c, fileSize) /\ E2END \in Nat
      BY <1>1, <1>3, WriteIs, Sizes
    <3>2. parts[c.part].size = E2END + 1
      BY <1>1, <1>3, Partitions2
    <3> QED
      BY <1>2, <3>1, <3>2 DEF Carries
  <2>3. b % (E2END + 1) = b
    <3>1. E2END + 1 \in Nat \ {0}
      BY <2>2
    <3> QED
      BY <2>2, <3>1, Below
  <2>4. \A x \in 0 .. E2END : x < b /\ x < fileSize => eeprom[x] = x
    BY <1>1, <1>3 DEF Reached
  <2>5. d \in Seq(Int) /\ Len(d) = IOSIZE /\ a \in {b, b + IOSIZE}
    BY <1>2
  <2> HIDE DEF d, b
  <2>6. \A x \in 0 .. E2END : eeprom'[x] =
          IF b <= x /\ x < b + IOSIZE THEN d[x - b + 1] ELSE eeprom[x]
    <3>1. eeprom \in [0 .. E2END -> Int] /\ b \in Int
      BY <2>2, MemoryTypes
    <3>2. \A x \in 0 .. E2END : Patch(eeprom, b, d)[x] =
            IF b <= x /\ x < b + Len(d) THEN d[x - b + 1] ELSE eeprom[x]
      BY <2>2, <2>5, <3>1, PatchIs
    <3> QED
      BY <2>1, <2>3, <2>5, <3>2
  <2>7. ASSUME NEW x \in 0 .. E2END, x < a, x < fileSize PROVE eeprom'[x] = x
    <3>1. CASE b <= x /\ x < b + IOSIZE
      <4> DEFINE k == x - b + 1
      <4>1. k \in 1 .. IOSIZE /\ b + k - 1 = x /\ x < E2END + 1
        BY <2>2, <3>1, Sizes
      <4>2. eeprom'[x] = d[k]
        BY <2>6, <3>1
      <4> HIDE DEF k
      <4>3. d[k] = x
        BY <2>2, <2>7, <4>1
      <4> QED
        BY <4>2, <4>3
    <3>2. CASE ~(b <= x /\ x < b + IOSIZE)
      <4>1. x < b
        BY <2>2, <2>5, <2>7, <3>2, Sizes
      <4> QED
        BY <2>4, <2>6, <2>7, <3>2, <4>1
    <3> QED
      BY <3>1, <3>2
  <2> QED
    BY <1>0, <1>3, <2>7 DEF Reached
<1>4. CASE Chosen = 2
  <2> DEFINE p == PageOf(c.addr)
             r == Rest(c.addr, SPM_PAGESIZE)
             buf == Patch(pbuf, c.addr % SPM_PAGESIZE, c.data)
             whole == [o \in 1 .. SPM_PAGESIZE |-> buf[o - 1]]
  <2>1. /\ pbuf' = buf
        /\ flash' = IF (c.addr + IOSIZE) % SPM_PAGESIZE = 0 THEN Patch(flash, p, whole) ELSE flash
    BY <1>1, <1>4, Partitions2 DEF TakeWrite, do_flash_write, Programmed
  <2>2. \A x \in 0 .. FLASHEND : x < p /\ x < fileSize /\ x < BLDADDR => flash[x] = x
    BY <1>1, <1>4 DEF Reached
  <2>3. \A o \in 0 .. r - 1 : p + o < fileSize /\ p + o < BLDADDR => pbuf[o] \in {p + o} \cup {}
    BY <1>1, <1>4 DEF Reached
  <2>4. /\ buf \in [0 .. SPM_PAGESIZE - 1 -> Int]
        /\ \A o \in 0 .. r + IOSIZE - 1 : p + o < fileSize /\ p + o < BLDADDR => buf[o] \in {p + o} \cup {}
    <3> DEFINE m == {}
    <3>1. \A o \in 0 .. r - 1 : p + o < fileSize /\ p + o < BLDADDR => pbuf[o] \in {p + o} \cup m
      BY <2>3
    <3> HIDE DEF m, c
    <3>2. /\ buf \in [0 .. SPM_PAGESIZE - 1 -> Int]
          /\ \A o \in 0 .. r + IOSIZE - 1 : p + o < fileSize /\ p + o < BLDADDR => buf[o] \in {p + o} \cup m
      BY <1>1, <1>4, <3>1, BufferFilled
    <3> QED
      BY <3>2 DEF m
  <2>5. \A o \in 0 .. Rest(a, SPM_PAGESIZE) - 1 :
          PageOf(a) + o < fileSize /\ PageOf(a) + o < BLDADDR => buf[o] = PageOf(a) + o
    <3> DEFINE m == {}
               n == fileSize
    <3>1. \A o \in 0 .. r + IOSIZE - 1 : p + o < n /\ p + o < BLDADDR => buf[o] \in {p + o} \cup m
      BY <2>4
    <3>2. a \in {c.addr, c.addr + IOSIZE}
      OBVIOUS
    <3> HIDE DEF m, n, c, buf
    <3>3. \A o \in 0 .. Rest(a, SPM_PAGESIZE) - 1 :
            PageOf(a) + o < n /\ PageOf(a) + o < BLDADDR => buf[o] \in {PageOf(a) + o} \cup m
      BY <1>1, <3>1, <3>2, NextReady
    <3> QED
      BY <3>3 DEF m, n
  <2>6. /\ r \in 0 .. SPM_PAGESIZE - 1 /\ p = c.addr - r /\ p \in Nat /\ r + IOSIZE <= SPM_PAGESIZE
        /\ (c.addr + IOSIZE) % SPM_PAGESIZE = 0 <=> r + IOSIZE = SPM_PAGESIZE
        /\ (c.addr + IOSIZE) % SPM_PAGESIZE # 0 => PageOf(c.addr + IOSIZE) = p
    <3>1. Rest(c.addr + IOSIZE, SPM_PAGESIZE) = (c.addr + IOSIZE) % SPM_PAGESIZE
      BY DEF Rest
    <3> QED
      BY <1>2, <3>1, PageFacts, NextBlock
  <2>7. \A x \in 0 .. FLASHEND : x < PageOf(a) /\ x < fileSize /\ x < BLDADDR => flash'[x] = x
    <3>1. CASE (c.addr + IOSIZE) % SPM_PAGESIZE # 0
      <4>1. PageOf(a) = p /\ flash' = flash
        BY <2>1, <2>6, <3>1
      <4> QED
        BY <2>2, <4>1
    <3>2. CASE (c.addr + IOSIZE) % SPM_PAGESIZE = 0
      <4>1. flash' = Patch(flash, p, whole)
        BY <2>1, <3>2
      <4>2. r + IOSIZE = SPM_PAGESIZE
        BY <2>6, <3>2
      <4>3. PageOf(a) \in {p, p + SPM_PAGESIZE}
        <5>1. CASE a = c.addr
          BY <5>1
        <5>2. CASE a = c.addr + IOSIZE
          <6>1. Rest(a, SPM_PAGESIZE) = 0
            BY <3>2, <5>2 DEF Rest
          <6>2. PageOf(a) = a - Rest(a, SPM_PAGESIZE)
            BY <1>2, PageFacts
          <6> HIDE DEF r, p, c
          <6>3. c.addr \in Int /\ IOSIZE \in Int /\ r \in Int
            BY <1>2, <2>6, Sizes
          <6>4. PageOf(a) = a
            BY <6>1, <6>2, <1>2
          <6>5. a = p + SPM_PAGESIZE
            BY <2>6, <4>2, <5>2, <6>3
          <6> QED
            BY <6>4, <6>5
        <5> QED
          BY <5>1, <5>2
      <4>4. whole \in Seq(Int) /\ Len(whole) = SPM_PAGESIZE
        <5> HIDE DEF buf
        <5>1. 0 \in Int
          OBVIOUS
        <5> QED
          BY <2>4, <5>1, PageIsSeq
      <4>5. \A k \in 1 .. SPM_PAGESIZE : whole[k] = buf[k - 1]
        OBVIOUS
      <4> HIDE DEF whole, buf
      <4>6. p \in Int /\ flash \in [0 .. FLASHEND -> Int] /\ FLASHEND \in Nat
        BY <2>6, MemoryTypes
      <4> HIDE DEF p, r, c
      <4>7. \A x \in 0 .. FLASHEND : flash'[x] =
              IF p <= x /\ x < p + SPM_PAGESIZE THEN whole[x - p + 1] ELSE flash[x]
        <5>1. \A x \in 0 .. FLASHEND : Patch(flash, p, whole)[x] =
                IF p <= x /\ x < p + Len(whole) THEN whole[x - p + 1] ELSE flash[x]
          BY <4>4, <4>6, PatchIs
        <5> QED
          BY <4>1, <4>4, <5>1
      <4>8. ASSUME NEW x \in 0 .. FLASHEND, x < PageOf(a), x < fileSize, x < BLDADDR PROVE flash'[x] = x
        <5>1. CASE p <= x
          <6>1. x < p + SPM_PAGESIZE
            BY <4>3, <4>6, <4>8, <5>1, Sizes
          <6> DEFINE k == x - p + 1
                     o == x - p
          <6>2. k \in 1 .. SPM_PAGESIZE /\ k - 1 = o /\ o \in 0 .. r + IOSIZE - 1 /\ p + o = x
            <7>1. r \in Int /\ IOSIZE \in Int /\ SPM_PAGESIZE \in Int /\ x \in Int
              BY <2>6, <4>6, Sizes
            <7>2. o \in Int /\ 0 <= o /\ o < SPM_PAGESIZE /\ k = o + 1 /\ p + o = x
              BY <4>6, <5>1, <6>1, <7>1
            <7> HIDE DEF o, k
            <7>3. o \in 0 .. SPM_PAGESIZE - 1 /\ k \in 1 .. SPM_PAGESIZE /\ k - 1 = o
              BY <7>1, <7>2
            <7> QED
              BY <4>2, <7>1, <7>2, <7>3
          <6>3. flash'[x] = whole[k]
            BY <4>7, <5>1, <6>1
          <6> HIDE DEF k, o
          <6>4. whole[k] = buf[o]
            BY <4>5, <6>2
          <6>5. buf[o] = p + o
            BY <2>4, <4>8, <6>2
          <6> QED
            BY <6>2, <6>3, <6>4, <6>5
        <5>2. CASE ~(p <= x)
          <6>1. x < p
            BY <4>6, <5>2
          <6> QED
            BY <2>2, <4>7, <4>8, <5>2, <6>1
        <5> QED
          BY <5>1, <5>2
      <4> QED
        BY <4>8
    <3> QED
      BY <3>1, <3>2
  <2> HIDE DEF buf
  <2> QED
    BY <1>0, <1>4, <2>1, <2>5, <2>7 DEF Reached
<1> QED
  BY <1>0, <1>3, <1>4

-----------------------------------------------------------------------------
(***************************************************************************)
(* A session that writes.                                                  *)
(***************************************************************************)
After == {"restored", "verify", "verifyRead", "verifySome", "run", "ran", "done"}
Sent == pc \in Writing \cup After \/ Booting
Complete(s) == LastIn(s, Final) /\ (NoBlocks(s) => InPlace(Chosen))

\* The first block on its way continues the partition, the last one ends it.
WroteInv ==
  Undisturbed /\ session.write /\ Sent =>
    FirstIn(Path, Exact) /\ (pc \notin Writing => Complete(Path))

LEMMA CompleteSame ==
  ASSUME UNCHANGED <<flash, eeprom, pbuf, session, fileSize>>, NEW s, Complete(s), NEW t, LastIn(t, Final),
         NoBlocks(t) => NoBlocks(s)
  PROVE  LastIn(t, Final') /\ (NoBlocks(t) => InPlace(Chosen)')
BY SameMemory DEF Complete

LEMMA SameWrote ==
  ASSUME WroteInv, Path' = Path, UNCHANGED <<flash, eeprom, pbuf, session, fileSize, lastReset, sessions>>,
         Sent' => Sent, pc' \in Writing \/ pc \notin Writing
  PROVE  WroteInv'
<1>1. Undisturbed' = Undisturbed /\ session' = session
  BY DEF Undisturbed
<1>2. Exact' = Exact /\ Final' = Final /\ (InPlace(Chosen)' <=> InPlace(Chosen))
  BY SameMemory
<1> QED
  BY <1>1, <1>2 DEF WroteInv, Complete

\* The program talks with a target that listens.
LEMMA SentTalks ==
  ASSUME FlInv, ImageInv, BootInv, TalkInv, SyncInv, Undisturbed, Sent
  PROVE  mode \in {"READ", "BULK"} /\ got_hello /\ peer
<1>1. pc \in Writing \cup After => pc \in Working \cup {"done"}
  BY DEF Writing, After, Working
<1>2. pc \in Working \cup {"done"} => mode \in {"READ", "BULK"} /\ got_hello /\ peer
  BY DEF ImageInv, ModeInv, SyncInv, TalkInv
<1>3. Booting => mode \in {"READ", "BULK"} /\ got_hello /\ peer
  BY DEF BootInv, TalkInv
<1> QED
  BY <1>1, <1>2, <1>3 DEF Sent

LEMMA LinkWrote ==
  ASSUME FlInv, ImageInv, BootInv, TalkInv, SyncInv, WroteInv,
         HandOver \/ WriteReturns \/ Collect \/ ReadReturns
           \/ BulkArrives \/ StreamArrives \/ StreamFails \/ AnswerArrives
  PROVE  WroteInv'
<1>1. UNCHANGED <<pc, flash, eeprom, pbuf, session, fileSize, lastReset, sessions>>
  BY DEF HandOver, WriteReturns, Collect, ReadReturns, BulkArrives, StreamArrives, StreamFails, AnswerArrives,
         program, files, target, memory, others, loader
<1>2. Sent' => Sent
  BY <1>1, LinkBoot DEF Sent
<1>3. CASE StreamFails
  <2>1. ~(Undisturbed /\ Sent)
    BY <1>3, SentTalks DEF StreamFails
  <2> QED
    BY <1>1, <1>2, <2>1 DEF WroteInv, Undisturbed
<1>4. CASE ~StreamFails
  <2>1. Path' = Path
    BY <1>4, LinkPath
  <2> QED
    BY <1>1, <1>2, <2>1, SameWrote
<1> QED
  BY <1>3, <1>4

\* What the target does with what is on its way.
Takes == Path # <<>> /\ Path' = Tail(Path) /\ Head(Path) = Command

LEMMA TakesFirst ==
  ASSUME TypeInv, at = "loop", rxFifo # <<>>, at' = "loop" => rxFifo' = Tail(rxFifo),
         at' # "loop" => Tail(rxFifo) = <<>>,
         UNCHANGED <<loader, link, lastReset>>
  PROVE  Takes
<1>1. Heard = rxFifo /\ Heard' = Tail(rxFifo)
  BY DEF Heard
<1>2. Plan' = Plan /\ outgoing' = outgoing /\ sendQueue' = sendQueue
  BY DEF Plan, WriteCommand, currentPartId, loader, link, io, cursor, files
<1>3. Route(Items, Heard, outgoing, sendQueue, Plan)
  BY RouteNow
<1>4. /\ Path # <<>> /\ Head(Path) = Head(rxFifo)
      /\ Tail(Path) = Along(Tail(rxFifo), outgoing, sendQueue, Plan)
  BY <1>1, <1>3, RouteTail DEF Path
<1>5. Path' = Tail(Path)
  BY <1>1, <1>2, <1>4 DEF Path
<1> QED
  BY <1>4, <1>5 DEF Takes, Command

LEMMA TargetTakes ==
  ASSUME FlInv, BootInv, TargetActs, got_hello, peer
  PROVE  \/ Path' = Path /\ UNCHANGED memory
         \/ Takes /\ TakeWrite
         \/ Takes /\ ~IsBlock(Command) /\ UNCHANGED memory
<1>0. /\ TypeInv /\ ConvInv /\ rxFifo \in Seq(Commands(fileSize))
      /\ UNCHANGED <<loader, link, lastReset>>
  BY DEF FlInv, TypeInv, PacketTypes, TargetActs
<1>1. ASSUME at = "loop", rxFifo # <<>>, Command.op \in Open \cup {"BOOT"} PROVE Tail(rxFifo) = <<>>
  <2>1. LastOnly(rxFifo, Open) /\ LastOnly(rxFifo, {"BOOT"}) /\ Command = Head(rxFifo)
    BY <1>0, <1>1 DEF ConvInv, Lasts, BootInv, Command
  <2>2. CASE Command.op \in Open
    BY <1>0, <1>1, <2>1, <2>2, LastTail
  <2>3. CASE Command.op \in {"BOOT"}
    BY <1>0, <1>1, <2>1, <2>3, LastTail
  <2> QED
    BY <1>1, <2>2, <2>3
<1>2. CASE TakeHello \/ TakeRead \/ TakeBoot
  <2>1. /\ at = "loop" /\ rxFifo # <<>> /\ at' \in {"answer", "app"} /\ UNCHANGED memory
        /\ Command.op \in {"HELLO", "READ", "BOOT"}
    BY <1>2 DEF TakeHello, TakeRead, TakeBoot, HasCommand, Command
  <2>2. Tail(rxFifo) = <<>>
    BY <1>1, <2>1 DEF Open, Questions
  <2> QED
    BY <1>0, <2>1, <2>2, TakesFirst DEF IsBlock
<1>3. CASE TakeWrite
  <2>1. at = "loop" /\ rxFifo # <<>> /\ at' = at /\ rxFifo' = Tail(rxFifo)
    BY <1>3 DEF TakeWrite, HasCommand, Drop
  <2> QED
    BY <1>0, <1>3, <2>1, TakesFirst
<1>4. CASE TakeOther
  <2>1. /\ at = "loop" /\ rxFifo # <<>> /\ rxFifo' = Tail(rxFifo) /\ at' = at /\ UNCHANGED memory
        /\ Command.op # "NOP" => ~(Command.part \in 1 .. 2)
    BY <1>4, Partitions2 DEF TakeOther, Drop
  <2>2. ~IsBlock(Command)
    BY <1>0, <2>1, CommandIs, WriteIs DEF IsBlock
  <2> QED
    BY <1>0, <2>1, <2>2, TakesFirst
<1>5. CASE PushHello \/ PushBlock \/ ListenAgain \/ BootTimerTick
  <2>1. Heard' = Heard /\ UNCHANGED memory
    <3>1. CASE PushHello \/ PushBlock
      BY <3>1 DEF PushHello, PushBlock, MayPush, Heard
    <3>2. CASE ListenAgain
      <4>1. rxFifo = <<>>
        BY <1>0, <3>2 DEF ListenAgain, ConvInv, Links
      <4> QED
        BY <3>2, <4>1 DEF ListenAgain, Heard, fifos
    <3>3. ~BootTimerTick
      BY DEF BootTimerTick
    <3> QED
      BY <1>5, <3>1, <3>2, <3>3
  <2>2. Plan' = Plan /\ outgoing' = outgoing /\ sendQueue' = sendQueue
    BY <1>0 DEF Plan, WriteCommand, currentPartId, loader, link, io, cursor, files
  <2> QED
    BY <2>1, <2>2 DEF Path
<1> QED
  BY <1>2, <1>3, <1>4, <1>5 DEF TargetActs, TargetNext, TakeCommand

LEMMA ReachedEndNext ==
  (TypeInv => \A a \in Nat : Reached(a) /\ Ends(a) => InPlace(Chosen))'
<1>1. TypeInv => \A a \in Nat : Reached(a) /\ Ends(a) => InPlace(Chosen)
  BY ReachedEnd
<1> QED
  BY <1>1, PTL

\* A block that is taken.
LEMMA BlockWrote ==
  ASSUME FlInv, FlInv', ImageInv, TargetActs, TakeWrite, Takes, FirstIn(Path, Exact)
  PROVE  /\ FirstIn(Path', Exact')
         /\ Complete(Path) => Complete(Path)'
<1>0. /\ TypeInv /\ TypeInv' /\ Consecutive(Path) /\ Route(Items, Heard, outgoing, sendQueue, Plan)
      /\ UNCHANGED <<session, fileSize>>
  BY RouteNow DEF FlInv, ImageInv, PathInv, TargetActs, loader, files
<1>1. Path \in Seq(Items) /\ Path # <<>> /\ Path' = Tail(Path) /\ Head(Path) = Command
  BY <1>0, RouteIs DEF Path, Takes
<1>2. IsBlock(Command)
  BY DEF TakeWrite, HasCommand, Command, IsBlock
<1>3. Command \in Exact /\ Command \in Items /\ Command.part = Chosen
  BY <1>0, <1>1, <1>2, PathTail DEF Exact
<1>4. \A a \in {Command.addr, Command.addr + IOSIZE} : Reached(a)'
  BY <1>0, <1>3, BlockReaches
<1>5. Chosen' = Chosen /\ Items' = Items /\ (\A a : Ends(a)' <=> Ends(a))
  BY <1>0 DEF Chosen, Items, Ends
<1>6. Final' = Final
  BY <1>5 DEF Final
<1>7. \A c \in Items : IsBlock(c) /\ Follows(Command, c) => c \in Exact'
  BY <1>3, <1>4, <1>5 DEF Exact, Follows
<1>8. FirstIn(Tail(Path), Exact')
  BY <1>0, <1>1, <1>2, <1>7, PathTail
<1>9. ASSUME Complete(Path) PROVE Complete(Path)'
  <2>1. LastIn(Path, Final) => LastIn(Tail(Path), Final)
    BY <1>1, LastOfTail
  <2>2. ASSUME NoBlocks(Tail(Path)) PROVE InPlace(Chosen)'
    <3>1. Command \in Final
      BY <1>1, <1>2, <1>9, <2>2, LastOfTail DEF Complete
    <3>2. Command.addr + IOSIZE \in Nat
      <4>1. Command \in Writes(fileSize)
        BY <1>0, CommandIs DEF TakeWrite, HasCommand, Command
      <4> QED
        BY <4>1, WriteIs, Sizes
    <3>3. PICK a \in Nat : a = Command.addr + IOSIZE
      BY <3>2
    <3>4. Ends(a)' /\ Reached(a)'
      BY <1>4, <1>5, <3>1, <3>3 DEF Final
    <3> QED
      BY <1>0, <3>4, ReachedEndNext
  <2> QED
    BY <1>1, <1>6, <1>9, <2>1, <2>2 DEF Complete
<1> QED
  BY <1>1, <1>8, <1>9

LEMMA TargetWrote ==
  ASSUME FlInv, FlInv', ImageInv, BootInv, TalkInv, SyncInv, WroteInv, TargetActs
  PROVE  WroteInv'
<1>0. /\ TypeInv /\ Consecutive(Path) /\ Route(Items, Heard, outgoing, sendQueue, Plan)
      /\ UNCHANGED <<pc, session, fileSize, lastReset, sessions>>
  BY RouteNow DEF FlInv, ImageInv, PathInv, TargetActs, loader, files
<1>1. Sent' => Sent
  BY <1>0, TargetBoot DEF Sent
<1>2. CASE ~(Undisturbed /\ session.write /\ Sent)
  BY <1>0, <1>1, <1>2 DEF WroteInv, Undisturbed
<1>3. CASE Undisturbed /\ session.write /\ Sent
  <2>1. FirstIn(Path, Exact) /\ (pc \notin Writing => Complete(Path)) /\ got_hello /\ peer
    BY <1>3, SentTalks DEF WroteInv
  <2>2. CASE Path' = Path /\ UNCHANGED memory
    BY <1>0, <1>1, <2>2, SameWrote DEF memory
  <2>3. CASE Takes /\ TakeWrite
    BY <1>0, <2>1, <2>3, BlockWrote DEF WroteInv
  <2>4. CASE Takes /\ ~IsBlock(Command) /\ UNCHANGED memory
    <3>1. Path \in Seq(Items) /\ Path # <<>> /\ Path' = Tail(Path) /\ Head(Path) = Command
      BY <1>0, <2>4, RouteIs DEF Path, Takes
    <3>2. FirstIn(Tail(Path), Exact)
      BY <1>0, <2>1, <2>4, <3>1, PathTail
    <3>3. LastIn(Path, Final) => LastIn(Tail(Path), Final)
      BY <3>1, LastOfTail
    <3>4. NoBlocks(Tail(Path)) => NoBlocks(Path)
      BY <2>4, <3>1, LastOfTail
    <3>5. Exact' = Exact /\ Final' = Final /\ (InPlace(Chosen)' <=> InPlace(Chosen))
      BY <1>0, <2>4, SameMemory DEF memory
    <3>6. FirstIn(Path', Exact') /\ (pc \notin Writing => Complete(Path)')
      BY <2>1, <3>1, <3>2, <3>3, <3>4, <3>5 DEF Complete
    <3> QED
      BY <1>0, <3>6 DEF WroteInv
  <2> QED
    BY <2>1, <2>2, <2>3, <2>4, TargetTakes
<1> QED
  BY <1>2, <1>3

-----------------------------------------------------------------------------
(***************************************************************************)
(* Where the padding ends.                                                 *)
(***************************************************************************)
LEMMA PadAt ==
  ASSUME FlInv, pc = "pad"
  PROVE  /\ addr \in Nat /\ Rest(addr, IOSIZE) = 0 /\ fileSize \in Nat /\ parts[Chosen].size \in Nat
         /\ currentPartId = Chosen /\ currentPart = parts[Chosen] /\ Chosen \in {1, 2}
         /\ addr >= fileSize \/ addr >= parts[Chosen].size
<1>1. /\ pc \in Working /\ ptable = parts /\ session \in Command_line
      /\ addr \in Nat /\ Rest(addr, IOSIZE) = 0
      /\ addr >= currentPart.size \/ addr >= fileSize
  BY DEF FlInv, TypeInv, ProgramTypes, CursorTypes, Working, Writing
<1> QED
  BY <1>1, ChosenIs, SomeLess DEF FlInv

\* What remains of a page is a number of blocks.
LEMMA WholeBlocks ==
  ASSUME NEW n \in Nat, NEW m \in Nat \ {0}, Rest(n, m) = 0
  PROVE  n \div m \in Nat /\ (n \div m) * m = n
<1>1. n = m * (n \div m) + (n % m) /\ n \div m \in Int /\ n \div m >= 0
  BY DivMod
<1> DEFINE q == n \div m
<1>2. n = m * q /\ q \in Nat
  BY <1>1 DEF Rest
<1> HIDE DEF q
<1> QED
  BY <1>2 DEF q

LEMMA PadEnds ==
  ASSUME FlInv, pc = "pad", PadBlocks # <<>>
  PROVE  PadBlocks[Len(PadBlocks)] \in Final
<1>0. /\ addr \in Nat /\ Rest(addr, IOSIZE) = 0 /\ fileSize \in Nat /\ parts[Chosen].size \in Nat
      /\ currentPart = parts[Chosen] /\ Chosen \in {1, 2}
      /\ addr >= fileSize \/ addr >= parts[Chosen].size
  BY PadAt
<1> DEFINE r == Rest(addr, SPM_PAGESIZE)
           m == SPM_PAGESIZE - r
           n == m \div IOSIZE
<1>1. Chosen = 2 /\ ~(currentPart.pad <= 1) /\ currentPart.pad = SPM_PAGESIZE
  BY <1>0, Partitions2 DEF PadBlocks
<1>2. PadBlocks = [i \in 1 .. n |-> PadBlock(addr + (i - 1) * IOSIZE)]
  BY <1>1 DEF PadBlocks, Rest
<1>3. /\ r \in 0 .. SPM_PAGESIZE - 1 /\ PageOf(addr) = addr - r /\ PageOf(addr) \in Nat
      /\ Rest(PageOf(addr), SPM_PAGESIZE) = 0
  BY <1>0, PageFacts
<1>4. m \in Nat /\ m > 0 /\ Rest(m, IOSIZE) = 0 /\ Rest(addr + m, SPM_PAGESIZE) = 0
  <2> DEFINE p == PageOf(addr)
  <2>1. p \in Int /\ p = addr - r /\ Rest(p, SPM_PAGESIZE) = 0
    BY <1>3
  <2> HIDE DEF p, r
  <2>2. m \in Nat /\ m > 0 /\ r \in Int /\ addr + m = p + SPM_PAGESIZE /\ m = (p + SPM_PAGESIZE) - addr
    BY <1>0, <1>3, <2>1, Sizes
  <2>3. Rest(p + SPM_PAGESIZE, SPM_PAGESIZE) = 0
    BY <2>1, RestOfItself, SumOfMultiples, Sizes
  <2>4. Rest(p + SPM_PAGESIZE, IOSIZE) = 0
    BY <2>1, <2>3, DividesOn, Sizes
  <2>5. Rest((p + SPM_PAGESIZE) - addr, IOSIZE) = 0
    <3> DEFINE q == p + SPM_PAGESIZE
    <3>1. q \in Int /\ addr \in Int /\ Rest(q, IOSIZE) = 0
      BY <1>0, <2>1, <2>4, Sizes
    <3> HIDE DEF q
    <3>2. Rest(q - addr, IOSIZE) = 0
      BY <1>0, <3>1, SumOfMultiples, Sizes
    <3> QED
      BY <3>2 DEF q
  <2> QED
    BY <2>2, <2>3, <2>5
<1> HIDE DEF r, m
<1>5. n \in Nat /\ n * IOSIZE = m
  BY <1>4, WholeBlocks, Sizes
<1> HIDE DEF n
<1>6. n > 0
  BY <1>4, <1>5, Sizes
<1>7. PadBlocks \in Seq(Items) /\ \A i \in 1 .. Len(PadBlocks) : IsBlock(PadBlocks[i])
  BY PadsFollow
<1>8. Len(PadBlocks) = n
  <2>1. DOMAIN PadBlocks = 1 .. Len(PadBlocks) /\ Len(PadBlocks) \in Nat
    BY <1>7, LenProperties
  <2>2. DOMAIN PadBlocks = 1 .. n
    BY <1>2
  <2> QED
    BY <1>5, <2>1, <2>2, SameLength
<1>9. PadBlocks[n] = PadBlock(addr + (n - 1) * IOSIZE)
  BY <1>2, <1>5, <1>6
<1>10. PadBlocks[n].addr + IOSIZE = addr + m
  <2>1. PadBlocks[n].addr = addr + (n - 1) * IOSIZE
    BY <1>9 DEF PadBlock, WriteCommand
  <2>2. (n - 1) * IOSIZE = m - IOSIZE
    BY <1>5, Sizes
  <2> QED
    BY <1>0, <1>4, <2>1, <2>2, Sizes
<1>11. Ends(addr + m)
  BY <1>0, <1>4 DEF Ends
<1>12. PadBlocks[n] \in Items /\ IsBlock(PadBlocks[n])
  <2>1. n \in 1 .. Len(PadBlocks)
    BY <1>5, <1>6, <1>8
  <2> QED
    BY <1>7, <2>1, ElementOfSeq
<1> QED
  BY <1>8, <1>10, <1>11, <1>12 DEF Final

\* Without padding the file itself ends there.
LEMMA NoPadEnds ==
  ASSUME FlInv, pc = "pad", PadBlocks = <<>>
  PROVE  Ends(addr) /\ \A c \in Items : IsBlock(c) /\ Follows(c, WriteCommand(addr, buffer)) => c \in Final
<1>0. /\ addr \in Nat /\ Rest(addr, IOSIZE) = 0 /\ fileSize \in Nat /\ parts[Chosen].size \in Nat
      /\ currentPart = parts[Chosen] /\ Chosen \in {1, 2}
      /\ addr >= fileSize \/ addr >= parts[Chosen].size
  BY PadAt
<1>1. Chosen = 2 => SPM_PAGESIZE = 1
  <2> SUFFICES ASSUME Chosen = 2, SPM_PAGESIZE # 1 PROVE FALSE
    OBVIOUS
  <2> DEFINE r == Rest(addr, SPM_PAGESIZE)
             n == (SPM_PAGESIZE - r) \div IOSIZE
  <2>1. PadBlocks = [i \in 1 .. n |-> PadBlock(addr + (i - 1) * IOSIZE)]
    BY <1>0, Partitions2, Sizes DEF PadBlocks, Rest
  <2>2. r \in 0 .. SPM_PAGESIZE - 1 /\ r + IOSIZE <= SPM_PAGESIZE
    BY <1>0, PageFacts, NextBlock
  <2> HIDE DEF r
  <2>3. SPM_PAGESIZE - r \in Nat /\ SPM_PAGESIZE - r >= IOSIZE
    BY <2>2, Sizes
  <2>4. n \in Nat /\ n >= 1
    BY <2>3, AtLeastOne, Sizes
  <2> HIDE DEF n
  <2>5. 1 \in DOMAIN PadBlocks
    BY <2>1, <2>4
  <2> QED
    BY <2>5
<1>2. \A a \in Nat : a >= addr => Ends(a)
  <2>1. \A a \in Int : Rest(a, 1) = 0
    BY RestRange
  <2> QED
    BY <1>0, <1>1, <2>1 DEF Ends
<1>3. ASSUME NEW c \in Items, IsBlock(c), Follows(c, WriteCommand(addr, buffer)) PROVE c \in Final
  <2>1. c.addr \in Nat
    BY <1>3 DEF Items, Commands, Writes, AnyWrites, IsBlock
  <2>2. addr \in {c.addr, c.addr + IOSIZE}
    BY <1>3 DEF Follows, WriteCommand
  <2>3. c.addr + IOSIZE \in Nat /\ c.addr + IOSIZE >= addr
    BY <1>0, <2>1, <2>2, Sizes
  <2> QED
    BY <1>2, <1>3, <2>3 DEF Final
<1> QED
  BY <1>0, <1>2, <1>3

\* When the padding is sent, the last block that is on its way ends the image.
LEMMA PadWrote ==
  ASSUME FlInv, FlInv', ImageInv, LoaderActs, Pad, FirstIn(Path, Exact)
  PROVE  FirstIn(Path', Exact) /\ Complete(Path')
<1> DEFINE f == WriteCommand(addr, buffer)
           s == Along(Heard, outgoing, <<>>, <<>>)
<1>0. /\ TypeInv /\ PathInv /\ sendQueue = <<>> /\ Heard' = Heard /\ pc \in Later
      /\ pc = "pad" /\ pc' = "restored" /\ sendQueue' = PadBlocks /\ batch = <<>>
  BY LoaderLink DEF FlInv, ImageInv, ModeInv, Pad, At, Write, Later, Working, NotYet, Waiting, Greeting
<1>1. \A G : OfPlaces(G) /\ FirstIn(Path, G) => FirstIn(Path', G)
  BY <1>0, WritingLoader
<1>2. FirstIn(Path', Exact)
  BY <1>1, ExactOfPlaces
<1>3. /\ addr \in Nat /\ f \in Items /\ IsBlock(f) /\ f.part = Chosen /\ f.addr = addr
  <2>1. addr \in Nat /\ buffer \in Block /\ Rest(addr, IOSIZE) = 0 /\ currentPartId = Chosen
    BY <1>0, PadAt DEF FlInv, TypeInv, CursorTypes
  <2>2. pc \in Working
    BY <1>0 DEF Later
  <2> QED
    BY <1>0, <2>1, <2>2, WriteCommandIs DEF Items
<1>4. Plan = Append(<<>>, f) /\ Plan' = <<>>
  BY <1>0 DEF Plan, Writing
<1> HIDE DEF f
<1>5. outgoing' = outgoing
  <2>1. transfer'.kind \in {"none", "bulkSync"}
    BY DEF Pad, Write
  <2>2. /\ mode' = Mode(transfer'.kind) /\ outgoing' = IF mode' = mode THEN outgoing ELSE <<>>
        /\ mode = "READ" => outgoing = <<>>
        /\ mode \in {"READ", "BULK"}
    BY <1>0, LoaderLink DEF ImageInv, ModeInv, Later
  <2> QED
    BY <2>1, <2>2, ModeOf
<1>6. Route(Items, Heard, outgoing, <<>>, <<f>>) /\ Path = Along(Heard, outgoing, <<>>, <<f>>)
  <2>1. Append(<<>>, f) = <<f>>
    OBVIOUS
  <2> QED
    BY <1>0, <1>4, <2>1, RouteNow DEF Path
<1>7. s \in Seq(Items) /\ Path = Append(s, f) /\ Consecutive(Path)
  <2>1. s \in Seq(Items) /\ Path = s \o <<f>>
    <3> DEFINE p == <<f>>
    <3>1. Route(Items, Heard, outgoing, <<>>, p)
      BY <1>6
    <3> HIDE DEF p
    <3>2. s \in Seq(Items) /\ Along(Heard, outgoing, <<>>, p) = s \o p
      BY <3>1, RouteIs
    <3> QED
      BY <1>6, <3>2 DEF p
  <2>2. s \o <<f>> = Append(s, f)
    BY <1>3, <2>1, AppendIsConcat
  <2> QED
    BY <1>0, <2>1, <2>2 DEF PathInv
<1>8. Path' = Along(Heard, outgoing, PadBlocks, <<>>)
  BY <1>0, <1>4, <1>5 DEF Path
<1>9. CASE PadBlocks = <<>>
  <2>1. Path' = s
    BY <1>8, <1>9
  <2> HIDE DEF s
  <2>2. /\ \A G : (\A c \in Items : IsBlock(c) /\ Follows(c, f) => c \in G) => LastIn(s, G)
        /\ \A G : FirstIn(Append(s, f), G) /\ NoBlocks(s) => f \in G
    BY <1>3, <1>7, LastOfFewer
  <2>3. Ends(addr) /\ \A c \in Items : IsBlock(c) /\ Follows(c, f) => c \in Final
    BY <1>0, <1>9, NoPadEnds DEF f
  <2>4. NoBlocks(s) => InPlace(Chosen)
    <3>1. NoBlocks(s) => Reached(addr)
      BY <1>3, <1>7, <2>2 DEF Exact
    <3> QED
      BY <1>0, <1>3, <2>3, <3>1, ReachedEnd
  <2>5. LastIn(s, Final)
    BY <2>2, <2>3
  <2> QED
    BY <1>2, <2>1, <2>4, <2>5 DEF Complete
<1>10. CASE PadBlocks # <<>>
  <2> DEFINE b == PadBlocks
  <2>1. /\ b \in Seq(Items) /\ b # <<>> /\ (\A i \in 1 .. Len(b) : IsBlock(b[i])) /\ b[Len(b)] \in Final
    BY <1>0, <1>10, PadsFollow, PadEnds
  <2>2. Path' = Along(Heard, outgoing, b, <<>>)
    BY <1>8
  <2> HIDE DEF b
  <2>3. Route(Items, Heard, outgoing, <<>>, b)
    BY <1>6, <2>1 DEF Route
  <2>4. Path' = s \o b
    <3>1. Along(Heard, outgoing, b, <<>>) = Along(Heard, outgoing, <<>>, b)
      BY <2>3, RoutePlan
    <3>2. Along(Heard, outgoing, <<>>, b) = s \o b
      BY <2>3, RouteIs
    <3> QED
      BY <2>2, <3>1, <3>2
  <2>5. IsBlock(b[Len(b)])
    BY <2>1 DEF Final
  <2> HIDE DEF s
  <2>6. ~NoBlocks(s \o b) /\ \A G : b[Len(b)] \in G => LastIn(s \o b, G)
    BY <1>7, <2>1, <2>5, LastOfMore
  <2> QED
    BY <1>2, <2>1, <2>4, <2>6 DEF Complete
<1> QED
  BY <1>9, <1>10

\* How a session comes to the calls that write.
LEMMA SentStarts ==
  ASSUME FlInv, FlInv', ImageInv, BootInv, LoaderActs, session.write, Sent', ~Sent
  PROVE  Restore
<1>1. session' = session /\ transfer.kind = "none" /\ pc \notin Ended
  BY LoaderLink
<1>2. pc \notin Writing \cup After /\ ~Booting
  BY DEF Sent
<1>3. ~Booting'
  <2>1. Booting' => Run
    BY <1>2, LoaderBoot
  <2>2. ~Run
    BY <1>2 DEF Run, Executes, At, After
  <2> QED
    BY <2>1, <2>2
<1>4. pc' \in Writing \cup After
  BY <1>3 DEF Sent
<1>5. /\ Work(1, FALSE) \in {"save", "restore"} /\ Work(2, FALSE) \in {"save", "restore"}
  <2>1. 1 \in 1 .. 4 /\ 2 \in 1 .. 4 /\ 1 <= 2 /\ 2 <= 2
    OBVIOUS
  <2> QED
    BY <2>1, WorkWanted
<1> QED
  BY <1>2, <1>4, <1>5 DEF LoaderActs, LoaderCalls, Executes, At, Writing, After,
     Ping, Pinged, Hello, AwaitHello, HelloAnswered, Partitions, QueueBlock, QueueLastAgain, BatchFull,
     NothingQueued, WriteSome, Pad, Restored, Save, SaveRead, SaveSome, Verify, VerifyRead, VerifySome,
     Run, Ran

\* A session that starts to write.
LEMMA RestoreWrote ==
  ASSUME FlInv, FlInv', ImageInv, LoaderActs, Restore
  PROVE  FirstIn(Path', Exact')
<1>0. /\ TypeInv /\ TypeInv' /\ sendQueue = <<>> /\ Heard' = Heard /\ pc = "restore" /\ pc' = "readSome"
      /\ addr' = 0 /\ batch' = <<>> /\ UNCHANGED <<ptable, buffer, io, session, fileSize, pbuf, flash, eeprom>>
      /\ mode' = Mode(transfer'.kind) /\ outgoing' = IF mode' = mode THEN outgoing ELSE <<>>
  BY LoaderLink DEF FlInv, Restore, At
<1>1. NoneYet /\ outgoing' = outgoing /\ sendQueue' = <<>> /\ Items' = Items
  BY <1>0, LoaderLink, ModeOf DEF ImageInv, ModeInv, NotYet, io, Items
<1> DEFINE f == WriteCommand(0, buffer)
<1>2. Plan' = <<f>>
  BY <1>0 DEF Plan, Writing, WriteCommand, currentPartId
<1>3. pc \in Working /\ ptable = parts /\ buffer \in Block
  BY <1>0 DEF TypeInv, ProgramTypes, CursorTypes, Working
<1>4. f \in Items /\ IsBlock(f) /\ f.part = Chosen /\ f.addr = 0
  <2>1. currentPartId = Chosen
    BY <1>0, <1>3, ChosenIs, ChosenType
  <2> QED
    BY <1>0, <1>3, <2>1, WriteCommandIs DEF Items
<1>5. f \in Exact
  BY <1>0, <1>4, ReachedStart DEF Exact
<1> HIDE DEF f
<1>6. Route(Items, Heard, outgoing, <<>>, <<f>>)
  BY <1>0, <1>4, RouteNow DEF Route
<1> DEFINE s == Along(Heard, outgoing, <<>>, <<>>)
<1>7. Path' = Append(s, f) /\ s \in Seq(Items)
  <2>1. Path' = Along(Heard, outgoing, <<>>, <<f>>)
    BY <1>0, <1>1, <1>2 DEF Path
  <2>2. s \in Seq(Items) /\ Along(Heard, outgoing, <<>>, <<f>>) = s \o <<f>>
    <3> DEFINE p == <<f>>
    <3>1. Route(Items, Heard, outgoing, <<>>, p)
      BY <1>6
    <3> HIDE DEF p
    <3>2. s \in Seq(Items) /\ Along(Heard, outgoing, <<>>, p) = s \o p
      BY <3>1, RouteIs
    <3> QED
      BY <3>2 DEF p
  <2>3. s \o <<f>> = Append(s, f)
    BY <1>4, <2>2, AppendIsConcat
  <2> QED
    BY <2>1, <2>2, <2>3
<1>8. NoBlocks(s)
  BY <1>1, <1>6, OpsEmpty, RouteNone DEF NoneYet
<1> HIDE DEF s
<1>9. \A G : f \in G => FirstIn(Append(s, f), G)
  BY <1>4, <1>7, <1>8, PathWithout
<1>10. Exact' = Exact
  BY <1>0, SameMemory
<1> QED
  BY <1>5, <1>7, <1>9, <1>10

LEMMA LoaderWrote ==
  ASSUME FlInv, FlInv', ImageInv, BootInv, SyncInv, WroteInv, LoaderActs
  PROVE  WroteInv'
<1>0. /\ UNCHANGED <<flash, eeprom, pbuf, session, fileSize, lastReset, sessions>>
      /\ Undisturbed' = Undisturbed /\ pc \notin Ended
  BY LoaderLink DEF Undisturbed
<1>1. Exact' = Exact /\ Final' = Final /\ (InPlace(Chosen)' <=> InPlace(Chosen))
  BY <1>0, SameMemory
<1>2. CASE ~(Undisturbed /\ session.write /\ Sent')
  BY <1>0, <1>2 DEF WroteInv
<1>3. CASE session.write /\ Sent' /\ ~Sent
  <2>1. Restore /\ pc' \in Writing
    BY <1>3, SentStarts DEF Restore, Writing
  <2> QED
    BY <2>1, RestoreWrote DEF WroteInv
<1>4. CASE Undisturbed /\ session.write /\ Sent
  <2>1. FirstIn(Path, Exact) /\ (pc \notin Writing => Complete(Path))
    BY <1>4 DEF WroteInv
  <2>2. pc \in Later
    <3>1. Booting => pc = "ran"
      BY <1>0 DEF BootInv
    <3> QED
      BY <1>0, <1>4, <3>1 DEF Sent, Later, Writing, After, Working, NotYet, Waiting, Greeting, Ended
  <2>3. \/ QueueBlock \/ QueueLastAgain \/ WriteSome \/ Pad
        \/ BatchFull \/ NothingQueued \/ Restored \/ Ran \/ VerifyRead \/ VerifySome
        \/ Verify \/ Run
    BY <2>2 DEF LoaderActs, LoaderCalls, Later, Working, NotYet, Waiting, Greeting, Executes, At,
         Ping, Pinged, Hello, AwaitHello, HelloAnswered, Partitions, Restore, Save, SaveRead, SaveSome
  <2>4. CASE QueueBlock \/ QueueLastAgain \/ WriteSome
    <3>1. \A G : OfPlaces(G) /\ FirstIn(Path, G) => FirstIn(Path', G)
      BY <2>2, <2>4, WritingLoader
    <3>2. FirstIn(Path', Exact)
      BY <2>1, <3>1, ExactOfPlaces
    <3>3. pc' \in Writing
      BY <2>4 DEF QueueBlock, QueueLastAgain, WriteSome, Writing
    <3> QED
      BY <1>1, <3>2, <3>3 DEF WroteInv
  <2>5. CASE Pad
    <3>1. FirstIn(Path', Exact) /\ Complete(Path')
      BY <2>1, <2>5, PadWrote
    <3> QED
      BY <1>1, <3>1 DEF WroteInv, Complete
  <2>6. CASE BatchFull \/ NothingQueued \/ Restored \/ Ran \/ VerifyRead \/ VerifySome
    <3>1. /\ outgoing' \in {outgoing, <<>>} /\ (outgoing' = outgoing => Path' = Path)
          /\ BatchFull \/ NothingQueued \/ Restored \/ Ran => outgoing' = outgoing
      BY <2>2, <2>6, QuietLoader
    <3>2. VerifyRead \/ VerifySome => outgoing = <<>>
      BY DEF VerifyRead, VerifySome, Executes, At, SyncInv
    <3>3. Path' = Path
      BY <2>6, <3>1, <3>2
    <3>4. pc' \notin Writing => pc \notin Writing
      BY <2>6 DEF BatchFull, NothingQueued, Restored, Ran, VerifyRead, VerifySome, Executes, At, Writing
    <3> QED
      BY <1>1, <2>1, <3>3, <3>4 DEF WroteInv, Complete
  <2>7. CASE Verify \/ Run
    <3>1. PICK e \in Items : ~IsBlock(e) /\ Path' = Append(Path, e)
      BY <2>2, <2>7, CommandLoader
    <3>2. Path \in Seq(Items) /\ Consecutive(Path)
      BY RouteNow, RouteIs DEF Path, FlInv, ImageInv, PathInv
    <3>3. FirstIn(Append(Path, e), Exact)
      BY <2>1, <3>1, <3>2, PathEnd
    <3>4. /\ LastIn(Path, Final) => LastIn(Append(Path, e), Final)
          /\ NoBlocks(Append(Path, e)) <=> NoBlocks(Path)
      BY <3>1, <3>2, LastOfEnd
    <3>5. pc \notin Writing
      BY <2>7 DEF Verify, Run, Executes, At, Writing
    <3> QED
      BY <1>1, <2>1, <3>1, <3>3, <3>4, <3>5 DEF WroteInv, Complete
  <2> QED
    BY <2>3, <2>4, <2>5, <2>6, <2>7
<1> QED
  BY <1>0, <1>2, <1>3, <1>4

LEMMA UserWrote ==
  ASSUME FlInv, ImageInv, BootInv, WroteInv, UserStarts \/ UserKills
  PROVE  WroteInv'
<1>1. CASE UserStarts
  <2>1. pc' = "ping" /\ ~Booting'
    BY <1>1, UserBoot DEF UserStarts, Start
  <2> QED
    BY <2>1 DEF WroteInv, Sent, Writing, After
<1>2. CASE UserKills
  <2>1. /\ pc' = "killed" /\ sendQueue' = <<>> /\ pc \notin Ended
        /\ UNCHANGED <<at, rxFifo, outgoing, flash, eeprom, pbuf, session, fileSize, lastReset, sessions>>
    BY <1>2 DEF UserKills, Kill, target, fifos, memory, link, files
  <2>2. Sent' => Booting
    BY <1>2, <2>1, UserBoot DEF Sent, Writing, After
  <2>3. CASE Booting
    <3>1. pc = "ran"
      BY <2>1, <2>3 DEF BootInv
    <3>2. sendQueue = <<>> \/ Booting' = FALSE
      <4>1. Booting' => "BOOT" \in Ops(outgoing) \/ (at = "loop" /\ "BOOT" \in Ops(rxFifo))
        BY <2>1, BootingIsNext, OpsEmpty
      <4> QED
        BY <4>1 DEF BootInv, Booting
    <3>3. CASE sendQueue = <<>>
      <4>1. Plan = <<>> /\ Plan' = <<>> /\ Heard' = Heard
        BY <2>1, <3>1 DEF Plan, Writing, Heard
      <4>2. Path' = Path
        BY <2>1, <3>3, <4>1 DEF Path
      <4>3. Sent' => Sent
        BY <2>2 DEF Sent
      <4>4. pc' \notin Writing /\ pc \notin Writing
        BY <2>1, <3>1 DEF Writing
      <4>5. Exact' = Exact /\ Final' = Final /\ (InPlace(Chosen)' <=> InPlace(Chosen))
        BY <2>1, SameMemory
      <4> QED
        BY <2>1, <4>2, <4>3, <4>4, <4>5 DEF WroteInv, Complete, Undisturbed
    <3>4. CASE Booting' = FALSE
      BY <2>1, <3>4 DEF WroteInv, Sent, Writing, After
    <3> QED
      BY <3>2, <3>3, <3>4
  <2>4. CASE ~Booting
    BY <2>2, <2>4 DEF WroteInv
  <2> QED
    BY <2>3, <2>4
<1> QED
  BY <1>1, <1>2

LEMMA WroteNext ==
  ASSUME FlInv, FlInv', ImageInv, BootInv, TalkInv, SyncInv, WroteInv, Next
  PROVE  WroteInv'
<1>1. CASE LoaderActs
  BY <1>1, LoaderWrote
<1>2. CASE TargetActs
  BY <1>2, TargetWrote
<1>3. CASE TargetResets \/ PowerCut
  <2>1. lastReset' = sessions'
    BY <1>3 DEF TargetResets, PowerCut, loader
  <2> QED
    BY <2>1 DEF WroteInv, Undisturbed
<1>4. CASE UserStarts \/ UserKills
  BY <1>4, UserWrote
<1>5. CASE HandOver \/ WriteReturns \/ Collect \/ ReadReturns
           \/ BulkArrives \/ StreamArrives \/ StreamFails \/ AnswerArrives
  BY <1>5, LinkWrote
<1> QED
  BY <1>1, <1>2, <1>3, <1>4, <1>5 DEF Next

-----------------------------------------------------------------------------
(***************************************************************************)
(* What is started is the image.                                           *)
(***************************************************************************)
SessInv == BootInv /\ TalkInv /\ SyncInv /\ WroteInv

LEMMA SessInvInit == Init => SessInv
<1> SUFFICES ASSUME Init PROVE SessInv
  OBVIOUS
<1>1. /\ pc = "idle" /\ sendQueue = <<>> /\ outgoing = <<>> /\ rxFifo = <<>>
      /\ sessions = 0 /\ lastReset = 0
  BY DEF Init, TargetInit, LoaderInit, Boot0
<1>2. BootInv
  BY <1>1, OpsEmpty, NotBooting
<1>3. ~Undisturbed
  BY <1>1 DEF Undisturbed
<1> QED
  BY <1>1, <1>2, <1>3 DEF SessInv, TalkInv, SyncInv, WroteInv

LEMMA SessInvNext ==
  ASSUME BLDADDR > 0, FlInv, FlInv', ImageInv, SessInv, Next
  PROVE  SessInv'
BY BootNext, TalkNext, SyncNext, WroteNext DEF SessInv

LEMMA SessStutters ==
  ASSUME SessInv, UNCHANGED vars
  PROVE  SessInv'
<1>1. UNCHANGED <<at, got_hello, peer, rxFifo, txFifo, flash, eeprom, pbuf, pc, session, fileSize, ptable,
                  addr, buffer, batch, transfer, sendQueue, recvQueue, sessions, mode, outgoing, incoming,
                  lastReset>>
  BY DEF vars, target, memory, fifos, loader, cursor, io, files, link
<1>2. Undisturbed' = Undisturbed /\ Booting' = Booting /\ Path' = Path /\ Answered' = Answered
  BY <1>1 DEF Undisturbed, Booting, Heard, Path, Plan, WriteCommand, currentPartId, Answered
<1>3. Exact' = Exact /\ Final' = Final /\ (InPlace(Chosen)' <=> InPlace(Chosen))
  BY <1>1, SameMemory
<1>4. Sent' = Sent
  BY <1>1, <1>2 DEF Sent
<1>5. BootInv' /\ TalkInv' /\ SyncInv'
  BY <1>1, <1>2 DEF SessInv, BootInv, TalkInv, SyncInv
<1>6. WroteInv'
  BY <1>1, <1>2, <1>3, <1>4 DEF SessInv, WroteInv, Complete
<1> QED
  BY <1>5, <1>6 DEF SessInv

\* The command to start is behind everything that was written.
LEMMA BootIsLast ==
  ASSUME FlInv, SessInv, TakeBoot, Undisturbed, session.write
  PROVE  InPlace(Chosen)
<1>0. /\ TypeInv /\ BootInv /\ WroteInv /\ rxFifo \in Seq(Commands(fileSize))
      /\ at = "loop" /\ rxFifo # <<>> /\ Head(rxFifo).op = "BOOT"
  BY DEF FlInv, TypeInv, PacketTypes, SessInv, TakeBoot, HasCommand
<1>1. "BOOT" \in Ops(rxFifo)
  BY <1>0, OpsTail
<1>2. Booting /\ sendQueue = <<>> /\ outgoing = <<>> /\ Tail(rxFifo) = <<>> /\ pc \in {"ran"} \cup Ended
  BY <1>0, <1>1, BootingIs, LastTail DEF BootInv
<1>3. Plan = <<>> /\ pc \notin Writing /\ Heard = rxFifo
  BY <1>0, <1>2 DEF Plan, Writing, Ended, Heard
<1>4. Route(Items, Heard, outgoing, sendQueue, Plan)
  BY <1>0, RouteNow
<1>5. /\ Path \in Seq(Items) /\ Path # <<>> /\ Head(Path) = Head(rxFifo)
      /\ Tail(Path) = Along(<<>>, <<>>, <<>>, <<>>)
  <2>1. Heard # <<>>
    BY <1>0, <1>3
  <2>2. /\ Path # <<>> /\ Head(Path) = Head(Heard)
        /\ Tail(Path) = Along(Tail(Heard), outgoing, sendQueue, Plan)
    BY <1>4, <2>1, RouteTail DEF Path
  <2>3. Path \in Seq(Items)
    BY <1>4, RouteIs DEF Path
  <2>4. Tail(Heard) = <<>>
    BY <1>2, <1>3
  <2>5. Along(Tail(Heard), outgoing, sendQueue, Plan) = Along(<<>>, <<>>, <<>>, <<>>)
    BY <1>2, <1>3, <2>4
  <2> QED
    BY <1>3, <2>2, <2>3, <2>5
<1>6. NoBlocks(Path)
  <2>1. NoBlocks(Tail(Path)) /\ ~IsBlock(Head(Path))
    BY <1>0, <1>5, RouteEmpty DEF NoBlocks, IsBlock
  <2> QED
    BY <1>5, <2>1, LastOfTail
<1> QED
  BY <1>0, <1>2, <1>3, <1>6 DEF WroteInv, Sent, Complete

LEMMA BootedStep ==
  ASSUME FlInv, SessInv, Next
  PROVE  Booted /\ Undisturbed => InPlace(Chosen)
<1> SUFFICES ASSUME Booted, Undisturbed PROVE InPlace(Chosen)
  OBVIOUS
<1>1. at = "loop" /\ at' = "app" /\ rxFifo' # rxFifo /\ session.write
  BY DEF Booted
<1>2. TargetActs
  BY <1>1 DEF Next, UserStarts, UserKills, LoaderActs, HandOver, WriteReturns, Collect, ReadReturns,
              BulkArrives, StreamArrives, StreamFails, AnswerArrives, others, TargetResets,
              GiveUpAnswering, Reset, PowerCut, target
<1>3. TakeBoot
  BY <1>1, <1>2 DEF TargetActs, TargetNext, TakeCommand, TakeHello, TakeRead, TakeWrite, TakeOther,
                    PushHello, PushBlock, ListenAgain, BootTimerTick, fifos
<1> QED
  BY <1>1, <1>3, BootIsLast

\* A program that wrote an image and then starts it, starts all of it: the command
\* that starts the application is the last of its packets, and each block that
\* was before it found its predecessors programmed (rf24-load.cpp:restore and
\* run, slave.c:do_flash_write).  It holds for every image, number of sessions
\* and packets per run, whatever was interrupted before; a target that was reset
\* during the session is excepted.  A bootloader section at address 0 leaves no
\* room for a partition.
THEOREM OnlyImagesAreStarted == ASSUME BLDADDR > 0 PROVE Spec => BootedIsImage
<1> DEFINE I == FlInv /\ ImageInv /\ SessInv
<1>1. Init => I
  BY FlInvInit, ImageInvInit, SessInvInit
<1>2. I /\ [Next]_vars => I'
  <2>1. ASSUME I, Next PROVE I'
    BY <2>1, FlInvNext, ImageInvNext, SessInvNext
  <2>2. ASSUME I, UNCHANGED vars PROVE I'
    BY <2>2, Stutters, ImageStutters, SessStutters
  <2> QED
    BY <2>1, <2>2
<1>3. I /\ [Next]_vars => [Booted /\ Undisturbed => InPlace(Chosen)]_vars
  BY BootedStep
<1> QED
  BY <1>1, <1>2, <1>3, PTL DEF Spec, BootedIsImage

-----------------------------------------------------------------------------
(***************************************************************************)
(* A session that verifies.                                                *)
(***************************************************************************)
\* The question for the partition's bytes is on its way.
Asking == "READ" \in Ops(Heard) \cup Ops(outgoing) \cup Ops(sendQueue)

\* It is behind all blocks, and before its answers there is no verdict.
VerifyInv == Undisturbed =>
  /\ pc \in {"verifyRead", "verifySome"} => NoBlocks(Path) \/ Asking
  /\ pc \in {"run", "ran", "done"} /\ session.verify => NoBlocks(Path)

LEMMA SameVerify ==
  ASSUME VerifyInv, Path' = Path, Asking => Asking', UNCHANGED <<pc, session, lastReset, sessions>>
  PROVE  VerifyInv'
BY DEF VerifyInv, Undisturbed

\* The calls that verify and start.
LEMMA LateMode ==
  ASSUME FlInv, ImageInv, BootInv, TalkInv, SyncInv, Undisturbed,
         pc \in {"verifyRead", "verifySome", "run", "ran", "done"}
  PROVE  mode \in {"READ", "BULK"} /\ got_hello /\ peer
<1>1. Sent
  BY DEF Sent, After
<1> QED
  BY <1>1, SentTalks

LEMMA LinkVerify ==
  ASSUME FlInv, ImageInv, BootInv, TalkInv, SyncInv, VerifyInv,
         HandOver \/ WriteReturns \/ Collect \/ ReadReturns
           \/ BulkArrives \/ StreamArrives \/ StreamFails \/ AnswerArrives
  PROVE  VerifyInv'
<1>0. /\ UNCHANGED <<pc, session, lastReset, sessions, at>>
      /\ sendQueue \in Seq(Commands(fileSize)) /\ outgoing \in Seq(Commands(fileSize))
      /\ rxFifo \in Seq(Commands(fileSize))
  BY DEF HandOver, WriteReturns, Collect, ReadReturns, BulkArrives, StreamArrives, StreamFails, AnswerArrives,
         program, target, others, loader, FlInv, TypeInv, PacketTypes
<1>1. CASE StreamFails
  <2>1. ~(Undisturbed /\ pc \in {"verifyRead", "verifySome", "run", "ran", "done"})
    BY <1>1, LateMode DEF StreamFails
  <2> QED
    BY <1>0, <2>1 DEF VerifyInv, Undisturbed
<1>2. CASE ~StreamFails
  <2>1. Path' = Path
    BY <1>2, LinkPath
  <2>2. Asking' = Asking
    <3>1. CASE HandOver
      <4>1. sendQueue # <<>> /\ sendQueue' = Tail(sendQueue) /\ outgoing' = Append(outgoing, Head(sendQueue))
            /\ Heard' = Heard
        BY <3>1 DEF HandOver, Heard, target, fifos
      <4>2. Ops(sendQueue') \cup Ops(outgoing') = Ops(sendQueue) \cup Ops(outgoing)
        BY <1>0, <4>1, FewerOps
      <4> QED
        BY <4>1, <4>2 DEF Asking
    <3>2. CASE BulkArrives \/ StreamArrives
      <4>1. /\ outgoing # <<>> /\ outgoing' = Tail(outgoing) /\ rxFifo' = Append(rxFifo, Head(outgoing))
            /\ sendQueue' = sendQueue /\ Heard = rxFifo /\ Heard' = rxFifo'
        BY <1>0, <3>2 DEF BulkArrives, StreamArrives, Hears, Heard, others, io
      <4>2. Ops(outgoing') \cup Ops(rxFifo') = Ops(outgoing) \cup Ops(rxFifo)
        BY <1>0, <4>1, FewerOps
      <4> QED
        BY <4>1, <4>2 DEF Asking
    <3>3. CASE WriteReturns \/ Collect \/ ReadReturns \/ AnswerArrives
      BY <1>0, <3>3 DEF WriteReturns, Collect, ReadReturns, AnswerArrives, target, fifos, loader, io, link,
                        Asking, Heard
    <3> QED
      BY <1>2, <3>1, <3>2, <3>3
  <2> QED
    BY <1>0, <2>1, <2>2, SameVerify
<1> QED
  BY <1>1, <1>2

LEMMA TargetVerify ==
  ASSUME FlInv, ImageInv, BootInv, TalkInv, SyncInv, VerifyInv, TargetActs
  PROVE  VerifyInv'
<1>0. /\ TypeInv /\ ConvInv /\ rxFifo \in Seq(Commands(fileSize))
      /\ Route(Items, Heard, outgoing, sendQueue, Plan)
      /\ UNCHANGED <<pc, session, lastReset, sessions, outgoing, sendQueue>>
  BY RouteNow DEF FlInv, TypeInv, PacketTypes, TargetActs, loader, link, io
<1>1. CASE ~(Undisturbed /\ pc \in {"verifyRead", "verifySome", "run", "ran", "done"})
  BY <1>0, <1>1 DEF VerifyInv, Undisturbed
<1>2. CASE Undisturbed /\ pc \in {"verifyRead", "verifySome", "run", "ran", "done"}
  <2>1. got_hello /\ peer
    BY <1>2, LateMode
  <2>2. Path \in Seq(Items)
    BY <1>0, RouteIs DEF Path
  <2>3. (Path' = Path /\ UNCHANGED memory) \/ Takes
    BY <2>1, TargetTakes
  <2>4. NoBlocks(Path) => NoBlocks(Path')
    BY <2>2, <2>3, LastOfTail DEF Takes
  <2>5. Asking => Asking' \/ NoBlocks(Path')
    <3> SUFFICES ASSUME "READ" \in Ops(Heard), ~Asking' PROVE NoBlocks(Path')
      BY <1>0 DEF Asking
    <3>1. at = "loop" /\ "READ" \in Ops(rxFifo) /\ rxFifo # <<>>
      BY OpsEmpty DEF Heard
    <3>2. LastOnly(rxFifo, Open) /\ sendQueue = <<>> /\ outgoing = <<>> /\ "READ" \in Open
      BY <1>0, <2>1, <3>1 DEF ConvInv, Lasts, Open, Questions
    <3>3. Heard' = <<>>
      <4>1. CASE at' # "loop"
        BY <4>1 DEF Heard
      <4>2. CASE at' = "loop"
        <5>1. Heard' = rxFifo' /\ rxFifo' \in {rxFifo, Tail(rxFifo)}
          BY <3>1, <4>2 DEF Heard, TargetActs, TargetNext, TakeCommand, TakeHello, TakeRead, TakeWrite,
             TakeBoot, TakeOther, PushHello, PushBlock, MayPush, ListenAgain, BootTimerTick, Drop, fifos
        <5>2. "READ" \notin Ops(rxFifo')
          BY <5>1 DEF Asking
        <5>3. Head(rxFifo).op = "READ" /\ rxFifo' = Tail(rxFifo)
          BY <1>0, <3>1, <5>1, <5>2, OpsHead
        <5> QED
          BY <1>0, <3>1, <3>2, <5>1, <5>3, LastTail
      <4> QED
        BY <4>1, <4>2
    <3>4. Plan' = <<>>
      BY <1>0, <1>2 DEF Plan, Writing
    <3>5. Path' = <<>>
      BY <1>0, <3>2, <3>3, <3>4, RouteEmpty DEF Path
    <3> QED
      BY <3>5 DEF NoBlocks
  <2> QED
    BY <1>0, <2>4, <2>5 DEF VerifyInv, Undisturbed
<1> QED
  BY <1>1, <1>2

LEMMA LoaderVerify ==
  ASSUME FlInv, FlInv', ImageInv, BootInv, TalkInv, SyncInv, VerifyInv, LoaderActs
  PROVE  VerifyInv'
<1>0. /\ transfer.kind = "none" /\ sendQueue = <<>> /\ pc \notin Ended /\ Heard' = Heard
      /\ session' = session /\ Undisturbed' = Undisturbed /\ TypeInv
      /\ outgoing' = IF mode' = mode THEN outgoing ELSE <<>>
  BY LoaderLink DEF FlInv, Undisturbed
<1>1. LET after == {"save", "restore", "verify", "run", "done"}
      IN  /\ Work(1, FALSE) \in after /\ Work(2, FALSE) \in after /\ Work(3, FALSE) \in after
          /\ Work(4, verifyFailed) \in after /\ Work(4, verifyFailed') \in after
          /\ session.verify => /\ Work(1, FALSE) \notin {"run", "done"}
                               /\ Work(2, FALSE) \notin {"run", "done"}
                               /\ Work(3, FALSE) \notin {"run", "done"}
  <2>1. /\ 1 \in 1 .. 4 /\ 2 \in 1 .. 4 /\ 3 \in 1 .. 4 /\ 4 \in 1 .. 4
        /\ 1 <= 3 /\ 2 <= 3 /\ 3 <= 3
    OBVIOUS
  <2> QED
    BY <2>1, WorkIs, WorkWanted
<1>2. pc' = "verifyRead" => Verify
  BY <1>1 DEF LoaderActs, LoaderCalls, Executes, Ping, Pinged, Hello, AwaitHello, HelloAnswered,
     Partitions, Restore, QueueBlock, QueueLastAgain, BatchFull, NothingQueued, WriteSome, Pad,
     Restored, Save, SaveRead, SaveSome, VerifyRead, VerifySome, Run, Ran
<1>3. pc' = "verifySome" => VerifyRead \/ VerifySome
  BY <1>1 DEF LoaderActs, LoaderCalls, Executes, Ping, Pinged, Hello, AwaitHello, HelloAnswered,
     Partitions, Restore, QueueBlock, QueueLastAgain, BatchFull, NothingQueued, WriteSome, Pad,
     Restored, Save, SaveRead, SaveSome, Verify, Run, Ran
<1>4. pc' \in {"run", "ran", "done"} /\ session.verify => VerifySome \/ Run \/ Ran
  BY <1>1 DEF LoaderActs, LoaderCalls, Executes, Ping, Pinged, Hello, AwaitHello, HelloAnswered,
     Partitions, Restore, QueueBlock, QueueLastAgain, BatchFull, NothingQueued, WriteSome, Pad,
     Restored, Save, SaveRead, SaveSome, Verify, VerifyRead
<1>5. VerifyRead \/ VerifySome \/ Verify \/ Run \/ Ran => pc \in Later
  BY DEF VerifyRead, VerifySome, Verify, Run, Ran, Executes, At, Later, Working, NotYet, Waiting, Greeting
<1>6. Path \in Seq(Items)
  BY <1>0, RouteNow, RouteIs DEF Path
<1>7. ASSUME VerifyRead \/ VerifySome \/ Ran PROVE Path' = Path /\ (VerifyRead \/ VerifySome => Asking' = Asking)
  <2>1. outgoing' = outgoing
    <3>1. /\ outgoing' \in {outgoing, <<>>}
          /\ Ran => outgoing' = outgoing
      BY <1>5, <1>7, QuietLoader
    <3>2. VerifyRead \/ VerifySome => outgoing = <<>>
      BY <1>0 DEF VerifyRead, VerifySome, Executes, At, SyncInv
    <3> QED
      BY <1>7, <3>1, <3>2
  <2>2. VerifyRead \/ VerifySome => sendQueue' = <<>>
    BY <1>0 DEF VerifyRead, VerifySome, Read, io
  <2> QED
    BY <1>0, <1>5, <1>7, <2>1, <2>2, QuietLoader DEF Asking
<1>8. ASSUME Verify PROVE Asking'
  <2>1. sendQueue' = <<Head(sendQueue')>> /\ Head(sendQueue').op = "READ"
    BY <1>8 DEF Verify, Write, ReadCommand
  <2>2. Ops(sendQueue') = {"READ"}
    <3> DEFINE e == Head(sendQueue')
    <3> HIDE DEF e
    <3>1. Ops(<<e>>) = {e.op}
      BY OpsOne
    <3> QED
      BY <2>1, <3>1 DEF e
  <2> QED
    BY <2>2 DEF Asking
<1>9. ASSUME VerifySome, Undisturbed PROVE ~Asking
  <2>1. pc = "verifySome"
    BY <1>9 DEF VerifySome, At
  <2>2. pc \in Working
    BY <2>1 DEF Working
  <2>3. "READ" \notin Ops(sendQueue) \cup Ops(outgoing)
    BY <2>1 DEF FlInv, ConvInv, Asked, Ended
  <2>4. "READ" \notin Ops(Heard)
    <3>1. peer
      BY <1>9, <2>2 DEF TalkInv
    <3> QED
      BY <1>0, <2>1, <3>1, OpsEmpty DEF FlInv, ConvInv, Asked, Ended, Heard
  <2> QED
    BY <2>3, <2>4 DEF Asking
<1>10. Undisturbed /\ pc' \in {"verifyRead", "verifySome"} => NoBlocks(Path') \/ Asking'
  BY <1>2, <1>3, <1>7, <1>8 DEF VerifyInv, VerifyRead, VerifySome, Executes, At
<1>11. Undisturbed /\ pc' \in {"run", "ran", "done"} /\ session.verify => NoBlocks(Path')
  <2> SUFFICES ASSUME Undisturbed, pc' \in {"run", "ran", "done"}, session.verify PROVE NoBlocks(Path')
    OBVIOUS
  <2>1. CASE VerifySome
    <3>1. NoBlocks(Path)
      BY <1>9, <2>1 DEF VerifyInv, VerifySome, At
    <3> QED
      BY <1>7, <2>1, <3>1
  <2>2. CASE Ran
    BY <1>7, <2>2 DEF VerifyInv, Ran, At
  <2>3. CASE Run
    <3>1. NoBlocks(Path)
      BY <2>3 DEF VerifyInv, Run, Executes, At
    <3>2. PICK e \in Items : ~IsBlock(e) /\ Path' = Append(Path, e)
      BY <1>5, <2>3, CommandLoader
    <3> QED
      BY <1>6, <3>1, <3>2, LastOfEnd
  <2> QED
    BY <1>4, <2>1, <2>2, <2>3
<1> QED
  BY <1>0, <1>10, <1>11 DEF VerifyInv

LEMMA VerifyNext ==
  ASSUME FlInv, FlInv', ImageInv, SessInv, VerifyInv, Next
  PROVE  VerifyInv'
<1>1. CASE LoaderActs
  BY <1>1, LoaderVerify DEF SessInv
<1>2. CASE TargetActs
  BY <1>2, TargetVerify DEF SessInv
<1>3. CASE TargetResets \/ PowerCut
  <2>1. lastReset' = sessions'
    BY <1>3 DEF TargetResets, PowerCut, loader
  <2> QED
    BY <2>1 DEF VerifyInv, Undisturbed
<1>4. CASE UserStarts \/ UserKills
  BY <1>4 DEF UserStarts, Start, UserKills, Kill, VerifyInv
<1>5. CASE HandOver \/ WriteReturns \/ Collect \/ ReadReturns
           \/ BulkArrives \/ StreamArrives \/ StreamFails \/ AnswerArrives
  BY <1>5, LinkVerify DEF SessInv
<1> QED
  BY <1>1, <1>2, <1>3, <1>4, <1>5 DEF Next

-----------------------------------------------------------------------------
(***************************************************************************)
(* The command lines of the sessions.                                      *)
(***************************************************************************)
SessionGiven == \E i \in DOMAIN Sessions : session \in Sessions[i]

LEMMA GivenInit == Init => SessionGiven
<1> SUFFICES ASSUME Init PROVE SessionGiven
  OBVIOUS
<1>1. session \in Sessions[1]
  BY DEF Init, LoaderInit
<1>2. 1 \in DOMAIN Sessions
  BY LoaderAssumption
<1> QED
  BY <1>1, <1>2 DEF SessionGiven

LEMMA GivenNext ==
  ASSUME TypeInv, ImageInv, FlInv, SessionGiven, Next
  PROVE  SessionGiven'
<1>1. CASE UserStarts
  <2>1. sessions \in Nat /\ sessions < Len(Sessions) /\ session' \in Sessions[sessions + 1]
    BY <1>1 DEF UserStarts, Start, TypeInv, ProgramTypes
  <2>2. sessions + 1 \in DOMAIN Sessions
    BY <2>1, LoaderAssumption
  <2> QED
    BY <2>1, <2>2 DEF SessionGiven
<1>2. CASE ~UserStarts
  <2>1. session' = session
    <3>1. CASE LoaderActs
      BY <3>1, LoaderLink
    <3>2. CASE ~LoaderActs
      BY <1>2, <3>2 DEF Next, UserKills, Kill, HandOver, WriteReturns, Collect, ReadReturns, BulkArrives,
           StreamArrives, StreamFails, AnswerArrives, others, program, loader, TargetActs, TargetResets, PowerCut
    <3> QED
      BY <3>1, <3>2
  <2> QED
    BY <2>1 DEF SessionGiven
<1> QED
  BY <1>1, <1>2

\* verifySome() looks for the end of the image one block too early: alone it can not
\* tell that the last block is there.
VerifyWhatIsWritten == \A i \in DOMAIN Sessions : \A s \in Sessions[i] : s.verify => s.write

\* A session that wrote an image and verified it leaves the image behind, whatever
\* earlier sessions left in the partition and in the page buffer: the verdict comes
\* after the target took the last block.  For every image, memory, number of packets
\* per run, and sequence of command lines that write what they verify.
THEOREM VerifiedAfterWrite ==
  ASSUME BLDADDR > 0, VerifyWhatIsWritten
  PROVE  Spec => []VerifiedMeansEqual
<1> DEFINE I == FlInv /\ ImageInv /\ SessInv /\ VerifyInv /\ SessionGiven
<1>1. Init => I
  <2>1. Init => ~Undisturbed
    BY DEF Init, LoaderInit, Undisturbed
  <2> QED
    BY <2>1, FlInvInit, ImageInvInit, SessInvInit, GivenInit DEF VerifyInv
<1>2. I /\ [Next]_vars => I'
  <2>1. ASSUME I, Next PROVE I'
    BY <2>1, FlInvNext, ImageInvNext, SessInvNext, VerifyNext, GivenNext DEF FlInv
  <2>2. ASSUME I, UNCHANGED vars PROVE I'
    <3>1. UNCHANGED <<at, rxFifo, pc, session, ptable, addr, buffer, batch, sendQueue, outgoing, sessions,
                      lastReset>>
      BY <2>2 DEF vars, target, fifos, loader, cursor, io, link
    <3>2. Path' = Path /\ Asking' = Asking
      BY <3>1 DEF Path, Heard, Plan, WriteCommand, currentPartId, Asking
    <3>3. VerifyInv' /\ SessionGiven'
      BY <2>2, <3>1, <3>2, SameVerify DEF SessionGiven
    <3> QED
      BY <2>2, <3>3, Stutters, ImageStutters, SessStutters
  <2> QED
    BY <2>1, <2>2
<1>3. I => VerifiedMeansEqual
  <2> SUFFICES ASSUME I, pc \in {"run", "ran", "done"}, session.verify, Undisturbed PROVE InPlace(Chosen)
    BY DEF VerifiedMeansEqual
  <2>1. session.write
    BY DEF SessionGiven, VerifyWhatIsWritten
  <2>2. NoBlocks(Path)
    BY DEF VerifyInv
  <2>3. Sent /\ pc \notin Writing
    BY DEF Sent, After, Writing
  <2> QED
    BY <2>1, <2>2, <2>3 DEF SessInv, WroteInv, Complete
<1> QED
  BY <1>1, <1>2, <1>3, PTL DEF Spec

-----------------------------------------------------------------------------
(***************************************************************************)
(* What the boot timer starts.                                             *)
(***************************************************************************)
\* Until the target has been greeted nothing is written; from then on the timer stands.
Untouched == (\A x \in 0 .. FLASHEND : flash[x] = Old) /\ NoneYet
WholeOrNone == (\A x \in Image(2) : flash[x] # x) \/ InPlace(2)

TimerInv == lastReset = 0 =>
  /\ ~got_hello => Untouched
  /\ at = "app" => WholeOrNone

LEMMA NothingWanted ==
  ASSUME FlInv, SessInv, ImageInv, lastReset = 0, ~got_hello, sessions # 0
  PROVE  pc \notin Working /\ pc # "partitions"
<1>1. Undisturbed
  BY DEF Undisturbed
<1> QED
  BY <1>1 DEF SessInv, TalkInv, Greeting

\* What is on its way stays on its way.
LEMMA LinkNone ==
  ASSUME FlInv, NoneYet,
         HandOver \/ WriteReturns \/ Collect \/ ReadReturns
           \/ BulkArrives \/ StreamArrives \/ StreamFails \/ AnswerArrives
  PROVE  NoneYet'
<1>0. /\ at' = at
      /\ sendQueue \in Seq(Commands(fileSize)) /\ outgoing \in Seq(Commands(fileSize))
      /\ rxFifo \in Seq(Commands(fileSize))
  BY DEF HandOver, WriteReturns, Collect, ReadReturns, BulkArrives, StreamArrives, StreamFails, AnswerArrives,
         target, others, FlInv, TypeInv, PacketTypes
<1>1. CASE HandOver
  <2>1. sendQueue # <<>> /\ sendQueue' = Tail(sendQueue) /\ outgoing' = Append(outgoing, Head(sendQueue))
        /\ Heard' = Heard
    BY <1>1 DEF HandOver, Heard, target, fifos
  <2>2. Ops(sendQueue') \cup Ops(outgoing') = Ops(sendQueue) \cup Ops(outgoing)
    BY <1>0, <2>1, FewerOps
  <2> QED
    BY <2>1, <2>2 DEF NoneYet
<1>2. CASE BulkArrives \/ StreamArrives \/ StreamFails
  <2>1. /\ outgoing # <<>> /\ outgoing' = Tail(outgoing) /\ sendQueue' = sendQueue
        /\ \/ rxFifo' = rxFifo
           \/ rxFifo' = Append(rxFifo, Head(outgoing)) /\ at = "loop"
    BY <1>2 DEF BulkArrives, StreamArrives, StreamFails, Hears, others, io
  <2>2. /\ Ops(Tail(outgoing)) \subseteq Ops(outgoing)
        /\ Ops(Append(rxFifo, Head(outgoing))) \subseteq Ops(outgoing) \cup Ops(rxFifo)
    BY <1>0, <2>1, Move
  <2>3. Ops(Heard') \subseteq Ops(outgoing) \cup Ops(Heard)
    BY <1>0, <2>1, <2>2 DEF Heard
  <2> QED
    BY <2>1, <2>2, <2>3 DEF NoneYet
<1>3. CASE WriteReturns \/ Collect \/ ReadReturns \/ AnswerArrives
  BY <1>3 DEF WriteReturns, Collect, ReadReturns, AnswerArrives, target, fifos, loader, io, link,
              NoneYet, Heard
<1> QED
  BY <1>1, <1>2, <1>3

LEMMA LoaderNone ==
  ASSUME FlInv, ImageInv, NoneYet, LoaderActs, pc \notin Working
  PROVE  NoneYet'
<1>0. sendQueue = <<>> /\ Heard' = Heard /\ outgoing' \in {outgoing, <<>>}
  BY LoaderLink
<1>1. sendQueue' \in {<<>>, <<[op |-> "NOP"]>>, <<[op |-> "HELLO"]>>}
  BY <1>0 DEF LoaderActs, LoaderCalls, Executes, At, Working, Write, Read, io, Ping, Pinged, Hello, AwaitHello,
     HelloAnswered, Partitions, Restore, QueueBlock, QueueLastAgain, BatchFull, NothingQueued,
     WriteSome, Pad, Restored, Save, SaveRead, SaveSome, Verify, VerifyRead, VerifySome, Run, Ran
<1>2. "WRITE" \notin Ops(sendQueue')
  <2>1. Ops(<<[op |-> "NOP"]>>) = {"NOP"} /\ Ops(<<[op |-> "HELLO"]>>) = {"HELLO"}
    BY OpsOne
  <2> QED
    BY <1>1, <2>1, OpsEmpty
<1> QED
  BY <1>0, <1>2, OpsEmpty DEF NoneYet

LEMMA TargetNone ==
  ASSUME FlInv, Untouched, TargetActs
  PROVE  Untouched'
<1>0. rxFifo \in Seq(Commands(fileSize)) /\ UNCHANGED <<outgoing, sendQueue>>
  BY DEF FlInv, TypeInv, PacketTypes, TargetActs, loader, link, io
<1>1. ~TakeWrite
  <2>1. TakeWrite => at = "loop" /\ "WRITE" \in Ops(rxFifo)
    BY <1>0, OpsTail DEF TakeWrite, HasCommand
  <2> QED
    BY <2>1 DEF Untouched, NoneYet, Heard
<1>2. flash' = flash
  BY <1>1 DEF TargetActs, TargetNext, TakeCommand, TakeHello, TakeRead, TakeBoot, TakeOther, PushHello, PushBlock,
              ListenAgain, BootTimerTick, memory
<1>3. Ops(Heard') \subseteq Ops(Heard)
  <2>1. CASE at' = "loop" /\ at = "loop"
    <3>1. rxFifo' = rxFifo \/ (rxFifo # <<>> /\ rxFifo' = Tail(rxFifo))
      BY <1>1, <2>1 DEF TargetActs, TargetNext, TakeCommand, TakeHello, TakeRead, TakeBoot, TakeOther, PushHello,
                  PushBlock, MayPush, ListenAgain, BootTimerTick, Drop, fifos
    <3>2. Ops(rxFifo') \subseteq Ops(rxFifo)
      BY <1>0, <3>1, OpsTail
    <3> QED
      BY <2>1, <3>2 DEF Heard
  <2>2. CASE at' # "loop"
    BY <2>2, OpsEmpty DEF Heard
  <2>3. CASE at' = "loop" /\ at # "loop"
    <3>1. ListenAgain
      BY <2>3 DEF TargetActs, TargetNext, TakeCommand, TakeHello, TakeRead, TakeWrite, TakeBoot, TakeOther,
                  HasCommand, PushHello, PushBlock, MayPush, BootTimerTick
    <3>2. rxFifo' = <<>>
      BY <3>1 DEF ListenAgain, fifos, FlInv, ConvInv, Links
    <3> QED
      BY <2>3, <3>2, OpsEmpty DEF Heard
  <2> QED
    BY <2>1, <2>2, <2>3
<1> QED
  BY <1>0, <1>2, <1>3 DEF Untouched, NoneYet

LEMMA SameWhole ==
  ASSUME UNCHANGED <<flash, fileSize>>
  PROVE  WholeOrNone' <=> WholeOrNone
<1>1. contents(2) = flash /\ contents(2)' = flash'
  BY Partitions2 DEF contents
<1> QED
  BY <1>1 DEF WholeOrNone, InPlace, Image

\* The application starts, or runs.
LEMMA StartsWhole ==
  ASSUME FlInv, ImageInv, SessInv, TimerInv, lastReset = 0, TargetActs, at' = "app",
         session.run => session.write /\ session.part = "flash"
  PROVE  WholeOrNone'
<1>0. TypeInv /\ UNCHANGED <<fileSize, outgoing, sendQueue, pc>>
  BY DEF FlInv, TargetActs, loader, link, io, files
<1>1. at = "app" \/ TakeBoot \/ BootTimerTick
  BY DEF TargetActs, TargetNext, TakeCommand, TakeHello, TakeRead, TakeWrite, TakeOther,
         PushHello, PushBlock, ListenAgain
<1>2. ~TakeWrite /\ flash' = flash
  <2>1. ~TakeWrite
    BY DEF TakeWrite, HasCommand
  <2> QED
    BY <2>1 DEF TargetActs, TargetNext, TakeCommand, TakeHello, TakeRead, TakeBoot, TakeOther, PushHello, PushBlock,
                ListenAgain, BootTimerTick, memory
<1>3. WholeOrNone' <=> WholeOrNone
  BY <1>0, <1>2, SameWhole
<1>4. CASE at = "app"
  BY <1>3, <1>4 DEF TimerInv
<1>5. CASE BootTimerTick
  <2>1. \A x \in 0 .. FLASHEND : flash[x] = -1
    BY <1>5 DEF BootTimerTick, TimerInv, Untouched, Old
  <2>2. \A x \in Image(2) : x \in 0 .. FLASHEND
    <3> DEFINE m == Min({fileSize, BLDADDR})
    <3>1. fileSize \in Nat
      BY <1>0, ItemsAre
    <3>2. m \in Int /\ m <= BLDADDR
      BY <3>1, MinOfTwo, Sizes
    <3>3. Image(2) = 0 .. m - 1
      BY Partitions2 DEF Image
    <3> HIDE DEF m
    <3> QED
      BY <3>2, <3>3, Sizes
  <2>3. \A x \in Image(2) : flash[x] # x
    BY <2>1, <2>2
  <2> QED
    BY <1>3, <2>3 DEF WholeOrNone
<1>6. CASE TakeBoot
  <2>1. rxFifo # <<>> /\ at = "loop" /\ "BOOT" \in Ops(rxFifo)
    BY <1>6, OpsTail DEF TakeBoot, HasCommand, FlInv, TypeInv, PacketTypes
  <2>2. Undisturbed
    <3>1. sessions # 0
      BY <2>1 DEF ImageInv, ModeInv
    <3> QED
      BY <3>1 DEF Undisturbed
  <2>3. session.run
    BY <2>1, BootingIs DEF SessInv, BootInv
  <2>4. InPlace(Chosen) /\ Chosen = 2
    BY <1>0, <1>6, <2>2, <2>3, BootIsLast, ChosenIs, ChosenType
  <2> QED
    BY <1>3, <2>4 DEF WholeOrNone
<1> QED
  BY <1>1, <1>4, <1>5, <1>6

LEMMA TimerNext ==
  ASSUME FlInv, ImageInv, SessInv, TimerInv, Next,
         session.run => session.write /\ session.part = "flash"
  PROVE  TimerInv'
<1>0. fileSize' = fileSize
  BY SameFile
<1>1. CASE TargetActs
  <2>1. lastReset' = lastReset /\ (got_hello => got_hello')
    BY <1>1 DEF TargetActs, TargetNext, TakeCommand, TakeHello, TakeRead, TakeWrite, TakeBoot, TakeOther,
                PushHello, PushBlock, ListenAgain, BootTimerTick
  <2> QED
    BY <1>1, <2>1, TargetNone, StartsWhole DEF TimerInv
<1>2. CASE TargetResets \/ PowerCut
  BY <1>2, DisturbedLate DEF TimerInv
<1>3. CASE LoaderActs
  <2>1. UNCHANGED <<at, got_hello, flash, lastReset>> /\ sessions # 0
    BY <1>3, LoaderLink DEF target
  <2>2. lastReset = 0 /\ ~got_hello => NoneYet'
    BY <1>3, <2>1, NothingWanted, LoaderNone DEF TimerInv, Untouched
  <2> QED
    BY <1>0, <2>1, <2>2, SameWhole DEF TimerInv, Untouched
<1>4. CASE UserStarts \/ UserKills
  <2>1. /\ UNCHANGED <<at, got_hello, flash, lastReset, rxFifo>>
        /\ sendQueue' = <<>> /\ outgoing' \in {outgoing, <<>>}
    BY <1>4 DEF UserStarts, Start, UserKills, Kill, target, memory, fifos, link
  <2>2. Untouched => Untouched'
    BY <2>1, OpsEmpty DEF Untouched, NoneYet, Heard
  <2> QED
    BY <1>0, <2>1, <2>2, SameWhole DEF TimerInv
<1>5. CASE HandOver \/ WriteReturns \/ Collect \/ ReadReturns
           \/ BulkArrives \/ StreamArrives \/ StreamFails \/ AnswerArrives
  <2>1. UNCHANGED <<at, got_hello, flash, lastReset>>
    BY <1>5 DEF HandOver, WriteReturns, Collect, ReadReturns, BulkArrives, StreamArrives, StreamFails,
                AnswerArrives, others, target, memory
  <2>2. Untouched => Untouched'
    BY <1>5, <2>1, LinkNone DEF Untouched
  <2> QED
    BY <1>0, <2>1, <2>2, SameWhole DEF TimerInv
<1> QED
  BY <1>1, <1>2, <1>3, <1>4, <1>5 DEF Next

\* Who starts what another session wrote asks for whatever is there.
StartWhatIsWritten ==
  \A i \in DOMAIN Sessions : \A s \in Sessions[i] : s.run => s.write /\ s.part = "flash"

LEMMA TimerInvInit == Init => TimerInv
<1> SUFFICES ASSUME Init PROVE TimerInv
  OBVIOUS
<1>1. /\ at = "loop" /\ rxFifo = <<>> /\ outgoing = <<>> /\ sendQueue = <<>>
      /\ flash = [a \in 0 .. FLASHEND |-> Old]
  BY DEF Init, TargetInit, Boot0, Unwritten, LoaderInit
<1>2. NoneYet
  BY <1>1, OpsEmpty DEF NoneYet, Heard
<1> QED
  BY <1>1, <1>2 DEF TimerInv, Untouched

\* An application of which only a part was written does not run, unless the target
\* was reset since: the boot timer starts it only while nobody has greeted the target,
\* and nobody writes who has not (slave.c:handle_cmd and bootcond,
\* rf24-load.cpp:main); a session starts it only when all of it is there.  For every
\* image, memory, number of packets per run, and sequence of command lines that start
\* what they write.
THEOREM HalfImagesStayDown ==
  ASSUME BLDADDR > 0, StartWhatIsWritten
  PROVE  Spec => []HalfImageStaysDown
<1> DEFINE I == FlInv /\ ImageInv /\ SessInv /\ SessionGiven /\ TimerInv
<1>1. Init => I
  BY FlInvInit, ImageInvInit, SessInvInit, GivenInit, TimerInvInit
<1>2. I /\ [Next]_vars => I'
  <2>1. ASSUME I, Next PROVE I'
    <3>1. session.run => session.write /\ session.part = "flash"
      BY <2>1 DEF SessionGiven, StartWhatIsWritten
    <3> QED
      BY <2>1, <3>1, FlInvNext, ImageInvNext, SessInvNext, GivenNext, TimerNext DEF FlInv
  <2>2. ASSUME I, UNCHANGED vars PROVE I'
    <3>1. UNCHANGED <<at, got_hello, rxFifo, flash, fileSize, session, sendQueue, outgoing, lastReset>>
      BY <2>2 DEF vars, target, memory, fifos, loader, io, files, link
    <3>2. TimerInv' /\ SessionGiven'
      BY <2>2, <3>1, SameWhole DEF TimerInv, Untouched, NoneYet, Heard, SessionGiven
    <3> QED
      BY <2>2, <3>2, Stutters, ImageStutters, SessStutters
  <2> QED
    BY <2>1, <2>2
<1>3. I => HalfImageStaysDown
  <2> SUFFICES ASSUME I, at = "app", lastReset = 0, NEW part \in 1 .. partcount,
                      parts[part].name = "flash", SomeInPlace(part)
               PROVE  InPlace(part)
    BY DEF HalfImageStaysDown
  <2>1. part = 2 /\ contents(2) = flash
    BY Partitions2 DEF contents
  <2>2. \E x \in Image(2) : flash[x] = x
    BY <2>1 DEF SomeInPlace
  <2> QED
    BY <2>1, <2>2 DEF TimerInv, WholeOrNone
<1> QED
  BY <1>1, <1>2, <1>3, PTL DEF Spec
=============================================================================
