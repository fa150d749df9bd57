---------------------------- MODULE DongleProofs ----------------------------
(***************************************************************************)
(* What each ring operation of cb.c preserves and returns, and, by that,   *)
(* for every pool size, every set of ack modes and every host, credit-      *)
(* keeping or not: the firmware's variables keep their types and no slot    *)
(* outside pcks[] is ever used.  The invariant that is inductive says where *)
(* the two rings lie in the pool; start indices are never reset, and are    *)
(* in the pool all the same because cb starts at slot 0 and acb.start stays *)
(* below half the pool.                                                    *)
(*                                                                         *)
(* Then, with one ack mode: what is in a ring is a queue, and the dongle a  *)
(* pipe in both directions; the order in which packets of a host that       *)
(* numbers them go through it; and the steps that the dongle makes for      *)
(* such a host, as the proofs about the link use them.                      *)
(***************************************************************************)
EXTENDS Dongle, SequenceTheorems, TLAPS

(***************************************************************************)
(* What the operators of cb.c preserve, for rings of any size.             *)
(***************************************************************************)

\* A ring that fits a pool of n slots; its start may be anywhere in the pool.
RingIn(n) == [size : 0..n, start : 0..n-1, count : 0..n, elems : 0..n-1]

\* cb_read keeps the ring inside its bounds, and only lowers its count.
LEMMA CbReadType ==
  ASSUME NEW n \in Nat, n > 0, NEW b \in RingIn(n), b.count <= b.size
  PROVE  /\ cb_read(b) \in RingIn(n)
         /\ cb_read(b).size = b.size
         /\ cb_read(b).elems = b.elems
         /\ cb_read(b).count = IF b.count = 0 THEN 0 ELSE b.count - 1
<1>1. CASE b.count = 0
  BY <1>1 DEF cb_read, cb_is_empty
<1>2. CASE b.count # 0
  <2>1. b.size \in 1..n /\ b.start + 1 \in Nat
    BY <1>2 DEF RingIn
  <2>2. (b.start + 1) % b.size \in 0..b.size-1
    BY <2>1
  <2>3. (b.start + 1) % b.size \in 0..n-1
    BY <2>1, <2>2
  <2> DEFINE s == (b.start + 1) % b.size
  <2>4. cb_read(b) = [b EXCEPT !.start = s, !.count = b.count - 1]
    BY <1>2 DEF cb_read, cb_is_empty
  <2>5. s \in 0..n-1
    BY <2>3
  <2> HIDE DEF s
  <2>6. b.count - 1 \in 0..n
    BY <1>2 DEF RingIn
  <2>7. cb_read(b) \in RingIn(n)
    BY <2>4, <2>5, <2>6 DEF RingIn
  <2>8. /\ cb_read(b).size = b.size
        /\ cb_read(b).elems = b.elems
        /\ cb_read(b).count = b.count - 1
    BY <2>4 DEF RingIn
  <2> QED
    BY <1>2, <2>7, <2>8
<1> QED
  BY <1>1, <1>2

\* On a ring with slots cb_get_slot leaves at most size packets.
LEMMA CbGetSlotType ==
  ASSUME NEW n \in Nat, n > 0, NEW b \in RingIn(n), b.count <= b.size, HasSlots(b)
  PROVE  /\ cb_get_slot(b) \in RingIn(n)
         /\ cb_get_slot(b).size = b.size
         /\ cb_get_slot(b).elems = b.elems
         /\ cb_get_slot(b).count = IF b.count = b.size THEN b.count ELSE b.count + 1
<1> DEFINE r == MakeRoom(b)
<1>1. r \in RingIn(n) /\ r.size = b.size /\ r.elems = b.elems
      /\ r.count = IF b.count = b.size THEN b.count - 1 ELSE b.count
  BY CbReadType DEF MakeRoom, cb_is_full, HasSlots, RingIn
<1>2. cb_get_slot(b) = [r EXCEPT !.count = r.count + 1]
  BY DEF cb_get_slot
<1>3. r.count + 1 \in 0..n
  BY <1>1 DEF RingIn, HasSlots
<1> QED
  BY <1>1, <1>2, <1>3 DEF RingIn, HasSlots

\* The slot that cb_get_slot hands out lies in the ring's own part of the pool.
LEMMA NextSlotInRing ==
  ASSUME NEW n \in Nat, n > 0, NEW b \in RingIn(n), b.count <= b.size, HasSlots(b)
  PROVE  NextSlot(b) \in b.elems .. (b.elems + b.size - 1)
<1> DEFINE r == MakeRoom(b)
<1>1. r \in RingIn(n) /\ r.size = b.size /\ r.elems = b.elems
  BY CbReadType DEF MakeRoom, cb_is_full, HasSlots
<1>2. r.start + r.count \in Nat /\ r.size \in Nat /\ r.size > 0 /\ r.elems \in Nat
  BY <1>1 DEF RingIn, HasSlots
<1>3. (r.start + r.count) % r.size \in 0..r.size-1
  BY <1>2
<1>4. NextSlot(b) = r.elems + ((r.start + r.count) % r.size)
  BY DEF NextSlot
<1> HIDE DEF r
<1> QED
  BY <1>1, <1>2, <1>3, <1>4

\* cb_flush empties the ring and moves nothing.
LEMMA CbFlushType ==
  ASSUME NEW n \in Nat, n > 0, NEW b \in RingIn(n)
  PROVE  /\ cb_flush(b) \in RingIn(n)
         /\ cb_flush(b).count = 0
         /\ cb_flush(b).size = b.size
         /\ cb_flush(b).elems = b.elems
         /\ cb_flush(b).start = b.start
  BY DEF cb_flush, RingIn

\* An emptied ring given a new size and place that fit the pool.
LEMMA ResizeType ==
  ASSUME NEW n \in Nat, n > 0, NEW b \in RingIn(n), NEW size \in 0..n, NEW elems \in 0..n-1
  PROVE  /\ Resize(b, size, elems) \in RingIn(n)
         /\ Resize(b, size, elems).size = size
         /\ Resize(b, size, elems).elems = elems
         /\ Resize(b, size, elems).count = 0
         /\ Resize(b, size, elems).start = b.start
<1> DEFINE d == cb_flush(b)
           c == Resize(b, size, elems)
<1>1. d \in RingIn(n) /\ d.count = 0 /\ d.start = b.start
  BY CbFlushType
<1>2. c = [d EXCEPT !.size = size, !.elems = elems]
  BY DEF Resize
<1> HIDE DEF c, d
<1>3. c \in RingIn(n)
  BY <1>1, <1>2 DEF RingIn
<1>4. c.size = size /\ c.elems = elems /\ c.count = 0 /\ c.start = b.start
  BY <1>1, <1>2 DEF RingIn
<1> QED
  BY <1>3, <1>4 DEF c

-----------------------------------------------------------------------------
(***************************************************************************)
(* A ring whose start lies inside it is a queue.                           *)
(***************************************************************************)

\* The rings whose slots lie in a pool of n and whose start lies in the ring.
FitRing(n) ==
  {b \in RingIn(n) : /\ b.count <= b.size /\ b.elems + b.size <= n
                     /\ HasSlots(b) => b.start < b.size}

\* One turn of an index around a ring of m slots.
Wrap(x, m) == IF x < m THEN x ELSE x - m

\* A remainder of a number below twice the divisor.
LEMMA ModTwice ==
  ASSUME NEW m \in Nat, m > 0, NEW x \in 0..m+m-1
  PROVE  x % m = Wrap(x, m) /\ Wrap(x, m) \in 0..m-1
<1>1. CASE x < m
  BY <1>1 DEF Wrap
<1>2. CASE x >= m
  BY <1>2 DEF Wrap
<1> QED
  BY <1>1, <1>2

\* Stepping the start on and then i - 1 slots is i slots from the start.
LEMMA WrapStep ==
  ASSUME NEW m \in Nat, NEW x \in 0..m-1, NEW i \in 1..m-1, NEW j, j = i + 1
  PROVE  Wrap(Wrap(x + 1, m) + i - 1, m) = Wrap(x + j - 1, m)
  BY DEF Wrap

LEMMA WrapDiffer ==
  ASSUME NEW m \in Nat, NEW x \in 0..m-1, NEW i \in 1..m, NEW j \in 1..m, i # j
  PROVE  Wrap(x + i - 1, m) # Wrap(x + j - 1, m)
  BY DEF Wrap

\* The place of a ring that fits.
LEMMA FitRingPlace ==
  ASSUME NEW n \in Nat, n > 0, NEW b \in FitRing(n)
  PROVE  /\ b \in RingIn(n)
         /\ b.size \in Nat /\ b.count \in Nat /\ b.count <= b.size /\ b.start \in Nat
         /\ b.elems \in Nat /\ b.elems + b.size <= n
         /\ b.size > 0 => HasSlots(b) /\ b.start \in 0..b.size-1
  BY DEF FitRing, RingIn, HasSlots

\* A slot of a ring is its index modulo the size, and in the ring's own part.
LEMMA SlotMod ==
  ASSUME NEW n \in Nat, n > 0, NEW b \in FitRing(n), NEW i \in 1..b.size
  PROVE  /\ Slot(b, i) = b.elems + ((b.start + i - 1) % b.size)
         /\ Slot(b, i) = b.elems + Wrap(b.start + i - 1, b.size)
         /\ Slot(b, i) \in b.elems .. (b.elems + b.size - 1)
         /\ Slot(b, i) \in 0..n-1
<1>1. /\ b.size \in Nat /\ b.size > 0 /\ b.start \in 0..b.size-1 /\ b.elems \in Nat
      /\ b.elems + b.size <= n
  BY FitRingPlace
<1>2. b.start + i - 1 \in 0..b.size+b.size-1
  BY <1>1
<1>3. /\ (b.start + i - 1) % b.size = Wrap(b.start + i - 1, b.size)
      /\ Wrap(b.start + i - 1, b.size) \in 0..b.size-1
  BY <1>1, <1>2, ModTwice
<1>4. i = 1 => (b.start + i - 1) % b.size = b.start
  BY <1>1, <1>3 DEF Wrap
<1>5. Slot(b, i) = b.elems + ((b.start + i - 1) % b.size)
  BY <1>4, Zenon DEF Slot
<1>6. Slot(b, i) = b.elems + Wrap(b.start + i - 1, b.size)
  BY <1>3, <1>5, Zenon
<1>7. Slot(b, i) \in b.elems .. (b.elems + b.size - 1) /\ Slot(b, i) \in 0..n-1
  BY <1>1, <1>3, <1>6
<1> QED
  BY <1>5, <1>6, <1>7

\* Different packets lie in different slots.
LEMMA SlotsDiffer ==
  ASSUME NEW n \in Nat, n > 0, NEW b \in FitRing(n),
         NEW i \in 1..b.size, NEW j \in 1..b.size, i # j
  PROVE  Slot(b, i) # Slot(b, j)
<1>1. b.size \in Nat /\ b.start \in 0..b.size-1 /\ b.elems \in Nat
  BY FitRingPlace
<1>2. /\ Slot(b, i) = b.elems + Wrap(b.start + i - 1, b.size)
      /\ Slot(b, j) = b.elems + Wrap(b.start + j - 1, b.size)
  BY SlotMod
<1>3. Wrap(b.start + i - 1, b.size) # Wrap(b.start + j - 1, b.size)
  BY <1>1, WrapDiffer
<1>4. /\ Wrap(b.start + i - 1, b.size) \in Int
      /\ Wrap(b.start + j - 1, b.size) \in Int
  BY <1>1 DEF Wrap
<1> QED
  BY <1>1, <1>2, <1>3, <1>4

\* A pool of n slots for packets of V.
Pool(n, V) == [0..n-1 -> V]

\* An empty ring is an empty queue, whatever its place.
LEMMA ContentsNone ==
  ASSUME NEW b, NEW mem, b.count = 0
  PROVE  Contents(b, mem) = <<>>
<1> DEFINE c == Contents(b, mem)
<1>1. DOMAIN c = 1..0 /\ c \in [1..0 -> {}]
  BY DEF Contents
<1> HIDE DEF c
<1>2. c \in Seq({}) /\ 0 \in Nat
  BY <1>1, SeqDef
<1>3. Len(c) = 0
  BY <1>1, <1>2, LenProperties
<1> QED
  BY <1>2, <1>3, EmptySeq DEF c

LEMMA ContentsSeq ==
  ASSUME NEW n \in Nat, n > 0, NEW b \in FitRing(n), NEW V, NEW mem \in Pool(n, V)
  PROVE  /\ Contents(b, mem) \in Seq(V)
         /\ Len(Contents(b, mem)) = b.count
         /\ \A i \in 1..b.count : Contents(b, mem)[i] = mem[Slot(b, i)]
<1> DEFINE c == Contents(b, mem)
<1>1. b.count \in Nat /\ 1..b.count \subseteq 1..b.size
  BY DEF FitRing, RingIn
<1>2. \A i \in 1..b.count : mem[Slot(b, i)] \in V
  BY <1>1, SlotMod DEF Pool
<1>3. c \in [1..b.count -> V] /\ \A i \in 1..b.count : c[i] = mem[Slot(b, i)]
  BY <1>2 DEF Contents
<1> HIDE DEF c
<1>4. c \in Seq(V)
  BY <1>1, <1>3, SeqDef
<1>5. Len(c) \in Nat /\ DOMAIN c = 1..Len(c) /\ DOMAIN c = 1..b.count
  BY <1>3, <1>4, LenProperties
<1>6. Len(c) = b.count
  BY <1>1, <1>5
<1> QED
  BY <1>3, <1>4, <1>6 DEF c

LEMMA ContentsEmpty ==
  ASSUME NEW n \in Nat, n > 0, NEW b \in FitRing(n), NEW V, NEW mem \in Pool(n, V)
  PROVE  Contents(b, mem) = <<>> <=> b.count = 0
<1>1. b.count \in Nat
  BY DEF FitRing, RingIn
<1>2. Contents(b, mem) \in Seq(V) /\ Len(Contents(b, mem)) = b.count
  BY ContentsSeq
<1> HIDE DEF Contents
<1>3. ASSUME b.count = 0 PROVE Contents(b, mem) = <<>>
  BY <1>2, <1>3, EmptySeq
<1>4. ASSUME Contents(b, mem) = <<>> PROVE b.count = 0
  BY <1>2, <1>4, EmptySeq
<1> QED
  BY <1>3, <1>4

\* cb_read takes the oldest packet out and leaves the others in order.
LEMMA CbReadFits ==
  ASSUME NEW n \in Nat, n > 0, NEW b \in FitRing(n), b.count > 0
  PROVE  /\ cb_read(b) \in FitRing(n)
         /\ cb_read(b).count = b.count - 1
         /\ \A i \in 1..b.count - 1 : Slot(cb_read(b), i) = Slot(b, i + 1)
<1> DEFINE d == cb_read(b)
<1>1. /\ b \in RingIn(n) /\ b.count \in 1..b.size /\ b.size \in Nat /\ b.size > 0
      /\ b.start \in 0..b.size-1 /\ b.elems \in Nat /\ b.elems + b.size <= n
  BY FitRingPlace
<1>2. d \in RingIn(n) /\ d.size = b.size /\ d.elems = b.elems /\ d.count = b.count - 1
  BY <1>1, CbReadType
<1>3. d.start = (b.start + 1) % b.size
  BY <1>1 DEF cb_read, cb_is_empty, RingIn
<1>4. d.start = Wrap(b.start + 1, b.size) /\ Wrap(b.start + 1, b.size) \in 0..b.size-1
  <2>1. b.start + 1 \in 0..b.size+b.size-1 /\ b.size \in Nat /\ b.size > 0
    BY <1>1
  <2>2. /\ (b.start + 1) % b.size = Wrap(b.start + 1, b.size)
        /\ Wrap(b.start + 1, b.size) \in 0..b.size-1
    BY <2>1, ModTwice
  <2> QED
    BY <1>3, <2>2, Zenon
<1> HIDE DEF d
<1>5. d \in FitRing(n)
  BY <1>1, <1>2, <1>4 DEF FitRing, HasSlots
<1>6. \A i \in 1..b.count - 1 : Slot(d, i) = Slot(b, i + 1)
  <2>1. ASSUME NEW i \in 1..b.count - 1, NEW j \in 1..b.size, j = i + 1
        PROVE  Slot(d, i) = Slot(b, j)
    <3>1. i \in 1..d.size /\ i \in 1..b.size-1
      BY <1>1, <1>2
    <3>2. Slot(d, i) = d.elems + Wrap(d.start + i - 1, d.size)
      BY <1>5, <3>1, SlotMod
    <3>3. Slot(b, j) = b.elems + Wrap(b.start + j - 1, b.size)
      BY SlotMod
    <3>4. Wrap(Wrap(b.start + 1, b.size) + i - 1, b.size) = Wrap(b.start + j - 1, b.size)
      BY <1>1, <2>1, <3>1, WrapStep
    <3> QED
      BY <1>2, <1>4, <3>2, <3>3, <3>4, Zenon
  <2>2. \A i \in 1..b.count - 1 : i + 1 \in 1..b.size
    BY <1>1
  <2> QED
    BY <2>1, <2>2
<1> QED
  BY <1>2, <1>5, <1>6 DEF d

LEMMA ContentsRead ==
  ASSUME NEW n \in Nat, n > 0, NEW b \in FitRing(n), NEW V, NEW mem \in Pool(n, V),
         b.count > 0
  PROVE  /\ Contents(b, mem) # <<>>
         /\ Head(Contents(b, mem)) = mem[Oldest(b)]
         /\ Contents(cb_read(b), mem) = Tail(Contents(b, mem))
<1> DEFINE c == Contents(b, mem)
           d == cb_read(b)
           e == Contents(d, mem)
<1>1. b.count \in 1..b.size /\ b.size \in Nat
  BY FitRingPlace
<1>2. /\ d \in FitRing(n) /\ d.count = b.count - 1
      /\ \A i \in 1..b.count - 1 : Slot(d, i) = Slot(b, i + 1)
  BY CbReadFits
<1> HIDE DEF d
<1>7. /\ c \in Seq(V) /\ Len(c) = b.count
      /\ \A i \in 1..b.count : c[i] = mem[Slot(b, i)]
  BY ContentsSeq
<1>8. /\ e \in Seq(V) /\ Len(e) = b.count - 1
      /\ \A i \in 1..d.count : e[i] = mem[Slot(d, i)]
  <2>1. /\ Contents(d, mem) \in Seq(V) /\ Len(Contents(d, mem)) = d.count
        /\ \A i \in 1..d.count : Contents(d, mem)[i] = mem[Slot(d, i)]
    BY <1>2, ContentsSeq
  <2> QED
    BY <1>2, <2>1, Zenon
<1>9. c # <<>>
  <2>1. Contents(b, mem) = <<>> <=> b.count = 0
    BY ContentsEmpty
  <2> HIDE DEF c
  <2> QED
    BY <1>1, <2>1 DEF c
<1>10. Head(c) = mem[Oldest(b)]
  <2>1. 1 \in 1..b.count /\ Slot(b, 1) = Oldest(b)
    BY <1>1 DEF Slot, Oldest
  <2> HIDE DEF c
  <2> QED
    BY <1>7, <1>9, <2>1
<1>11. e = Tail(c)
  <2> HIDE DEF c, e
  <2>1. /\ Tail(c) \in Seq(V) /\ Len(Tail(c)) = Len(c) - 1
        /\ \A i \in 1..Len(Tail(c)) : Tail(c)[i] = c[i + 1]
    BY <1>7, <1>9, HeadTailProperties
  <2>2. \A i \in 1..Len(e) : e[i] = Tail(c)[i]
    <3> TAKE i \in 1..Len(e)
    <3>1. i \in 1..d.count /\ i + 1 \in 1..b.count /\ i \in 1..Len(Tail(c))
      BY <1>1, <1>2, <1>7, <1>8, <2>1
    <3> QED
      BY <1>2, <1>7, <1>8, <2>1, <3>1
  <2>3. Len(e) = Len(Tail(c))
    BY <1>7, <1>8, <2>1
  <2> QED
    BY <1>8, <2>1, <2>2, <2>3, SeqEqual
<1> QED
  BY <1>9, <1>10, <1>11 DEF d

\* cb_get_slot on a ring with room hands out the slot after the newest packet.
LEMMA CbGetSlotFits ==
  ASSUME NEW n \in Nat, n > 0, NEW b \in FitRing(n), b.count < b.size
  PROVE  /\ cb_get_slot(b) \in FitRing(n)
         /\ cb_get_slot(b).count = b.count + 1
         /\ NextSlot(b) = Slot(b, b.count + 1)
         /\ NextSlot(b) \in b.elems .. (b.elems + b.size - 1)
         /\ NextSlot(b) \in 0..n-1
         /\ \A i \in 1..b.count + 1 : Slot(cb_get_slot(b), i) = Slot(b, i)
<1> DEFINE d == cb_get_slot(b)
           k == b.count + 1
           s == NextSlot(b)
<1>1. /\ b \in RingIn(n) /\ b.count \in Nat /\ b.count <= b.size /\ HasSlots(b)
      /\ b.size \in Nat /\ b.size > 0 /\ b.start \in 0..b.size-1 /\ b.elems \in Nat
      /\ b.elems + b.size <= n /\ k \in 1..b.size
  BY FitRingPlace
<1>2. d \in RingIn(n) /\ d.size = b.size /\ d.elems = b.elems /\ d.count = k
  BY <1>1, CbGetSlotType
<1>3. d = [b EXCEPT !.count = k] /\ s = b.elems + ((b.start + b.count) % b.size)
  BY <1>1 DEF cb_get_slot, NextSlot, MakeRoom, cb_is_full
<1>4. d.start = b.start
  BY <1>1, <1>3 DEF RingIn
<1> HIDE DEF d
<1>5. d \in FitRing(n)
  BY <1>1, <1>2, <1>4 DEF FitRing, HasSlots
<1>6. s = Slot(b, k) /\ s \in b.elems .. (b.elems + b.size - 1) /\ s \in 0..n-1
  <2>1. b.start + k - 1 = b.start + b.count
    BY <1>1
  <2> HIDE DEF s, k
  <2>2. /\ Slot(b, k) = b.elems + ((b.start + k - 1) % b.size)
        /\ Slot(b, k) \in b.elems .. (b.elems + b.size - 1) /\ Slot(b, k) \in 0..n-1
    BY <1>1, SlotMod
  <2> QED
    BY <1>3, <2>1, <2>2
<1>7. \A i \in 1..k : Slot(d, i) = Slot(b, i)
  BY <1>2, <1>4 DEF Slot
<1> QED
  BY <1>2, <1>5, <1>6, <1>7 DEF d

\* It is not the slot of the oldest packet, which stays the oldest.
LEMMA OldestStays ==
  ASSUME NEW n \in Nat, n > 0, NEW b \in FitRing(n), b.count > 0, b.count < b.size
  PROVE  Oldest(cb_get_slot(b)) = Oldest(b) /\ NextSlot(b) # Oldest(b)
<1>1. \A r : Slot(r, 1) = Oldest(r)
  BY DEF Slot, Oldest
<1>2. b.count \in Nat /\ b.size \in Nat /\ b.count <= b.size
  BY FitRingPlace
<1> DEFINE k == b.count + 1
<1>3. 1 \in 1..k /\ 1 \in 1..b.size /\ k \in 1..b.size /\ k # 1
  BY <1>2
<1>4. NextSlot(b) = Slot(b, k) /\ \A i \in 1..k : Slot(cb_get_slot(b), i) = Slot(b, i)
  BY CbGetSlotFits
<1> HIDE DEF k
<1>5. Slot(b, k) # Slot(b, 1)
  BY <1>3, SlotsDiffer
<1>6. Slot(cb_get_slot(b), 1) = Slot(b, 1)
  BY <1>3, <1>4
<1> QED
  BY <1>1, <1>4, <1>5, <1>6, Zenon

\* A pool in which slot s alone was written.
WroteSlot(n, mem, s, p, mem2) == mem2[s] = p /\ \A i \in 0..n-1 : i # s => mem2[i] = mem[i]

LEMMA ExceptWrites ==
  ASSUME NEW n \in Nat, NEW V, NEW mem \in Pool(n, V), NEW s \in 0..n-1, NEW p \in V
  PROVE  /\ [mem EXCEPT ![s] = p] \in Pool(n, V)
         /\ WroteSlot(n, mem, s, p, [mem EXCEPT ![s] = p])
  BY DEF WroteSlot, Pool

\* The packet written there joins the queue at its end.
LEMMA ContentsPut ==
  ASSUME NEW n \in Nat, n > 0, NEW b \in FitRing(n), NEW V, NEW mem \in Pool(n, V),
         NEW p \in V, b.count < b.size,
         NEW mem2 \in Pool(n, V), WroteSlot(n, mem, NextSlot(b), p, mem2)
  PROVE  Contents(cb_get_slot(b), mem2) = Append(Contents(b, mem), p)
<1> DEFINE c == Contents(b, mem)
           d == cb_get_slot(b)
           k == b.count + 1
           s == NextSlot(b)
           e == Contents(d, mem2)
<1>1. /\ d \in FitRing(n) /\ d.count = k /\ s = Slot(b, k) /\ s \in 0..n-1
      /\ \A i \in 1..k : Slot(d, i) = Slot(b, i)
  BY CbGetSlotFits
<1>2. b.count \in Nat /\ b.size \in Nat /\ k \in 1..b.size
  BY FitRingPlace
<1> HIDE DEF d, s, k
<1>3. mem2 \in Pool(n, V) /\ mem2[s] = p /\ \A i \in 0..n-1 : i # s => mem2[i] = mem[i]
  BY <1>1 DEF s, WroteSlot
<1>4. /\ c \in Seq(V) /\ Len(c) = b.count
      /\ \A i \in 1..b.count : c[i] = mem[Slot(b, i)]
  BY ContentsSeq
<1>5. /\ e \in Seq(V) /\ Len(e) = k /\ \A i \in 1..k : e[i] = mem2[Slot(d, i)]
  <2> HIDE DEF c
  <2>1. d \in FitRing(n) /\ mem2 \in Pool(n, V)
    BY <1>1, <1>3, Zenon
  <2>2. /\ Contents(d, mem2) \in Seq(V) /\ Len(Contents(d, mem2)) = d.count
        /\ \A i \in 1..d.count : Contents(d, mem2)[i] = mem2[Slot(d, i)]
    BY <2>1, ContentsSeq
  <2> QED
    BY <1>1, <2>2, Zenon
<1>6. \A i \in 1..b.count : e[i] = c[i]
  <2> TAKE i \in 1..b.count
  <2>1. i \in 1..k /\ i \in 1..b.size /\ i # k
    BY <1>2 DEF k
  <2>2. Slot(b, i) # s /\ Slot(b, i) \in 0..n-1
    BY <1>1, <1>2, <2>1, SlotMod, SlotsDiffer
  <2> QED
    BY <1>1, <1>3, <1>4, <1>5, <2>1, <2>2
<1>7. e[k] = p
  BY <1>1, <1>2, <1>3, <1>5 DEF k
<1> HIDE DEF c, e
<1>8. e = Append(c, p)
  <2>1. /\ Append(c, p) \in Seq(V) /\ Len(Append(c, p)) = k
        /\ \A i \in 1..b.count : Append(c, p)[i] = c[i]
        /\ Append(c, p)[k] = p
    BY <1>4, AppendProperties DEF k
  <2>2. \A i \in 1..k : i \in 1..b.count \/ i = k
    BY <1>2 DEF k
  <2>3. \A i \in 1..Len(e) : e[i] = Append(c, p)[i]
    BY <1>5, <1>6, <1>7, <2>1, <2>2
  <2> QED
    BY <1>5, <2>1, <2>3, SeqEqual
<1> QED
  BY <1>8 DEF e, c, d

\* A write outside the ring's part of the pool leaves its packets alone.
LEMMA ContentsElsewhere ==
  ASSUME NEW n \in Nat, n > 0, NEW b \in FitRing(n), NEW V, NEW mem \in Pool(n, V),
         NEW p \in V, NEW s, s \notin b.elems .. (b.elems + b.size - 1),
         NEW mem2 \in Pool(n, V), WroteSlot(n, mem, s, p, mem2)
  PROVE  Contents(b, mem2) = Contents(b, mem)
<1>1. b.count <= b.size /\ b.count \in Nat /\ b.size \in Nat
  BY DEF FitRing, RingIn
<1>2. \A i \in 1..b.count : Slot(b, i) # s /\ Slot(b, i) \in 0..n-1
  BY <1>1, SlotMod
<1>3. \A i \in 1..b.count : mem2[Slot(b, i)] = mem[Slot(b, i)]
  BY <1>2 DEF WroteSlot
<1> QED
  BY <1>3, Zenon DEF Contents

-----------------------------------------------------------------------------

Half == HW_BUFFER_SIZE \div 2

\* Where the rings lie.
RingsPlaced ==
  /\ cb.elems = 0 /\ cb.count <= cb.size
  /\ acb.elems \in {0, Half} /\ acb.size \in {0, Half}
  /\ acb.count <= acb.size /\ acb.start < Half

IInv == TypeOK /\ RingsPlaced

LEMMA HalfOfPool == /\ Half \in 1..HW_BUFFER_SIZE-1
                    /\ Half + Half = HW_BUFFER_SIZE
  BY HwBufferAssumption DEF Half

\* RingType is RingIn of the pool's size.
LEMMA RingTypeIsRingIn == RingType = RingIn(HW_BUFFER_SIZE)
  BY DEF RingType, RingIn

LEMMA ResizedType ==
  ASSUME NEW b \in RingType, NEW s \in 0..HW_BUFFER_SIZE, NEW f \in 0..HW_BUFFER_SIZE-1
  PROVE  /\ Resize(b, s, f) \in RingType
         /\ Resize(b, s, f).size = s /\ Resize(b, s, f).elems = f
         /\ Resize(b, s, f).count = 0 /\ Resize(b, s, f).start = b.start
<1>1. b \in RingIn(HW_BUFFER_SIZE)
  BY RingTypeIsRingIn, Zenon
<1>2. /\ Resize(b, s, f) \in RingIn(HW_BUFFER_SIZE)
      /\ Resize(b, s, f).size = s /\ Resize(b, s, f).elems = f
      /\ Resize(b, s, f).count = 0 /\ Resize(b, s, f).start = b.start
  BY <1>1, ResizeType, HwBufferAssumption
<1> QED
  BY <1>2, RingTypeIsRingIn, Zenon

-----------------------------------------------------------------------------
(***************************************************************************)
(* The library calls keep a radio a radio.                                 *)
(***************************************************************************)
LEMMA RadioCallsType ==
  ASSUME NEW r \in RadioType, NEW p \in Packet
  PROVE  /\ rf24_stop_listening(r) \in RadioType
         /\ rf24_start_listening(r) \in RadioType
         /\ rf24_flush_tx(r) \in RadioType
         /\ rf24_flush_rx(r) \in RadioType
         /\ rf24_what_happened(r) \in RadioType
         /\ rf24_queue_push(r, p) \in RadioType
         /\ Received(r, p) \in RadioType
<1>1. rf24_stop_listening(r) \in RadioType /\ rf24_start_listening(r) \in RadioType
  BY DEF RadioType, rf24_stop_listening, rf24_start_listening
<1>. <<>> \in Seq(Packet)
  OBVIOUS
<1>2. rf24_flush_tx(r) \in RadioType
  BY DEF RadioType, rf24_flush_tx
<1>3. rf24_flush_rx(r) \in RadioType
  BY DEF RadioType, rf24_flush_rx
<1>4. rf24_what_happened(r) \in RadioType
  BY DEF RadioType, rf24_what_happened
<1>5. rf24_queue_push(r, p) \in RadioType
  <2>1. Append(r.tx, p) \in Seq(Packet)
    BY DEF RadioType
  <2> QED
    BY <2>1 DEF RadioType, rf24_queue_push
<1>6. Received(r, p) \in RadioType
  <2>1. Append(r.rx, p) \in Seq(Packet)
    BY DEF RadioType
  <2> QED
    BY <2>1 DEF RadioType, Received
<1> QED
  BY <1>1, <1>2, <1>3, <1>4, <1>5, <1>6

LEMMA RadioTakesHeadType ==
  ASSUME NEW r \in RadioType
  PROVE  /\ r.rx # <<>> => Head(r.rx) \in Packet /\ rf24_read(r) \in RadioType
         /\ r.tx # <<>> => Head(r.tx) \in Packet /\ Acknowledged(r) \in RadioType
         /\ \A taken \in BOOLEAN : Unanswered(r, taken) \in RadioType
<1>1. r.rx # <<>> => Head(r.rx) \in Packet /\ Tail(r.rx) \in Seq(Packet)
  BY DEF RadioType
<1>2. r.tx # <<>> => Head(r.tx) \in Packet /\ Tail(r.tx) \in Seq(Packet)
  BY DEF RadioType
<1>3. r.rx # <<>> => rf24_read(r) \in RadioType
  BY <1>1 DEF RadioType, rf24_read
<1>4. r.tx # <<>> => Acknowledged(r) \in RadioType
  BY <1>2 DEF RadioType, Acknowledged
<1>5. \A taken \in BOOLEAN : Unanswered(r, taken) \in RadioType
  BY DEF RadioType, Unanswered
<1> QED
  BY <1>1, <1>2, <1>3, <1>4, <1>5

\* Any message put together from typed rings and a typed radio is a message.
LEMMA StatusFieldsType ==
  ASSUME NEW c \in RingType, NEW a \in RingType,
         NEW f \in {"ok", "failed", "pending"}, NEW r \in RadioType
  PROVE  [cb_count |-> c.count, cb_size |-> c.size, acb_count |-> a.count,
          acb_size |-> a.size, last_tx_failed |-> f,
          fifo_is_empty |-> rf24_tx_empty(r)] \in StatusType
  BY DEF StatusType, RingType, rf24_tx_empty

-----------------------------------------------------------------------------
(***************************************************************************)
(* Every step keeps the invariant.                                         *)
(***************************************************************************)

\* A step that leaves the rings, the pool and the messages alone.
LEMMA QuietStep ==
  ASSUME IInv, UNCHANGED <<ring, written, arrived>>,
         system_state' \in Mode, writing' \in BOOLEAN,
         last_tx_failed' \in {"ok", "failed", "pending"},
         request' \in Request \cup {NoRequest}, phase' \in Phase,
         intMsg' \in StatusType \cup {NoMessage}, radio' \in RadioType,
         air' \in Seq(Packet), got' \in Seq(Packet)
  PROVE  IInv'
  BY DEF IInv, TypeOK, RingsPlaced, ring

\* The actions that change nothing but the place in the main loop.
LEMMA ControlStep ==
  ASSUME IInv, phase' \in Phase,
         UNCHANGED <<system_state, writing, last_tx_failed, ring, usb, radio, history>>
  PROVE  IInv'
<1>. UNCHANGED <<ring, written, arrived>>
  BY DEF history
<1> QED
  BY QuietStep DEF IInv, TypeOK, usb, history

LEMMA FlushedRings ==
  ASSUME IInv, cb' = cb_flush(cb), acb' = cb_flush(acb)
  PROVE  cb' \in RingType /\ acb' \in RingType /\ RingsPlaced'
<1>1. cb \in RingIn(HW_BUFFER_SIZE) /\ acb \in RingIn(HW_BUFFER_SIZE)
  BY RingTypeIsRingIn DEF IInv, TypeOK
<1>2. /\ cb' \in RingType /\ cb'.count = 0 /\ cb'.size = cb.size
      /\ cb'.elems = cb.elems
  BY <1>1, CbFlushType, RingTypeIsRingIn, HwBufferAssumption
<1>3. /\ acb' \in RingType /\ acb'.count = 0 /\ acb'.size = acb.size
      /\ acb'.elems = acb.elems /\ acb'.start = acb.start
  BY <1>1, CbFlushType, RingTypeIsRingIn, HwBufferAssumption
<1> QED
  BY <1>1, <1>2, <1>3 DEF RingsPlaced, IInv, RingIn

LEMMA RadioFlushedType ==
  ASSUME radio \in RadioType
  PROVE  RadioFlushed \in RadioType /\ rf24_start_listening(RadioFlushed) \in RadioType
<1>1. NoPacket \in Packet
  BY DEF NoPacket, Packet
<1> QED
  BY <1>1, RadioCallsType DEF RadioFlushed

LEMMA RqModeStep ==
  ASSUME IInv, NEW m \in Mode, RqMode([rq |-> "RQ_MODE", mode |-> m])
  PROVE  IInv'
<1>1. cb' \in RingType /\ acb' \in RingType /\ RingsPlaced'
  BY FlushedRings DEF RqMode
<1>2. radio' \in RadioType
  BY RadioFlushedType DEF RqMode, IInv, TypeOK
<1> QED
  BY <1>1, <1>2 DEF RqMode, IInv, TypeOK, usb, history, Phase

LEMMA RqFlushStep ==
  ASSUME IInv, NEW rq, RqFlush(rq)
  PROVE  IInv'
<1>1. cb' \in RingType /\ acb' \in RingType /\ RingsPlaced'
  BY FlushedRings DEF RqFlush
<1>2. radio' \in RadioType
  BY RadioFlushedType DEF RqFlush, IInv, TypeOK
<1> QED
  BY <1>1, <1>2 DEF RqFlush, IInv, TypeOK, usb, history, Phase

\* cb_read on either ring.
LEMMA ReadRings ==
  ASSUME IInv
  PROVE  /\ cb_read(cb) \in RingType /\ cb_read(cb).elems = 0
         /\ cb_read(cb).count <= cb_read(cb).size
         /\ cb_read(acb) \in RingType /\ cb_read(acb).elems = acb.elems
         /\ cb_read(acb).size = acb.size
         /\ cb_read(acb).count <= cb_read(acb).size
         /\ cb_read(acb).start < Half
<1>1. /\ cb \in RingIn(HW_BUFFER_SIZE) /\ acb \in RingIn(HW_BUFFER_SIZE)
      /\ cb.count <= cb.size /\ acb.count <= acb.size
  BY RingTypeIsRingIn DEF IInv, TypeOK, RingsPlaced
<1>2. /\ cb_read(cb) \in RingType /\ cb_read(cb).elems = cb.elems
      /\ cb_read(cb).size = cb.size
      /\ cb_read(cb).count = IF cb.count = 0 THEN 0 ELSE cb.count - 1
  BY <1>1, CbReadType, RingTypeIsRingIn, HwBufferAssumption
<1>3. /\ cb_read(acb) \in RingType /\ cb_read(acb).elems = acb.elems
      /\ cb_read(acb).size = acb.size
      /\ cb_read(acb).count = IF acb.count = 0 THEN 0 ELSE acb.count - 1
  BY <1>1, CbReadType, RingTypeIsRingIn, HwBufferAssumption
<1>4. cb_read(acb).start < Half
  <2>1. CASE acb.count = 0
    BY <2>1 DEF cb_read, cb_is_empty, IInv, RingsPlaced
  <2>2. CASE acb.count # 0
    <3>1. acb.size = Half /\ acb.start + 1 \in Nat /\ Half \in Nat /\ Half > 0
      BY <1>1, <2>2, HalfOfPool, HwBufferAssumption DEF IInv, RingsPlaced, RingIn
    <3>2. (acb.start + 1) % Half \in 0..Half-1
      BY <3>1
    <3> DEFINE s == (acb.start + 1) % acb.size
    <3>3. s < Half
      BY <3>1, <3>2
    <3>4. cb_read(acb) = [acb EXCEPT !.start = s, !.count = acb.count - 1]
      BY <2>2 DEF cb_read, cb_is_empty
    <3> HIDE DEF s
    <3> QED
      BY <1>1, <3>3, <3>4 DEF RingIn
  <2> QED
    BY <2>1, <2>2
<1> QED
  BY <1>1, <1>2, <1>3, <1>4 DEF IInv, RingsPlaced, RingIn

\* cb_get_slot on cb: the slot is in the pool, the ring stays in place.
LEMMA SlotOfCb ==
  ASSUME IInv, HasSlots(cb)
  PROVE  /\ NextSlot(cb) \in 0..HW_BUFFER_SIZE-1
         /\ cb_get_slot(cb) \in RingType /\ cb_get_slot(cb).elems = 0
         /\ cb_get_slot(cb).count <= cb_get_slot(cb).size
<1>1. cb \in RingIn(HW_BUFFER_SIZE) /\ cb.count <= cb.size /\ cb.elems = 0
  BY RingTypeIsRingIn DEF IInv, TypeOK, RingsPlaced
<1>2. NextSlot(cb) \in 0..(0 + cb.size - 1)
  BY <1>1, NextSlotInRing, HwBufferAssumption
<1>3. cb.size \in 0..HW_BUFFER_SIZE /\ cb.count \in 0..HW_BUFFER_SIZE
  BY <1>1 DEF RingIn
<1>4. /\ cb_get_slot(cb) \in RingType
      /\ cb_get_slot(cb).size = cb.size /\ cb_get_slot(cb).elems = 0
      /\ cb_get_slot(cb).count = IF cb.count = cb.size THEN cb.count ELSE cb.count + 1
  BY <1>1, CbGetSlotType, RingTypeIsRingIn, HwBufferAssumption
<1> QED
  BY <1>1, <1>2, <1>3, <1>4, HwBufferAssumption

\* cb_get_slot on acb: the slot is in the pool's upper half.
LEMMA SlotOfAcb ==
  ASSUME IInv, HasSlots(acb)
  PROVE  /\ NextSlot(acb) \in 0..HW_BUFFER_SIZE-1
         /\ cb_get_slot(acb) \in RingType /\ cb_get_slot(acb).elems = acb.elems
         /\ cb_get_slot(acb).size = acb.size
         /\ cb_get_slot(acb).count <= cb_get_slot(acb).size
         /\ cb_get_slot(acb).start < Half
<1>1. /\ acb \in RingIn(HW_BUFFER_SIZE) /\ acb.count <= acb.size
      /\ acb.size \in {0, Half} /\ acb.elems \in {0, Half} /\ acb.start < Half
  BY RingTypeIsRingIn DEF IInv, TypeOK, RingsPlaced
<1>2. NextSlot(acb) \in acb.elems..(acb.elems + acb.size - 1)
  BY <1>1, NextSlotInRing, HwBufferAssumption
<1>3. acb.size \in 0..HW_BUFFER_SIZE /\ acb.count \in 0..HW_BUFFER_SIZE
  BY <1>1 DEF RingIn
<1>4. /\ cb_get_slot(acb) \in RingType
      /\ cb_get_slot(acb).size = acb.size /\ cb_get_slot(acb).elems = acb.elems
      /\ cb_get_slot(acb).count = IF acb.count = acb.size THEN acb.count ELSE acb.count + 1
  BY <1>1, CbGetSlotType, RingTypeIsRingIn, HwBufferAssumption
<1>5. cb_get_slot(acb).start < Half
  <2>1. MakeRoom(acb).start < Half /\ MakeRoom(acb) \in RingType
    BY <1>1, ReadRings, RingTypeIsRingIn DEF MakeRoom
  <2> HIDE DEF MakeRoom
  <2> QED
    BY <2>1, SMTT(20) DEF cb_get_slot, RingType
<1>6. NextSlot(acb) \in 0..HW_BUFFER_SIZE-1
  BY <1>1, <1>2, HalfOfPool, HwBufferAssumption
<1> QED
  BY <1>1, <1>3, <1>4, <1>5, <1>6

\* What cb_peek and cb_read look at is in the pool.
LEMMA OldestInPool ==
  ASSUME IInv
  PROVE  Oldest(cb) \in 0..HW_BUFFER_SIZE-1 /\ Oldest(acb) \in 0..HW_BUFFER_SIZE-1
<1>1. /\ cb.elems = 0 /\ cb.start \in 0..HW_BUFFER_SIZE-1
      /\ acb.elems \in {0, Half} /\ acb.start \in 0..HW_BUFFER_SIZE-1 /\ acb.start < Half
  BY DEF IInv, TypeOK, RingsPlaced, RingType
<1>2. Oldest(cb) = cb.elems + cb.start /\ Oldest(acb) = acb.elems + acb.start
  BY DEF Oldest
<1> QED
  BY <1>1, <1>2, HalfOfPool, HwBufferAssumption

LEMMA RqReadPacketStep ==
  ASSUME IInv, NEW rq, RqReadPacket(rq)
  PROVE  IInv'
<1>1. ReadReply.packet \in Packet
  <2>1. Oldest(ReadRing) \in 0..HW_BUFFER_SIZE-1
    BY OldestInPool DEF ReadRing
  <2> QED
    BY <2>1 DEF ReadReply, RqReadPacket, IInv, TypeOK
<1>2. got' \in Seq(Packet)
  BY <1>1 DEF RqReadPacket, IInv, TypeOK
<1>3. cb' \in RingType /\ acb' \in RingType /\ RingsPlaced'
  <2>1. CASE system_state = "READ"
    BY <2>1, ReadRings DEF RqReadPacket, IInv, TypeOK, RingsPlaced
  <2>2. CASE system_state # "READ"
    BY <2>2, ReadRings DEF RqReadPacket, IInv, TypeOK, RingsPlaced
  <2> QED
    BY <2>1, <2>2
<1>4. /\ last_tx_failed' \in {"ok", "failed", "pending"} /\ radio' \in RadioType
  BY DEF RqReadPacket, IInv, TypeOK
<1>5. intMsg' \in StatusType
  BY <1>3, <1>4, StatusFieldsType DEF RqReadPacket, post_interrupt_message, Status
<1> QED
  BY <1>2, <1>3, <1>5 DEF RqReadPacket, IInv, TypeOK, Phase

LEMMA SetupOutStep ==
  ASSUME IInv, NEW rq \in Request, SetupOut(rq)
  PROVE  IInv'
  BY QuietStep DEF SetupOut, IInv, TypeOK, Phase, history

LEMMA WriteOpenPipeStep ==
  ASSUME IInv, WriteOpenPipe
  PROVE  IInv'
<1>1. radio' \in RadioType
  <2>1. NoPacket \in Packet
    BY DEF NoPacket, Packet
  <2> QED
    BY <2>1, RadioCallsType DEF WriteOpenPipe, IInv, TypeOK
<1>2. cb' \in RingType /\ acb' \in RingType /\ UNCHANGED ring
  BY DEF WriteOpenPipe, IInv, TypeOK, ring
<1>3. intMsg' \in StatusType
  BY <1>1, <1>2, StatusFieldsType DEF WriteOpenPipe, post_interrupt_message, Status
<1> QED
  BY <1>1, <1>2, <1>3, QuietStep DEF WriteOpenPipe, Complete, IInv, TypeOK, Phase, history

LEMMA WriteConfigStep ==
  ASSUME IInv, WriteConfig
  PROVE  IInv'
<1>1. radio' \in RadioType
  BY RadioFlushedType DEF WriteConfig, IInv, TypeOK
<1>2. cb' \in RingType /\ acb' \in RingType /\ RingsPlaced'
  <2> DEFINE ack == request.ack_payloads
             n == IF ack THEN Half ELSE HW_BUFFER_SIZE
             none == 0
  <2>1. /\ cb \in RingType /\ acb \in RingType
        /\ acb.start < Half /\ acb.elems \in {0, Half}
    BY DEF IInv, TypeOK, RingsPlaced
  <2>2. /\ HW_BUFFER_SIZE \in Nat /\ HW_BUFFER_SIZE > 0
        /\ Half \in 0..HW_BUFFER_SIZE-1 /\ Half \in 0..HW_BUFFER_SIZE
        /\ n \in 0..HW_BUFFER_SIZE
        /\ none \in 0..HW_BUFFER_SIZE-1 /\ none \in 0..HW_BUFFER_SIZE
    BY HalfOfPool, HwBufferAssumption
  <2>3. cb' = Resize(cb, n, none)
    BY DEF WriteConfig, ResizedCb, Half
  <2>z. none = 0
    OBVIOUS
  <2> HIDE DEF n, none
  <2>4. cb' \in RingType /\ cb'.elems = none /\ cb'.count = 0 /\ cb'.size = n
    <3>1. cb \in RingType /\ n \in 0..HW_BUFFER_SIZE /\ none \in 0..HW_BUFFER_SIZE-1
      BY <2>1, <2>2
    <3>2. /\ Resize(cb, n, none) \in RingType
          /\ Resize(cb, n, none).size = n /\ Resize(cb, n, none).elems = none
          /\ Resize(cb, n, none).count = 0 /\ Resize(cb, n, none).start = cb.start
      BY <3>1, ResizedType
    <3> QED
      BY <2>3, <3>2, Zenon
  <2>5. /\ acb' \in RingType /\ acb'.elems \in {0, Half} /\ acb'.size \in {0, Half}
        /\ acb'.count = 0 /\ acb'.start = acb.start
    <3>1. CASE ack
      <4>1. acb' = Resize(acb, Half, Half)
        BY <3>1 DEF WriteConfig, ResizedAcb, Half
      <4>2. /\ Resize(acb, Half, Half) \in RingType
            /\ Resize(acb, Half, Half).size = Half /\ Resize(acb, Half, Half).elems = Half
            /\ Resize(acb, Half, Half).count = 0 /\ Resize(acb, Half, Half).start = acb.start
        BY <2>1, <2>2, ResizedType
      <4>3. /\ acb' \in RingType /\ acb'.elems = Half /\ acb'.size = Half
            /\ acb'.count = 0 /\ acb'.start = acb.start
        BY <4>1, <4>2, Zenon
      <4> QED
        BY <4>3
    <3>2. CASE ~ack
      <4> DEFINE e == acb.elems
      <4>1. acb' = Resize(acb, none, e)
        BY <2>z, <3>2 DEF WriteConfig, ResizedAcb
      <4>2. acb \in RingType /\ e \in 0..HW_BUFFER_SIZE-1 /\ e \in {0, Half}
        BY <2>1 DEF RingType
      <4>3. none \in 0..HW_BUFFER_SIZE
        BY <2>2
      <4> HIDE DEF e
      <4>4. /\ Resize(acb, none, e) \in RingType
            /\ Resize(acb, none, e).size = none /\ Resize(acb, none, e).elems = e
            /\ Resize(acb, none, e).count = 0 /\ Resize(acb, none, e).start = acb.start
        BY <4>2, <4>3, ResizedType
      <4>5. /\ acb' \in RingType /\ acb'.elems = e /\ acb'.size = none
            /\ acb'.count = 0 /\ acb'.start = acb.start
        BY <4>1, <4>4, Zenon
      <4> QED
        BY <2>z, <4>2, <4>5
    <3> QED
      BY <3>1, <3>2
  <2> QED
    BY <2>1, <2>2, <2>z, <2>4, <2>5 DEF RingsPlaced
<1>3. Status' \in StatusType
  BY <1>1, <1>2, StatusFieldsType DEF WriteConfig, Status
<1>4. intMsg' \in StatusType
  BY <1>3 DEF WriteConfig, IInv, TypeOK, StatusType, RingType
<1> QED
  BY <1>1, <1>2, <1>4 DEF WriteConfig, Complete, IInv, TypeOK, Phase, history

LEMMA WritePacketStep ==
  ASSUME IInv, WritePacket
  PROVE  IInv'
<1>1. request.packet \in Packet
  BY DEF WritePacket, Complete, IInv, TypeOK, Request, NoRequest
<1>2. cb' \in RingType /\ acb' \in RingType /\ RingsPlaced'
  <2>1. CASE system_state = "READ"
    BY <2>1, SlotOfAcb DEF WritePacket, WriteRing, IInv, TypeOK, RingsPlaced
  <2>2. CASE system_state # "READ"
    BY <2>2, SlotOfCb DEF WritePacket, WriteRing, IInv, TypeOK, RingsPlaced
  <2> QED
    BY <2>1, <2>2
<1>3. pcks' \in [0..HW_BUFFER_SIZE-1 -> Packet] /\ written' \in Seq(Packet)
  <2>1. pcks' \in [0..HW_BUFFER_SIZE-1 -> Packet]
    BY <1>1 DEF WritePacket, IInv, TypeOK
  <2>2. written' = written \/ written' = Append(written, request.packet)
    <3>1. CASE system_state = "READ"
      BY <3>1 DEF WritePacket
    <3>2. CASE system_state # "READ"
      BY <3>2 DEF WritePacket
    <3> QED
      BY <3>1, <3>2
  <2>3. written' \in Seq(Packet)
    <3>1. written \in Seq(Packet)
      BY DEF IInv, TypeOK
    <3>2. \A p \in Packet : Append(written, p) \in Seq(Packet)
      BY <3>1
    <3> QED
      BY <1>1, <2>2, <3>1, <3>2
  <2> QED
    BY <2>1, <2>3
<1>4. radio' \in RadioType /\ last_tx_failed' \in {"ok", "failed", "pending"}
  BY DEF WritePacket, IInv, TypeOK
<1>5. intMsg' \in StatusType
  BY <1>2, <1>4, StatusFieldsType DEF WritePacket, post_interrupt_message, Status
<1> QED
  BY <1>2, <1>3, <1>4, <1>5 DEF WritePacket, Complete, IInv, TypeOK, Phase

LEMMA ReadMoveStep ==
  ASSUME IInv, ReadMove
  PROVE  IInv'
<1>1. HasSlots(cb)
  BY DEF ReadMove, cb_is_full, HasSlots, IInv, TypeOK, RingsPlaced, RingType
<1>2. cb' \in RingType /\ acb' \in RingType /\ RingsPlaced'
  BY <1>1, SlotOfCb DEF ReadMove, IInv, TypeOK, RingsPlaced
<1>3. Head(radio.rx) \in Packet /\ radio' \in RadioType
  BY RadioTakesHeadType DEF ReadMove, rf24_available, IInv, TypeOK
<1>4. pcks' \in [0..HW_BUFFER_SIZE-1 -> Packet]
  BY <1>3 DEF ReadMove, IInv, TypeOK
<1> QED
  BY <1>2, <1>3, <1>4 DEF ReadMove, IInv, TypeOK, usb, history

LEMMA StreamFinishStep ==
  ASSUME IInv, StreamFinish
  PROVE  IInv'
<1>1. /\ rf24_what_happened(radio) \in RadioType
      /\ rf24_flush_tx(rf24_what_happened(radio)) \in RadioType
  <2>1. NoPacket \in Packet
    BY DEF NoPacket, Packet
  <2> QED
    BY <2>1, RadioCallsType DEF IInv, TypeOK
<1>2. radio' \in RadioType /\ last_tx_failed' \in {"ok", "failed", "pending"}
  BY <1>1 DEF StreamFinish
<1>3. cb' \in RingType /\ acb' \in RingType /\ RingsPlaced'
  BY ReadRings DEF StreamFinish, IInv, TypeOK, RingsPlaced
<1>4. Status' \in StatusType
  BY <1>2, <1>3, StatusFieldsType DEF Status
<1>5. cb.count \in 0..HW_BUFFER_SIZE /\ rf24_tx_empty(rf24_what_happened(radio)) \in BOOLEAN
  BY DEF IInv, TypeOK, RingType, rf24_tx_empty
<1>6. intMsg' \in StatusType
  BY <1>4, <1>5 DEF StreamFinish, StatusType
<1> QED
  BY <1>2, <1>3, <1>6 DEF StreamFinish, IInv, TypeOK, Phase, history

LEMMA StreamStartStep ==
  ASSUME IInv, StreamStart
  PROVE  IInv'
<1>1. pcks[Oldest(cb)] \in Packet
  BY DEF Oldest, IInv, TypeOK, RingsPlaced, RingType
<1>2. radio' \in RadioType
  BY <1>1, RadioCallsType DEF StreamStart, rf24_start_write, IInv, TypeOK
<1> QED
  BY <1>2, QuietStep DEF StreamStart, EndProcess, IInv, TypeOK, Phase, usb, history

LEMMA BulkPushStep ==
  ASSUME IInv, BulkPush
  PROVE  IInv'
<1>1. pcks[Oldest(cb)] \in Packet
  BY DEF Oldest, IInv, TypeOK, RingsPlaced, RingType
<1>2. radio' \in RadioType
  BY <1>1, RadioCallsType DEF BulkPush, IInv, TypeOK
<1>3. cb' \in RingType /\ acb' \in RingType /\ RingsPlaced'
  BY ReadRings DEF BulkPush, IInv, TypeOK, RingsPlaced
<1> QED
  BY <1>2, <1>3 DEF BulkPush, IInv, TypeOK, usb, history

LEMMA BulkRetryStep ==
  ASSUME IInv, BulkRetry
  PROVE  IInv'
<1>1. radio' \in RadioType
  <2>1. NoPacket \in Packet
    BY DEF NoPacket, Packet
  <2> QED
    BY <2>1, RadioCallsType DEF BulkRetry, IInv, TypeOK
<1> QED
  BY <1>1, QuietStep DEF BulkRetry, EndProcess, IInv, TypeOK, Phase, usb, history

LEMMA MainPostStep ==
  ASSUME IInv, MainPost
  PROVE  IInv'
<1>1. /\ cb' \in RingType /\ acb' \in RingType /\ radio' \in RadioType
      /\ last_tx_failed' \in {"ok", "failed", "pending"} /\ UNCHANGED ring
  BY DEF MainPost, IInv, TypeOK, ring
<1>2. Status' \in StatusType
  BY <1>1, StatusFieldsType DEF Status
<1>3. intMsg' \in StatusType \cup {NoMessage}
  BY <1>2 DEF MainPost, post_interrupt_message, IInv, TypeOK
<1> QED
  BY <1>1, <1>3, QuietStep DEF MainPost, IInv, TypeOK, Phase, history

LEMMA EnvironmentStep ==
  ASSUME IInv, Environment \/ RadioReceives
  PROVE  IInv'
<1>1. CASE HostTakesInterrupt
  BY <1>1, QuietStep DEF HostTakesInterrupt, firmware, IInv, TypeOK, history
<1>2. CASE RadioAcknowledged
  <2>1. Head(radio.tx) \in Packet /\ radio' \in RadioType
    BY <1>2, RadioTakesHeadType DEF RadioAcknowledged, MaySend, IInv, TypeOK
  <2>2. air' \in Seq(Packet)
    BY <1>2, <2>1 DEF RadioAcknowledged, IInv, TypeOK
  <2> QED
    BY <1>2, <2>1, <2>2, QuietStep DEF RadioAcknowledged, firmware, IInv, TypeOK
<1>3. CASE RadioUnanswered
  <2>1. Head(radio.tx) \in Packet /\ radio' \in RadioType
    BY <1>3, RadioTakesHeadType DEF RadioUnanswered, MaySend, IInv, TypeOK
  <2>2. air' \in Seq(Packet)
    BY <1>3, <2>1 DEF RadioUnanswered, IInv, TypeOK
  <2> QED
    BY <1>3, <2>1, <2>2, QuietStep DEF RadioUnanswered, firmware, IInv, TypeOK
<1>4. CASE RadioReceives
  <2> DEFINE p == <<0, Len(arrived) + 1>>
  <2>1. p \in Packet
    BY DEF Packet, IInv, TypeOK
  <2>2. radio' = Received(radio, p) /\ arrived' = Append(arrived, p)
    BY <1>4 DEF RadioReceives
  <2> HIDE DEF p
  <2>3. radio' \in RadioType
    BY <2>1, <2>2, RadioCallsType DEF IInv, TypeOK
  <2>4. arrived' \in Seq(Packet)
    BY <2>1, <2>2 DEF IInv, TypeOK
  <2> QED
    BY <1>4, <2>3, <2>4 DEF RadioReceives, firmware, ring, IInv, TypeOK, RingsPlaced
<1> QED
  BY <1>1, <1>2, <1>3, <1>4 DEF Environment

-----------------------------------------------------------------------------
(***************************************************************************)
(* The theorems.                                                           *)
(***************************************************************************)
LEMMA IInvInit == Init => IInv
<1> SUFFICES ASSUME Init PROVE IInv
  OBVIOUS
<1>1. NoPacket \in Packet
  BY DEF NoPacket, Packet
<1>2. <<>> \in Seq(Packet)
  OBVIOUS
<1>3. radio \in RadioType
  BY <1>2 DEF Init, usb_init, rf24_flush_rx, rf24_flush_tx, rf24_stop_listening,
                  RadioReset, RadioType
<1>4. cb \in RingType /\ acb \in RingType
  BY HwBufferAssumption DEF Init, Ring, RingType
<1>5. RingsPlaced
  BY HalfOfPool, HwBufferAssumption DEF Init, Ring, RingsPlaced
<1>6. pcks \in [0..HW_BUFFER_SIZE-1 -> Packet]
  BY <1>1 DEF Init
<1> QED
  BY <1>2, <1>3, <1>4, <1>5, <1>6 DEF Init, IInv, TypeOK, Mode, Phase

LEMMA HostSendsStep ==
  ASSUME IInv, HostSends
  PROVE  IInv'
<1>1. ASSUME NEW m \in Mode, RqMode([rq |-> "RQ_MODE", mode |-> m])
      PROVE  IInv'
  BY <1>1, RqModeStep
<1>2. ASSUME NEW ack \in AckModes,
             SetupOut([rq |-> "RQ_CONFIG", ack_payloads |-> ack])
      PROVE  IInv'
  <2>1. [rq |-> "RQ_CONFIG", ack_payloads |-> ack] \in Request
    BY DEF Request
  <2> QED
    BY <1>2, <2>1, SetupOutStep
<1>3. ASSUME NEW r \in {"RQ_OPEN_PIPE", "RQ_READ", "RQ_SWEEP", "RQ_FLUSH", "RQ_SYNC", "RQ_NOP"},
             Setup([rq |-> r])
      PROVE  IInv'
  <2> DEFINE q == [rq |-> r]
  <2>1. q \in Request /\ q.rq # "RQ_MODE"
    BY DEF Request
  <2> HIDE DEF q
  <2>2. CASE RqReadNothing(q)
    BY <2>2, ControlStep DEF RqReadNothing, Phase
  <2>3. CASE RqReadPacket(q)
    BY <2>3, RqReadPacketStep
  <2>4. CASE RqFlush(q)
    BY <2>4, RqFlushStep
  <2>5. CASE RqAnswerOnly(q)
    BY <2>5, ControlStep DEF RqAnswerOnly, Phase
  <2>6. CASE RqSync(q)
    BY <2>6, ControlStep DEF RqSync, Phase
  <2>7. CASE SetupOut(q)
    BY <2>1, <2>7, SetupOutStep
  <2> QED
    BY <1>3, <2>1, <2>2, <2>3, <2>4, <2>5, <2>6, <2>7 DEF Setup, RqMode, q
<1>4. CASE HostWrites
  <2>1. AckPacket \in Packet /\ <<1, Len(written) + 1>> \in Packet
    BY DEF AckPacket, Packet, IInv, TypeOK
  <2>2. PICK p \in Packet : SetupOut([rq |-> "RQ_WRITE", packet |-> p])
    BY <1>4, <2>1 DEF HostWrites
  <2>3. [rq |-> "RQ_WRITE", packet |-> p] \in Request
    BY DEF Request
  <2> QED
    BY <2>2, <2>3, SetupOutStep
<1> QED
  BY <1>1, <1>2, <1>3, <1>4 DEF HostSends

\* Any request that is set up.
LEMMA SetupStep ==
  ASSUME IInv, NEW rq \in Request, Setup(rq)
  PROVE  IInv'
<1>1. CASE RqMode(rq)
  <2>1. PICK m \in Mode : rq = [rq |-> "RQ_MODE", mode |-> m]
    BY <1>1 DEF RqMode, Request
  <2> QED
    BY <1>1, <2>1, RqModeStep
<1>2. CASE RqReadNothing(rq) \/ RqAnswerOnly(rq) \/ RqSync(rq)
  BY <1>2, ControlStep DEF RqReadNothing, RqAnswerOnly, RqSync, Phase
<1> QED
  BY <1>1, <1>2, RqReadPacketStep, RqFlushStep, SetupOutStep DEF Setup

LEMMA MainLoopStep ==
  ASSUME IInv, MainLoop
  PROVE  IInv'
<1>1. CASE PollNothing \/ SyncTurn \/ SyncReturn \/ IdleWork \/ ReadWorkDone \/ StreamWait
  BY <1>1, ControlStep
     DEF PollNothing, SyncTurn, SyncReturn, IdleWork, ReadWorkDone, StreamWait, EndProcess, Phase
<1> QED
  BY <1>1, ReadMoveStep, StreamFinishStep, StreamStartStep, BulkPushStep, BulkRetryStep,
     MainPostStep DEF MainLoop, ProcessRadio

LEMMA IInvNext == IInv /\ [Next]_vars => IInv'
<1> SUFFICES ASSUME IInv, [Next]_vars PROVE IInv'
  OBVIOUS
<1>1. CASE HostSends
  BY <1>1, HostSendsStep
<1>2. CASE Data
  <2>1. CASE WriteHangs
    BY <2>1, QuietStep DEF WriteHangs, Complete, IInv, TypeOK, Phase, history
  <2> QED
    BY <1>2, <2>1, WriteOpenPipeStep, WriteConfigStep, WritePacketStep DEF Data
<1>3. CASE MainLoop
  BY <1>3, MainLoopStep
<1>4. CASE Environment
  BY <1>4, EnvironmentStep
<1>5. CASE UNCHANGED vars
  BY <1>5, ControlStep DEF vars, IInv, TypeOK
<1> QED
  BY <1>1, <1>2, <1>3, <1>4, <1>5 DEF Next

LEMMA IInvAlways == Spec => []IInv
  BY IInvInit, IInvNext, PTL DEF Spec

\* The variables of uisp-app.c keep their types: counts never exceed the pool,
\* a primed message is always a real status, whatever the host sends.
THEOREM TypeCorrect == Spec => []TypeOK
<1>1. IInv => TypeOK
  BY DEF IInv
<1> QED
  BY <1>1, IInvAlways, PTL

\* The firmware never touches memory outside pcks[], although cb.c checks no
\* index and RQ_CONFIG resizes rings without resetting their start.
THEOREM MemorySafe == Spec => []SlotsInPool
<1>1. IInv => SlotsInPool
  <2> SUFFICES ASSUME IInv PROVE SlotsInPool
    OBVIOUS
  <2>1. DOMAIN pcks = 0..HW_BUFFER_SIZE-1
    BY DEF IInv, TypeOK
  <2>2. /\ cb.count <= cb.size /\ acb.count <= acb.size
        /\ Oldest(cb) \in DOMAIN pcks /\ Oldest(acb) \in DOMAIN pcks
    BY <2>1, OldestInPool DEF IInv, RingsPlaced
  <2> QED
    BY <2>1, <2>2, SlotOfCb, SlotOfAcb DEF SlotsInPool
<1> QED
  BY <1>1, IInvAlways, PTL

-----------------------------------------------------------------------------
(***************************************************************************)
(* The dongle as two queues.  The rings share the pool without touching    *)
(* each other, a posted status never promises too much room, the packet in *)
(* the air is the head of the ring, and both directions implement          *)
(* PacketPipe.                                                             *)
(*                                                                         *)
(* All of it needs a host that stays with one value of ack_payloads:        *)
(* RQ_CONFIG leaves start alone, so a ring that shrinks may keep a start    *)
(* outside itself, and the first cb_read then looks at a slot of the other  *)
(* ring.  The direction to the air also needs a host that keeps its credit. *)
(***************************************************************************)
OneAckMode == \A a, b \in AckModes : a = b

-----------------------------------------------------------------------------
(***************************************************************************)
(* Queues.                                                                 *)
(***************************************************************************)

\* A queue in two parts: what goes in at the back, out at the front, or from
\* the back part into the front part.
LEMMA ConcatFront ==
  ASSUME NEW V, NEW s \in Seq(V), NEW t \in Seq(V), s # <<>>
  PROVE  s \o t # <<>> /\ Head(s \o t) = Head(s) /\ Tail(s \o t) = Tail(s) \o t
<1>1. /\ s \o t \in Seq(V) /\ Len(s \o t) = Len(s) + Len(t)
      /\ \A i \in 1 .. Len(s) + Len(t) :
           (s \o t)[i] = IF i <= Len(s) THEN s[i] ELSE t[i - Len(s)]
  BY ConcatProperties
<1>2. Len(s) \in Nat /\ Len(t) \in Nat /\ Len(s) > 0
  BY EmptySeq, LenProperties
<1>3. s \o t # <<>>
  BY <1>1, <1>2, EmptySeq
<1>4. /\ Tail(s) \in Seq(V) /\ Len(Tail(s)) = Len(s) - 1
      /\ \A i \in 1..Len(Tail(s)) : Tail(s)[i] = s[i + 1]
  BY HeadTailProperties
<1>5. /\ Tail(s \o t) \in Seq(V) /\ Len(Tail(s \o t)) = Len(s \o t) - 1
      /\ \A i \in 1..Len(Tail(s \o t)) : Tail(s \o t)[i] = (s \o t)[i + 1]
  BY <1>1, <1>3, HeadTailProperties
<1>6. /\ Tail(s) \o t \in Seq(V) /\ Len(Tail(s) \o t) = Len(Tail(s)) + Len(t)
      /\ \A i \in 1 .. Len(Tail(s)) + Len(t) :
           (Tail(s) \o t)[i] = IF i <= Len(Tail(s)) THEN Tail(s)[i] ELSE t[i - Len(Tail(s))]
  BY <1>4, ConcatProperties
<1>7. Head(s \o t) = Head(s)
  BY <1>1, <1>2, <1>3
<1>8. \A i \in 1..Len(Tail(s \o t)) : Tail(s \o t)[i] = (Tail(s) \o t)[i]
  <2> TAKE i \in 1..Len(Tail(s \o t))
  <2>1. /\ i + 1 \in 1..Len(s) + Len(t) /\ i \in 1..Len(Tail(s)) + Len(t)
        /\ i \in Nat
    BY <1>1, <1>2, <1>4, <1>5
  <2>2. Tail(s \o t)[i] = IF i + 1 <= Len(s) THEN s[i + 1] ELSE t[i + 1 - Len(s)]
    BY <1>1, <1>5, <2>1
  <2>3. CASE i + 1 <= Len(s)
    BY <1>2, <1>4, <1>6, <2>1, <2>2, <2>3
  <2>4. CASE ~(i + 1 <= Len(s))
    <3>1. i + 1 - Len(s) = i - Len(Tail(s)) /\ ~(i <= Len(Tail(s)))
      BY <1>2, <1>4, <2>1, <2>4
    <3> QED
      BY <1>6, <2>1, <2>2, <2>4, <3>1
  <2> QED
    BY <2>3, <2>4
<1>9. Len(Tail(s \o t)) = Len(Tail(s) \o t)
  BY <1>1, <1>2, <1>4, <1>5, <1>6
<1>10. Tail(s \o t) = Tail(s) \o t
  BY <1>5, <1>6, <1>8, <1>9, SeqEqual
<1> QED
  BY <1>3, <1>7, <1>10

LEMMA ConcatBack ==
  ASSUME NEW V, NEW s \in Seq(V), NEW t \in Seq(V), NEW e \in V
  PROVE  s \o Append(t, e) = Append(s \o t, e)
<1>1. <<e>> \in Seq(V) /\ s \o t \in Seq(V)
  BY ConcatProperties
<1>2. Append(t, e) = t \o <<e>> /\ Append(s \o t, e) = (s \o t) \o <<e>>
  BY <1>1, AppendIsConcat
<1>3. (s \o t) \o <<e>> = s \o (t \o <<e>>)
  BY <1>1, ConcatAssociative
<1> QED
  BY <1>2, <1>3, Zenon

LEMMA ConcatMove ==
  ASSUME NEW V, NEW s \in Seq(V), NEW t \in Seq(V), t # <<>>
  PROVE  Append(s, Head(t)) \o Tail(t) = s \o t
<1>1. Head(t) \in V /\ Tail(t) \in Seq(V) /\ Len(t) \in Nat /\ Len(t) > 0
  BY HeadTailProperties, EmptySeq, LenProperties
<1>2. <<Head(t)>> \in Seq(V)
  BY <1>1
<1>3. Append(s, Head(t)) = s \o <<Head(t)>>
  BY <1>1, AppendIsConcat
<1>4. (s \o <<Head(t)>>) \o Tail(t) = s \o (<<Head(t)>> \o Tail(t))
  BY <1>1, <1>2, ConcatAssociative
<1>5. t = <<Head(t)>> \o Tail(t)
  <2>1. SubSeq(t, 1, Len(t)) = t
    BY SubSeqFull
  <2>2. SubSeq(t, 1, Len(t)) = <<t[1]>> \o SubSeq(t, 2, Len(t))
    <3>1. 1 \in 1..Len(t) /\ Len(t) \in 1..Len(t)
      BY <1>1
    <3>2. SubSeq(t, 1, Len(t)) = <<t[1]>> \o SubSeq(t, 1 + 1, Len(t))
      BY <3>1, SubSeqRecursiveFirst
    <3> QED
      BY <3>2
  <2>3. Tail(t) = SubSeq(t, 2, Len(t)) /\ Head(t) = t[1]
    BY TailIsSubSeq
  <2> QED
    BY <2>1, <2>2, <2>3
<1> QED
  BY <1>3, <1>4, <1>5, Zenon

-----------------------------------------------------------------------------
(***************************************************************************)
(* The invariant.                                                          *)
(***************************************************************************)
RingSize(ack) == IF ack THEN Half ELSE HW_BUFFER_SIZE

\* A ring that has slots has its start in it; with slots in both rings each
\* keeps to its half of the pool.
RingsFit ==
  /\ cb.size = 0 => cb.start = 0
  /\ cb.size > 0 => cb.start < cb.size /\ \E ack \in AckModes : cb.size = RingSize(ack)
  /\ acb.size > 0 => cb.size = Half /\ acb.elems = Half

\* The radio listens, and acb holds packets, in read mode only.
ReadOnly ==
  /\ radio.listening => system_state = "READ"
  /\ acb.count > 0 => system_state = "READ"

PostedFits == intMsg # NoMessage => intMsg.cb_size <= cb.size

RInv == IInv /\ RingsFit /\ ReadOnly /\ PostedFits /\ PostedCreditSound

\* A packet whose RQ_WRITE was announced still has its room; a host that keeps its
\* credit sees to that.
WriteFits == request.rq = "RQ_WRITE" => HasSlots(WriteRing) /\ ~cb_is_full(WriteRing)
RoomKept ==
  (HostKeepsCredit /\ request.rq = "RQ_WRITE") =>
     HasSlots(WriteRing) /\ ~cb_is_full(WriteRing)

\* While stream mode writes, the FIFO holds the head of cb until it is sent;
\* outside of that and of bulk mode it holds nothing.
StreamState ==
  /\ writing => /\ system_state = "WRITE_STREAM" /\ cb.count > 0
                /\ radio.tx = IF radio.tx_ds THEN <<>> ELSE <<pcks[Oldest(cb)]>>
  /\ ~writing /\ system_state # "WRITE_BULK" => radio.tx = <<>>
  /\ radio.seen => radio.tx # <<>>

FInv == RInv /\ RoomKept /\ StreamState

-----------------------------------------------------------------------------
(***************************************************************************)
(* The steps, the ones that matter here each under its name.               *)
(***************************************************************************)

\* A step that at most moves on in the main loop.
Quiet == UNCHANGED <<system_state, writing, last_tx_failed, ring, usb, radio, history>>

\* A request is noted, or dropped; a write is announced to a ring with room.
Notes ==
  /\ UNCHANGED <<system_state, writing, ring, intMsg, radio, history>>
  /\ (HostKeepsCredit /\ request'.rq = "RQ_WRITE") =>
        HasSlots(WriteRing) /\ ~cb_is_full(WriteRing)

Steps ==
  \/ Quiet \/ Notes
  \/ \E m \in Mode : RqMode([rq |-> "RQ_MODE", mode |-> m])
  \/ RqReadPacket([rq |-> "RQ_READ"]) \/ RqFlush([rq |-> "RQ_FLUSH"])
  \/ WriteOpenPipe \/ WriteConfig \/ WritePacket
  \/ ReadMove \/ StreamFinish \/ StreamStart \/ BulkPush \/ BulkRetry \/ MainPost
  \/ HostTakesInterrupt \/ RadioAcknowledged \/ RadioUnanswered \/ RadioReceives

LEMMA SetupSteps ==
  ASSUME NEW r \in {"RQ_OPEN_PIPE", "RQ_READ", "RQ_SWEEP", "RQ_FLUSH", "RQ_SYNC", "RQ_NOP"},
         Setup([rq |-> r])
  PROVE  Steps
<1> DEFINE q == [rq |-> r]
<1>1. q.rq = r /\ (r = "RQ_READ" => q = [rq |-> "RQ_READ"])
      /\ (r = "RQ_FLUSH" => q = [rq |-> "RQ_FLUSH"])
  OBVIOUS
<1> HIDE DEF q
<1>2. Setup(q)
  BY DEF q
<1>3. CASE RqMode(q)
  BY <1>1, <1>3 DEF RqMode
<1>4. CASE RqReadNothing(q) \/ RqAnswerOnly(q) \/ RqSync(q)
  BY <1>4 DEF RqReadNothing, RqAnswerOnly, RqSync, Steps, Quiet
<1>5. CASE RqReadPacket(q)
  <2>1. r = "RQ_READ"
    BY <1>1, <1>5 DEF RqReadPacket
  <2> QED
    BY <1>1, <1>5, <2>1 DEF Steps
<1>6. CASE RqFlush(q)
  <2>1. r = "RQ_FLUSH"
    BY <1>1, <1>6 DEF RqFlush
  <2> QED
    BY <1>1, <1>6, <2>1 DEF Steps
<1>7. CASE SetupOut(q)
  <2>1. request' = q /\ q.rq # "RQ_WRITE"
    BY <1>1, <1>7 DEF SetupOut
  <2> QED
    BY <1>7, <2>1 DEF SetupOut, Steps, Notes
<1> QED
  BY <1>2, <1>3, <1>4, <1>5, <1>6, <1>7 DEF Setup

\* Any request that is set up, for a host that does not keep its credit.
LEMMA SetupOfAnyHost ==
  ASSUME ~HostKeepsCredit, NEW rq \in Request, Setup(rq)
  PROVE  Steps
<1>1. CASE RqMode(rq)
  <2>1. PICK m \in Mode : rq = [rq |-> "RQ_MODE", mode |-> m]
    BY <1>1 DEF RqMode, Request
  <2> QED
    BY <1>1, <2>1 DEF Steps
<1>2. CASE RqReadNothing(rq) \/ RqAnswerOnly(rq) \/ RqSync(rq)
  BY <1>2 DEF RqReadNothing, RqAnswerOnly, RqSync, Steps, Quiet
<1>3. CASE RqReadPacket(rq)
  BY <1>3 DEF RqReadPacket, MayServe, Steps
<1>4. CASE RqFlush(rq)
  BY <1>4 DEF RqFlush, MayServe, Steps
<1>5. CASE SetupOut(rq)
  BY <1>5 DEF SetupOut, Steps, Notes
<1> QED
  BY <1>1, <1>2, <1>3, <1>4, <1>5 DEF Setup

LEMMA NextSteps == [Next]_vars => Steps
<1> SUFFICES ASSUME [Next]_vars PROVE Steps
  OBVIOUS
<1>1. CASE HostSends
  <2>1. ASSUME NEW ack \in AckModes,
               SetupOut([rq |-> "RQ_CONFIG", ack_payloads |-> ack])
        PROVE  Steps
    <3>1. request'.rq # "RQ_WRITE"
      BY <2>1 DEF SetupOut
    <3> QED
      BY <2>1, <3>1 DEF SetupOut, Steps, Notes
  <2>2. CASE HostWrites
    BY <2>2 DEF HostWrites, SetupOut, Steps, Notes
  <2>3. ASSUME NEW m \in Mode, RqMode([rq |-> "RQ_MODE", mode |-> m])
        PROVE  Steps
    BY <2>3 DEF Steps
  <2> QED
    BY <1>1, <2>1, <2>2, <2>3, SetupSteps DEF HostSends
<1>2. CASE Data
  <2>1. CASE WriteHangs
    BY <2>1 DEF WriteHangs, Complete, NoRequest, Steps, Notes
  <2> QED
    BY <1>2, <2>1 DEF Data, Steps
<1>3. CASE MainLoop
  <2>1. CASE PollNothing \/ SyncTurn \/ SyncReturn
    BY <2>1 DEF PollNothing, SyncTurn, SyncReturn, Steps, Quiet
  <2>2. CASE IdleWork \/ ReadWorkDone \/ StreamWait
    BY <2>2 DEF IdleWork, ReadWorkDone, StreamWait, Steps, Quiet
  <2> QED
    BY <1>3, <2>1, <2>2 DEF MainLoop, ProcessRadio, Steps
<1>4. CASE Environment
  BY <1>4 DEF Environment, Steps
<1>5. CASE UNCHANGED vars
  BY <1>5 DEF vars, Steps, Quiet
<1> QED
  BY <1>1, <1>2, <1>3, <1>4, <1>5 DEF Next

-----------------------------------------------------------------------------
(***************************************************************************)
(* The rings keep to their places.                                         *)
(***************************************************************************)

\* What a step does to the rings.
RingMoves ==
  \/ UNCHANGED <<cb, acb>>
  \/ cb' = cb_flush(cb) /\ acb' = cb_flush(acb)
  \/ cb' = cb_read(cb) /\ UNCHANGED acb
  \/ acb' = cb_read(acb) /\ UNCHANGED cb
  \/ HasSlots(cb) /\ cb' = cb_get_slot(cb) /\ UNCHANGED acb
  \/ HasSlots(acb) /\ acb' = cb_get_slot(acb) /\ UNCHANGED cb
  \/ WriteConfig

LEMMA StepMovesRings ==
  ASSUME IInv, Steps
  PROVE  RingMoves
<1>1. CASE \/ Quiet \/ Notes \/ WriteOpenPipe \/ StreamStart \/ BulkRetry \/ MainPost
           \/ HostTakesInterrupt \/ RadioAcknowledged \/ RadioUnanswered \/ RadioReceives
  <2>1. UNCHANGED ring
    BY <1>1 DEF Quiet, Notes, WriteOpenPipe, StreamStart, BulkRetry, MainPost,
                HostTakesInterrupt, RadioAcknowledged, RadioUnanswered, RadioReceives, firmware
  <2> QED
    BY <2>1 DEF ring, RingMoves
<1>2. CASE ReadMove
  <2>1. HasSlots(cb)
    BY <1>2 DEF ReadMove, cb_is_full, HasSlots, IInv, TypeOK, RingsPlaced, RingType
  <2> QED
    BY <1>2, <2>1 DEF ReadMove, RingMoves
<1>3. CASE WritePacket
  <2>1. CASE system_state = "READ"
    BY <1>3, <2>1 DEF WritePacket, WriteRing, RingMoves
  <2>2. CASE system_state # "READ"
    BY <1>3, <2>2 DEF WritePacket, WriteRing, RingMoves
  <2> QED
    BY <2>1, <2>2
<1>4. CASE RqReadPacket([rq |-> "RQ_READ"])
  BY <1>4 DEF RqReadPacket, RingMoves
<1>5. CASE RqFlush([rq |-> "RQ_FLUSH"]) \/ \E m \in Mode : RqMode([rq |-> "RQ_MODE", mode |-> m])
  BY <1>5 DEF RqFlush, RqMode, RingMoves
<1>6. CASE StreamFinish \/ BulkPush \/ WriteConfig
  BY <1>6 DEF StreamFinish, BulkPush, RingMoves
<1> QED
  BY <1>1, <1>2, <1>3, <1>4, <1>5, <1>6 DEF Steps

\* A ring that fits the pool, moved by cb.c.
LEMMA RingMoved ==
  ASSUME NEW b \in RingType, b.count <= b.size, b.size > 0 => b.start < b.size
  PROVE  /\ cb_flush(b).size = b.size /\ cb_flush(b).elems = b.elems
         /\ cb_flush(b).start = b.start /\ cb_flush(b).count = 0
         /\ cb_read(b).size = b.size /\ cb_read(b).elems = b.elems
         /\ cb_read(b).count = IF b.count = 0 THEN 0 ELSE b.count - 1
         /\ b.size > 0 => cb_read(b).start < b.size
         /\ b.size = 0 => cb_read(b).start = b.start
<1>1. b \in RingIn(HW_BUFFER_SIZE)
  BY RingTypeIsRingIn, Zenon
<1>2. /\ cb_flush(b).size = b.size /\ cb_flush(b).elems = b.elems
      /\ cb_flush(b).start = b.start /\ cb_flush(b).count = 0
  BY <1>1, CbFlushType, HwBufferAssumption
<1>3. /\ cb_read(b).size = b.size /\ cb_read(b).elems = b.elems
      /\ cb_read(b).count = IF b.count = 0 THEN 0 ELSE b.count - 1
  BY <1>1, CbReadType, HwBufferAssumption
<1>4. (b.size > 0 => cb_read(b).start < b.size) /\ (b.size = 0 => cb_read(b).start = b.start)
  <2>1. CASE b.count = 0
    BY <2>1 DEF cb_read, cb_is_empty
  <2>2. CASE b.count # 0
    <3>1. b.size \in Nat /\ b.size > 0 /\ b.start + 1 \in Nat
      BY <1>1, <2>2 DEF RingIn
    <3>2. (b.start + 1) % b.size < b.size
      BY <3>1
    <3>3. cb_read(b).start = (b.start + 1) % b.size
      BY <1>1, <2>2 DEF cb_read, cb_is_empty, RingIn
    <3> QED
      BY <3>1, <3>2, <3>3
  <2> QED
    BY <2>1, <2>2
<1> QED
  BY <1>2, <1>3, <1>4

LEMMA RingGrown ==
  ASSUME NEW b \in RingType, b.count <= b.size, HasSlots(b), b.start < b.size
  PROVE  /\ cb_get_slot(b).size = b.size /\ cb_get_slot(b).elems = b.elems
         /\ cb_get_slot(b).start < b.size
<1>1. b \in RingIn(HW_BUFFER_SIZE)
  BY RingTypeIsRingIn, Zenon
<1>2. cb_get_slot(b).size = b.size /\ cb_get_slot(b).elems = b.elems
  BY <1>1, CbGetSlotType, HwBufferAssumption
<1> DEFINE r == MakeRoom(b)
<1>3. r \in RingIn(HW_BUFFER_SIZE) /\ r.start < b.size
  BY <1>1, CbReadType, RingMoved, HwBufferAssumption DEF MakeRoom, HasSlots
<1>4. cb_get_slot(b).start = r.start
  <2>1. cb_get_slot(b) = [r EXCEPT !.count = r.count + 1]
    BY DEF cb_get_slot
  <2> HIDE DEF r
  <2> QED
    BY <1>3, <2>1 DEF RingIn
<1> QED
  BY <1>2, <1>3, <1>4

\* RQ_CONFIG: both rings are empty and of the size of the mode.
LEMMA ConfigRings ==
  ASSUME IInv, WriteConfig
  PROVE  \E ack \in AckModes :
           /\ cb'.size = RingSize(ack) /\ cb'.count = 0 /\ cb'.start = cb.start
           /\ acb'.size > 0 => ack /\ acb'.elems = Half
           /\ acb'.count = 0
<1>1. request.ack_payloads \in AckModes
  BY DEF WriteConfig, Complete, IInv, TypeOK, Request, NoRequest
<1> DEFINE ack == request.ack_payloads
           n == RingSize(ack)
           none == 0
<1>2. /\ cb \in RingType /\ acb \in RingType /\ n \in 0..HW_BUFFER_SIZE
      /\ none \in 0..HW_BUFFER_SIZE-1 /\ none \in 0..HW_BUFFER_SIZE
      /\ Half \in 0..HW_BUFFER_SIZE-1 /\ Half \in 0..HW_BUFFER_SIZE
      /\ acb.elems \in 0..HW_BUFFER_SIZE-1
  BY HalfOfPool, HwBufferAssumption DEF RingSize, IInv, TypeOK, RingType
<1>3. cb' = Resize(cb, n, none)
  BY DEF WriteConfig, ResizedCb, Half, RingSize
<1>4. acb' = IF ack THEN Resize(acb, Half, Half) ELSE Resize(acb, none, acb.elems)
  BY DEF WriteConfig, ResizedAcb, Half
<1>z. none = 0
  OBVIOUS
<1> HIDE DEF ack, n, none
<1>5. /\ Resize(cb, n, none).size = n /\ Resize(cb, n, none).count = 0
      /\ Resize(cb, n, none).start = cb.start
  BY <1>2, ResizedType
<1>6. cb'.size = n /\ cb'.count = 0 /\ cb'.start = cb.start
  BY <1>3, <1>5, Zenon
<1>7. /\ Resize(acb, Half, Half).elems = Half /\ Resize(acb, Half, Half).count = 0
      /\ Resize(acb, none, acb.elems).size = none
      /\ Resize(acb, none, acb.elems).count = 0
  <2>1. Resize(acb, Half, Half).elems = Half /\ Resize(acb, Half, Half).count = 0
    BY <1>2, ResizedType
  <2> DEFINE e == acb.elems
  <2>2. acb \in RingType /\ e \in 0..HW_BUFFER_SIZE-1 /\ none \in 0..HW_BUFFER_SIZE
    BY <1>2
  <2> HIDE DEF e
  <2>3. Resize(acb, none, e).size = none /\ Resize(acb, none, e).count = 0
    BY <2>2, ResizedType
  <2> QED
    BY <2>1, <2>3 DEF e
<1>8. CASE ack
  <2>1. acb'.elems = Half /\ acb'.count = 0
    BY <1>4, <1>7, <1>8, Zenon
  <2> QED
    BY <1>1, <1>6, <1>8, <2>1, Zenon DEF n, ack
<1>9. CASE ~ack
  <2>1. acb'.size = none /\ acb'.count = 0
    BY <1>4, <1>7, <1>9, Zenon
  <2>2. ~(acb'.size > 0)
    BY <1>z, <2>1
  <2> QED
    BY <1>1, <1>6, <2>1, <2>2, Zenon DEF n, ack
<1> QED
  BY <1>8, <1>9

LEMMA RingsFitStep ==
  ASSUME OneAckMode, IInv, RingsFit, RingMoves
  PROVE  RingsFit' /\ (~WriteConfig => cb'.size = cb.size)
<1>1. /\ cb \in RingType /\ cb.count <= cb.size /\ cb.start \in Nat
      /\ cb.size \in Nat
      /\ cb.size > 0 => cb.start < cb.size
  BY DEF IInv, TypeOK, RingsPlaced, RingsFit, RingType
<1>2. /\ acb \in RingType /\ acb.count <= acb.size /\ acb.size \in Nat
      /\ acb.size > 0 => acb.start < acb.size
  BY HalfOfPool DEF IInv, TypeOK, RingsPlaced, RingType
<1>3. ASSUME cb'.size = cb.size, cb.size = 0 => cb'.start = cb.start,
             cb.size > 0 => cb'.start < cb.size,
             acb'.size = acb.size, acb'.elems = acb.elems
      PROVE  RingsFit'
  BY <1>3 DEF RingsFit
<1>4. CASE UNCHANGED <<cb, acb>>
  BY <1>4 DEF RingsFit
<1>5. CASE cb' = cb_flush(cb) /\ acb' = cb_flush(acb)
  <2>1. cb'.size = cb.size /\ cb'.start = cb.start /\ acb'.size = acb.size /\ acb'.elems = acb.elems
    BY <1>1, <1>2, <1>5, RingMoved, Zenon
  <2> QED
    BY <1>1, <1>3, <2>1
<1>6. CASE cb' = cb_read(cb) /\ UNCHANGED acb
  <2>1. /\ cb'.size = cb.size /\ (cb.size > 0 => cb'.start < cb.size)
        /\ (cb.size = 0 => cb'.start = cb.start)
    BY <1>1, <1>6, RingMoved, Zenon
  <2> QED
    BY <1>3, <1>6, <2>1
<1>7. CASE acb' = cb_read(acb) /\ UNCHANGED cb
  <2>1. acb'.size = acb.size /\ acb'.elems = acb.elems
    BY <1>2, <1>7, RingMoved, Zenon
  <2> QED
    BY <1>1, <1>3, <1>7, <2>1
<1>8. CASE HasSlots(cb) /\ cb' = cb_get_slot(cb) /\ UNCHANGED acb
  <2>1. cb.size > 0 /\ cb.start < cb.size
    BY <1>1, <1>8 DEF HasSlots
  <2>2. cb'.size = cb.size /\ cb'.start < cb.size
    BY <1>1, <1>8, <2>1, RingGrown, Zenon
  <2> QED
    BY <1>1, <1>3, <1>8, <2>1, <2>2
<1>9. CASE HasSlots(acb) /\ acb' = cb_get_slot(acb) /\ UNCHANGED cb
  <2>1. acb.size > 0 /\ acb.start < acb.size
    BY <1>2, <1>9 DEF HasSlots
  <2>2. acb'.size = acb.size /\ acb'.elems = acb.elems
    BY <1>2, <1>9, <2>1, RingGrown, Zenon
  <2> QED
    BY <1>1, <1>3, <1>9, <2>2
<1>10. CASE WriteConfig
  <2>1. PICK ack \in AckModes :
           /\ cb'.size = RingSize(ack) /\ cb'.count = 0 /\ cb'.start = cb.start
           /\ acb'.size > 0 => ack /\ acb'.elems = Half
           /\ acb'.count = 0
    BY <1>10, ConfigRings
  <2>2. RingSize(ack) \in Nat /\ RingSize(ack) > 0
    BY HalfOfPool, HwBufferAssumption DEF RingSize
  <2>3. cb.size > 0 => cb.size = RingSize(ack)
    BY DEF RingsFit, OneAckMode
  <2>4. cb.start < RingSize(ack)
    BY <1>1, <2>2, <2>3 DEF RingsFit
  <2>5. ack => RingSize(ack) = Half
    BY DEF RingSize
  <2> QED
    BY <1>10, <2>1, <2>2, <2>4, <2>5 DEF RingsFit
<1> QED
  BY <1>4, <1>5, <1>6, <1>7, <1>8, <1>9, <1>10, RingMoved, RingGrown DEF RingMoves

-----------------------------------------------------------------------------
(***************************************************************************)
(* Only read mode listens and fills acb; what was posted is not too much.   *)
(***************************************************************************)

LEMMA ReadOnlyStep ==
  ASSUME IInv, ReadOnly, Steps
  PROVE  ReadOnly'
<1>1. /\ radio \in RadioType /\ cb \in RingType /\ acb \in RingType
      /\ cb.count <= cb.size /\ acb.count <= acb.size
  BY DEF IInv, TypeOK, RingsPlaced
<1>2. CASE Quiet \/ Notes \/ MainPost \/ HostTakesInterrupt
  BY <1>2 DEF Quiet, Notes, MainPost, HostTakesInterrupt, firmware, ring, ReadOnly
<1>3. ASSUME UNCHANGED <<system_state, acb>>, radio'.listening => radio.listening
      PROVE  ReadOnly'
  BY <1>3 DEF ReadOnly
<1>4. ASSUME NEW m \in Mode, RqMode([rq |-> "RQ_MODE", mode |-> m])
      PROVE  ReadOnly'
  <2>1. acb' = cb_flush(acb) /\ system_state' = m
        /\ radio' = IF m = "READ" THEN rf24_start_listening(RadioFlushed) ELSE RadioFlushed
    BY <1>4 DEF RqMode
  <2>2. cb_flush(acb).count = 0
    BY <1>1, HalfOfPool DEF cb_flush, RingType
  <2>3. ~RadioFlushed.listening
    BY <1>1 DEF RadioFlushed, RadioType, rf24_stop_listening,
       rf24_flush_tx, rf24_flush_rx
  <2>4. m # "READ" => ~radio'.listening
    BY <2>1, <2>3
  <2> QED
    BY <2>1, <2>2, <2>4 DEF ReadOnly
<1>5. CASE RqFlush([rq |-> "RQ_FLUSH"]) \/ WriteConfig
  <2>1. acb'.count = 0
    <3>1. CASE WriteConfig
      BY <3>1, ConfigRings
    <3>2. CASE RqFlush([rq |-> "RQ_FLUSH"])
      BY <1>1, <3>2 DEF RqFlush, cb_flush, RingType
    <3> QED
      BY <1>5, <3>1, <3>2
  <2>2. ~radio'.listening
    BY <1>1, <1>5 DEF RqFlush, WriteConfig, RadioFlushed, RadioType, rf24_stop_listening,
       rf24_flush_tx, rf24_flush_rx
  <2> QED
    BY <2>1, <2>2 DEF ReadOnly
<1>6. CASE RqReadPacket([rq |-> "RQ_READ"])
  <2>1. UNCHANGED <<system_state, radio>>
    BY <1>6 DEF RqReadPacket
  <2>2. acb' = acb \/ acb' = cb_read(acb)
    BY <1>6 DEF RqReadPacket
  <2>3. acb'.count > 0 => acb.count > 0
    <3>1. acb.count = 0 => cb_read(acb) = acb
      BY DEF cb_read, cb_is_empty
    <3> QED
      BY <1>1, <2>2, <3>1 DEF RingType
  <2> QED
    BY <2>1, <2>3 DEF ReadOnly
<1>7. CASE WritePacket
  BY <1>7 DEF WritePacket, ReadOnly
<1>8. CASE \/ WriteOpenPipe \/ ReadMove \/ StreamFinish \/ StreamStart \/ BulkPush \/ BulkRetry
           \/ RadioAcknowledged \/ RadioUnanswered \/ RadioReceives
  <2>1. UNCHANGED <<system_state, acb>>
    BY <1>8 DEF WriteOpenPipe, ReadMove, StreamFinish, StreamStart, BulkPush, BulkRetry,
                RadioAcknowledged, RadioUnanswered, RadioReceives, firmware, ring
  <2>2. radio'.listening => radio.listening
    <3>1. CASE WriteOpenPipe
      BY <1>1, <3>1 DEF WriteOpenPipe, rf24_stop_listening, RadioType
    <3>2. CASE ReadMove
      BY <1>1, <3>2 DEF ReadMove, rf24_read, RadioType
    <3>3. CASE StreamFinish
      BY <1>1, <3>3 DEF StreamFinish, rf24_what_happened, rf24_flush_tx, RadioType
    <3>4. CASE StreamStart
      BY <1>1, <3>4 DEF StreamStart, rf24_start_write, rf24_what_happened, rf24_queue_push,
         RadioType
    <3>5. CASE BulkPush \/ BulkRetry
      BY <1>1, <3>5 DEF BulkPush, BulkRetry, rf24_what_happened, rf24_queue_push, RadioType
    <3>6. CASE RadioAcknowledged
      BY <1>1, <3>6 DEF RadioAcknowledged, Acknowledged, RadioType
    <3>7. CASE RadioUnanswered
      BY <1>1, <3>7 DEF RadioUnanswered, Unanswered, RadioType
    <3>8. CASE RadioReceives
      BY <1>1, <3>8 DEF RadioReceives, Received, RadioType
    <3> QED
      BY <1>8, <3>1, <3>2, <3>3, <3>4, <3>5, <3>6, <3>7, <3>8
  <2> QED
    BY <1>3, <2>1, <2>2
<1> QED
  BY <1>2, <1>4, <1>5, <1>6, <1>7, <1>8 DEF Steps

\* A step takes the message away, posts the counts as they are (or as they were
\* before the head left), or leaves the message and adds no packet to cb.
LEMMA PostedStep ==
  ASSUME OneAckMode, IInv, IInv', RingsFit, PostedFits, PostedCreditSound, Steps
  PROVE  PostedFits' /\ PostedCreditSound'
<1>1. /\ cb \in RingType /\ cb.count <= cb.size /\ cb.count \in Nat /\ cb.size \in Nat
      /\ intMsg \in StatusType \cup {NoMessage}
  BY DEF IInv, TypeOK, RingsPlaced, RingType
<1>2. ~WriteConfig => cb'.size = cb.size
  BY StepMovesRings, RingsFitStep
<1>3. cb'.size \in Nat /\ cb'.count \in Nat /\ cb'.count <= cb'.size
  BY DEF IInv, TypeOK, RingsPlaced, RingType
<1>4. intMsg # NoMessage => intMsg.cb_count \in Nat /\ intMsg.cb_size \in Nat
  BY <1>1 DEF StatusType
<1>5. ASSUME intMsg'.cb_size = cb'.size, intMsg'.cb_count >= cb'.count, intMsg'.cb_count \in Nat
      PROVE  PostedFits' /\ PostedCreditSound'
  BY <1>3, <1>5 DEF PostedFits, PostedCreditSound
<1>6. ASSUME intMsg' = Status'
      PROVE  intMsg'.cb_size = cb'.size /\ intMsg'.cb_count = cb'.count
  BY <1>6 DEF Status
<1>7. ASSUME intMsg' = intMsg, cb'.size = cb.size,
             \/ system_state' = system_state /\ cb'.count <= cb.count
             \/ cb'.count = 0
             \/ system_state' = "READ"
      PROVE  PostedFits' /\ PostedCreditSound'
  <2>1. PostedFits'
    BY <1>7 DEF PostedFits
  <2>2. CASE system_state' = system_state /\ cb'.count <= cb.count
    <3>1. Writing' => Writing
      BY <2>2 DEF Writing
    <3> QED
      BY <1>1, <1>3, <1>4, <1>7, <2>1, <2>2, <3>1 DEF PostedCreditSound
  <2>3. CASE cb'.count = 0
    BY <1>1, <1>3, <1>4, <1>7, <2>3 DEF PostedCreditSound, PostedFits
  <2>4. CASE system_state' = "READ"
    <3>1. ~Writing'
      BY <2>4 DEF Writing
    <3> QED
      BY <2>1, <3>1 DEF PostedCreditSound
  <2> QED
    BY <1>7, <2>1, <2>2, <2>3, <2>4
<1>8. CASE RqReadPacket([rq |-> "RQ_READ"]) \/ WriteOpenPipe \/ WritePacket
  <2>1. intMsg' = Status'
    BY <1>8 DEF RqReadPacket, WriteOpenPipe, WritePacket, post_interrupt_message
  <2> QED
    BY <1>3, <1>5, <1>6, <2>1
<1>9. CASE MainPost
  <2>1. cb' = cb /\ system_state' = system_state
    BY <1>9 DEF MainPost, ring
  <2>2. CASE intMsg = NoMessage
    BY <1>3, <1>5, <1>6, <1>9, <2>2 DEF MainPost, post_interrupt_message
  <2>3. CASE intMsg # NoMessage
    BY <1>1, <1>7, <1>9, <2>1, <2>3 DEF MainPost
  <2> QED
    BY <2>2, <2>3
<1>10. CASE StreamFinish
  <2>1. intMsg'.cb_size = cb'.size /\ intMsg'.cb_count = cb.count
    BY <1>10 DEF StreamFinish, Status
  <2>2. cb'.count <= cb.count
    <3>1. cb' = cb_read(cb)
      BY <1>10 DEF StreamFinish
    <3>2. cb_read(cb).count = IF cb.count = 0 THEN 0 ELSE cb.count - 1
      BY <1>1, CbReadType, RingTypeIsRingIn, HwBufferAssumption
    <3> QED
      BY <1>1, <3>1, <3>2
  <2> QED
    BY <1>1, <1>3, <1>5, <2>1, <2>2
<1>11. CASE WriteConfig
  <2>1. intMsg'.cb_size = cb.size /\ intMsg'.cb_count = cb'.count
    BY <1>11 DEF WriteConfig, Status
  <2>2. PICK ack \in AckModes : cb'.size = RingSize(ack) /\ cb'.count = 0
    BY <1>11, ConfigRings
  <2>3. cb.size <= cb'.size
    BY <1>1, <1>3, <2>2 DEF RingsFit, OneAckMode
  <2> QED
    BY <1>1, <1>3, <2>1, <2>2, <2>3 DEF PostedFits, PostedCreditSound
<1>12. CASE HostTakesInterrupt
  BY <1>12 DEF HostTakesInterrupt, PostedFits, PostedCreditSound
<1>13. CASE \/ Quiet \/ Notes \/ StreamStart \/ BulkRetry
            \/ RadioAcknowledged \/ RadioUnanswered \/ RadioReceives
  <2>1. UNCHANGED <<intMsg, cb, system_state>>
    BY <1>13 DEF Quiet, Notes, StreamStart, BulkRetry, RadioAcknowledged, RadioUnanswered,
                 RadioReceives, firmware, ring, usb
  <2> QED
    BY <1>1, <1>7, <2>1
<1>14. CASE RqFlush([rq |-> "RQ_FLUSH"]) \/ \E m \in Mode : RqMode([rq |-> "RQ_MODE", mode |-> m])
  <2>1. cb' = cb_flush(cb) /\ intMsg' = intMsg
    BY <1>14 DEF RqFlush, RqMode, usb
  <2>2. cb'.count = 0 /\ cb'.size = cb.size
    BY <1>1, <2>1 DEF cb_flush, RingType
  <2> QED
    BY <1>7, <2>1, <2>2
<1>15. CASE ReadMove
  <2>1. system_state' = "READ" /\ intMsg' = intMsg
    BY <1>15 DEF ReadMove, InProcess, usb
  <2>2. cb'.size = cb.size
    <3>1. HasSlots(cb)
      BY <1>1, <1>15 DEF ReadMove, cb_is_full, HasSlots
    <3>2. cb' = cb_get_slot(cb)
      BY <1>15 DEF ReadMove
    <3> QED
      BY <1>1, <3>1, <3>2, CbGetSlotType, RingTypeIsRingIn, HwBufferAssumption
  <2> QED
    BY <1>7, <2>1, <2>2
<1>16. CASE BulkPush
  <2>1. system_state' = system_state /\ intMsg' = intMsg /\ cb' = cb_read(cb)
    BY <1>16 DEF BulkPush, usb
  <2>2. /\ cb_read(cb).count = IF cb.count = 0 THEN 0 ELSE cb.count - 1
        /\ cb_read(cb).size = cb.size
    BY <1>1, CbReadType, RingTypeIsRingIn, HwBufferAssumption
  <2> QED
    BY <1>1, <1>7, <2>1, <2>2
<1> QED
  BY <1>8, <1>9, <1>10, <1>11, <1>12, <1>13, <1>14, <1>15, <1>16 DEF Steps

\* The part of the invariant that any host keeps.
LEMMA RInvStep ==
  ASSUME OneAckMode, RInv, IInv', Steps
  PROVE  RInv'
<1>1. IInv
  BY DEF RInv
<1>2. RingsFit'
  BY <1>1, StepMovesRings, RingsFitStep DEF RInv
<1>3. ReadOnly'
  BY <1>1, ReadOnlyStep DEF RInv
<1>4. PostedFits' /\ PostedCreditSound'
  BY <1>1, PostedStep DEF RInv
<1> QED
  BY <1>2, <1>3, <1>4 DEF RInv

LEMMA RInvNext ==
  ASSUME OneAckMode
  PROVE  RInv /\ [Next]_vars => RInv'
BY NextSteps, IInvNext, RInvStep DEF RInv

LEMMA RInvInit == Init => RInv
<1> SUFFICES ASSUME Init PROVE RInv
  OBVIOUS
<1>1. RingsFit
  BY DEF Init, Ring, RingsFit
<1>2. ReadOnly
  BY DEF Init, Ring, usb_init, RadioReset, rf24_stop_listening, rf24_flush_tx,
         rf24_flush_rx, ReadOnly
<1>3. PostedFits /\ PostedCreditSound
  BY DEF Init, PostedFits, PostedCreditSound
<1> QED
  BY <1>1, <1>2, <1>3, IInvInit DEF RInv

LEMMA RInvAlways ==
  ASSUME OneAckMode
  PROVE  Spec => []RInv
  BY RInvInit, RInvNext, PTL DEF Spec

-----------------------------------------------------------------------------
(***************************************************************************)
(* What any host gets: the rings never share a live slot, no posted status *)
(* promises too much, and packets from the air arrive in order.            *)
(***************************************************************************)
LEMMA RingsAreQueues ==
  ASSUME RInv
  PROVE  /\ HW_BUFFER_SIZE \in Nat /\ HW_BUFFER_SIZE > 0
         /\ cb \in FitRing(HW_BUFFER_SIZE) /\ acb \in FitRing(HW_BUFFER_SIZE)
         /\ pcks \in Pool(HW_BUFFER_SIZE, Packet)
         /\ cb.elems = 0 /\ cb.size \in Nat /\ cb.count \in Nat /\ acb.count \in Nat
         /\ acb.size \in Nat /\ acb.count <= acb.size /\ cb.count <= cb.size
         /\ acb.size > 0 => acb.elems = Half /\ cb.size = Half
<1>1. /\ cb \in RingIn(HW_BUFFER_SIZE) /\ acb \in RingIn(HW_BUFFER_SIZE)
      /\ pcks \in Pool(HW_BUFFER_SIZE, Packet)
  BY RingTypeIsRingIn DEF RInv, IInv, TypeOK, Pool
<1>2. /\ cb.elems = 0 /\ cb.count <= cb.size
      /\ acb.elems \in {0, Half} /\ acb.size \in {0, Half}
      /\ acb.count <= acb.size /\ acb.start < Half
  BY DEF RInv, IInv, RingsPlaced
<1>3. /\ cb.size > 0 => cb.start < cb.size
      /\ acb.size > 0 => cb.size = Half /\ acb.elems = Half
  BY DEF RInv, RingsFit
<1>4. cb \in FitRing(HW_BUFFER_SIZE)
  BY <1>1, <1>2, <1>3 DEF FitRing, RingIn, HasSlots
<1>5. acb \in FitRing(HW_BUFFER_SIZE)
  BY <1>1, <1>2, HalfOfPool DEF FitRing, RingIn, HasSlots
<1> QED
  BY <1>1, <1>2, <1>3, <1>4, <1>5, HwBufferAssumption DEF RingIn

\* The two rings share pcks[], and never a live slot.
THEOREM RingsApart ==
  ASSUME OneAckMode
  PROVE  Spec => []LiveSlotsDisjoint
<1>1. RInv => LiveSlotsDisjoint
  <2> SUFFICES ASSUME RInv, NEW i \in 1..cb.count, NEW j \in 1..acb.count
               PROVE  Slot(cb, i) # Slot(acb, j)
    BY DEF LiveSlotsDisjoint
  <2>1. /\ i \in 1..cb.size /\ j \in 1..acb.size /\ cb.elems = 0
        /\ cb.size = Half /\ acb.elems = Half /\ acb.size \in Nat /\ Half \in Nat
    BY RingsAreQueues, HalfOfPool
  <2>2. Slot(cb, i) \in cb.elems .. (cb.elems + cb.size - 1)
    BY <2>1, RingsAreQueues, SlotMod
  <2>3. Slot(acb, j) \in acb.elems .. (acb.elems + acb.size - 1)
    BY <2>1, RingsAreQueues, SlotMod
  <2> QED
    BY <2>1, <2>2, <2>3
<1> QED
  BY <1>1, RInvAlways, PTL

\* A host that writes no more packets than the last message has room for never
\* makes cb_get_slot drop one, however long ago the message was primed.
THEOREM CreditNeverStale ==
  ASSUME OneAckMode
  PROVE  Spec => []PostedCreditSound
<1>1. RInv => PostedCreditSound
  BY DEF RInv
<1> QED
  BY <1>1, RInvAlways, PTL

-----------------------------------------------------------------------------
\* What waits between the air and RQ_READ.
RxPending == IF system_state = "READ" THEN Contents(cb, pcks) \o radio.rx ELSE <<>>

RxStep == [RxPipe!Next]_(RxPipe!vars)

LEMMA CbContents ==
  ASSUME RInv
  PROVE  /\ Contents(cb, pcks) \in Seq(Packet)
         /\ Contents(cb, pcks) = <<>> <=> cb.count = 0
         /\ radio.rx \in Seq(Packet) /\ radio.tx \in Seq(Packet)
<1>1. Contents(cb, pcks) \in Seq(Packet)
  BY RingsAreQueues, ContentsSeq
<1>2. Contents(cb, pcks) = <<>> <=> cb.count = 0
  BY RingsAreQueues, ContentsEmpty
<1>3. radio.rx \in Seq(Packet) /\ radio.tx \in Seq(Packet)
  BY DEF RInv, IInv, TypeOK, RadioType
<1> QED
  BY <1>1, <1>2, <1>3

\* The oldest packet of cb leaves it.
LEMMA CbRead ==
  ASSUME RInv, cb.count > 0, cb' = cb_read(cb), pcks' = pcks
  PROVE  /\ Contents(cb, pcks) # <<>>
         /\ Head(Contents(cb, pcks)) = pcks[Oldest(cb)]
         /\ Contents(cb, pcks)' = Tail(Contents(cb, pcks))
<1>0. /\ HW_BUFFER_SIZE \in Nat /\ HW_BUFFER_SIZE > 0 /\ cb \in FitRing(HW_BUFFER_SIZE)
      /\ pcks \in Pool(HW_BUFFER_SIZE, Packet)
  BY RingsAreQueues
<1>1. /\ Contents(cb, pcks) # <<>>
      /\ Head(Contents(cb, pcks)) = pcks[Oldest(cb)]
      /\ Contents(cb_read(cb), pcks) = Tail(Contents(cb, pcks))
  BY <1>0, ContentsRead
<1> QED
  BY <1>1, Zenon

LEMMA CbHead ==
  ASSUME RInv, cb.count > 0
  PROVE  Contents(cb, pcks) # <<>> /\ Head(Contents(cb, pcks)) = pcks[Oldest(cb)]
<1>1. /\ HW_BUFFER_SIZE \in Nat /\ HW_BUFFER_SIZE > 0 /\ cb \in FitRing(HW_BUFFER_SIZE)
      /\ pcks \in Pool(HW_BUFFER_SIZE, Packet)
  BY RingsAreQueues
<1> QED
  BY <1>1, ContentsRead

\* A packet is written where cb_get_slot says.
LEMMA CbPut ==
  ASSUME RInv, NEW p \in Packet, cb.count < cb.size,
         pcks' = [pcks EXCEPT ![NextSlot(cb)] = p], cb' = cb_get_slot(cb)
  PROVE  Contents(cb, pcks)' = Append(Contents(cb, pcks), p)
<1> DEFINE n == HW_BUFFER_SIZE
           s == NextSlot(cb)
<1>1. n \in Nat /\ n > 0 /\ cb \in FitRing(n) /\ pcks \in Pool(n, Packet)
  BY RingsAreQueues
<1>2. s \in 0..n-1
  BY <1>1, CbGetSlotFits
<1> HIDE DEF n, s
<1>3. ASSUME NEW m \in Pool(n, Packet), WroteSlot(n, pcks, s, p, m)
      PROVE  Contents(cb_get_slot(cb), m) = Append(Contents(cb, pcks), p)
  BY <1>1, <1>3, ContentsPut DEF s
<1>4. pcks' \in Pool(n, Packet) /\ WroteSlot(n, pcks, s, p, pcks')
  BY <1>1, <1>2, ExceptWrites, Zenon DEF s
<1>5. Contents(cb_get_slot(cb), pcks') = Append(Contents(cb, pcks), p)
  BY <1>3, <1>4, Zenon
<1> QED
  BY <1>5, Zenon

\* A write to acb does not disturb cb.
LEMMA AcbPut ==
  ASSUME RInv, NEW p \in Packet, HasSlots(acb),
         pcks' = [pcks EXCEPT ![NextSlot(acb)] = p], cb' = cb
  PROVE  Contents(cb, pcks)' = Contents(cb, pcks)
<1> DEFINE n == HW_BUFFER_SIZE
           s == NextSlot(acb)
<1>1. /\ acb.size > 0 /\ cb.size = Half /\ acb.elems = Half /\ cb.elems = 0
      /\ acb.size \in Nat
  BY RingsAreQueues DEF HasSlots
<1>2. acb \in RingIn(n) /\ acb.count <= acb.size /\ acb.elems + acb.size <= n
  BY RingsAreQueues DEF FitRing
<1>3. s \in acb.elems .. (acb.elems + acb.size - 1)
  BY <1>2, NextSlotInRing, HwBufferAssumption
<1>4. s \notin cb.elems .. (cb.elems + cb.size - 1) /\ s \in 0..n-1
  BY <1>1, <1>2, <1>3, HalfOfPool, HwBufferAssumption
<1>5. n \in Nat /\ n > 0 /\ cb \in FitRing(n) /\ pcks \in Pool(n, Packet)
  BY RingsAreQueues
<1> HIDE DEF n, s
<1>6. ASSUME NEW m \in Pool(n, Packet), WroteSlot(n, pcks, s, p, m)
      PROVE  Contents(cb, m) = Contents(cb, pcks)
  BY <1>4, <1>5, <1>6, ContentsElsewhere
<1>7. pcks' \in Pool(n, Packet) /\ WroteSlot(n, pcks, s, p, pcks')
  BY <1>4, <1>5, ExceptWrites, Zenon DEF s
<1>8. Contents(cb, pcks') = Contents(cb, pcks)
  BY <1>6, <1>7, Zenon
<1> QED
  BY <1>8, Zenon

LEMMA RxStutter ==
  ASSUME arrived' = arrived, got' = got, RxPending' = RxPending
  PROVE  RxStep
  BY DEF RxStep, RxPipe!vars, RxPending

LEMMA RxRefines ==
  ASSUME RInv, RInv', Steps
  PROVE  RxStep
<1>1. CASE \/ Quiet \/ Notes \/ MainPost \/ HostTakesInterrupt
           \/ WriteOpenPipe \/ RadioAcknowledged \/ RadioUnanswered
  <2>1. UNCHANGED <<cb, pcks, system_state, arrived, got>> /\ radio'.rx = radio.rx
    <3>1. CASE Quiet \/ Notes \/ MainPost \/ HostTakesInterrupt
      BY <3>1 DEF Quiet, Notes, MainPost, HostTakesInterrupt, firmware, ring, history
    <3>2. CASE WriteOpenPipe
      BY <3>2 DEF WriteOpenPipe, rf24_stop_listening, RInv, IInv, TypeOK, RadioType, ring, history
    <3>3. CASE RadioAcknowledged
      BY <3>3 DEF RadioAcknowledged, Acknowledged, RInv, IInv, TypeOK, RadioType, firmware, ring
    <3>4. CASE RadioUnanswered
      BY <3>4 DEF RadioUnanswered, Unanswered, RInv, IInv, TypeOK, RadioType, firmware, ring
    <3> QED
      BY <1>1, <3>1, <3>2, <3>3, <3>4
  <2>2. RxPending' = RxPending
    BY <2>1 DEF RxPending
  <2> QED
    BY <2>1, <2>2, RxStutter
<1>2. CASE StreamFinish \/ StreamStart \/ BulkPush \/ BulkRetry
  <2>1. /\ system_state # "READ" /\ UNCHANGED <<system_state, arrived, got>>
    BY <1>2 DEF StreamFinish, StreamStart, BulkPush, BulkRetry, InProcess, history
  <2> QED
    BY <2>1, RxStutter DEF RxPending
<1>3. CASE \/ \E m \in Mode : RqMode([rq |-> "RQ_MODE", mode |-> m])
           \/ RqFlush([rq |-> "RQ_FLUSH"]) \/ WriteConfig
  <2>1. cb'.count = 0
    <3>1. CASE WriteConfig
      BY <3>1, ConfigRings DEF RInv
    <3>2. CASE \/ \E m \in Mode : RqMode([rq |-> "RQ_MODE", mode |-> m])
               \/ RqFlush([rq |-> "RQ_FLUSH"])
      BY <3>2 DEF RqMode, RqFlush, cb_flush, RInv, IInv, TypeOK, RingType
    <3> QED
      BY <1>3, <3>1, <3>2
  <2>2. radio'.rx = <<>>
    BY <1>3 DEF RqMode, RqFlush, WriteConfig, RadioFlushed, rf24_flush_rx, rf24_flush_tx,
       rf24_stop_listening, rf24_start_listening, RInv, IInv, TypeOK, RadioType
  <2>3. Contents(cb, pcks)' = <<>>
    BY <2>1, ContentsNone, Zenon
  <2>4. RxPending' = <<>>
    BY <2>2, <2>3 DEF RxPending
  <2>5. UNCHANGED <<arrived, got>>
    BY <1>3 DEF RqMode, RqFlush, WriteConfig, history
  <2> QED
    BY <2>4, <2>5 DEF RxStep, RxPending, RxPipe!Next, RxPipe!Flush
<1>4. CASE RqReadPacket([rq |-> "RQ_READ"])
  <2>1. system_state = "READ"
    BY <1>4, RingsAreQueues DEF RqReadPacket, ReadRing, cb_is_empty, RInv, ReadOnly
  <2>2. /\ cb.count > 0 /\ cb' = cb_read(cb) /\ pcks' = pcks
        /\ got' = Append(got, pcks[Oldest(cb)])
        /\ UNCHANGED <<system_state, radio, arrived>>
    BY <1>4, <2>1, RingsAreQueues DEF RqReadPacket, ReadRing, ReadReply, cb_is_empty
  <2> DEFINE c == Contents(cb, pcks)
  <2>3. c # <<>> /\ Head(c) = pcks[Oldest(cb)] /\ c' = Tail(c)
    BY <2>2, CbRead
  <2>4. c \in Seq(Packet) /\ radio.rx \in Seq(Packet)
    BY CbContents
  <2>5. RxPending = c \o radio.rx /\ RxPending' = c' \o radio.rx
    BY <2>1, <2>2 DEF RxPending
  <2> HIDE DEF c
  <2>6. RxPending # <<>> /\ Head(RxPending) = Head(c) /\ RxPending' = Tail(RxPending)
    BY <2>3, <2>4, <2>5, ConcatFront
  <2>7. got' = Append(got, Head(RxPending)) /\ arrived' = arrived
    BY <2>2, <2>3, <2>6
  <2> QED
    BY <2>6, <2>7 DEF RxStep, RxPending, RxPipe!Next, RxPipe!Retire
<1>5. CASE WritePacket
  <2>1. UNCHANGED <<system_state, radio, arrived, got>>
    BY <1>5 DEF WritePacket
  <2>2. CASE system_state = "READ"
    <3>1. request.packet \in Packet
      BY <1>5 DEF WritePacket, Complete, RInv, IInv, TypeOK, Request, NoRequest
    <3>2. /\ HasSlots(acb) /\ cb' = cb
          /\ pcks' = [pcks EXCEPT ![NextSlot(acb)] = request.packet]
      BY <1>5, <2>2 DEF WritePacket, WriteRing
    <3>3. Contents(cb, pcks)' = Contents(cb, pcks)
      BY <3>1, <3>2, AcbPut
    <3> QED
      BY <2>1, <2>2, <3>3, RxStutter DEF RxPending
  <2>3. CASE system_state # "READ"
    BY <2>1, <2>3, RxStutter DEF RxPending
  <2> QED
    BY <2>2, <2>3
<1>6. CASE ReadMove
  <2> DEFINE c == Contents(cb, pcks)
             p == Head(radio.rx)
  <2>1. /\ system_state = "READ" /\ radio.rx # <<>> /\ cb' = cb_get_slot(cb)
        /\ pcks' = [pcks EXCEPT ![NextSlot(cb)] = p]
        /\ UNCHANGED <<system_state, arrived, got>>
    BY <1>6 DEF ReadMove, InProcess, rf24_available, history
  <2>2. cb.count < cb.size
    BY <1>6, RingsAreQueues DEF ReadMove, cb_is_full
  <2>3. radio'.rx = Tail(radio.rx)
    BY <1>6 DEF ReadMove, rf24_read, RInv, IInv, TypeOK, RadioType
  <2>4. c \in Seq(Packet) /\ radio.rx \in Seq(Packet) /\ p \in Packet
    BY <2>1, CbContents, HeadTailProperties
  <2> HIDE DEF p
  <2>5. c' = Append(c, p)
    BY <2>1, <2>2, <2>4, CbPut
  <2> HIDE DEF c
  <2>6. Append(c, p) \o Tail(radio.rx) = c \o radio.rx
    BY <2>1, <2>4, ConcatMove DEF p
  <2>7. RxPending = c \o radio.rx /\ RxPending' = c' \o radio'.rx
    BY <2>1 DEF RxPending, c
  <2>8. RxPending' = RxPending
    BY <2>3, <2>5, <2>6, <2>7, Zenon
  <2> QED
    BY <2>1, <2>8, RxStutter
<1>7. CASE RadioReceives
  <2> DEFINE c == Contents(cb, pcks)
             p == <<0, Len(arrived) + 1>>
  <2>1. /\ radio' = Received(radio, p) /\ arrived' = Append(arrived, p)
        /\ UNCHANGED <<system_state, cb, pcks, got>> /\ radio.listening
    BY <1>7 DEF RadioReceives, MayReceive, firmware, ring
  <2>2. p \in Packet /\ arrived \in Seq(Packet)
    BY DEF Packet, RInv, IInv, TypeOK
  <2> HIDE DEF p
  <2>3. system_state = "READ" /\ radio'.rx = Append(radio.rx, p)
    BY <2>1 DEF RInv, IInv, TypeOK, RadioType, ReadOnly, Received
  <2>4. c \in Seq(Packet) /\ radio.rx \in Seq(Packet) /\ c' = c
    BY <2>1, CbContents
  <2> HIDE DEF c
  <2>5. c \o Append(radio.rx, p) = Append(c \o radio.rx, p)
    BY <2>2, <2>4, ConcatBack
  <2>6. RxPending = c \o radio.rx /\ RxPending' = c' \o radio'.rx
    BY <2>1, <2>3 DEF RxPending, c
  <2>7. RxPending' = Append(RxPending, p)
    BY <2>3, <2>4, <2>5, <2>6, Zenon
  <2>8. arrived' # <<>> /\ arrived'[Len(arrived')] = p
    BY <2>1, <2>2, AppendProperties
  <2> QED
    BY <2>1, <2>7, <2>8 DEF RxStep, RxPending, RxPipe!Next, RxPipe!Accept
<1> QED
  BY <1>1, <1>2, <1>3, <1>4, <1>5, <1>6, <1>7 DEF Steps

\* From the air to RQ_READ the dongle is a reliable queue that only a flush empties.
THEOREM RxIsPipe ==
  ASSUME OneAckMode
  PROVE  Spec => RxFifo
<1>1. Init => RxPipe!Init
  BY DEF Init, RxPipe!Init
<1>2. RInv /\ RInv' /\ [Next]_vars => RxStep
  BY NextSteps, RxRefines
<1> QED
  BY <1>1, <1>2, RInvAlways, PTL DEF Spec, RxFifo, RxPipe!Spec, RxStep

-----------------------------------------------------------------------------
(***************************************************************************)
(* Any host, once more: three queues lie between an RQ_WRITE and the peer,  *)
(* and no step of the dongle lets one packet overtake another.             *)
(***************************************************************************)

\* The order in which a host numbers its packets.
Before(p, q) == p[1] < q[1] \/ (p[1] = q[1] /\ p[2] < q[2])
AllBefore(S, T) == \A p \in S, q \in T : Before(p, q)
Ascending(s) == \A j, k \in 1..Len(s) : j < k => Before(s[j], s[k])
Elements(s) == {s[i] : i \in 1..Len(s)}

\* Three queues in a row, the oldest packet at the head of the first.
InLine(a, b, c) ==
  /\ Ascending(a) /\ Ascending(b) /\ Ascending(c)
  /\ AllBefore(Elements(a), Elements(b))
  /\ AllBefore(Elements(a), Elements(c))
  /\ AllBefore(Elements(b), Elements(c))

LEMMA ElementsAppend ==
  ASSUME NEW V, NEW s \in Seq(V), NEW e \in V
  PROVE  Elements(Append(s, e)) = Elements(s) \cup {e}
<1> DEFINE t == Append(s, e)
<1>1. /\ Len(s) \in Nat /\ Len(t) = Len(s) + 1 /\ t[Len(s) + 1] = e
      /\ \A i \in 1..Len(s) : t[i] = s[i]
  BY AppendProperties, LenProperties
<1> HIDE DEF t
<1>2. ASSUME NEW i \in 1..Len(t) PROVE t[i] \in Elements(s) \cup {e}
  BY <1>1, <1>2 DEF Elements
<1>3. ASSUME NEW i \in 1..Len(s) PROVE s[i] \in Elements(t)
  <2>1. i \in 1..Len(t) /\ t[i] = s[i]
    BY <1>1, <1>3
  <2> QED
    BY <2>1 DEF Elements
<1>4. e \in Elements(t)
  BY <1>1 DEF Elements
<1>5. Elements(t) \subseteq Elements(s) \cup {e}
  BY <1>2 DEF Elements
<1>6. Elements(s) \cup {e} \subseteq Elements(t)
  BY <1>3, <1>4 DEF Elements
<1> QED
  BY <1>5, <1>6 DEF t

LEMMA ElementsTail ==
  ASSUME NEW V, NEW s \in Seq(V), s # <<>>
  PROVE  /\ Elements(s) = Elements(Tail(s)) \cup {Head(s)}
         /\ Head(s) = s[1] /\ Len(s) \in Nat \ {0}
<1> DEFINE t == Tail(s)
<1>1. /\ Len(s) \in Nat \ {0} /\ Len(t) = Len(s) - 1
      /\ \A i \in 1..Len(t) : t[i] = s[i + 1]
  BY HeadTailProperties, EmptySeq
<1>2. Head(s) = s[1]
  OBVIOUS
<1> HIDE DEF t
<1>3. ASSUME NEW i \in 1..Len(s) PROVE s[i] \in Elements(t) \cup {s[1]}
  <2>1. CASE i # 1
    <3>1. i - 1 \in 1..Len(t) /\ s[i] = t[i - 1]
      BY <1>1, <2>1
    <3> QED
      BY <3>1 DEF Elements
  <2> QED
    BY <2>1
<1>4. ASSUME NEW i \in 1..Len(t) PROVE t[i] \in Elements(s)
  <2>1. i + 1 \in 1..Len(s) /\ t[i] = s[i + 1]
    BY <1>1
  <2> QED
    BY <2>1 DEF Elements
<1>5. s[1] \in Elements(s)
  BY <1>1 DEF Elements
<1>6. Elements(s) \subseteq Elements(t) \cup {s[1]}
  BY <1>3 DEF Elements
<1>7. Elements(t) \cup {s[1]} \subseteq Elements(s)
  BY <1>4, <1>5 DEF Elements
<1> QED
  BY <1>1, <1>2, <1>6, <1>7 DEF t

LEMMA ElementsNone == Elements(<<>>) = {} /\ Ascending(<<>>)
  BY EmptySeq DEF Elements, Ascending

LEMMA AscendingAppend ==
  ASSUME NEW V, NEW s \in Seq(V), NEW e \in V, Ascending(s), AllBefore(Elements(s), {e})
  PROVE  Ascending(Append(s, e))
<1> DEFINE t == Append(s, e)
<1>1. /\ Len(s) \in Nat /\ Len(t) = Len(s) + 1 /\ t[Len(s) + 1] = e
      /\ \A i \in 1..Len(s) : t[i] = s[i]
  BY AppendProperties, LenProperties
<1> HIDE DEF t
<1>2. ASSUME NEW j \in 1..Len(t), NEW k \in 1..Len(t), j < k
      PROVE  Before(t[j], t[k])
  <2>1. j \in 1..Len(s) /\ t[j] = s[j]
    BY <1>1, <1>2
  <2>2. CASE k = Len(t)
    <3>1. s[j] \in Elements(s) /\ t[k] = e
      BY <1>1, <2>1, <2>2 DEF Elements
    <3> QED
      BY <2>1, <3>1 DEF AllBefore
  <2>3. CASE k # Len(t)
    <3>1. k \in 1..Len(s) /\ t[k] = s[k]
      BY <1>1, <2>3
    <3> QED
      BY <1>2, <2>1, <3>1 DEF Ascending
  <2> QED
    BY <2>2, <2>3
<1> QED
  BY <1>2 DEF Ascending, t

LEMMA AscendingTail ==
  ASSUME NEW V, NEW s \in Seq(V), s # <<>>, Ascending(s)
  PROVE  /\ Ascending(Tail(s)) /\ Tail(s) \in Seq(V) /\ Head(s) \in V
         /\ AllBefore({Head(s)}, Elements(Tail(s)))
<1> DEFINE t == Tail(s)
<1>1. /\ Len(s) \in Nat /\ Len(t) = Len(s) - 1 /\ t \in Seq(V) /\ Head(s) \in V
      /\ \A i \in 1..Len(t) : t[i] = s[i + 1]
  BY HeadTailProperties, LenProperties
<1>2. Head(s) = s[1] /\ Len(s) \in Nat \ {0}
  BY ElementsTail
<1> HIDE DEF t
<1>3. ASSUME NEW j \in 1..Len(t), NEW k \in 1..Len(t), j < k
      PROVE  Before(t[j], t[k])
  BY <1>1, <1>3 DEF Ascending
<1>4. ASSUME NEW i \in 1..Len(t) PROVE Before(s[1], t[i])
  BY <1>1, <1>2 DEF Ascending
<1> QED
  BY <1>1, <1>2, <1>3, <1>4 DEF Ascending, AllBefore, Elements, t

\* What may happen in such a line.
LEMMA LineMoves ==
  ASSUME NEW V, NEW a \in Seq(V), NEW b \in Seq(V), NEW c \in Seq(V), InLine(a, b, c)
  PROVE  /\ b # <<>> => /\ InLine(Append(a, Head(b)), Tail(b), c)
                        /\ Elements(Append(a, Head(b))) \subseteq Elements(a) \cup Elements(b)
                        /\ Elements(Tail(b)) \subseteq Elements(b)
         /\ c # <<>> => /\ InLine(a, Append(b, Head(c)), Tail(c))
                        /\ Elements(Append(b, Head(c))) \subseteq Elements(b) \cup Elements(c)
                        /\ Elements(Tail(c)) \subseteq Elements(c)
                        /\ InLine(a, b, Tail(c))
         /\ InLine(a, <<>>, c)
         /\ InLine(a, <<>>, <<>>)
         /\ \A p \in V : AllBefore(Elements(a) \cup Elements(b) \cup Elements(c), {p}) =>
              InLine(a, b, Append(c, p))
<1>1. ASSUME b # <<>>
      PROVE  /\ InLine(Append(a, Head(b)), Tail(b), c)
             /\ Elements(Append(a, Head(b))) \subseteq Elements(a) \cup Elements(b)
             /\ Elements(Tail(b)) \subseteq Elements(b)
  <2>1. /\ Ascending(Tail(b)) /\ Head(b) \in V /\ AllBefore({Head(b)}, Elements(Tail(b)))
        /\ Elements(b) = Elements(Tail(b)) \cup {Head(b)}
    BY <1>1, AscendingTail, ElementsTail DEF InLine
  <2>2. Elements(Append(a, Head(b))) = Elements(a) \cup {Head(b)}
    BY <2>1, ElementsAppend
  <2>3. AllBefore(Elements(a), {Head(b)})
    BY <2>1 DEF InLine, AllBefore
  <2>4. Ascending(Append(a, Head(b)))
    BY <2>1, <2>3, AscendingAppend DEF InLine
  <2>5. /\ AllBefore(Elements(a) \cup {Head(b)}, Elements(Tail(b)))
        /\ AllBefore(Elements(a) \cup {Head(b)}, Elements(c))
        /\ AllBefore(Elements(Tail(b)), Elements(c))
    BY <2>1 DEF InLine, AllBefore
  <2> QED
    BY <2>1, <2>2, <2>4, <2>5 DEF InLine
<1>2. ASSUME c # <<>>
      PROVE  /\ InLine(a, Append(b, Head(c)), Tail(c))
             /\ Elements(Append(b, Head(c))) \subseteq Elements(b) \cup Elements(c)
             /\ Elements(Tail(c)) \subseteq Elements(c)
             /\ InLine(a, b, Tail(c))
  <2>1. /\ Ascending(Tail(c)) /\ Head(c) \in V /\ AllBefore({Head(c)}, Elements(Tail(c)))
        /\ Elements(c) = Elements(Tail(c)) \cup {Head(c)}
    BY <1>2, AscendingTail, ElementsTail DEF InLine
  <2>2. Elements(Append(b, Head(c))) = Elements(b) \cup {Head(c)}
    BY <2>1, ElementsAppend
  <2>3. AllBefore(Elements(b), {Head(c)})
    BY <2>1 DEF InLine, AllBefore
  <2>4. Ascending(Append(b, Head(c)))
    BY <2>1, <2>3, AscendingAppend DEF InLine
  <2>5. /\ AllBefore(Elements(a), Elements(b) \cup {Head(c)})
        /\ AllBefore(Elements(a), Elements(Tail(c)))
        /\ AllBefore(Elements(b), Elements(Tail(c)))
        /\ AllBefore(Elements(b) \cup {Head(c)}, Elements(Tail(c)))
    BY <2>1 DEF InLine, AllBefore
  <2> QED
    BY <2>1, <2>2, <2>4, <2>5 DEF InLine
<1>3. InLine(a, <<>>, c) /\ InLine(a, <<>>, <<>>)
  BY ElementsNone DEF InLine, AllBefore
<1>4. ASSUME NEW p \in V, AllBefore(Elements(a) \cup Elements(b) \cup Elements(c), {p})
      PROVE  InLine(a, b, Append(c, p))
  <2>1. Elements(Append(c, p)) = Elements(c) \cup {p}
    BY ElementsAppend
  <2>2. AllBefore(Elements(c), {p})
    BY <1>4 DEF AllBefore
  <2>3. Ascending(Append(c, p))
    BY <2>2, AscendingAppend DEF InLine
  <2>4. AllBefore(Elements(a), Elements(c) \cup {p}) /\ AllBefore(Elements(b), Elements(c) \cup {p})
    BY <1>4 DEF InLine, AllBefore
  <2> QED
    BY <2>1, <2>3, <2>4 DEF InLine
<1> QED
  BY <1>1, <1>2, <1>3, <1>4

\* The peer does not know a packet whose acknowledge was lost for a new one; the
\* head of cb, in stream mode, is in the FIFO already.
Unsent == IF radio.seen THEN Tail(radio.tx) ELSE radio.tx
Kept ==
  CASE system_state = "READ" -> <<>>
    [] system_state # "READ" /\ writing -> Tail(Contents(cb, pcks))
    [] OTHER -> Contents(cb, pcks)

\* The packets that were written to the dongle, and the one whose data arrive.
Gone == Elements(air) \cup Elements(Unsent) \cup Elements(Kept)
Announced == IF request.rq = "RQ_WRITE" THEN {request.packet} ELSE {}

\* The head of cb, or of the FIFO, is only skipped where there is one.
Skips ==
  /\ writing => system_state = "WRITE_STREAM" /\ cb.count > 0
  /\ radio.seen => radio.tx # <<>>

OrderInv == InLine(air, Unsent, Kept) /\ AllBefore(Gone, Announced) /\ Skips

LEMMA KeptContents ==
  ASSUME RInv, Skips
  PROVE  /\ air \in Seq(Packet) /\ Unsent \in Seq(Packet) /\ Kept \in Seq(Packet)
         /\ radio.tx \in Seq(Packet) /\ radio \in RadioType
         /\ Contents(cb, pcks) \in Seq(Packet)
         /\ Contents(cb, pcks) = <<>> <=> cb.count = 0
         /\ cb.count \in Nat
<1>1. /\ air \in Seq(Packet) /\ radio.tx \in Seq(Packet) /\ radio \in RadioType
      /\ Contents(cb, pcks) \in Seq(Packet) /\ (Contents(cb, pcks) = <<>> <=> cb.count = 0)
      /\ cb.count \in Nat
  BY CbContents, RingsAreQueues DEF RInv, IInv, TypeOK
<1>2. Unsent \in Seq(Packet)
  BY <1>1, HeadTailProperties DEF Unsent, Skips
<1>3. Kept \in Seq(Packet)
  <2>1. CASE system_state # "READ" /\ writing
    <3>1. Contents(cb, pcks) # <<>>
      BY <1>1, <2>1 DEF Skips
    <3> QED
      BY <1>1, <2>1, <3>1, HeadTailProperties DEF Kept
  <2>2. CASE system_state = "READ"
    BY <2>2, EmptySeq DEF Kept
  <2> QED
    BY <1>1, <2>1, <2>2 DEF Kept
<1> QED
  BY <1>1, <1>2, <1>3

\* A step that leaves the line alone.
LEMMA OrderSame ==
  ASSUME OrderInv, UNCHANGED <<air, Unsent, Kept>>, Skips',
         Announced' \subseteq Announced \/ AllBefore(Gone, Announced')
  PROVE  OrderInv' /\ Gone' \subseteq Gone
<1>1. Gone' = Gone /\ InLine(air, Unsent, Kept)'
  BY DEF Gone, OrderInv
<1>2. AllBefore(Gone, Announced')
  BY DEF OrderInv, AllBefore
<1>3. AllBefore(Gone, Announced)'
  BY <1>1, <1>2 DEF AllBefore
<1> QED
  BY <1>1, <1>3 DEF OrderInv

\* One that moves packets in it.
LEMMA OrderMoved ==
  ASSUME OrderInv, InLine(air', Unsent', Kept'), Skips', Announced' \subseteq Announced,
         Elements(air') \cup Elements(Unsent') \cup Elements(Kept') \subseteq Gone
  PROVE  OrderInv' /\ Gone' \subseteq Gone
<1>1. Gone' \subseteq Gone
  BY DEF Gone
<1>2. AllBefore(Gone', Announced')
  BY <1>1 DEF OrderInv, AllBefore
<1>3. AllBefore(Gone, Announced)'
  BY <1>2 DEF AllBefore, Before
<1>4. InLine(air, Unsent, Kept)'
  BY DEF InLine
<1> QED
  BY <1>1, <1>3, <1>4 DEF OrderInv

\* The packet that was announced joins the ring, for which the oldest makes room.
LEMMA CbPutAlways ==
  ASSUME RInv, NEW p \in Packet, HasSlots(cb),
         pcks' = [pcks EXCEPT ![NextSlot(cb)] = p], cb' = cb_get_slot(cb)
  PROVE  /\ cb.count < cb.size => Contents(cb, pcks)' = Append(Contents(cb, pcks), p)
         /\ cb.count = cb.size =>
              /\ Contents(cb, pcks) # <<>>
              /\ Contents(cb, pcks)' = Append(Tail(Contents(cb, pcks)), p)
<1>0. cb.count \in Nat /\ cb.size \in Nat /\ cb.count <= cb.size
  BY RingsAreQueues
<1>1. CASE cb.count < cb.size
  <2>1. Contents(cb, pcks)' = Append(Contents(cb, pcks), p)
    BY <1>1, CbPut
  <2>2. ~(cb.count = cb.size)
    BY <1>0, <1>1
  <2> QED
    BY <2>1, <2>2, Zenon
<1>2. CASE cb.count = cb.size
  <2> DEFINE n == HW_BUFFER_SIZE
             d == cb_read(cb)
             s == NextSlot(d)
  <2>1. /\ n \in Nat /\ n > 0 /\ cb \in FitRing(n) /\ pcks \in Pool(n, Packet)
        /\ cb.count > 0 /\ cb.size \in Nat
    BY <1>2, RingsAreQueues DEF HasSlots
  <2>2. d \in FitRing(n) /\ d.count = cb.count - 1 /\ d.size = cb.size
    <3>1. d \in FitRing(n) /\ d.count = cb.count - 1
      BY <2>1, CbReadFits
    <3>2. cb_read(cb).size = cb.size
      <4>1. cb \in RingIn(n) /\ cb.count <= cb.size
        BY <2>1 DEF FitRing
      <4> QED
        BY <2>1, <4>1, CbReadType
    <3> QED
      BY <3>1, <3>2
  <2>3. /\ Contents(cb, pcks) # <<>>
        /\ Contents(d, pcks) = Tail(Contents(cb, pcks))
    BY <2>1, ContentsRead
  <2>4. MakeRoom(cb) = d /\ MakeRoom(d) = d
    BY <1>2, <2>1, <2>2 DEF MakeRoom, cb_is_full
  <2>5. NextSlot(cb) = s /\ cb_get_slot(cb) = cb_get_slot(d)
    BY <2>4 DEF NextSlot, cb_get_slot
  <2>6. d.count < d.size
    BY <1>2, <2>1, <2>2
  <2>7. s \in 0..n-1
    BY <2>1, <2>2, <2>6, CbGetSlotFits
  <2> HIDE DEF n, s, d
  <2>8. ASSUME NEW m \in Pool(n, Packet), WroteSlot(n, pcks, s, p, m)
        PROVE  Contents(cb_get_slot(d), m) = Append(Contents(d, pcks), p)
    BY <2>1, <2>2, <2>6, <2>8, ContentsPut DEF s
  <2>9. pcks' \in Pool(n, Packet) /\ WroteSlot(n, pcks, s, p, pcks')
    <3>1. pcks' = [pcks EXCEPT ![s] = p]
      BY <2>5
    <3>2. n \in Nat /\ pcks \in Pool(n, Packet) /\ s \in 0..n-1
      BY <2>1, <2>7
    <3>3. /\ [pcks EXCEPT ![s] = p] \in Pool(n, Packet)
          /\ WroteSlot(n, pcks, s, p, [pcks EXCEPT ![s] = p])
      BY <3>2, ExceptWrites, Zenon
    <3> QED
      BY <3>1, <3>3, Zenon
  <2>10. Contents(cb_get_slot(d), pcks') = Append(Contents(d, pcks), p)
    BY <2>8, <2>9, Zenon
  <2>11. cb' = cb_get_slot(d)
    BY <2>5
  <2>12. Contents(cb, pcks)' = Append(Tail(Contents(cb, pcks)), p)
    BY <2>3, <2>10, <2>11, Zenon
  <2>13. ~(cb.count < cb.size)
    BY <1>0, <1>2
  <2> QED
    BY <2>3, <2>12, <2>13, Zenon
<1>3. cb.count < cb.size \/ cb.count = cb.size
  BY <1>0
<1> QED
  BY <1>1, <1>2, <1>3, Zenon

LEMMA OrderWritePacket ==
  ASSUME RInv, RInv', OrderInv, WritePacket
  PROVE  OrderInv' /\ Gone' \subseteq Gone \cup Announced
<1> DEFINE p == request.packet
           c == Contents(cb, pcks)
<1>1. /\ UNCHANGED <<system_state, writing, radio, air>> /\ request' = NoRequest
      /\ request.rq = "RQ_WRITE"
  BY DEF WritePacket, Complete
<1>2. p \in Packet
  BY <1>1 DEF RInv, IInv, TypeOK, Request, NoRequest
<1>3. Announced = {p} /\ Announced' = {} /\ Unsent' = Unsent
  BY <1>1 DEF Announced, NoRequest, Unsent
<1>4. /\ air \in Seq(Packet) /\ Unsent \in Seq(Packet) /\ Kept \in Seq(Packet)
      /\ c \in Seq(Packet) /\ (c = <<>> <=> cb.count = 0) /\ cb.count \in Nat
      /\ cb.size \in Nat /\ cb.count <= cb.size
  BY KeptContents, RingsAreQueues DEF OrderInv
<1>5. CASE system_state = "READ"
  <2>1. Kept' = Kept
    BY <1>1, <1>5 DEF Kept
  <2>2. Skips'
    BY <1>1, <1>5 DEF OrderInv, Skips
  <2> QED
    BY <1>1, <1>3, <2>1, <2>2, OrderSame
<1>6. CASE system_state # "READ"
  <2>1. /\ HasSlots(cb) /\ pcks' = [pcks EXCEPT ![NextSlot(cb)] = p] /\ cb' = cb_get_slot(cb)
    BY <1>6 DEF WritePacket, WriteRing
  <2>2. \/ c' = Append(c, p)
        \/ c # <<>> /\ c' = Append(Tail(c), p)
    <3>1. cb.count < cb.size \/ cb.count = cb.size
      BY <1>4
    <3> QED
      BY <1>2, <2>1, <3>1, CbPutAlways, Zenon
  <2>3. Skips'
    <3>1. CASE writing
      <4>1. /\ HW_BUFFER_SIZE \in Nat /\ HW_BUFFER_SIZE > 0 /\ cb \in RingIn(HW_BUFFER_SIZE)
        BY RingsAreQueues DEF FitRing
      <4>2. cb_get_slot(cb).count > 0
        BY <1>4, <2>1, <4>1, CbGetSlotType DEF HasSlots
      <4>3. cb'.count > 0
        BY <2>1, <4>2
      <4> QED
        BY <1>1, <4>3 DEF OrderInv, Skips
    <3> QED
      BY <1>1, <3>1 DEF OrderInv, Skips
  <2>4. \/ Kept' = Append(Kept, p)
        \/ Kept # <<>> /\ Kept' = Append(Tail(Kept), p)
        \/ Kept' = Kept
    <3> HIDE DEF c, p
    <3>1. CASE writing
      <4>1. c # <<>> /\ Kept = Tail(c) /\ Kept' = Tail(c')
        BY <1>1, <1>4, <1>6, <3>1 DEF OrderInv, Skips, Kept, c
      <4>2. Tail(Append(c, p)) = Append(Tail(c), p)
        BY <1>4, <4>1, HeadTailAppend
      <4>3. Tail(c) \in Seq(Packet)
        BY <1>4, <4>1, HeadTailProperties
      <4>4. Tail(Append(Tail(c), p)) = IF Tail(c) = <<>> THEN <<>> ELSE Append(Tail(Tail(c)), p)
        BY <4>3, HeadTailAppend
      <4> QED
        BY <2>2, <4>1, <4>2, <4>4
    <3>2. CASE ~writing
      <4>1. Kept = c /\ Kept' = c'
        BY <1>1, <1>6, <3>2 DEF Kept, c
      <4> QED
        BY <2>2, <4>1
    <3> QED
      BY <3>1, <3>2
  <2> HIDE DEF c, p
  <2>5. AllBefore(Gone, {p})
    BY <1>3 DEF OrderInv
  <2>6. CASE Kept' = Kept
    BY <1>1, <1>3, <2>3, <2>6, OrderSame
  <2>7. ASSUME NEW k \in Seq(Packet), Elements(k) \subseteq Elements(Kept),
               InLine(air, Unsent, k), Kept' = Append(k, p)
        PROVE  OrderInv' /\ Gone' \subseteq Gone \cup Announced
    <3>1. AllBefore(Elements(air) \cup Elements(Unsent) \cup Elements(k), {p})
      BY <2>5, <2>7 DEF Gone, AllBefore
    <3>2. InLine(air, Unsent, Append(k, p))
      BY <1>2, <1>4, <2>7, <3>1, LineMoves DEF p
    <3>3. Elements(Append(k, p)) = Elements(k) \cup {p}
      BY <1>2, <2>7, ElementsAppend DEF p
    <3>4. InLine(air, Unsent, Kept)'
      BY <1>1, <1>3, <2>7, <3>2
    <3>5. Gone' \subseteq Gone \cup Announced
      BY <1>1, <1>3, <2>7, <3>3 DEF Gone
    <3> QED
      BY <1>3, <2>3, <3>4, <3>5 DEF OrderInv, AllBefore
  <2>8. CASE Kept' = Append(Kept, p)
    BY <1>4, <2>7, <2>8 DEF OrderInv
  <2>9. CASE Kept # <<>> /\ Kept' = Append(Tail(Kept), p)
    <3>1. Tail(Kept) \in Seq(Packet) /\ Elements(Tail(Kept)) \subseteq Elements(Kept)
          /\ InLine(air, Unsent, Tail(Kept))
      BY <1>4, <2>9, LineMoves, HeadTailProperties DEF OrderInv
    <3> QED
      BY <2>7, <2>9, <3>1
  <2> QED
    BY <2>4, <2>6, <2>8, <2>9
<1> QED
  BY <1>5, <1>6

\* Packets leave a queue at its head and join the next one at its end, or a queue is
\* emptied.
LEMMA OrderStep ==
  ASSUME RInv, RInv', OrderInv, Steps,
         Announced' \subseteq Announced \/ AllBefore(Gone, Announced')
  PROVE  OrderInv' /\ Gone' \subseteq Gone \cup Announced
<1> DEFINE c == Contents(cb, pcks)
<1>1. /\ air \in Seq(Packet) /\ Unsent \in Seq(Packet) /\ Kept \in Seq(Packet)
      /\ radio.tx \in Seq(Packet) /\ radio \in RadioType
      /\ c \in Seq(Packet) /\ (c = <<>> <=> cb.count = 0) /\ cb.count \in Nat
      /\ InLine(air, Unsent, Kept) /\ Skips
  BY KeptContents DEF OrderInv
<1>2. ASSUME UNCHANGED <<system_state, writing, cb, pcks>>
      PROVE  Kept' = Kept
  BY <1>2 DEF Kept
<1>3. ASSUME radio'.tx = radio.tx, radio'.seen = radio.seen
      PROVE  Unsent' = Unsent
  BY <1>3 DEF Unsent
<1>4. ASSUME UNCHANGED <<system_state, writing, cb>>,
             radio'.tx = radio.tx, radio'.seen = radio.seen
      PROVE  Skips'
  BY <1>1, <1>4 DEF Skips
<1>5. ASSUME request' = request PROVE Announced' = Announced
  BY <1>5 DEF Announced
<1>6. CASE \/ Quiet \/ Notes \/ MainPost \/ HostTakesInterrupt \/ RadioReceives
           \/ WriteOpenPipe \/ BulkRetry
  <2>1. /\ UNCHANGED <<system_state, writing, cb, pcks, air>>
        /\ radio'.tx = radio.tx /\ radio'.seen = radio.seen
    <3>1. CASE Quiet \/ Notes \/ MainPost \/ HostTakesInterrupt
      BY <3>1 DEF Quiet, Notes, MainPost, HostTakesInterrupt, firmware, ring, history
    <3>2. CASE RadioReceives
      BY <1>1, <3>2 DEF RadioReceives, Received, RadioType, firmware, ring
    <3>3. CASE WriteOpenPipe
      BY <1>1, <3>3 DEF WriteOpenPipe, rf24_stop_listening, RadioType, ring, history
    <3>4. CASE BulkRetry
      BY <1>1, <3>4 DEF BulkRetry, rf24_what_happened, RadioType, ring, history
    <3> QED
      BY <1>6, <3>1, <3>2, <3>3, <3>4
  <2> QED
    BY <1>2, <1>3, <1>4, <2>1, OrderSame
<1>7. CASE \/ \E m \in Mode : RqMode([rq |-> "RQ_MODE", mode |-> m])
           \/ RqFlush([rq |-> "RQ_FLUSH"]) \/ WriteConfig
  <2>1. /\ ~writing' /\ air' = air /\ radio'.tx = <<>> /\ ~radio'.seen
    BY <1>1, <1>7 DEF RqMode, RqFlush, WriteConfig, RadioFlushed, rf24_flush_rx,
       rf24_flush_tx, rf24_stop_listening, rf24_start_listening, RadioType, history
  <2>2. cb'.count = 0
    <3>1. CASE WriteConfig
      BY <3>1, ConfigRings DEF RInv
    <3>2. CASE \/ \E m \in Mode : RqMode([rq |-> "RQ_MODE", mode |-> m])
               \/ RqFlush([rq |-> "RQ_FLUSH"])
      BY <3>2 DEF RqMode, RqFlush, cb_flush, RInv, IInv, TypeOK, RingType
    <3> QED
      BY <1>7, <3>1, <3>2
  <2>3. Contents(cb, pcks)' = <<>>
    BY <2>2, ContentsNone, Zenon
  <2>4. Unsent' = <<>> /\ Kept' = <<>> /\ Skips'
    BY <2>1, <2>3 DEF Unsent, Kept, Skips
  <2>5. InLine(air', Unsent', Kept')
    BY <1>1, <2>1, <2>4, LineMoves
  <2>6. Announced' \subseteq Announced
    BY <1>7 DEF RqMode, RqFlush, WriteConfig, Complete, Announced, NoRequest, usb
  <2>7. Elements(air') \cup Elements(Unsent') \cup Elements(Kept') \subseteq Gone
    BY <2>1, <2>4, ElementsNone DEF Gone
  <2> QED
    BY <2>4, <2>5, <2>6, <2>7, OrderMoved
<1>8. CASE RqReadPacket([rq |-> "RQ_READ"])
  <2>1. system_state = "READ"
    BY <1>8, RingsAreQueues DEF RqReadPacket, ReadRing, cb_is_empty, RInv, ReadOnly
  <2>2. UNCHANGED <<system_state, writing, radio, air, request>>
    BY <1>8 DEF RqReadPacket
  <2>3. Kept' = Kept /\ Unsent' = Unsent /\ Skips'
    BY <1>1, <2>1, <2>2 DEF Kept, Unsent, Skips
  <2> QED
    BY <1>5, <2>2, <2>3, OrderSame
<1>9. CASE ReadMove
  <2>1. system_state = "READ" /\ UNCHANGED <<system_state, writing, air, request>>
    BY <1>9 DEF ReadMove, InProcess, usb, history
  <2>2. radio'.tx = radio.tx /\ radio'.seen = radio.seen
    BY <1>1, <1>9 DEF ReadMove, rf24_read, RadioType
  <2>3. Kept' = Kept /\ Unsent' = Unsent /\ Skips'
    BY <1>1, <2>1, <2>2 DEF Kept, Unsent, Skips
  <2> QED
    BY <1>5, <2>1, <2>3, OrderSame
<1>10. CASE WritePacket
  BY <1>10, OrderWritePacket
<1>11. CASE StreamFinish
  <2>1. /\ system_state = "WRITE_STREAM" /\ writing /\ writing' = FALSE
        /\ cb' = cb_read(cb) /\ UNCHANGED <<system_state, pcks, request, air>>
    BY <1>11 DEF StreamFinish, InProcess, history
  <2>2. c # <<>> /\ c' = Tail(c)
    BY <1>1, <2>1, CbRead DEF Skips
  <2>3. Kept' = Kept
    BY <2>1, <2>2 DEF Kept
  <2>4. CASE radio.max_rt
    <3>1. radio'.tx = <<>> /\ ~radio'.seen
      BY <1>1, <1>11, <2>4 DEF StreamFinish, rf24_what_happened, rf24_flush_tx, RadioType
    <3>2. Unsent' = <<>> /\ Skips'
      BY <2>1, <3>1 DEF Unsent, Skips
    <3>3. InLine(air', Unsent', Kept')
      BY <1>1, <2>1, <2>3, <3>2, LineMoves
    <3>4. Elements(air') \cup Elements(Unsent') \cup Elements(Kept') \subseteq Gone
      BY <2>1, <2>3, <3>2, ElementsNone DEF Gone
    <3> QED
      BY <1>5, <2>1, <3>2, <3>3, <3>4, OrderMoved
  <2>5. CASE ~radio.max_rt
    <3>1. radio'.tx = radio.tx /\ radio'.seen = radio.seen
      BY <1>1, <1>11, <2>5 DEF StreamFinish, rf24_what_happened, RadioType
    <3>2. Unsent' = Unsent /\ Skips'
      BY <1>1, <2>1, <3>1 DEF Unsent, Skips
    <3> QED
      BY <1>5, <2>1, <2>3, <3>2, OrderSame
  <2> QED
    BY <2>4, <2>5
<1>12. CASE StreamStart \/ BulkPush
  <2> DEFINE p == pcks[Oldest(cb)]
  <2>1. /\ system_state # "READ" /\ cb.count # 0 /\ ~writing
        /\ UNCHANGED <<system_state, pcks, request, air>>
    BY <1>1, <1>12 DEF StreamStart, BulkPush, InProcess, cb_is_empty, ring, usb, history, Skips
  <2>2. radio' = rf24_start_write(radio, p) \/ radio' = rf24_queue_push(radio, p)
    BY <1>12 DEF StreamStart, BulkPush
  <2>3. c # <<>> /\ Head(c) = p
    BY <1>1, <2>1, CbHead
  <2>4. Kept = c
    BY <2>1 DEF Kept
  <2>5. p \in Packet
    BY <1>1, <2>3, HeadTailProperties
  <2> HIDE DEF p
  <2>6. radio'.tx = Append(radio.tx, p) /\ radio'.seen = radio.seen
    BY <1>1, <2>2 DEF rf24_start_write, rf24_queue_push, rf24_what_happened, RadioType
  <2>7. Unsent' = Append(Unsent, p)
    <3>1. CASE radio.seen
      BY <1>1, <2>5, <2>6, <3>1, HeadTailAppend DEF Unsent, Skips
    <3>2. CASE ~radio.seen
      BY <1>1, <2>6, <3>2 DEF Unsent, RadioType
    <3> QED
      BY <3>1, <3>2
  <2>8. Kept' = Tail(c)
    <3>1. CASE StreamStart
      BY <2>1, <3>1 DEF StreamStart, Kept, ring
    <3>2. CASE BulkPush
      <4>1. cb' = cb_read(cb) /\ writing' = writing
        BY <3>2 DEF BulkPush
      <4>2. c' = Tail(c)
        BY <1>1, <2>1, <4>1, CbRead
      <4> QED
        BY <2>1, <4>1, <4>2 DEF Kept
    <3> QED
      BY <1>12, <3>1, <3>2
  <2>9. Skips'
    <3>1. radio'.tx # <<>>
      BY <1>1, <2>5, <2>6, AppendProperties
    <3>2. CASE StreamStart
      BY <1>1, <2>1, <3>1, <3>2 DEF StreamStart, InProcess, ring, Skips
    <3>3. CASE BulkPush
      BY <2>1, <3>1, <3>3 DEF BulkPush, Skips
    <3> QED
      BY <1>12, <3>2, <3>3
  <2> HIDE DEF c
  <2>10. /\ InLine(air', Unsent', Kept')
         /\ Elements(Unsent') \cup Elements(Kept') \subseteq Elements(Unsent) \cup Elements(Kept)
    BY <1>1, <2>1, <2>3, <2>4, <2>7, <2>8, LineMoves
  <2>11. Elements(air') \cup Elements(Unsent') \cup Elements(Kept') \subseteq Gone
    BY <2>1, <2>10 DEF Gone
  <2> QED
    BY <1>5, <2>1, <2>9, <2>10, <2>11, OrderMoved
<1>13. CASE RadioAcknowledged \/ RadioUnanswered
  <2>1. /\ radio.tx # <<>> /\ UNCHANGED <<system_state, writing, cb, pcks, request>>
    BY <1>13 DEF RadioAcknowledged, RadioUnanswered, MaySend, firmware, ring
  <2>2. Kept' = Kept
    BY <1>2, <2>1
  <2>3. \/ air' = air /\ Unsent' = Unsent
        \/ ~radio.seen /\ air' = Append(air, Head(radio.tx)) /\ Unsent' = Tail(radio.tx)
    <3>1. CASE RadioAcknowledged
      <4>1. radio'.tx = Tail(radio.tx) /\ ~radio'.seen
        BY <1>1, <3>1 DEF RadioAcknowledged, Acknowledged, RadioType
      <4> QED
        BY <3>1, <4>1 DEF RadioAcknowledged, Unsent
    <3>2. CASE RadioUnanswered
      <4>1. PICK taken \in BOOLEAN :
               /\ radio' = Unanswered(radio, taken)
               /\ air' = IF taken /\ ~radio.seen THEN Append(air, Head(radio.tx)) ELSE air
        BY <3>2 DEF RadioUnanswered
      <4>2. radio'.tx = radio.tx /\ radio'.seen = (radio.seen \/ taken)
        BY <1>1, <4>1 DEF Unanswered, RadioType
      <4> QED
        BY <1>1, <4>1, <4>2 DEF Unsent, RadioType
    <3> QED
      BY <1>13, <3>1, <3>2
  <2>4. Skips'
    <3>1. radio'.seen => radio'.tx # <<>>
      BY <1>1, <1>13, <2>1 DEF RadioAcknowledged, Acknowledged, RadioUnanswered, Unanswered,
         RadioType
    <3> QED
      BY <1>1, <2>1, <3>1 DEF Skips
  <2>5. CASE air' = air /\ Unsent' = Unsent
    BY <1>5, <2>1, <2>2, <2>4, <2>5, OrderSame
  <2>6. CASE ~radio.seen /\ air' = Append(air, Head(radio.tx)) /\ Unsent' = Tail(radio.tx)
    <3>1. Unsent = radio.tx
      BY <2>6 DEF Unsent
    <3>2. /\ InLine(air', Unsent', Kept')
          /\ Elements(air') \cup Elements(Unsent') \subseteq Elements(air) \cup Elements(Unsent)
      BY <1>1, <2>1, <2>2, <2>6, <3>1, LineMoves
    <3>3. Elements(air') \cup Elements(Unsent') \cup Elements(Kept') \subseteq Gone
      BY <2>2, <3>2 DEF Gone
    <3> QED
      BY <1>5, <2>1, <2>4, <3>2, <3>3, OrderMoved
  <2> QED
    BY <2>3, <2>5, <2>6
<1> QED
  BY <1>6, <1>7, <1>8, <1>9, <1>10, <1>11, <1>12, <1>13 DEF Steps

LEMMA OrderInit == Init => OrderInv
<1> SUFFICES ASSUME Init PROVE OrderInv
  OBVIOUS
<1>1. cb.count = 0 /\ ~writing /\ air = <<>> /\ Announced = {}
  BY DEF Init, Ring, Announced, NoRequest
<1>2. radio.tx = <<>> /\ ~radio.seen
  BY DEF Init, usb_init, RadioReset, rf24_stop_listening, rf24_flush_tx, rf24_flush_rx
<1>3. Contents(cb, pcks) = <<>>
  BY <1>1, ContentsNone
<1>4. Unsent = <<>> /\ Kept = <<>> /\ Skips
  BY <1>1, <1>2, <1>3 DEF Unsent, Kept, Skips
<1>5. InLine(<<>>, <<>>, <<>>)
  BY ElementsNone DEF InLine, AllBefore
<1>6. AllBefore(Gone, {})
  BY DEF AllBefore
<1> QED
  BY <1>1, <1>4, <1>5, <1>6 DEF OrderInv

-----------------------------------------------------------------------------
(***************************************************************************)
(* Each step that the dongle makes for a host that writes what it likes,   *)
(* and when it likes.                                                      *)
(***************************************************************************)

\* A request of that host.
LEMMA SetupNotes ==
  ASSUME NEW rq, Setup(rq)
  PROVE  /\ phase = "poll" /\ request = NoRequest /\ phase' # "hung"
         /\ request' = IF rq.rq \in OutRequests THEN rq ELSE NoRequest
  BY DEF Setup, RqMode, RqReadNothing, RqReadPacket, RqFlush, RqAnswerOnly, RqSync, SetupOut,
         MayServe, OutRequests, usb, history

LEMMA SetupOrder ==
  ASSUME OneAckMode, ~HostKeepsCredit, RInv, OrderInv, NEW rq \in Request, Setup(rq),
         rq.rq = "RQ_WRITE" => AllBefore(Gone, {rq.packet})
  PROVE  RInv' /\ OrderInv' /\ Gone' \subseteq Gone
<1>1. Announced = {} /\ (Announced' = {} \/ (rq.rq = "RQ_WRITE" /\ Announced' = {rq.packet}))
  <2>1. request = NoRequest /\ request' = IF rq.rq \in OutRequests THEN rq ELSE NoRequest
    BY SetupNotes
  <2>2. Announced' = IF request'.rq = "RQ_WRITE" THEN {request'.packet} ELSE {}
    BY DEF Announced
  <2>3. Announced = {}
    BY <2>1 DEF Announced, NoRequest
  <2>4. CASE request' = rq
    BY <2>2, <2>3, <2>4
  <2>5. CASE request' = NoRequest
    BY <2>2, <2>3, <2>5 DEF NoRequest
  <2> QED
    BY <2>1, <2>4, <2>5
<1>2. Announced' \subseteq Announced \/ AllBefore(Gone, Announced')
  BY <1>1
<1>3. IInv' /\ Steps
  BY SetupStep, SetupOfAnyHost DEF RInv
<1>4. RInv'
  BY <1>3, RInvStep
<1> QED
  BY <1>1, <1>2, <1>3, <1>4, OrderStep

\* The data of a request.
LEMMA DataNotes ==
  ASSUME Data
  PROVE  phase = "poll" /\ request' = NoRequest /\ request.rq \in OutRequests
  BY DEF Data, WriteOpenPipe, WriteConfig, WritePacket, WriteHangs, Complete, OutRequests

LEMMA DataOrder ==
  ASSUME OneAckMode, RInv, OrderInv, Data
  PROVE  RInv' /\ OrderInv' /\ Gone' \cup Announced' \subseteq Gone \cup Announced
<1>1. Announced' = {}
  BY DataNotes DEF Announced, NoRequest
<1>2. IInv' /\ Steps
  <2>1. [Next]_vars
    BY DEF Next
  <2> QED
    BY <2>1, IInvNext, NextSteps DEF RInv
<1>3. RInv'
  BY <1>2, RInvStep
<1> QED
  BY <1>1, <1>2, <1>3, OrderStep

\* The main loop, the radio and the interrupt endpoint; or nothing happens.
Alone ==
  \/ MainLoop \/ HostTakesInterrupt \/ RadioAcknowledged \/ RadioUnanswered \/ RadioReceives
  \/ UNCHANGED vars

LEMMA AloneNotes ==
  ASSUME Alone
  PROVE  request' = request /\ (phase = "hung") = (phase' = "hung")
<1>1. CASE PollNothing \/ MainPost \/ SyncTurn \/ SyncReturn
  BY <1>1 DEF PollNothing, MainPost, SyncTurn, SyncReturn, usb
<1>2. CASE ProcessRadio
  <2>1. request' = request /\ phase # "hung"
    BY <1>2 DEF ProcessRadio, IdleWork, ReadMove, ReadWorkDone, StreamFinish, StreamStart,
       StreamWait, BulkPush, BulkRetry, InProcess, usb
  <2>2. phase' = phase \/ EndProcess
    BY <1>2 DEF ProcessRadio, IdleWork, ReadMove, ReadWorkDone, StreamFinish, StreamStart,
       StreamWait, BulkPush, BulkRetry
  <2> QED
    BY <2>1, <2>2 DEF EndProcess
<1>3. CASE HostTakesInterrupt \/ RadioAcknowledged \/ RadioUnanswered \/ RadioReceives
  BY <1>3 DEF HostTakesInterrupt, RadioAcknowledged, RadioUnanswered, RadioReceives, firmware
<1>4. CASE UNCHANGED vars
  BY <1>4 DEF vars, usb
<1> QED
  BY <1>1, <1>2, <1>3, <1>4 DEF Alone, MainLoop

LEMMA AloneOrder ==
  ASSUME OneAckMode, RInv, OrderInv, Alone
  PROVE  RInv' /\ OrderInv' /\ Gone' \cup Announced' \subseteq Gone \cup Announced
<1>1. Announced' = Announced
  BY AloneNotes DEF Announced
<1>2. Steps
  <2>1. CASE MainLoop \/ UNCHANGED vars
    <3>1. [Next]_vars
      BY <2>1 DEF Next
    <3> QED
      BY <3>1, NextSteps
  <2>2. CASE HostTakesInterrupt \/ RadioAcknowledged \/ RadioUnanswered \/ RadioReceives
    BY <2>2 DEF Steps
  <2> QED
    BY <2>1, <2>2 DEF Alone
<1>3. IInv'
  <2>1. CASE UNCHANGED vars
    BY <2>1, IInvNext DEF RInv
  <2> QED
    BY <2>1, MainLoopStep, EnvironmentStep DEF RInv, Alone, Environment
<1>4. RInv'
  BY <1>2, <1>3, RInvStep
<1> QED
  BY <1>1, <1>2, <1>4, OrderStep

LEMMA NothingAtFirst == Init => Gone \cup Announced = {}
<1> SUFFICES ASSUME Init PROVE Gone \cup Announced = {}
  OBVIOUS
<1>1. cb.count = 0 /\ ~writing /\ air = <<>> /\ Announced = {}
  BY DEF Init, Ring, Announced, NoRequest
<1>2. radio.tx = <<>> /\ ~radio.seen
  BY DEF Init, usb_init, RadioReset, rf24_stop_listening, rf24_flush_tx, rf24_flush_rx
<1>3. Unsent = <<>> /\ Kept = <<>>
  BY <1>1, <1>2, ContentsNone DEF Unsent, Kept
<1> QED
  BY <1>1, <1>3, ElementsNone DEF Gone

\* What RQ_READ answers.
LEMMA ReadReplyType ==
  ASSUME RInv
  PROVE  ReadReply.packet \in Packet
<1>1. CASE cb_is_empty(ReadRing)
  BY <1>1 DEF ReadReply, NoPacket, Packet
<1>2. CASE ~cb_is_empty(ReadRing)
  <2>1. Oldest(ReadRing) \in 0..HW_BUFFER_SIZE-1
    BY OldestInPool DEF ReadRing, RInv
  <2> QED
    BY <1>2, <2>1 DEF ReadReply, RInv, IInv, TypeOK
<1> QED
  BY <1>1, <1>2

-----------------------------------------------------------------------------
(***************************************************************************)
(* What a host that keeps its credit gets: the packet in the air is the    *)
(* head of cb, and packets reach the air in order.                         *)
(***************************************************************************)

\* While the data of a write arrive, nothing takes its room away.
LEMMA RoomKeptStep ==
  ASSUME RInv, RoomKept, Steps
  PROVE  RoomKept'
<1>1. ASSUME request'.rq # "RQ_WRITE"
      PROVE  RoomKept'
  BY <1>1 DEF RoomKept
<1>2. ASSUME UNCHANGED <<request, WriteRing>>
      PROVE  RoomKept'
  BY <1>2 DEF RoomKept
<1>3. CASE \/ \E m \in Mode : RqMode([rq |-> "RQ_MODE", mode |-> m])
           \/ RqReadPacket([rq |-> "RQ_READ"]) \/ RqFlush([rq |-> "RQ_FLUSH"])
  <2>1. request' = request /\ request = NoRequest
    BY <1>3 DEF RqMode, RqReadPacket, RqFlush, MayServe, usb
  <2> QED
    BY <1>1, <2>1 DEF NoRequest
<1>4. CASE WriteOpenPipe \/ WriteConfig \/ WritePacket
  <2>1. request' = NoRequest
    BY <1>4 DEF WriteOpenPipe, WriteConfig, WritePacket, Complete
  <2> QED
    BY <1>1, <2>1 DEF NoRequest
<1>5. CASE \/ Quiet \/ StreamStart \/ BulkRetry \/ MainPost \/ HostTakesInterrupt
           \/ RadioAcknowledged \/ RadioUnanswered \/ RadioReceives
  <2>1. UNCHANGED <<request, system_state, cb, acb>>
    BY <1>5 DEF Quiet, StreamStart, BulkRetry, MainPost, HostTakesInterrupt,
       RadioAcknowledged, RadioUnanswered, RadioReceives, firmware, ring, usb
  <2> QED
    BY <1>2, <2>1 DEF WriteRing
<1>6. CASE Notes
  <2>1. UNCHANGED WriteRing
    BY <1>6 DEF Notes, WriteRing, ring
  <2> QED
    BY <1>6, <2>1 DEF Notes, RoomKept
<1>7. CASE ReadMove
  <2>1. UNCHANGED <<request, WriteRing>>
    BY <1>7 DEF ReadMove, InProcess, WriteRing, usb
  <2> QED
    BY <1>2, <2>1
<1>8. CASE StreamFinish \/ BulkPush
  <2>1. /\ request' = request /\ WriteRing = cb /\ WriteRing' = cb' /\ cb' = cb_read(cb)
    BY <1>8 DEF StreamFinish, BulkPush, InProcess, WriteRing, usb
  <2>2. cb \in RingIn(HW_BUFFER_SIZE) /\ cb.count <= cb.size
    BY RingsAreQueues DEF FitRing
  <2>3. /\ cb_read(cb).size = cb.size
        /\ cb_read(cb).count = IF cb.count = 0 THEN 0 ELSE cb.count - 1
    BY <2>2, CbReadType, HwBufferAssumption
  <2>4. cb'.size = cb.size /\ cb'.count <= cb.count /\ cb'.count \in Nat
    BY <2>1, <2>2, <2>3 DEF RingIn
  <2> QED
    BY <2>1, <2>2, <2>4 DEF RoomKept, HasSlots, cb_is_full, RingIn
<1> QED
  BY <1>3, <1>4, <1>5, <1>6, <1>7, <1>8 DEF Steps

\* The head of cb stays the head when a packet joins the queue.
LEMMA HeadKept ==
  ASSUME RInv, cb.count > 0, cb.count < cb.size, NEW p \in Packet,
         pcks' = [pcks EXCEPT ![NextSlot(cb)] = p], cb' = cb_get_slot(cb)
  PROVE  pcks'[Oldest(cb')] = pcks[Oldest(cb)]
<1>1. HW_BUFFER_SIZE \in Nat /\ HW_BUFFER_SIZE > 0 /\ cb \in FitRing(HW_BUFFER_SIZE)
  BY RingsAreQueues
<1>2. Oldest(cb_get_slot(cb)) = Oldest(cb) /\ NextSlot(cb) # Oldest(cb)
  BY <1>1, OldestStays
<1>3. Oldest(cb) \in 0..HW_BUFFER_SIZE-1
  BY OldestInPool DEF RInv
<1>4. pcks \in [0..HW_BUFFER_SIZE-1 -> Packet]
  BY DEF RInv, IInv, TypeOK
<1>5. pcks'[Oldest(cb)] = pcks[Oldest(cb)]
  BY <1>2, <1>3, <1>4
<1>6. Oldest(cb') = Oldest(cb)
  BY <1>2, Zenon
<1> QED
  BY <1>5, <1>6, Zenon

LEMMA StreamStateStep ==
  ASSUME RInv, WriteFits, StreamState, Steps
  PROVE  StreamState'
<1>1. /\ radio \in RadioType /\ cb.count \in Nat /\ writing \in BOOLEAN
      /\ RInv /\ WriteFits /\ StreamState
  BY RingsAreQueues DEF RInv, IInv, TypeOK
<1>2. ASSUME UNCHANGED <<writing, system_state, cb, pcks>>,
             radio'.tx = radio.tx, radio'.tx_ds = radio.tx_ds, radio'.seen = radio.seen
      PROVE  StreamState'
  BY <1>1, <1>2 DEF StreamState
<1>3. ASSUME ~writing', radio'.tx = <<>>, ~radio'.seen
      PROVE  StreamState'
  BY <1>3 DEF StreamState
<1>4. CASE Quiet \/ Notes \/ MainPost \/ HostTakesInterrupt
  BY <1>2, <1>4 DEF Quiet, Notes, MainPost, HostTakesInterrupt, firmware, ring
<1>5. CASE WriteOpenPipe
  BY <1>1, <1>2, <1>5 DEF WriteOpenPipe, rf24_stop_listening, RadioType, ring
<1>6. CASE RadioReceives
  BY <1>1, <1>2, <1>6 DEF RadioReceives, Received, RadioType, firmware, ring
<1>7. CASE \/ \E m \in Mode : RqMode([rq |-> "RQ_MODE", mode |-> m])
           \/ RqFlush([rq |-> "RQ_FLUSH"]) \/ WriteConfig
  <2>1. ~writing' /\ radio'.tx = <<>> /\ ~radio'.seen
    BY <1>1, <1>7 DEF RqMode, RqFlush, WriteConfig, RadioFlushed, rf24_flush_rx,
       rf24_flush_tx, rf24_stop_listening, rf24_start_listening, RadioType
  <2> QED
    BY <1>3, <2>1
<1>8. CASE RqReadPacket([rq |-> "RQ_READ"])
  <2>1. system_state = "READ"
    BY <1>8, <1>1, RingsAreQueues DEF RqReadPacket, ReadRing, cb_is_empty, RInv, ReadOnly
  <2>2. ~writing /\ UNCHANGED <<writing, system_state, radio>>
    BY <1>1, <1>8, <2>1 DEF RqReadPacket, StreamState
  <2> QED
    BY <1>1, <2>1, <2>2 DEF StreamState
<1>9. CASE ReadMove
  <2>1. system_state = "READ" /\ UNCHANGED <<writing, system_state>>
    BY <1>9 DEF ReadMove, InProcess
  <2>2. radio'.tx = radio.tx /\ radio'.seen = radio.seen
    BY <1>1, <1>9 DEF ReadMove, rf24_read, RadioType
  <2> QED
    BY <1>1, <2>1, <2>2 DEF StreamState
<1>10. CASE WritePacket
  <2>1. UNCHANGED <<writing, system_state, radio>>
    BY <1>10 DEF WritePacket
  <2>2. CASE ~writing
    BY <1>1, <2>1, <2>2 DEF StreamState
  <2>3. CASE writing
    <3>1. system_state = "WRITE_STREAM" /\ cb.count > 0
      BY <1>1, <2>3 DEF StreamState
    <3>2. /\ request.rq = "RQ_WRITE" /\ WriteRing = cb /\ cb' = cb_get_slot(cb)
          /\ pcks' = [pcks EXCEPT ![NextSlot(cb)] = request.packet]
      BY <1>10, <3>1 DEF WritePacket, Complete, WriteRing
    <3>3. cb.count < cb.size
      BY <1>1, <3>2, RingsAreQueues DEF WriteFits, cb_is_full
    <3>4. request.packet \in Packet
      BY <1>1, <1>10 DEF WritePacket, Complete, RInv, IInv, TypeOK, Request, NoRequest
    <3>5. pcks'[Oldest(cb')] = pcks[Oldest(cb)]
      BY <1>1, <3>1, <3>2, <3>3, <3>4, HeadKept
    <3>6. cb'.count > 0
      <4>1. HW_BUFFER_SIZE \in Nat /\ HW_BUFFER_SIZE > 0 /\ cb \in FitRing(HW_BUFFER_SIZE)
        BY <1>1, RingsAreQueues
      <4>2. cb_get_slot(cb).count = cb.count + 1
        BY <3>3, <4>1, CbGetSlotFits
      <4> QED
        BY <1>1, <3>2, <4>2
    <3> HIDE DEF Oldest
    <3> QED
      BY <1>1, <2>1, <2>3, <3>5, <3>6 DEF StreamState
  <2> QED
    BY <1>1, <2>2, <2>3
<1>11. CASE StreamFinish
  <2>1. writing /\ writing' = FALSE /\ rf24_write_done
    BY <1>11 DEF StreamFinish
  <2>2. CASE radio.max_rt
    BY <1>1, <1>3, <1>11, <2>1, <2>2
       DEF StreamFinish, rf24_what_happened, rf24_flush_tx, RadioType
  <2>3. CASE ~radio.max_rt
    <3>1. radio.tx = <<>> /\ ~radio.seen
      BY <1>1, <2>1, <2>3 DEF StreamState, rf24_write_done
    <3>2. radio'.tx = radio.tx /\ radio'.seen = radio.seen
      BY <1>1, <1>11, <2>3 DEF StreamFinish, rf24_what_happened, RadioType
    <3> QED
      BY <1>3, <2>1, <3>1, <3>2
  <2> QED
    BY <2>2, <2>3
<1>12. CASE StreamStart
  <2>1. /\ system_state = "WRITE_STREAM" /\ ~writing /\ cb.count # 0 /\ writing' = TRUE
        /\ UNCHANGED <<system_state, cb, pcks>>
    BY <1>12 DEF StreamStart, InProcess, cb_is_empty, ring
  <2>2. radio.tx = <<>>
    BY <1>1, <2>1 DEF StreamState
  <2> DEFINE p == pcks[Oldest(cb)]
  <2>3. radio' = rf24_start_write(radio, p)
    BY <1>12 DEF StreamStart
  <2> HIDE DEF p
  <2>4. radio'.tx = Append(radio.tx, p) /\ ~radio'.tx_ds
    BY <1>1, <2>3 DEF rf24_start_write, rf24_queue_push, rf24_what_happened, RadioType
  <2>5. radio'.tx = <<p>>
    BY <2>2, <2>4
  <2>6. radio'.tx # <<>>
    BY <2>5
  <2> QED
    BY <1>1, <2>1, <2>4, <2>5, <2>6 DEF StreamState, p
<1>13. CASE BulkPush
  <2>1. system_state' = "WRITE_BULK" /\ ~writing'
    BY <1>1, <1>13 DEF BulkPush, InProcess, StreamState
  <2>2. radio'.tx # <<>>
    <3> DEFINE p == pcks[Oldest(cb)]
    <3>1. radio' = rf24_queue_push(radio, p) /\ radio.tx \in Seq(Packet)
      BY <1>1, <1>13 DEF BulkPush, RadioType
    <3>2. p \in Packet
      BY <1>1, OldestInPool DEF RInv, IInv, TypeOK
    <3> HIDE DEF p
    <3>3. radio'.tx = Append(radio.tx, p)
      BY <1>1, <3>1 DEF rf24_queue_push, RadioType
    <3> QED
      BY <3>1, <3>2, <3>3, AppendProperties
  <2> QED
    BY <2>1, <2>2 DEF StreamState
<1>14. CASE BulkRetry
  <2>1. system_state' = "WRITE_BULK" /\ ~writing'
    BY <1>1, <1>14 DEF BulkRetry, InProcess, StreamState
  <2>2. radio'.tx = radio.tx /\ radio'.seen = radio.seen
    BY <1>1, <1>14 DEF BulkRetry, rf24_what_happened, RadioType
  <2> QED
    BY <1>1, <2>1, <2>2 DEF StreamState
<1>15. CASE RadioAcknowledged
  <2>1. /\ radio.tx # <<>> /\ UNCHANGED <<writing, system_state, cb, pcks>>
        /\ radio'.tx = Tail(radio.tx) /\ radio'.tx_ds /\ ~radio'.seen
    BY <1>1, <1>15 DEF RadioAcknowledged, MaySend, Acknowledged, RadioType, firmware, ring
  <2>2. CASE writing
    <3>1. radio.tx = <<pcks[Oldest(cb)]>>
      BY <1>1, <2>1, <2>2 DEF StreamState
    <3>2. radio'.tx = <<>>
      BY <2>1, <3>1
    <3> QED
      BY <1>1, <2>1, <2>2, <3>2 DEF StreamState
  <2>3. CASE ~writing
    BY <1>1, <2>1, <2>3 DEF StreamState
  <2> QED
    BY <1>1, <2>2, <2>3
<1>16. CASE RadioUnanswered
  <2>1. /\ radio.tx # <<>> /\ UNCHANGED <<writing, system_state, cb, pcks>>
        /\ radio'.tx = radio.tx /\ radio'.tx_ds = radio.tx_ds
    BY <1>1, <1>16 DEF RadioUnanswered, MaySend, Unanswered, RadioType, firmware, ring
  <2> QED
    BY <1>1, <2>1 DEF StreamState
<1> QED
  BY <1>4, <1>5, <1>6, <1>7, <1>8, <1>9, <1>10, <1>11, <1>12, <1>13, <1>14, <1>15, <1>16
     DEF Steps

LEMMA FInvNext ==
  ASSUME OneAckMode, HostKeepsCredit
  PROVE  FInv /\ [Next]_vars => FInv'
<1> SUFFICES ASSUME FInv, [Next]_vars PROVE FInv'
  OBVIOUS
<1>1. Steps /\ RInv /\ RoomKept
  BY NextSteps DEF FInv
<1>2. RInv'
  BY <1>1, RInvNext
<1>3. RoomKept'
  BY <1>1, RoomKeptStep
<1>4. StreamState'
  BY <1>1, StreamStateStep DEF FInv, RoomKept, WriteFits
<1> QED
  BY <1>2, <1>3, <1>4 DEF FInv

LEMMA FInvInit == Init => FInv
<1> SUFFICES ASSUME Init PROVE FInv
  OBVIOUS
<1>1. RoomKept
  BY DEF Init, NoRequest, RoomKept
<1>2. StreamState
  BY DEF Init, usb_init, RadioReset, rf24_stop_listening, rf24_flush_tx, rf24_flush_rx,
         StreamState
<1> QED
  BY <1>1, <1>2, RInvInit DEF FInv

LEMMA FInvAlways ==
  ASSUME OneAckMode, HostKeepsCredit
  PROVE  Spec => []FInv
  BY FInvInit, FInvNext, PTL DEF Spec

\* In stream mode the radio works on the head of cb, so the cb_read that follows
\* the end of a transmission removes the packet that was sent and no other.
THEOREM AirIsHead ==
  ASSUME OneAckMode, HostKeepsCredit
  PROVE  Spec => []InFlightIsHead
<1>1. FInv => InFlightIsHead
  <2> SUFFICES ASSUME FInv, system_state = "WRITE_STREAM", radio.tx # <<>>
               PROVE  writing /\ ~cb_is_empty(cb) /\ radio.tx = <<pcks[Oldest(cb)]>>
    BY DEF InFlightIsHead
  <2>1. writing
    BY DEF FInv, StreamState
  <2> QED
    BY <2>1 DEF FInv, StreamState, cb_is_empty
<1> QED
  BY <1>1, FInvAlways, PTL

-----------------------------------------------------------------------------
(***************************************************************************)
(* From RQ_WRITE to the air: every step is a step of the pipe.             *)
(***************************************************************************)
TxStep == [TxPipe!Next]_(TxPipe!vars)

LEMMA TxStutters ==
  ASSUME UNCHANGED <<written, TxPending, TxTaken, air, system_state>>
  PROVE  TxStep
  BY DEF TxStep, TxPipe!vars

LEMMA TxAccepts ==
  ASSUME UNCHANGED <<TxTaken, air, system_state>>, written \in Seq(Packet),
         NEW p \in Packet, written' = Append(written, p), TxPending' = Append(TxPending, p)
  PROVE  TxStep
<1>1. written' # <<>> /\ written'[Len(written')] = p
  BY AppendProperties
<1>2. TxPipe!Accept
  BY <1>1 DEF TxPipe!Accept
<1> QED
  BY <1>2 DEF TxStep, TxPipe!Next

LEMMA TxDelivers ==
  ASSUME UNCHANGED <<written, TxPending, system_state>>, TxPending # <<>>,
         ~TxTaken, TxTaken' = TRUE, air' = Append(air, Head(TxPending))
  PROVE  TxStep
<1>1. TxPipe!Deliver
  BY DEF TxPipe!Deliver
<1> QED
  BY <1>1 DEF TxStep, TxPipe!Next

LEMMA TxRetires ==
  ASSUME UNCHANGED <<written, system_state>>, TxPending # <<>>, TxPending' = Tail(TxPending),
         TxTaken' = FALSE,
         air' = IF TxTaken THEN air ELSE Append(air, Head(TxPending))
  PROVE  TxStep
<1>1. TxPipe!Retire
  BY DEF TxPipe!Retire
<1> QED
  BY <1>1 DEF TxStep, TxPipe!Next

LEMMA TxGivesUp ==
  ASSUME UNCHANGED <<written, air, system_state>>, system_state # "WRITE_BULK",
         TxPending # <<>>, TxPending' = Tail(TxPending), TxTaken' = FALSE
  PROVE  TxStep
<1>1. TxPipe!GiveUp
  BY DEF TxPipe!GiveUp
<1> QED
  BY <1>1 DEF TxStep, TxPipe!Next

LEMMA TxFlushes ==
  ASSUME UNCHANGED <<written, air>>, TxPending' = <<>>, TxTaken' = FALSE
  PROVE  TxStep
<1>1. TxPipe!Flush
  BY DEF TxPipe!Flush
<1> QED
  BY <1>1 DEF TxStep, TxPipe!Next

LEMMA TxRefines ==
  ASSUME HostKeepsCredit, FInv, FInv', Steps
  PROVE  TxStep
<1>1. /\ radio \in RadioType /\ radio.tx \in Seq(Packet)
      /\ cb.count \in Nat /\ cb.size \in Nat /\ written \in Seq(Packet)
      /\ RInv /\ RoomKept /\ StreamState
  BY RingsAreQueues DEF FInv, RInv, IInv, TypeOK, RadioType
<1> DEFINE c == Contents(cb, pcks)
<1>2. c \in Seq(Packet) /\ (c = <<>> <=> cb.count = 0)
  BY <1>1, CbContents
<1>3. ASSUME UNCHANGED <<system_state, cb, pcks>>, radio'.tx = radio.tx
      PROVE  TxPending' = TxPending
  BY <1>3 DEF TxPending
<1>4. ASSUME UNCHANGED <<system_state, writing>>, radio'.tx_ds = radio.tx_ds,
             radio'.seen = radio.seen
      PROVE  TxTaken' = TxTaken
  BY <1>4 DEF TxTaken
<1>5. CASE Quiet \/ Notes \/ MainPost \/ HostTakesInterrupt \/ WriteOpenPipe \/ RadioReceives
  <2>1. /\ UNCHANGED <<system_state, writing, cb, pcks, written, air>>
        /\ radio'.tx = radio.tx /\ radio'.tx_ds = radio.tx_ds /\ radio'.seen = radio.seen
    <3>1. CASE Quiet \/ Notes \/ MainPost \/ HostTakesInterrupt
      BY <3>1 DEF Quiet, Notes, MainPost, HostTakesInterrupt, firmware, ring, history
    <3>2. CASE WriteOpenPipe
      BY <1>1, <3>2 DEF WriteOpenPipe, rf24_stop_listening, RadioType, ring, history
    <3>3. CASE RadioReceives
      BY <1>1, <3>3 DEF RadioReceives, Received, RadioType, firmware, ring
    <3> QED
      BY <1>5, <3>1, <3>2, <3>3
  <2>2. TxPending' = TxPending /\ TxTaken' = TxTaken
    BY <1>3, <1>4, <2>1
  <2> QED
    BY <2>1, <2>2, TxStutters
<1>6. CASE \/ \E m \in Mode : RqMode([rq |-> "RQ_MODE", mode |-> m])
           \/ RqFlush([rq |-> "RQ_FLUSH"]) \/ WriteConfig
  <2>1. cb'.count = 0
    <3>1. CASE WriteConfig
      BY <1>1, <3>1, ConfigRings DEF RInv
    <3>2. CASE \/ \E m \in Mode : RqMode([rq |-> "RQ_MODE", mode |-> m])
               \/ RqFlush([rq |-> "RQ_FLUSH"])
      BY <1>1, <3>2 DEF RqMode, RqFlush, cb_flush, RInv, IInv, TypeOK, RingType
    <3> QED
      BY <1>6, <3>1, <3>2
  <2>2. ~writing' /\ radio'.tx = <<>> /\ ~radio'.seen /\ UNCHANGED <<written, air>>
    BY <1>1, <1>6 DEF RqMode, RqFlush, WriteConfig, RadioFlushed, rf24_flush_rx,
       rf24_flush_tx, rf24_stop_listening, rf24_start_listening, RadioType, history
  <2>3. c' = <<>>
    BY <2>1, ContentsNone, Zenon
  <2> HIDE DEF c
  <2>4. TxPending' = <<>>
    BY <2>2, <2>3 DEF TxPending, c
  <2>5. TxTaken' = FALSE
    BY <2>2 DEF TxTaken
  <2> QED
    BY <2>2, <2>4, <2>5, TxFlushes
<1>7. CASE RqReadPacket([rq |-> "RQ_READ"]) \/ ReadMove
  <2>1. system_state = "READ"
    BY <1>1, <1>7, RingsAreQueues
       DEF RqReadPacket, ReadMove, InProcess, ReadRing, cb_is_empty, RInv, ReadOnly
  <2>2. UNCHANGED <<system_state, writing, written, air>>
    BY <1>7 DEF RqReadPacket, ReadMove, history
  <2>3. radio'.tx_ds = radio.tx_ds /\ radio'.seen = radio.seen
    BY <1>1, <1>7 DEF RqReadPacket, ReadMove, rf24_read, RadioType
  <2>4. TxPending' = TxPending /\ TxTaken' = TxTaken
    BY <1>4, <2>1, <2>2, <2>3 DEF TxPending
  <2> QED
    BY <2>2, <2>4, TxStutters
<1>8. CASE WritePacket
  <2>1. UNCHANGED <<system_state, writing, radio, air>>
    BY <1>8 DEF WritePacket
  <2>2. TxTaken' = TxTaken
    BY <1>4, <2>1
  <2>3. CASE system_state = "READ"
    <3>1. written' = written /\ TxPending' = TxPending
      BY <1>8, <2>1, <2>3 DEF WritePacket, TxPending
    <3> QED
      BY <2>1, <2>2, <3>1, TxStutters
  <2>4. CASE system_state # "READ"
    <3> DEFINE p == request.packet
    <3>1. /\ request.rq = "RQ_WRITE" /\ WriteRing = cb /\ cb' = cb_get_slot(cb)
          /\ pcks' = [pcks EXCEPT ![NextSlot(cb)] = p] /\ written' = Append(written, p)
      BY <1>8, <2>4 DEF WritePacket, Complete, WriteRing
    <3>2. cb.count < cb.size
      BY <1>1, <3>1, RingsAreQueues DEF RoomKept, cb_is_full
    <3>3. p \in Packet
      BY <1>1, <1>8 DEF WritePacket, Complete, RInv, IInv, TypeOK, Request, NoRequest
    <3> HIDE DEF p
    <3>4. c' = Append(c, p)
      BY <1>1, <3>1, <3>2, <3>3, CbPut
    <3> HIDE DEF c
    <3>5. radio.tx \o Append(c, p) = Append(radio.tx \o c, p)
      <4> DEFINE t == radio.tx
      <4>1. t \in Seq(Packet) /\ c \in Seq(Packet)
        BY <1>1, <1>2
      <4> HIDE DEF t
      <4>2. t \o Append(c, p) = Append(t \o c, p)
        BY <3>3, <4>1, ConcatBack
      <4> QED
        BY <4>2 DEF t
    <3>6. TxPending' = Append(TxPending, p)
      <4>1. CASE system_state = "WRITE_BULK"
        <5>1. TxPending = radio.tx \o c /\ TxPending' = radio.tx \o c'
          BY <2>1, <4>1 DEF TxPending, c
        <5> QED
          BY <3>4, <3>5, <5>1, Zenon
      <4>2. CASE system_state # "WRITE_BULK"
        <5>1. TxPending = c /\ TxPending' = c'
          BY <2>1, <2>4, <4>2 DEF TxPending, c
        <5> QED
          BY <3>4, <5>1, Zenon
      <4> QED
        BY <4>1, <4>2
    <3>7. written' = Append(written, p)
      BY <3>1
    <3> QED
      BY <1>1, <2>1, <2>2, <3>3, <3>6, <3>7, TxAccepts
  <2> QED
    BY <2>3, <2>4
<1>9. CASE StreamStart
  <2>1. /\ UNCHANGED <<system_state, cb, pcks, written, air>>
        /\ system_state = "WRITE_STREAM" /\ ~writing /\ writing'
    BY <1>9 DEF StreamStart, InProcess, ring, history
  <2>2. radio'.seen = radio.seen /\ ~radio'.tx_ds
    BY <1>1, <1>9 DEF StreamStart, rf24_start_write, rf24_queue_push, rf24_what_happened,
       RadioType
  <2>3. TxPending' = TxPending
    BY <2>1 DEF TxPending
  <2>4. TxTaken' = TxTaken
    BY <2>1, <2>2 DEF TxTaken
  <2> QED
    BY <2>1, <2>3, <2>4, TxStutters
<1>10. CASE StreamFinish
  <2>1. /\ system_state = "WRITE_STREAM" /\ writing /\ ~writing' /\ rf24_write_done
        /\ cb' = cb_read(cb) /\ pcks' = pcks /\ UNCHANGED <<system_state, written, air>>
    BY <1>10 DEF StreamFinish, InProcess, history
  <2>2. cb.count > 0
    BY <1>1, <2>1 DEF StreamState
  <2>3. c # <<>> /\ c' = Tail(c)
    BY <1>1, <2>1, <2>2, CbRead
  <2> HIDE DEF c
  <2>4. TxPending = c /\ TxPending' = c'
    BY <2>1 DEF TxPending, c
  <2>5. TxTaken' = FALSE
    <3>1. ~radio'.seen
      <4>1. radio'.seen => radio'.tx # <<>>
        BY DEF FInv, StreamState
      <4>2. radio'.tx = <<>>
        BY <2>1 DEF FInv, StreamState
      <4> QED
        BY <4>1, <4>2
    <3> QED
      BY <2>1, <3>1 DEF TxTaken
  <2>6. TxPending # <<>> /\ TxPending' = Tail(TxPending)
    BY <2>3, <2>4
  <2>7. CASE TxTaken
    BY <2>1, <2>5, <2>6, <2>7, TxRetires
  <2>8. CASE ~TxTaken
    BY <2>1, <2>5, <2>6, TxGivesUp
  <2> QED
    BY <2>7, <2>8
<1>11. CASE BulkPush
  <2> DEFINE p == pcks[Oldest(cb)]
  <2>1. /\ system_state = "WRITE_BULK" /\ cb.count # 0 /\ radio' = rf24_queue_push(radio, p)
        /\ cb' = cb_read(cb) /\ pcks' = pcks
        /\ UNCHANGED <<system_state, writing, written, air>>
    BY <1>11 DEF BulkPush, InProcess, cb_is_empty, history
  <2>2. c # <<>> /\ Head(c) = p /\ c' = Tail(c)
    <3>1. cb.count > 0
      BY <1>1, <2>1
    <3> QED
      BY <1>1, <2>1, <3>1, CbRead
  <2> HIDE DEF c, p
  <2>3. /\ radio'.tx = Append(radio.tx, p) /\ radio'.tx_ds = radio.tx_ds
        /\ radio'.seen = radio.seen
    BY <1>1, <2>1 DEF rf24_queue_push, RadioType
  <2>4. Append(radio.tx, Head(c)) \o Tail(c) = radio.tx \o c
    BY <1>1, <1>2, <2>2, ConcatMove
  <2>5. TxPending = radio.tx \o c /\ TxPending' = radio'.tx \o c'
    BY <2>1 DEF TxPending, c
  <2>6. TxPending' = TxPending
    BY <2>2, <2>3, <2>4, <2>5, Zenon
  <2>7. TxTaken' = TxTaken
    BY <1>4, <2>1, <2>3
  <2> QED
    BY <2>1, <2>6, <2>7, TxStutters
<1>12. CASE BulkRetry
  <2>1. /\ system_state = "WRITE_BULK" /\ UNCHANGED <<system_state, cb, pcks, written, air>>
    BY <1>12 DEF BulkRetry, InProcess, ring, history
  <2>2. radio'.tx = radio.tx /\ radio'.seen = radio.seen
    BY <1>1, <1>12 DEF BulkRetry, rf24_what_happened, RadioType
  <2>3. TxPending' = TxPending
    BY <1>3, <2>1, <2>2
  <2>4. TxTaken' = TxTaken
    BY <2>1, <2>2 DEF TxTaken
  <2> QED
    BY <2>1, <2>3, <2>4, TxStutters
<1>13. CASE RadioAcknowledged \/ RadioUnanswered
  <2>1. /\ radio.tx # <<>> /\ UNCHANGED <<writing, system_state, cb, pcks, written>>
    BY <1>13 DEF RadioAcknowledged, RadioUnanswered, MaySend, firmware, ring
  <2>2. \/ system_state = "WRITE_BULK" /\ ~writing
        \/ system_state = "WRITE_STREAM" /\ writing
    BY <1>1, <2>1 DEF StreamState
  <2>3. TxPending # <<>> /\ Head(TxPending) = Head(radio.tx)
    <3>1. CASE system_state = "WRITE_BULK"
      <4>1. TxPending = radio.tx \o c
        BY <3>1 DEF TxPending
      <4> HIDE DEF c
      <4> QED
        BY <1>1, <1>2, <2>1, <4>1, ConcatFront
    <3>2. CASE system_state = "WRITE_STREAM"
      <4>1. writing /\ cb.count > 0 /\ radio.tx = <<pcks[Oldest(cb)]>>
        BY <1>1, <2>1, <2>2, <3>2 DEF StreamState
      <4>2. c # <<>> /\ Head(c) = pcks[Oldest(cb)]
        BY <1>1, <4>1, CbHead
      <4>3. TxPending = c
        BY <3>2 DEF TxPending
      <4> HIDE DEF c
      <4> QED
        BY <4>1, <4>2, <4>3
    <3> QED
      BY <2>2, <3>1, <3>2
  <2>4. TxTaken = radio.seen
    <3>1. writing => ~radio.tx_ds
      BY <1>1, <2>1 DEF StreamState
    <3> QED
      BY <1>1, <3>1 DEF TxTaken, RadioType
  <2>5. CASE RadioAcknowledged
    <3>1. /\ air' = IF radio.seen THEN air ELSE Append(air, Head(radio.tx))
          /\ radio'.tx = Tail(radio.tx) /\ radio'.tx_ds /\ ~radio'.seen
      BY <1>1, <2>5 DEF RadioAcknowledged, Acknowledged, RadioType
    <3>2. air' = IF TxTaken THEN air ELSE Append(air, Head(TxPending))
      BY <2>3, <2>4, <3>1
    <3>3. CASE system_state = "WRITE_BULK"
      <4>1. TxPending = radio.tx \o c /\ TxPending' = radio'.tx \o c
        BY <2>1, <3>3 DEF TxPending
      <4>2. TxTaken' = FALSE
        BY <2>1, <3>1, <3>3 DEF TxTaken
      <4> HIDE DEF c
      <4>3. TxPending' = Tail(TxPending)
        <5> DEFINE t == radio.tx
        <5>1. t \in Seq(Packet) /\ c \in Seq(Packet) /\ t # <<>>
          BY <1>1, <1>2, <2>1
        <5>2. TxPending = t \o c /\ TxPending' = Tail(t) \o c
          BY <3>1, <4>1
        <5> HIDE DEF t
        <5>3. Tail(t \o c) = Tail(t) \o c
          BY <5>1, ConcatFront
        <5> QED
          BY <5>2, <5>3
      <4> QED
        BY <2>1, <2>3, <3>2, <4>2, <4>3, TxRetires
    <3>4. CASE system_state = "WRITE_STREAM"
      <4>1. TxPending' = TxPending
        BY <2>1, <3>4 DEF TxPending
      <4>2. TxTaken' = TRUE
        BY <2>1, <2>2, <3>1, <3>4 DEF TxTaken
      <4>3. CASE TxTaken
        <5>1. TxTaken' = TxTaken /\ air' = air
          BY <2>4, <3>2, <4>2, <4>3
        <5> QED
          BY <2>1, <4>1, <5>1, TxStutters
      <4>4. CASE ~TxTaken
        <5>1. air' = Append(air, Head(TxPending))
          BY <3>2, <4>4
        <5> QED
          BY <2>1, <2>3, <4>1, <4>2, <4>4, <5>1, TxDelivers
      <4> QED
        BY <4>3, <4>4
    <3> QED
      BY <2>2, <3>3, <3>4
  <2>6. CASE RadioUnanswered
    <3>1. PICK taken \in BOOLEAN :
            /\ radio' = Unanswered(radio, taken)
            /\ air' = IF taken /\ ~radio.seen THEN Append(air, Head(radio.tx)) ELSE air
      BY <2>6 DEF RadioUnanswered
    <3>2. /\ radio'.tx = radio.tx /\ radio'.tx_ds = radio.tx_ds
          /\ radio'.seen = (radio.seen \/ taken)
      BY <1>1, <3>1 DEF Unanswered, RadioType
    <3>3. TxPending' = TxPending
      BY <1>3, <2>1, <3>2
    <3>4. CASE taken /\ ~radio.seen
      <4>1. TxTaken' = TRUE
        BY <3>2, <3>4 DEF TxTaken
      <4>2. ~TxTaken /\ air' = Append(air, Head(TxPending))
        BY <2>3, <2>4, <3>1, <3>4
      <4> QED
        BY <2>1, <2>3, <3>3, <4>1, <4>2, TxDelivers
    <3>5. CASE ~(taken /\ ~radio.seen)
      <4>1. radio'.seen = radio.seen
        BY <1>1, <3>2, <3>5 DEF RadioType
      <4>2. TxTaken' = TxTaken
        BY <1>4, <2>1, <3>2, <4>1
      <4> QED
        BY <2>1, <3>1, <3>3, <3>5, <4>2, TxStutters
    <3> QED
      BY <3>4, <3>5
  <2> QED
    BY <1>13, <2>5, <2>6
<1> QED
  BY <1>5, <1>6, <1>7, <1>8, <1>9, <1>10, <1>11, <1>12, <1>13 DEF Steps

\* From RQ_WRITE to the air the dongle is a queue: in order, none twice, and in
\* bulk mode none given up.
THEOREM TxIsPipe ==
  ASSUME OneAckMode, HostKeepsCredit
  PROVE  Spec => TxFifo
<1>1. Init => TxPipe!Init
  <2> SUFFICES ASSUME Init PROVE TxPipe!Init
    OBVIOUS
  <2>1. Contents(cb, pcks) = <<>>
    <3>1. cb.count = 0
      BY DEF Init, Ring
    <3> QED
      BY <3>1, ContentsNone
  <2>2. TxPending = <<>>
    BY <2>1 DEF Init, TxPending
  <2>3. TxTaken = FALSE
    BY DEF Init, TxTaken, usb_init, RadioReset, rf24_stop_listening, rf24_flush_tx,
           rf24_flush_rx
  <2> QED
    BY <2>2, <2>3 DEF Init, TxPipe!Init
<1>2. FInv /\ FInv' /\ [Next]_vars => TxStep
  BY NextSteps, TxRefines
<1> QED
  BY <1>1, <1>2, FInvAlways, PTL DEF Spec, TxFifo, TxPipe!Spec, TxStep

-----------------------------------------------------------------------------
(***************************************************************************)
(* A host that only writes: it never asks for the read mode, and each of    *)
(* its writes finds room in the ring.  That is how a program of DongleLink  *)
(* uses the dongle, and what follows is cited by LinkProofs.                *)
(***************************************************************************)

\* What a status tells such a host: room that is there and, when it says that nothing
\* is left in the dongle, that this is so and what became of the last write.
SaysNothingLeft(s) == s.cb_count = 0 /\ s.acb_count = 0 /\ s.fifo_is_empty
Tells(s) ==
  /\ s.cb_size - s.cb_count <= cb.size - cb.count
  /\ s.acb_count = 0
  /\ SaysNothingLeft(s) =>
       cb.count = 0 /\ radio.tx = <<>> /\ last_tx_failed = s.last_tx_failed

PrimedTells == intMsg # NoMessage => Tells(intMsg)

\* What the dongle does by itself outside of read mode.
Moves ==
  \/ Quiet \/ StreamFinish \/ StreamStart \/ BulkPush \/ BulkRetry \/ MainPost
  \/ HostTakesInterrupt \/ RadioAcknowledged \/ RadioUnanswered \/ RadioReceives

LEMMA AloneMoves ==
  ASSUME Alone, system_state # "READ"
  PROVE  Moves /\ Steps
<1>1. CASE PollNothing \/ SyncTurn \/ SyncReturn \/ IdleWork \/ ReadWorkDone \/ StreamWait
  BY <1>1 DEF PollNothing, SyncTurn, SyncReturn, IdleWork, ReadWorkDone, StreamWait,
     Moves, Steps, Quiet
<1>2. CASE ReadMove
  BY <1>2 DEF ReadMove, InProcess
<1>3. CASE UNCHANGED vars
  BY <1>3 DEF vars, Moves, Steps, Quiet
<1> QED
  BY <1>1, <1>2, <1>3 DEF Alone, MainLoop, ProcessRadio, Moves, Steps

\* The ring only gets emptier.
LEMMA MovesKeepRing ==
  ASSUME RInv, Moves
  PROVE  /\ UNCHANGED <<system_state, request, acb, pcks, written>>
         /\ cb'.size = cb.size /\ cb'.count <= cb.count
         /\ cb.count \in Nat /\ cb'.count \in Nat /\ cb.size \in Nat
<1>1. cb.count \in Nat /\ cb.size \in Nat /\ cb \in RingIn(HW_BUFFER_SIZE) /\ cb.count <= cb.size
  BY RingsAreQueues DEF FitRing
<1>2. CASE StreamFinish \/ BulkPush
  <2>1. cb' = cb_read(cb) /\ UNCHANGED <<system_state, request, acb, pcks, written>>
    BY <1>2 DEF StreamFinish, BulkPush, usb, history
  <2>2. /\ cb_read(cb).size = cb.size
        /\ cb_read(cb).count = IF cb.count = 0 THEN 0 ELSE cb.count - 1
    BY <1>1, CbReadType, HwBufferAssumption
  <2> QED
    BY <1>1, <2>1, <2>2
<1>3. CASE ~(StreamFinish \/ BulkPush)
  <2>1. UNCHANGED <<cb, system_state, request, acb, pcks, written>>
    BY <1>3 DEF Moves, Quiet, StreamStart, BulkRetry, MainPost, HostTakesInterrupt,
       RadioAcknowledged, RadioUnanswered, RadioReceives, firmware, ring, usb, history
  <2> QED
    BY <1>1, <2>1
<1> QED
  BY <1>2, <1>3

\* What was told stays true.
LEMMA MovesKeepTold ==
  ASSUME RInv, Skips, Moves, NEW s \in StatusType, Tells(s)
  PROVE  Tells(s)'
<1>1. /\ cb'.size = cb.size /\ cb'.count <= cb.count
      /\ cb.count \in Nat /\ cb'.count \in Nat /\ cb.size \in Nat
  BY MovesKeepRing
<1>2. s.cb_size \in Nat /\ s.cb_count \in Nat
  BY HwBufferAssumption DEF StatusType
<1>3. s.cb_size - s.cb_count <= cb'.size - cb'.count
  <2> DEFINE a == s.cb_size
             b == s.cb_count
             c == cb.size
             d == cb.count
             e == cb'.count
  <2>1. a \in Nat /\ b \in Nat /\ c \in Nat /\ d \in Nat /\ e \in Nat /\ e <= d /\ a - b <= c - d
    BY <1>1, <1>2 DEF Tells
  <2> HIDE DEF a, b, c, d, e
  <2>2. a - b <= c - e
    BY <2>1
  <2> QED
    BY <1>1, <2>2 DEF a, b, c, e
<1>4. CASE ~SaysNothingLeft(s)
  BY <1>3, <1>4 DEF Tells, SaysNothingLeft
<1>5. CASE SaysNothingLeft(s)
  <2>1. cb.count = 0 /\ radio.tx = <<>> /\ last_tx_failed = s.last_tx_failed /\ radio \in RadioType
    BY <1>5 DEF Tells, RInv, IInv, TypeOK
  <2>2. ~writing
    BY <2>1 DEF Skips
  <2>3. ~StreamFinish /\ ~StreamStart /\ ~BulkPush /\ ~RadioAcknowledged /\ ~RadioUnanswered
    BY <2>1, <2>2 DEF StreamFinish, StreamStart, BulkPush, RadioAcknowledged, RadioUnanswered,
       MaySend, cb_is_empty
  <2>4. last_tx_failed' = last_tx_failed /\ cb' = cb
    BY <2>3 DEF Moves, Quiet, BulkRetry, MainPost, HostTakesInterrupt, RadioReceives,
       firmware, ring
  <2>5. radio'.tx = radio.tx
    BY <2>1, <2>3 DEF Moves, Quiet, BulkRetry, MainPost, HostTakesInterrupt, RadioReceives,
       Received, rf24_what_happened, RadioType
  <2> QED
    BY <1>3, <2>1, <2>4, <2>5 DEF Tells
<1> QED
  BY <1>4, <1>5

\* A status that is made up of the state as it is.
LEMMA StatusTells ==
  ASSUME RInv', system_state' # "READ"
  PROVE  Tells(Status)' /\ acb'.count = 0
<1>1. acb'.count = 0
  BY DEF RInv, ReadOnly, IInv, TypeOK, RingType
<1>2. cb'.size \in Int /\ cb'.count \in Int
  BY HwBufferAssumption DEF RInv, IInv, TypeOK, RingType
<1> DEFINE s == Status
<1>3. /\ s'.cb_size = cb'.size /\ s'.cb_count = cb'.count /\ s'.acb_count = acb'.count
      /\ s'.last_tx_failed = last_tx_failed' /\ s'.fifo_is_empty = (radio'.tx = <<>>)
  BY DEF Status, rf24_tx_empty
<1> HIDE DEF s
<1>4. s'.cb_size - s'.cb_count <= cb'.size - cb'.count
  BY <1>2, <1>3
<1>5. Tells(s)'
  BY <1>1, <1>3, <1>4 DEF Tells, SaysNothingLeft
<1> QED
  BY <1>1, <1>5 DEF s

LEMMA MovesKeepPrimed ==
  ASSUME RInv, RInv', Skips, system_state # "READ", Moves, PrimedTells
  PROVE  PrimedTells'
<1>1. /\ UNCHANGED system_state /\ cb'.size = cb.size /\ cb'.count <= cb.count
      /\ cb.count \in Nat /\ cb'.count \in Nat /\ cb.size \in Nat
  BY MovesKeepRing
<1>2. ASSUME intMsg' = intMsg
      PROVE  PrimedTells'
  <2>1. intMsg # NoMessage => intMsg \in StatusType
    BY DEF RInv, IInv, TypeOK
  <2>2. ASSUME intMsg # NoMessage
        PROVE  Tells(intMsg)'
    <3> DEFINE s == intMsg
    <3>1. s \in StatusType /\ Tells(s)
      BY <2>1, <2>2 DEF PrimedTells
    <3>2. s' = s
      BY <1>2
    <3> HIDE DEF s
    <3>3. Tells(s)'
      BY <3>1, <3>2, MovesKeepTold
    <3> QED
      BY <3>3 DEF s
  <2> QED
    BY <1>2, <2>2 DEF PrimedTells
<1>3. CASE HostTakesInterrupt
  BY <1>3 DEF HostTakesInterrupt, PrimedTells
<1>4. CASE MainPost
  BY <1>1, <1>2, <1>4, StatusTells DEF MainPost, post_interrupt_message, PrimedTells
<1>5. CASE StreamFinish
  <2>1. cb.count > 0
    BY <1>5 DEF StreamFinish, Skips
  <2>2. /\ intMsg'.cb_count = cb.count /\ intMsg'.cb_size = cb'.size
        /\ intMsg'.acb_count = acb'.count
    BY <1>5 DEF StreamFinish, Status
  <2>3. acb'.count = 0
    BY <1>1, StatusTells
  <2> QED
    BY <1>1, <2>1, <2>2, <2>3 DEF PrimedTells, Tells, SaysNothingLeft
<1> QED
  BY <1>2, <1>3, <1>4, <1>5 DEF Moves, Quiet, StreamStart, BulkPush, BulkRetry,
     RadioAcknowledged, RadioUnanswered, RadioReceives, usb

\* A new mode empties the ring and the radio's FIFO.
LEMMA ModeIsSet ==
  ASSUME RInv, PrimedTells, NEW rq, RqMode(rq)
  PROVE  /\ system_state' = rq.mode /\ PrimedTells' /\ request' = request
         /\ cb'.count = 0 /\ cb'.size = cb.size /\ radio'.tx = <<>>
<1>1. /\ system_state' = rq.mode /\ cb' = cb_flush(cb) /\ last_tx_failed' = last_tx_failed
      /\ intMsg' = intMsg /\ request' = request
  BY DEF RqMode, usb
<1>2. cb \in RingType /\ radio \in RadioType /\ cb.count \in Nat /\ cb.size \in Nat
  BY HwBufferAssumption DEF RInv, IInv, TypeOK, RingType
<1>3. cb'.count = 0 /\ cb'.size = cb.size
  BY <1>1, <1>2 DEF cb_flush, RingType
<1>4. radio'.tx = <<>>
  BY <1>2 DEF RqMode, RadioFlushed, rf24_flush_rx, rf24_flush_tx, rf24_stop_listening,
     rf24_start_listening, RadioType
<1>5. ASSUME intMsg # NoMessage
      PROVE  Tells(intMsg)'
  <2>1. intMsg \in StatusType /\ Tells(intMsg)
    BY <1>5 DEF PrimedTells, RInv, IInv, TypeOK
  <2>2. intMsg.cb_size \in Nat /\ intMsg.cb_count \in Nat
    BY <2>1, HwBufferAssumption DEF StatusType
  <2>3. intMsg.cb_size - intMsg.cb_count <= cb'.size - cb'.count
    BY <1>2, <1>3, <2>1, <2>2 DEF Tells
  <2> QED
    BY <1>1, <1>3, <1>4, <2>1, <2>3 DEF Tells
<1> QED
  BY <1>1, <1>3, <1>4, <1>5 DEF PrimedTells

\* A request with a data stage is noted.
LEMMA OutIsNoted ==
  ASSUME PrimedTells, NEW rq, SetupOut(rq)
  PROVE  /\ UNCHANGED <<system_state, writing, last_tx_failed, cb, acb, pcks, radio, air, written>>
         /\ request' = rq /\ PrimedTells'
  BY DEF SetupOut, PrimedTells, Tells, ring, history

LEMMA ConfigIsDone ==
  ASSUME RInv, RInv', system_state # "READ", WriteConfig
  PROVE  /\ system_state' = system_state /\ cb'.count = 0 /\ PrimedTells'
         /\ request' = NoRequest
<1>1. /\ system_state' = system_state /\ request' = NoRequest
      /\ cb' = ResizedCb(request.ack_payloads)
  BY DEF WriteConfig, Complete
<1>2. cb \in RingType /\ radio \in RadioType /\ cb'.size \in Nat
  BY HwBufferAssumption DEF RInv, IInv, TypeOK, RingType
<1>3. cb'.count = 0
  BY <1>1, <1>2 DEF ResizedCb, Resize, cb_flush, RingType
<1>4. radio'.tx = <<>>
  BY <1>2 DEF WriteConfig, RadioFlushed, rf24_flush_rx, rf24_flush_tx, rf24_stop_listening,
     rf24_start_listening, RadioType
<1>5. /\ intMsg'.cb_count = cb'.count /\ intMsg'.acb_count = acb'.count
      /\ intMsg'.last_tx_failed = last_tx_failed' /\ intMsg' \in StatusType
  <2>1. /\ intMsg'.cb_count = cb'.count /\ intMsg'.acb_count = acb'.count
        /\ intMsg'.last_tx_failed = last_tx_failed' /\ intMsg'.cb_size = cb.size
    BY DEF WriteConfig, Status
  <2>2. intMsg' # NoMessage
    BY <1>3, <2>1 DEF NoMessage
  <2> QED
    BY <2>1, <2>2 DEF RInv, IInv, TypeOK
<1>6. intMsg'.cb_size <= cb'.size /\ intMsg'.cb_size \in Nat
  BY <1>5, HwBufferAssumption DEF RInv, PostedFits, NoMessage, StatusType
<1>7. acb'.count = 0
  BY <1>1, StatusTells
<1> QED
  BY <1>1, <1>2, <1>3, <1>4, <1>5, <1>6, <1>7 DEF PrimedTells, Tells

\* A write that fits.
LEMMA PacketIsPut ==
  ASSUME RInv, RInv', system_state # "READ", WriteFits, WritePacket
  PROVE  /\ system_state' = system_state /\ PrimedTells' /\ request' = NoRequest
         /\ cb.count < cb.size /\ cb'.count = cb.count + 1 /\ cb'.size = cb.size
<1>1. /\ system_state' = system_state /\ request.rq = "RQ_WRITE" /\ request' = NoRequest
      /\ cb' = cb_get_slot(cb) /\ intMsg' = Status' /\ WriteRing = cb
  BY DEF WritePacket, Complete, post_interrupt_message, WriteRing
<1>2. cb \in FitRing(HW_BUFFER_SIZE) /\ cb.count \in Nat /\ cb.size \in Nat /\ cb.count <= cb.size
  BY RingsAreQueues
<1>3. cb.count < cb.size
  BY <1>1, <1>2 DEF WriteFits, cb_is_full
<1>4. cb'.count = cb.count + 1
  BY <1>1, <1>2, <1>3, HwBufferAssumption, CbGetSlotFits
<1>5. cb'.size = cb.size
  BY <1>1, <1>2, <1>3, HwBufferAssumption, CbGetSlotType DEF FitRing, HasSlots
<1>6. Tells(Status)'
  BY <1>1, StatusTells
<1> QED
  BY <1>1, <1>3, <1>4, <1>5, <1>6 DEF PrimedTells

-----------------------------------------------------------------------------
(***************************************************************************)
(* What became of the packets of a host that only writes: those that it is  *)
(* told nothing is left of were sent.                                       *)
(***************************************************************************)

\* The peer has the packet at the head of the FIFO whose acknowledge was lost, and, in
\* stream mode, the head of cb once tx_ds is set.
AirSeen == radio.seen => radio.tx # <<>> /\ Head(radio.tx) \in Elements(air)
StreamSent == writing /\ radio.tx_ds => pcks[Oldest(cb)] \in Elements(air)
SentTrue == StreamState /\ AirSeen /\ StreamSent

\* The packets in the dongle.
Held == Elements(radio.tx) \cup Elements(Contents(cb, pcks))

\* Packet p was the last to be written, and in stream mode the verdict is about it.
LastIs(p) ==
  IF cb.count > 0 THEN Contents(cb, pcks)[cb.count] = p
                  ELSE last_tx_failed = "ok" => p \in Elements(air)

\* What was sent stays sent.
LEMMA AirGrows ==
  ASSUME RInv, Steps
  PROVE  Elements(air) \subseteq Elements(air')
<1>1. air \in Seq(Packet) /\ radio.tx \in Seq(Packet)
  BY DEF RInv, IInv, TypeOK, RadioType
<1>2. CASE air' = air
  BY <1>2
<1>3. CASE radio.tx # <<>> /\ air' = Append(air, Head(radio.tx))
  BY <1>1, <1>3, ElementsAppend, HeadTailProperties
<1>4. air' = air \/ (radio.tx # <<>> /\ air' = Append(air, Head(radio.tx)))
  BY DEF Steps, Quiet, Notes, RqMode, RqReadPacket, RqFlush, WriteOpenPipe, WriteConfig,
     WritePacket, ReadMove, StreamFinish, StreamStart, BulkPush, BulkRetry, MainPost,
     HostTakesInterrupt, RadioAcknowledged, RadioUnanswered, RadioReceives, MaySend, history
<1> QED
  BY <1>2, <1>3, <1>4

LEMMA AirSeenStep ==
  ASSUME RInv, StreamState, AirSeen, Steps
  PROVE  AirSeen'
<1>1. /\ radio \in RadioType /\ radio.tx \in Seq(Packet) /\ air \in Seq(Packet)
  BY DEF RInv, IInv, TypeOK, RadioType
<1>2. Elements(air) \subseteq Elements(air')
  BY AirGrows
<1>3. ASSUME radio'.tx = radio.tx, radio'.seen = radio.seen
      PROVE  AirSeen'
  BY <1>2, <1>3 DEF AirSeen
<1>4. ASSUME ~radio'.seen PROVE AirSeen'
  BY <1>4 DEF AirSeen
<1>5. CASE \/ Quiet \/ Notes \/ MainPost \/ HostTakesInterrupt \/ WriteOpenPipe
           \/ RadioReceives \/ RqReadPacket([rq |-> "RQ_READ"]) \/ ReadMove \/ BulkRetry
  <2>1. radio'.tx = radio.tx /\ radio'.seen = radio.seen
    BY <1>1, <1>5 DEF Quiet, Notes, MainPost, HostTakesInterrupt, WriteOpenPipe, RadioReceives,
       Received, RqReadPacket, ReadMove, rf24_read, BulkRetry, rf24_what_happened,
       rf24_stop_listening, RadioType
  <2> QED
    BY <1>3, <2>1
<1>6. CASE \/ \E m \in Mode : RqMode([rq |-> "RQ_MODE", mode |-> m])
           \/ RqFlush([rq |-> "RQ_FLUSH"]) \/ WriteConfig
  <2>1. ~radio'.seen
    BY <1>1, <1>6 DEF RqMode, RqFlush, WriteConfig, RadioFlushed, rf24_flush_rx,
       rf24_flush_tx, rf24_stop_listening, rf24_start_listening, RadioType
  <2> QED
    BY <1>4, <2>1
<1>7. CASE WritePacket
  BY <1>3, <1>7 DEF WritePacket
<1>8. CASE StreamFinish
  <2>1. \/ ~radio'.seen
        \/ radio'.tx = radio.tx /\ radio'.seen = radio.seen
    BY <1>1, <1>8 DEF StreamFinish, rf24_what_happened, rf24_flush_tx, RadioType
  <2> QED
    BY <1>3, <1>4, <2>1
<1>9. CASE StreamStart
  <2>1. ~writing /\ system_state = "WRITE_STREAM"
    BY <1>9 DEF StreamStart, InProcess
  <2>2. ~radio.seen
    BY <2>1 DEF StreamState
  <2>3. radio'.seen = radio.seen
    BY <1>1, <1>9 DEF StreamStart, rf24_start_write, rf24_queue_push, rf24_what_happened,
       RadioType
  <2> QED
    BY <1>4, <2>2, <2>3
<1>10. CASE BulkPush
  <2> DEFINE p == pcks[Oldest(cb)]
  <2>1. p \in Packet
    BY OldestInPool DEF RInv, IInv, TypeOK
  <2>2. radio' = rf24_queue_push(radio, p)
    BY <1>10 DEF BulkPush
  <2> HIDE DEF p
  <2>3. radio'.tx = Append(radio.tx, p) /\ radio'.seen = radio.seen
    BY <1>1, <2>2 DEF rf24_queue_push, RadioType
  <2>4. radio.tx # <<>> => Head(radio'.tx) = Head(radio.tx) /\ radio'.tx # <<>>
    BY <1>1, <2>1, <2>3, HeadTailAppend, AppendProperties
  <2> QED
    BY <1>2, <2>3, <2>4 DEF AirSeen
<1>11. CASE RadioAcknowledged
  <2>1. ~radio'.seen
    BY <1>1, <1>11 DEF RadioAcknowledged, Acknowledged, RadioType
  <2> QED
    BY <1>4, <2>1
<1>12. CASE RadioUnanswered
  <2>1. radio.tx # <<>>
    BY <1>12 DEF RadioUnanswered, MaySend
  <2>2. PICK taken \in BOOLEAN :
          /\ radio' = Unanswered(radio, taken)
          /\ air' = IF taken /\ ~radio.seen THEN Append(air, Head(radio.tx)) ELSE air
    BY <1>12 DEF RadioUnanswered
  <2>3. radio'.tx = radio.tx /\ radio'.seen = (radio.seen \/ taken)
    BY <1>1, <2>2 DEF Unanswered, RadioType
  <2>4. taken /\ ~radio.seen => Head(radio.tx) \in Elements(air')
    BY <1>1, <2>1, <2>2, ElementsAppend, HeadTailProperties
  <2> QED
    BY <1>2, <2>1, <2>3, <2>4 DEF AirSeen
<1> QED
  BY <1>5, <1>6, <1>7, <1>8, <1>9, <1>10, <1>11, <1>12 DEF Steps

LEMMA StreamSentStep ==
  ASSUME RInv, WriteFits, SentTrue, Steps
  PROVE  StreamSent'
<1>1. /\ radio \in RadioType /\ radio.tx \in Seq(Packet) /\ air \in Seq(Packet)
      /\ cb.count \in Nat /\ writing \in BOOLEAN
      /\ StreamState /\ AirSeen /\ StreamSent
  BY RingsAreQueues DEF RInv, IInv, TypeOK, RadioType, SentTrue
<1>2. Elements(air) \subseteq Elements(air')
  BY AirGrows
<1>3. ASSUME UNCHANGED <<writing, cb, pcks>>, radio'.tx_ds = radio.tx_ds
      PROVE  StreamSent'
  BY <1>1, <1>2, <1>3 DEF StreamSent
<1>4. ASSUME ~writing' \/ ~radio'.tx_ds PROVE StreamSent'
  BY <1>4 DEF StreamSent
<1>5. CASE \/ Quiet \/ Notes \/ MainPost \/ HostTakesInterrupt \/ WriteOpenPipe \/ RadioReceives
           \/ RadioUnanswered
  <2>1. UNCHANGED <<writing, cb, pcks>> /\ radio'.tx_ds = radio.tx_ds
    BY <1>1, <1>5 DEF Quiet, Notes, MainPost, HostTakesInterrupt, WriteOpenPipe, RadioReceives,
       Received, RadioUnanswered, Unanswered, rf24_stop_listening, RadioType, ring, firmware
  <2> QED
    BY <1>3, <2>1
<1>6. CASE \/ \E m \in Mode : RqMode([rq |-> "RQ_MODE", mode |-> m])
           \/ RqFlush([rq |-> "RQ_FLUSH"]) \/ WriteConfig \/ StreamFinish
  <2>1. ~writing'
    BY <1>6 DEF RqMode, RqFlush, WriteConfig, StreamFinish
  <2> QED
    BY <1>4, <2>1
<1>7. CASE RqReadPacket([rq |-> "RQ_READ"]) \/ ReadMove
  <2>1. system_state = "READ" /\ writing' = writing
    BY <1>1, <1>7, RingsAreQueues
       DEF RqReadPacket, ReadMove, InProcess, ReadRing, cb_is_empty, RInv, ReadOnly
  <2> QED
    BY <1>1, <1>4, <2>1 DEF StreamState
<1>8. CASE BulkPush \/ BulkRetry
  <2>1. system_state = "WRITE_BULK" /\ writing' = writing
    BY <1>8 DEF BulkPush, BulkRetry, InProcess
  <2> QED
    BY <1>1, <1>4, <2>1 DEF StreamState
<1>9. CASE StreamStart
  <2>1. ~radio'.tx_ds
    BY <1>1, <1>9 DEF StreamStart, rf24_start_write, rf24_queue_push, rf24_what_happened,
       RadioType
  <2> QED
    BY <1>4, <2>1
<1>10. CASE WritePacket
  <2>1. UNCHANGED <<writing, system_state, radio>>
    BY <1>10 DEF WritePacket
  <2>2. CASE ~writing
    BY <1>4, <2>1, <2>2
  <2>3. CASE writing
    <3>1. system_state = "WRITE_STREAM" /\ cb.count > 0
      BY <1>1, <2>3 DEF StreamState
    <3>2. /\ request.rq = "RQ_WRITE" /\ WriteRing = cb /\ cb' = cb_get_slot(cb)
          /\ pcks' = [pcks EXCEPT ![NextSlot(cb)] = request.packet]
      BY <1>10, <3>1 DEF WritePacket, Complete, WriteRing
    <3>3. cb.count < cb.size
      BY <1>1, <3>2, RingsAreQueues DEF WriteFits, cb_is_full
    <3>4. request.packet \in Packet
      BY <1>1, <1>10 DEF WritePacket, Complete, RInv, IInv, TypeOK, Request, NoRequest
    <3>5. pcks'[Oldest(cb')] = pcks[Oldest(cb)]
      BY <1>1, <3>1, <3>2, <3>3, <3>4, HeadKept
    <3> HIDE DEF Oldest
    <3> QED
      BY <1>1, <1>2, <2>1, <2>3, <3>5 DEF StreamSent
  <2> QED
    BY <2>2, <2>3
<1>11. CASE RadioAcknowledged
  <2>1. /\ radio.tx # <<>> /\ UNCHANGED <<writing, cb, pcks>>
        /\ air' = IF radio.seen THEN air ELSE Append(air, Head(radio.tx))
    BY <1>11 DEF RadioAcknowledged, MaySend, firmware, ring
  <2>2. Head(radio.tx) \in Elements(air')
    BY <1>1, <2>1, ElementsAppend, HeadTailProperties DEF AirSeen
  <2>3. writing => radio.tx = <<pcks[Oldest(cb)]>>
    BY <1>1, <2>1 DEF StreamState
  <2>4. writing => Head(radio.tx) = pcks[Oldest(cb)]
    BY <2>3
  <2> QED
    BY <2>1, <2>2, <2>4 DEF StreamSent
<1> QED
  BY <1>5, <1>6, <1>7, <1>8, <1>9, <1>10, <1>11 DEF Steps

LEMMA SentTrueStep ==
  ASSUME RInv, WriteFits, SentTrue, Steps
  PROVE  SentTrue'
  BY StreamStateStep, AirSeenStep, StreamSentStep DEF SentTrue

LEMMA SentTrueInit ==
  ASSUME Init
  PROVE  SentTrue
<1>1. StreamState /\ AirSeen
  BY DEF Init, usb_init, RadioReset, rf24_stop_listening, rf24_flush_tx, rf24_flush_rx,
     StreamState, AirSeen
<1>2. StreamSent
  BY DEF Init, StreamSent
<1> QED
  BY <1>1, <1>2 DEF SentTrue

\* What the dongle does by itself takes no packet in; in bulk mode it loses none.
LEMMA MovesKeepHeld ==
  ASSUME RInv, Skips, SentTrue, Moves, system_state # "READ"
  PROVE  /\ Held' \subseteq Held
         /\ system_state = "WRITE_BULK" => Held \subseteq Held' \cup Elements(air')
<1> DEFINE c == Contents(cb, pcks)
           p == pcks[Oldest(cb)]
<1>1. /\ radio \in RadioType /\ radio.tx \in Seq(Packet) /\ air \in Seq(Packet)
      /\ c \in Seq(Packet) /\ (c = <<>> <=> cb.count = 0) /\ cb.count \in Nat
      /\ StreamState /\ AirSeen
  BY KeptContents DEF SentTrue
<1>2. ASSUME radio'.tx = radio.tx, UNCHANGED <<cb, pcks>>
      PROVE  Held' = Held
  BY <1>2 DEF Held
<1>3. CASE Quiet \/ BulkRetry \/ MainPost \/ HostTakesInterrupt \/ RadioUnanswered \/ RadioReceives
  <2>1. radio'.tx = radio.tx /\ UNCHANGED <<cb, pcks>>
    BY <1>1, <1>3 DEF Quiet, BulkRetry, MainPost, HostTakesInterrupt, RadioUnanswered, Unanswered,
       RadioReceives, Received, rf24_what_happened, RadioType, ring, firmware
  <2> QED
    BY <1>2, <2>1
<1>4. CASE StreamFinish
  <2>1. /\ system_state = "WRITE_STREAM" /\ writing /\ cb' = cb_read(cb) /\ pcks' = pcks
    BY <1>4 DEF StreamFinish, InProcess
  <2>2. cb.count > 0 /\ c # <<>>
    BY <1>1, <2>1 DEF StreamState
  <2>3. c' = Tail(c) /\ Elements(c') \subseteq Elements(c)
    BY <1>1, <2>1, <2>2, CbRead, ElementsTail
  <2>4. radio'.tx = radio.tx \/ radio'.tx = <<>>
    BY <1>1, <1>4 DEF StreamFinish, rf24_what_happened, rf24_flush_tx, RadioType
  <2>5. Elements(radio'.tx) \subseteq Elements(radio.tx)
    BY <2>4, ElementsNone
  <2> QED
    BY <2>1, <2>3, <2>5 DEF Held
<1>5. CASE StreamStart \/ BulkPush
  <2>1. cb.count # 0 /\ pcks' = pcks
    BY <1>5 DEF StreamStart, BulkPush, cb_is_empty, ring
  <2>2. radio' = rf24_start_write(radio, p) \/ radio' = rf24_queue_push(radio, p)
    BY <1>5 DEF StreamStart, BulkPush
  <2>3. c # <<>> /\ Head(c) = p /\ p \in Packet
    BY <1>1, <2>1, CbHead, HeadTailProperties
  <2>4. p \in Elements(c) /\ Elements(c) = Elements(Tail(c)) \cup {p}
    BY <1>1, <2>3, ElementsTail
  <2> HIDE DEF p
  <2>5. radio'.tx = Append(radio.tx, p)
    BY <1>1, <2>2 DEF rf24_start_write, rf24_queue_push, rf24_what_happened, RadioType
  <2>6. Elements(radio'.tx) = Elements(radio.tx) \cup {p}
    BY <1>1, <2>3, <2>5, ElementsAppend
  <2>7. c' = c \/ c' = Tail(c)
    <3>1. CASE StreamStart
      BY <3>1 DEF StreamStart, ring
    <3>2. CASE BulkPush
      BY <1>1, <2>1, <3>2, CbRead DEF BulkPush
    <3> QED
      BY <1>5, <3>1, <3>2
  <2> HIDE DEF c
  <2>8. Elements(c') \subseteq Elements(c) /\ Elements(c) \subseteq Elements(c') \cup {p}
    BY <2>4, <2>7
  <2>9. Held = Elements(radio.tx) \cup Elements(c) /\ Held' = Elements(radio'.tx) \cup Elements(c')
    BY DEF Held, c
  <2> QED
    BY <2>4, <2>6, <2>8, <2>9
<1>6. CASE RadioAcknowledged
  <2>1. /\ radio.tx # <<>> /\ UNCHANGED <<cb, pcks>> /\ radio'.tx = Tail(radio.tx)
        /\ air' = IF radio.seen THEN air ELSE Append(air, Head(radio.tx))
    BY <1>1, <1>6 DEF RadioAcknowledged, MaySend, Acknowledged, RadioType, firmware, ring
  <2>2. Head(radio.tx) \in Elements(air')
    BY <1>1, <2>1, ElementsAppend, HeadTailProperties DEF AirSeen
  <2>3. Elements(radio.tx) = Elements(radio'.tx) \cup {Head(radio.tx)}
    BY <1>1, <2>1, ElementsTail
  <2> QED
    BY <2>1, <2>2, <2>3 DEF Held
<1> QED
  BY <1>3, <1>4, <1>5, <1>6 DEF Moves

\* An element of the rest of a sequence.
LEMMA LastOfTail ==
  ASSUME NEW S, NEW s \in Seq(S), Len(s) > 1
  PROVE  Tail(s)[Len(s) - 1] = s[Len(s)]
<1>1. Len(s) \in Nat /\ s # <<>>
  BY EmptySeq, LenProperties
<1>2. Len(Tail(s)) = Len(s) - 1 /\ \A i \in 1..Len(Tail(s)) : Tail(s)[i] = s[i + 1]
  BY <1>1, HeadTailProperties
<1>3. Len(s) - 1 \in 1..Len(Tail(s)) /\ (Len(s) - 1) + 1 = Len(s)
  BY <1>1, <1>2
<1> QED
  BY <1>2, <1>3

\* The last packet stays the last, and the verdict on it is true.
LEMMA MovesKeepLast ==
  ASSUME RInv, Skips, SentTrue, Moves, system_state = "WRITE_STREAM", NEW p, LastIs(p)
  PROVE  LastIs(p)'
<1> DEFINE c == Contents(cb, pcks)
<1>1. /\ radio \in RadioType /\ air \in Seq(Packet) /\ cb.count \in Nat
      /\ c \in Seq(Packet) /\ Len(c) = cb.count /\ StreamState /\ StreamSent
  BY KeptContents, RingsAreQueues, ContentsSeq DEF SentTrue
<1>2. Elements(air) \subseteq Elements(air')
  BY AirGrows, AloneMoves DEF Moves, Steps
<1>3. ASSUME UNCHANGED <<cb, pcks, last_tx_failed>>
      PROVE  LastIs(p)'
  BY <1>2, <1>3 DEF LastIs
<1>4. CASE \/ Quiet \/ StreamStart \/ BulkRetry \/ MainPost \/ HostTakesInterrupt
           \/ RadioAcknowledged \/ RadioUnanswered \/ RadioReceives
  <2>1. UNCHANGED <<cb, pcks, last_tx_failed>>
    BY <1>4 DEF Quiet, StreamStart, BulkRetry, MainPost, HostTakesInterrupt, RadioAcknowledged,
       RadioUnanswered, RadioReceives, ring, firmware
  <2> QED
    BY <1>3, <2>1
<1>5. CASE StreamFinish
  <2>1. /\ writing /\ cb' = cb_read(cb) /\ pcks' = pcks /\ air' = air
        /\ last_tx_failed' = IF radio.max_rt THEN "failed" ELSE "ok"
        /\ radio.tx_ds \/ radio.max_rt
    BY <1>5 DEF StreamFinish, rf24_write_done, history
  <2>2. cb.count > 0
    BY <1>1, <2>1 DEF StreamState
  <2>3. c # <<>> /\ Head(c) = pcks[Oldest(cb)] /\ c' = Tail(c)
    BY <2>1, <2>2, CbRead
  <2>4. cb'.count = cb.count - 1
    BY <2>1, <2>2 DEF cb_read, cb_is_empty, RInv, IInv, TypeOK, RingType
  <2>5. c[cb.count] = p
    BY <2>2 DEF LastIs
  <2>6. CASE cb.count = 1
    <3>1. p = pcks[Oldest(cb)]
      BY <1>1, <2>3, <2>5, <2>6, HeadTailProperties
    <3>2. last_tx_failed' = "ok" => p \in Elements(air')
      BY <1>1, <2>1, <3>1 DEF StreamSent
    <3>3. cb'.count = 0
      BY <2>4, <2>6
    <3> QED
      BY <3>2, <3>3 DEF LastIs
  <2>7. CASE cb.count # 1
    <3>1. cb.count > 1 /\ cb'.count > 0
      BY <1>1, <2>2, <2>4, <2>7
    <3>2. Tail(c)[cb.count - 1] = p
      BY <1>1, <2>5, <3>1, LastOfTail
    <3> HIDE DEF c
    <3>3. c'[cb'.count] = p
      BY <2>3, <2>4, <3>2
    <3> QED
      BY <3>1, <3>3 DEF LastIs, c
  <2> QED
    BY <2>6, <2>7
<1>6. ~BulkPush
  BY DEF BulkPush, InProcess
<1> QED
  BY <1>4, <1>5, <1>6 DEF Moves

\* The packet that was announced joins those in the dongle.
LEMMA PacketIsHeld ==
  ASSUME RInv, system_state # "READ", WriteFits, WritePacket, NEW p, p = request.packet
  PROVE  Held' = Held \cup {p} /\ air' = air /\ LastIs(p)'
<1> DEFINE c == Contents(cb, pcks)
<1>1. /\ request.rq = "RQ_WRITE" /\ WriteRing = cb /\ cb' = cb_get_slot(cb) /\ radio' = radio
      /\ pcks' = [pcks EXCEPT ![NextSlot(cb)] = p] /\ air' = air
  BY DEF WritePacket, Complete, WriteRing
<1>2. cb \in FitRing(HW_BUFFER_SIZE) /\ cb.count \in Nat /\ cb.size \in Nat /\ cb.count <= cb.size
      /\ c \in Seq(Packet) /\ Len(c) = cb.count
  BY RingsAreQueues, ContentsSeq
<1>3. cb.count < cb.size
  BY <1>1, <1>2 DEF WriteFits, cb_is_full
<1>4. p \in Packet
  BY <1>1 DEF RInv, IInv, TypeOK, Request, NoRequest
<1>5. c' = Append(c, p)
  BY <1>1, <1>3, <1>4, CbPut
<1>6. cb'.count = cb.count + 1
  BY <1>1, <1>2, <1>3, HwBufferAssumption, CbGetSlotFits
<1> HIDE DEF c
<1>7. Elements(c') = Elements(c) \cup {p} /\ c'[cb.count + 1] = p
  BY <1>2, <1>4, <1>5, ElementsAppend, AppendProperties
<1>8. Held' = Held \cup {p}
  BY <1>1, <1>7 DEF Held, c
<1>9. cb'.count > 0 /\ c'[cb'.count] = p
  BY <1>2, <1>6, <1>7
<1>10. LastIs(p)'
  BY <1>9 DEF LastIs, c
<1> QED
  BY <1>1, <1>8, <1>10

\* A mode switch and a configuration leave nothing in the dongle.
LEMMA NothingHeld ==
  ASSUME RInv, (\E rq : RqMode(rq)) \/ WriteConfig
  PROVE  Held' = {} /\ air' = air
<1>1. radio'.tx = <<>> /\ air' = air
  BY DEF RqMode, WriteConfig, RadioFlushed, rf24_flush_rx, rf24_flush_tx, rf24_stop_listening,
     rf24_start_listening, RadioType, history, RInv, IInv, TypeOK
<1>2. cb'.count = 0
  BY DEF RqMode, WriteConfig, cb_flush, ResizedCb, Resize, RInv, IInv, TypeOK, RingType
<1>3. Contents(cb, pcks)' = <<>>
  BY <1>2, ContentsNone, Zenon
<1> QED
  BY <1>1, <1>3, ElementsNone DEF Held
LEMMA DataSteps ==
  ASSUME Data
  PROVE  Steps
<1>1. [Next]_vars
  BY DEF Next
<1> QED
  BY <1>1, NextSteps

\* The rest of the dongle has no part in it.
LEMMA SentStays ==
  ASSUME UNCHANGED <<system_state, writing, last_tx_failed, cb, pcks, radio, air>>
  PROVE  /\ Held' = Held /\ Elements(air') = Elements(air)
         /\ SentTrue => SentTrue'
         /\ \A p : LastIs(p) => LastIs(p)'
<1>1. Contents(cb, pcks)' = Contents(cb, pcks)
  BY DEF Contents, Slot
<1>2. Held' = Held /\ Elements(air') = Elements(air)
  BY <1>1 DEF Held
<1>3. SentTrue => SentTrue'
  BY DEF SentTrue, StreamState, AirSeen, StreamSent, Oldest
<1>4. ASSUME NEW p, LastIs(p) PROVE LastIs(p)'
  BY <1>1, <1>4 DEF LastIs
<1> QED
  BY <1>2, <1>3, <1>4

LEMMA EmptyHolds ==
  ASSUME cb.count = 0, radio.tx = <<>>
  PROVE  Held = {}
<1>1. Contents(cb, pcks) = <<>>
  BY ContentsNone, Zenon
<1> QED
  BY <1>1, ElementsNone DEF Held

=============================================================================
