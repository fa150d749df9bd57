--------------------------- MODULE FlashingProofs ---------------------------
(***************************************************************************)
(* What the loader and the target owe each other, for every geometry of the *)
(* target, every size of image and every sequence of sessions, whatever is  *)
(* lost, killed, reset or cut off.                                         *)
(*                                                                         *)
(* Packets carry no tag of the question they answer.  Everything on its way *)
(* to the loader is an answer of its conversation for another reason: a     *)
(* conversation flushes what waits for the one before it, and the target    *)
(* hears nothing until its answers are gone.  ConvInv says that, place by   *)
(* place of the loader.  What is on its way to the target are blocks at     *)
(* multiples of IOSIZE, not further than a page behind the end of the file: *)
(* TypeInv says that.  Both lean on the arithmetic of blocks and pages.     *)
(***************************************************************************)
EXTENDS Flashing, SequenceTheorems, TLAPS

(***************************************************************************)
(* Blocks and pages: numbers that a size divides.  The provers get lost in  *)
(* a % m with an unknown m: below they see Rest(a, m), and these lemmas.    *)
(***************************************************************************)
Rest(a, m) == a % m

LEMMA RestRange ==
  ASSUME NEW a \in Int, NEW m \in Nat \ {0}
  PROVE  Rest(a, m) \in 0 .. m - 1
BY DEF Rest

LEMMA DivMod ==
  ASSUME NEW a \in Int, NEW m \in Nat \ {0}
  PROVE  a = m * (a \div m) + (a % m) /\ a \div m \in Int /\ (a >= 0 => a \div m >= 0)
OBVIOUS

LEMMA Quotient ==
  ASSUME NEW a \in Int, NEW m \in Nat \ {0}
  PROVE  \E q \in Int : a = m * q + Rest(a, m) /\ (a >= 0 => q >= 0)
<1>1. a = m * (a \div m) + Rest(a, m) /\ a \div m \in Int /\ (a >= 0 => a \div m >= 0)
  BY DivMod, Zenon DEF Rest
<1> QED
  BY <1>1, Zenon

LEMMA RestOf ==
  ASSUME NEW q \in Int, NEW m \in Nat \ {0}, NEW r \in 0..m-1
  PROVE  Rest(m * q + r, m) = r
BY DEF Rest

LEMMA RestOfMultiple ==
  ASSUME NEW q \in Int, NEW m \in Nat \ {0}, NEW a, a = m * q
  PROVE  a \in Int /\ Rest(a, m) = 0
<1>1. m * q \in Int /\ m * q = m * q + 0 /\ 0 \in 0 .. m - 1
  OBVIOUS
<1> QED
  BY <1>1, RestOf

LEMMA Factor ==
  ASSUME NEW a \in Int, NEW m \in Nat \ {0}, Rest(a, m) = 0
  PROVE  \E q \in Int : a = m * q /\ (a >= 0 => q >= 0)
<1>1. PICK q \in Int : a = m * q + Rest(a, m) /\ (a >= 0 => q >= 0)
  BY Quotient
<1>2. m * q + 0 = m * q
  OBVIOUS
<1> QED
  BY <1>1, <1>2

\* Two multiples of m are m apart.
LEMMA Apart ==
  ASSUME NEW a \in Int, NEW b \in Int, NEW m \in Nat \ {0},
         Rest(a, m) = 0, Rest(b, m) = 0, a < b
  PROVE  a + m <= b
<1>1. PICK p \in Int : a = m * p
  BY Factor
<1>2. PICK q \in Int : b = m * q
  BY Factor
<1>3. p < q
  BY <1>1, <1>2
<1>4. m * q >= m * (p + 1)
  BY <1>3
<1>5. m * (p + 1) = m * p + m
  OBVIOUS
<1> QED
  BY <1>1, <1>2, <1>4, <1>5

LEMMA SumOfMultiples ==
  ASSUME NEW a \in Int, NEW b \in Int, NEW m \in Nat \ {0}, Rest(a, m) = 0, Rest(b, m) = 0
  PROVE  Rest(a + b, m) = 0 /\ Rest(a - b, m) = 0
<1>1. PICK p \in Int : a = m * p
  BY Factor
<1>2. PICK q \in Int : b = m * q
  BY Factor
<1>3. a + b = m * (p + q) /\ a - b = m * (p - q) /\ p + q \in Int /\ p - q \in Int
  BY <1>1, <1>2
<1> QED
  BY <1>3, RestOfMultiple

LEMMA RestOfItself ==
  ASSUME NEW m \in Nat \ {0}
  PROVE  Rest(m, m) = 0
<1>1. m = m * 1
  OBVIOUS
<1> QED
  BY <1>1, RestOfMultiple

LEMMA MultipleOf ==
  ASSUME NEW q \in Int, NEW m \in Nat \ {0}
  PROVE  q * m \in Int /\ Rest(q * m, m) = 0
<1>1. q * m = m * q
  OBVIOUS
<1> QED
  BY <1>1, RestOfMultiple

\* What a multiple divides, its divisor divides.
LEMMA DividesOn ==
  ASSUME NEW a \in Int, NEW m \in Nat \ {0}, NEW n \in Nat \ {0}, Rest(m, n) = 0, Rest(a, m) = 0
  PROVE  Rest(a, n) = 0
<1>1. PICK p \in Int : a = m * p
  BY Factor
<1>2. PICK q \in Int : m = n * q
  BY Factor
<1>3. q * p \in Int /\ (n * q) * p = n * (q * p)
  OBVIOUS
<1>4. a = n * (q * p)
  BY <1>1, <1>2, <1>3
<1> QED
  BY <1>3, <1>4, RestOfMultiple

\* The multiple of m at or before a number.
LEMMA Within ==
  ASSUME NEW a \in Nat, NEW m \in Nat \ {0}
  PROVE  a - Rest(a, m) \in Nat /\ Rest(a - Rest(a, m), m) = 0
<1>0. a \in Int /\ a >= 0
  OBVIOUS
<1>1. PICK q \in Int : a = m * q + Rest(a, m) /\ (a >= 0 => q >= 0)
  BY <1>0, Quotient
<1>2. Rest(a, m) \in Int
  BY <1>0, RestRange
<1> DEFINE r == Rest(a, m)
<1>3. a - r = m * q /\ m * q >= 0
  <2> HIDE DEF r
  <2>1. m * q \in Int /\ q >= 0 /\ r \in Int
    BY <1>0, <1>1, <1>2 DEF r
  <2>2. m * q >= 0
    BY <2>1
  <2>3. a = m * q + r
    BY <1>1 DEF r
  <2> QED
    BY <2>1, <2>2, <2>3
<1>4. a - r \in Nat
  BY <1>3
<1> QED
  BY <1>3, <1>4, RestOfMultiple

\* After a block comes the next one in the same page, or the next page.
LEMMA NextWithin ==
  ASSUME NEW a \in Nat, NEW n \in Nat \ {0}, NEW m \in Nat \ {0}, Rest(m, n) = 0, Rest(a, n) = 0
  PROVE  /\ Rest(a + n, n) = 0
         /\ Rest(a, m) + n <= m
         /\ Rest(a, m) + n = m => Rest(a + n, m) = 0
         /\ Rest(a, m) + n # m => Rest(a + n, m) = Rest(a, m) + n
<1> DEFINE r == Rest(a, m)
           p == a - r
<1>1. r \in 0 .. m - 1 /\ p \in Nat /\ Rest(p, m) = 0
  BY RestRange, Within
<1> HIDE DEF r
<1>2. a = p + r /\ r = a - p /\ p \in Int /\ r \in Int
  BY <1>1
<1> HIDE DEF p
<1>3. Rest(a + n, n) = 0
  BY RestOfItself, SumOfMultiples
<1>4. Rest(p, n) = 0
  BY <1>1, <1>2, DividesOn
<1>5. Rest(r, n) = 0
  BY <1>2, <1>4, SumOfMultiples
<1>6. r + n <= m
  BY <1>1, <1>2, <1>5, Apart
<1>7. ASSUME r + n = m PROVE Rest(a + n, m) = 0
  <2>1. a + n = p + m
    BY <1>2, <1>7
  <2>2. Rest(m, m) = 0 /\ m \in Int
    BY RestOfItself
  <2>3. Rest(p + m, m) = 0
    BY <1>1, <1>2, <2>2, SumOfMultiples
  <2> QED
    BY <2>1, <2>3
<1>8. ASSUME r + n # m PROVE Rest(a + n, m) = r + n
  <2>1. r + n \in 0 .. m - 1
    BY <1>1, <1>6, <1>8
  <2>2. PICK q \in Int : p = m * q
    BY <1>1, <1>2, Factor
  <2>3. a + n = m * q + (r + n)
    BY <1>2, <2>2
  <2> QED
    BY <2>1, <2>3, RestOf
<1> QED
  BY <1>3, <1>6, <1>7, <1>8 DEF r

-----------------------------------------------------------------------------
(***************************************************************************)
(* The sizes of this system.                                               *)
(***************************************************************************)
LEMMA Sizes ==
  /\ IOSIZE \in Nat \ {0} /\ SPM_PAGESIZE \in Nat \ {0} /\ BLDADDR \in Nat
  /\ FLASHEND \in Nat /\ E2END \in Nat
  /\ Rest(SPM_PAGESIZE, IOSIZE) = 0 /\ Rest(BLDADDR, SPM_PAGESIZE) = 0 /\ BLDADDR <= FLASHEND
  /\ Rest(E2END + 1, IOSIZE) = 0
BY SizesAssumption DEF Rest

LEMMA PageFacts ==
  ASSUME NEW a \in Nat
  PROVE  /\ PageOf(a) \in Nat /\ Rest(PageOf(a), SPM_PAGESIZE) = 0
         /\ Rest(a, SPM_PAGESIZE) \in 0 .. SPM_PAGESIZE - 1
         /\ PageOf(a) = a - Rest(a, SPM_PAGESIZE)
<1>1. PageOf(a) = a - Rest(a, SPM_PAGESIZE)
  BY DEF PageOf, Rest
<1> QED
  BY <1>1, Sizes, Within, RestRange

\* A block in a page, and the one after it.
LEMMA NextBlock ==
  ASSUME NEW a \in Nat, Rest(a, IOSIZE) = 0
  PROVE  /\ Rest(a + IOSIZE, IOSIZE) = 0
         /\ Rest(a, SPM_PAGESIZE) + IOSIZE <= SPM_PAGESIZE
         /\ Rest(a + IOSIZE, SPM_PAGESIZE) = 0 <=> Rest(a, SPM_PAGESIZE) + IOSIZE = SPM_PAGESIZE
         /\ Rest(a + IOSIZE, SPM_PAGESIZE) # 0 =>
              /\ Rest(a + IOSIZE, SPM_PAGESIZE) = Rest(a, SPM_PAGESIZE) + IOSIZE
              /\ PageOf(a + IOSIZE) = PageOf(a)
<1> DEFINE r == Rest(a, SPM_PAGESIZE)
           s == Rest(a + IOSIZE, SPM_PAGESIZE)
<1>1. /\ Rest(a + IOSIZE, IOSIZE) = 0 /\ r + IOSIZE <= SPM_PAGESIZE
      /\ r + IOSIZE = SPM_PAGESIZE => s = 0
      /\ r + IOSIZE # SPM_PAGESIZE => s = r + IOSIZE
  BY Sizes, NextWithin
<1>2. /\ r \in Nat /\ PageOf(a) = a - r
      /\ a + IOSIZE \in Nat
  BY Sizes, PageFacts
<1>3. s \in Nat /\ PageOf(a + IOSIZE) = a + IOSIZE - s
  BY <1>2, Sizes, PageFacts
<1> HIDE DEF r, s
<1>4. s # 0 => s = r + IOSIZE /\ PageOf(a + IOSIZE) = PageOf(a)
  BY <1>1, <1>2, <1>3, Sizes
<1>5. s = 0 <=> r + IOSIZE = SPM_PAGESIZE
  BY <1>1, <1>2, Sizes
<1> QED
  BY <1>1, <1>4, <1>5 DEF r, s

LEMMA MinOfTwo ==
  ASSUME NEW a \in Int, NEW b \in Int
  PROVE  Min({a, b}) = IF a <= b THEN a ELSE b
BY DEF Min

LEMMA MaxOfTwo ==
  ASSUME NEW a \in Int, NEW b \in Int
  PROVE  Max({a, b}) = IF a >= b THEN a ELSE b
BY DEF Max

-----------------------------------------------------------------------------
(***************************************************************************)
(* Packets on their way: what they ask for or answer, and where a question  *)
(* may stand.                                                              *)
(***************************************************************************)
Ops(s) == {s[i].op : i \in DOMAIN s}
LastOnly(s, ops) == \A i \in DOMAIN s : s[i].op \in ops => i = Len(s)

LEMMA TailFacts ==
  ASSUME NEW V, NEW s \in Seq(V), s # <<>>
  PROVE  /\ Head(s) \in V /\ Head(s) = s[1] /\ Tail(s) \in Seq(V)
         /\ Len(s) \in Nat /\ Len(s) > 0 /\ Len(Tail(s)) = Len(s) - 1
         /\ \A i \in 1 .. Len(s) - 1 : Tail(s)[i] = s[i + 1]
BY HeadTailProperties, EmptySeq, LenProperties

LEMMA OpsEmpty == Ops(<<>>) = {} /\ \A ops : LastOnly(<<>>, ops)
BY DEF Ops, LastOnly

LEMMA OpsAppend ==
  ASSUME NEW V, NEW s \in Seq(V), NEW e \in V
  PROVE  Ops(Append(s, e)) = Ops(s) \cup {e.op}
<1>1. /\ Append(s, e) \in Seq(V) /\ Len(Append(s, e)) = Len(s) + 1 /\ Len(s) \in Nat
      /\ \A i \in 1 .. Len(s) : Append(s, e)[i] = s[i]
      /\ Append(s, e)[Len(s) + 1] = e
  BY AppendProperties, LenProperties
<1>2. DOMAIN s = 1 .. Len(s) /\ DOMAIN Append(s, e) = 1 .. Len(s) + 1
  BY <1>1, LenProperties
<1>3. ASSUME NEW o \in Ops(Append(s, e)) PROVE o \in Ops(s) \cup {e.op}
  BY <1>1, <1>2 DEF Ops
<1>4. ASSUME NEW o \in Ops(s) \cup {e.op} PROVE o \in Ops(Append(s, e))
  <2>1. CASE o \in Ops(s)
    BY <1>1, <1>2, <2>1 DEF Ops
  <2>2. CASE o = e.op
    BY <1>1, <1>2, <2>2 DEF Ops
  <2> QED
    BY <2>1, <2>2
<1> QED
  BY <1>3, <1>4

LEMMA OpsTail ==
  ASSUME NEW V, NEW s \in Seq(V), s # <<>>
  PROVE  Ops(Tail(s)) \subseteq Ops(s) /\ Head(s).op \in Ops(s)
<1>1. /\ Tail(s) \in Seq(V) /\ Len(s) \in Nat /\ Len(s) > 0 /\ Len(Tail(s)) = Len(s) - 1
      /\ \A i \in 1 .. Len(s) - 1 : Tail(s)[i] = s[i + 1]
      /\ Head(s) = s[1]
  BY TailFacts
<1>2. DOMAIN s = 1 .. Len(s) /\ DOMAIN Tail(s) = 1 .. Len(s) - 1
  BY <1>1, LenProperties
<1> QED
  BY <1>1, <1>2 DEF Ops

LEMMA OpsHead ==
  ASSUME NEW V, NEW s \in Seq(V), s # <<>>
  PROVE  \A o \in Ops(s) : o = Head(s).op \/ o \in Ops(Tail(s))
<1>1. /\ Tail(s) \in Seq(V) /\ Len(s) \in Nat /\ Len(s) > 0 /\ Len(Tail(s)) = Len(s) - 1
      /\ \A i \in 1 .. Len(s) - 1 : Tail(s)[i] = s[i + 1]
      /\ Head(s) = s[1]
  BY TailFacts
<1>2. DOMAIN s = 1 .. Len(s) /\ DOMAIN Tail(s) = 1 .. Len(s) - 1
  BY <1>1, LenProperties
<1> TAKE o \in Ops(s)
<1>3. PICK i \in 1 .. Len(s) : o = s[i].op
  BY <1>2 DEF Ops
<1>4. CASE i = 1
  BY <1>1, <1>3, <1>4
<1>5. CASE i # 1
  <2>1. i - 1 \in DOMAIN Tail(s) /\ Tail(s)[i - 1] = s[i]
    BY <1>1, <1>2, <1>5
  <2> QED
    BY <1>3, <2>1 DEF Ops
<1> QED
  BY <1>4, <1>5

\* A question stays the last packet when one before it goes, and is the only
\* one when it is the first.
LEMMA LastTail ==
  ASSUME NEW V, NEW s \in Seq(V), s # <<>>, NEW ops, LastOnly(s, ops)
  PROVE  LastOnly(Tail(s), ops) /\ (Head(s).op \in ops => Tail(s) = <<>>)
<1>1. /\ Tail(s) \in Seq(V) /\ Len(s) \in Nat /\ Len(s) > 0 /\ Len(Tail(s)) = Len(s) - 1
      /\ \A i \in 1 .. Len(s) - 1 : Tail(s)[i] = s[i + 1]
      /\ Head(s) = s[1]
  BY TailFacts
<1>2. DOMAIN s = 1 .. Len(s) /\ DOMAIN Tail(s) = 1 .. Len(s) - 1
  BY <1>1, LenProperties
<1>3. ASSUME NEW i \in DOMAIN Tail(s), Tail(s)[i].op \in ops PROVE i = Len(Tail(s))
  <2>1. i + 1 \in DOMAIN s /\ s[i + 1].op \in ops
    BY <1>1, <1>2, <1>3
  <2>2. i + 1 = Len(s)
    BY <2>1 DEF LastOnly
  <2> QED
    BY <1>1, <1>2, <1>3, <2>2
<1>4. ASSUME Head(s).op \in ops PROVE Tail(s) = <<>>
  <2>1. 1 = Len(s)
    BY <1>1, <1>2, <1>4 DEF LastOnly
  <2> DEFINE l == Len(Tail(s))
  <2>2. l = Len(s) - 1 /\ Len(s) \in Int
    BY <1>1
  <2> HIDE DEF l
  <2>3. l = 0
    BY <2>1, <2>2
  <2> QED
    BY <1>1, <2>3, EmptySeq DEF l
<1> QED
  BY <1>3, <1>4 DEF LastOnly

LEMMA LastAppend ==
  ASSUME NEW V, NEW s \in Seq(V), NEW e \in V, NEW ops, Ops(s) \cap ops = {}
  PROVE  LastOnly(Append(s, e), ops) /\ LastOnly(s, ops)
<1>1. /\ Append(s, e) \in Seq(V) /\ Len(Append(s, e)) = Len(s) + 1 /\ Len(s) \in Nat
      /\ \A i \in 1 .. Len(s) : Append(s, e)[i] = s[i]
  BY AppendProperties, LenProperties
<1>2. DOMAIN s = 1 .. Len(s) /\ DOMAIN Append(s, e) = 1 .. Len(s) + 1
  BY <1>1, LenProperties
<1>3. \A i \in 1 .. Len(s) : s[i].op \notin ops
  BY <1>2 DEF Ops
<1>4. LastOnly(s, ops)
  BY <1>2, <1>3 DEF LastOnly
<1>5. ASSUME NEW i \in 1 .. Len(s) + 1, Append(s, e)[i].op \in ops PROVE i = Len(s) + 1
  BY <1>1, <1>3, <1>5
<1> QED
  BY <1>1, <1>2, <1>4, <1>5 DEF LastOnly

LEMMA LastNone ==
  ASSUME NEW s, NEW ops, Ops(s) \cap ops = {}
  PROVE  LastOnly(s, ops)
BY DEF LastOnly, Ops

LEMMA LastFewer ==
  ASSUME NEW s, NEW ops, NEW fewer, fewer \subseteq ops, LastOnly(s, ops)
  PROVE  LastOnly(s, fewer)
BY DEF LastOnly

\* A transfer of one packet.
LEMMA OpsOne ==
  ASSUME NEW e
  PROVE  Ops(<<e>>) = {e.op} /\ Tail(<<e>>) = <<>> /\ <<e>> # <<>>
BY DEF Ops

-----------------------------------------------------------------------------
(***************************************************************************)
(* The answers to HELLO, and packets that are the next of them.            *)
(***************************************************************************)
Answer(k) ==
  IF k = 0 THEN [op |-> "HELLO", numparts |-> partcount] ELSE [op |-> "PARTINFO", info |-> parts[k]]
InTurn(s, first) == \A i \in DOMAIN s : s[i] = Answer(first + i - 1)

LEMMA InTurnEmpty == \A first : InTurn(<<>>, first)
BY DEF InTurn

LEMMA InTurnAppend ==
  ASSUME NEW V, NEW s \in Seq(V), NEW e \in V, NEW first \in Nat, InTurn(s, first),
         e = Answer(first + Len(s))
  PROVE  InTurn(Append(s, e), first)
<1>1. /\ Append(s, e) \in Seq(V) /\ Len(Append(s, e)) = Len(s) + 1 /\ Len(s) \in Nat
      /\ \A i \in 1 .. Len(s) : Append(s, e)[i] = s[i]
      /\ Append(s, e)[Len(s) + 1] = e
  BY AppendProperties, LenProperties
<1>2. DOMAIN s = 1 .. Len(s) /\ DOMAIN Append(s, e) = 1 .. Len(s) + 1
  BY <1>1, LenProperties
<1>3. ASSUME NEW i \in 1 .. Len(s) + 1 PROVE Append(s, e)[i] = Answer(first + i - 1)
  <2>1. CASE i = Len(s) + 1
    <3>1. first + i - 1 = first + Len(s)
      BY <1>1, <2>1
    <3> QED
      BY <1>1, <2>1, <3>1
  <2>2. CASE i # Len(s) + 1
    <3>1. i \in 1 .. Len(s)
      BY <1>1, <2>2
    <3> QED
      BY <1>1, <1>2, <3>1 DEF InTurn
  <2> QED
    BY <2>1, <2>2
<1> QED
  BY <1>2, <1>3 DEF InTurn

LEMMA InTurnTail ==
  ASSUME NEW V, NEW s \in Seq(V), s # <<>>, NEW first \in Nat, InTurn(s, first)
  PROVE  Head(s) = Answer(first) /\ InTurn(Tail(s), first + 1)
<1>1. /\ Tail(s) \in Seq(V) /\ Len(s) \in Nat /\ Len(s) > 0 /\ Len(Tail(s)) = Len(s) - 1
      /\ \A i \in 1 .. Len(s) - 1 : Tail(s)[i] = s[i + 1]
      /\ Head(s) = s[1]
  BY TailFacts
<1>2. DOMAIN s = 1 .. Len(s) /\ DOMAIN Tail(s) = 1 .. Len(s) - 1
  BY <1>1, LenProperties
<1>3. Head(s) = Answer(first)
  <2>1. 1 \in DOMAIN s /\ first + 1 - 1 = first
    BY <1>1, <1>2
  <2> QED
    BY <1>1, <2>1 DEF InTurn
<1>4. ASSUME NEW i \in DOMAIN Tail(s) PROVE Tail(s)[i] = Answer(first + 1 + i - 1)
  <2>1. i + 1 \in DOMAIN s /\ first + (i + 1) - 1 = first + 1 + i - 1 /\ Tail(s)[i] = s[i + 1]
    BY <1>1, <1>2
  <2> QED
    BY <2>1 DEF InTurn
<1> QED
  BY <1>3, <1>4 DEF InTurn

-----------------------------------------------------------------------------
(***************************************************************************)
(* What the variables hold.  A WRITE command is for a block of its          *)
(* partition, and carries the bytes of the file that belong there, as far   *)
(* as there are any.  Where a whole block of room is left after the file    *)
(* (the padding takes up to a page more than the file), no command for the  *)
(* flash reaches the bootloader.                                           *)
(***************************************************************************)
Places == {"loop", "answer", "sync", "app"}
Waiting == {"ping", "pinged", "hello"}
Greeting == {"helloSent", "helloAnswered", "partitions"}
Working == {"save", "saveRead", "saveSome", "restore", "readSome", "writeSome", "pad", "restored",
            "verify", "verifyRead", "verifySome", "run", "ran"}
Writing == {"readSome", "writeSome", "pad"}

Block == [1 .. IOSIZE -> Int]
Carries(c, n) ==
  \A k \in 1 .. IOSIZE :
    c.addr + k - 1 < n /\ c.addr + k - 1 < parts[c.part].size => c.data[k] = c.addr + k - 1
Writes(n) ==
  {c \in [op : {"WRITE"}, part : 1 .. 2, addr : Nat, data : Block] :
     /\ Rest(c.addr, IOSIZE) = 0 /\ Carries(c, n)
     /\ c.part = 1 => c.addr < E2END + 1
     /\ c.part = 2 /\ n + IOSIZE <= BLDADDR => c.addr < BLDADDR}
Commands(n) ==
  [op : {"NOP", "HELLO"}] \cup [op : {"READ"}, part : 1 .. 2, addr : Nat]
    \cup Writes(n) \cup [op : {"BOOT"}, part : 1 .. 2]
Answers ==
  [op : {"HELLO"}, numparts : {2}] \cup [op : {"PARTINFO"}, info : {parts[1], parts[2]}]
    \cup [op : {"READ"}, addr : Nat, data : Seq(Int)]

ProgramTypes ==
  /\ pc \in Waiting \cup Greeting \cup Working \cup Ended
  /\ session \in Command_line /\ fileSize \in FileSizes /\ sessions \in Nat
  /\ transfer \in [kind : {"none", "stream", "bulk", "bulkSync", "read"}, want : Nat]
  /\ lastWriteOk \in BOOLEAN
  /\ pc \in Working => ptable = parts

\* The file is read block by block; the address goes with it, and past its end
\* at most to the end of the block.
CursorTypes ==
  /\ addr \in Nat /\ buffer \in Block
  /\ batch \in Seq(Writes(fileSize))
  /\ pc \in Writing =>
       /\ Rest(addr, IOSIZE) = 0 /\ pos \in Nat /\ pos <= fileSize
       /\ pos = addr \/ (pos = fileSize /\ pos <= addr /\ addr < pos + IOSIZE)
  /\ pc = "pad" => addr >= currentPart.size \/ addr >= fileSize

PacketTypes ==
  /\ sendQueue \in Seq(Commands(fileSize)) /\ outgoing \in Seq(Commands(fileSize))
  /\ rxFifo \in Seq(Commands(fileSize))
  /\ recvQueue \in Seq(Answers) /\ incoming \in Seq(Answers) /\ txFifo \in Seq(Answers)
  /\ mode \in {"IDLE", "STREAM", "BULK", "READ"}

TargetTypes ==
  /\ at \in Places /\ peer \in BOOLEAN /\ got_hello \in BOOLEAN /\ boot_timer \in Nat
  /\ job \in [op : {"NONE", "HELLO", "READ"}, part : 1 .. 2, addr : Nat, toread : Nat]
  /\ job.op = "READ" => Rest(job.addr, IOSIZE) = 0
  /\ at = "answer" /\ job.op = "HELLO" => job.addr \in {0, 1, 2}
  /\ pbuf \in [0 .. SPM_PAGESIZE - 1 -> Int]
  /\ flash \in [0 .. FLASHEND -> Int] /\ eeprom \in [0 .. E2END -> Int]
  /\ lastReset \in Nat

TypeInv == ProgramTypes /\ CursorTypes /\ PacketTypes /\ TargetTypes

-----------------------------------------------------------------------------
(***************************************************************************)
(* The conversation.  A question (HELLO, or READ once the target knows its  *)
(* peer) is the last packet on its way, the loader then waits for answers   *)
(* or has ended, and nothing of another conversation is left to be taken    *)
(* for one.                                                                *)
(***************************************************************************)
Questions == {"HELLO", "READ"}
Open == IF peer THEN Questions ELSE {"HELLO"}

Links ==
  /\ transfer.kind \in {"none", "read"} => sendQueue = <<>>
  /\ transfer.kind = "stream" => mode = "STREAM"
  /\ transfer.kind \in {"bulk", "bulkSync"} => mode = "BULK"
  /\ transfer.kind = "read" => mode = "READ"
  /\ mode # "READ" => incoming = <<>>
  /\ at \in {"loop", "app"} => txFifo = <<>>
  /\ at = "sync" /\ ~peer => txFifo # <<>>
  /\ at = "answer" => job.op \in Questions
  /\ at \in {"answer", "sync"} /\ peer => rxFifo = <<>>

Lasts ==
  /\ LastOnly(sendQueue, Questions)
  /\ LastOnly(outgoing, Questions)
  /\ Ops(outgoing) \cap Questions # {} => sendQueue = <<>>
  /\ at = "loop" =>
       /\ LastOnly(rxFifo, Open)
       /\ Ops(rxFifo) \cap Open # {} => sendQueue = <<>> /\ outgoing = <<>>

\* What the loader does while a question of its own is on its way.
Asked ==
  /\ "HELLO" \in Ops(sendQueue) \cup Ops(outgoing) =>
       pc \in Ended \/ (pc = "helloSent" /\ transfer.kind = "stream")
  /\ "READ" \in Ops(sendQueue) \cup Ops(outgoing) =>
       pc \in Ended \/ (pc \in {"saveRead", "verifyRead"} /\ transfer.kind = "bulkSync")
  /\ at = "loop" /\ "HELLO" \in Ops(rxFifo) => pc \in Ended \cup {"helloSent", "helloAnswered"}
  /\ at = "loop" /\ peer /\ "READ" \in Ops(rxFifo) =>
       \/ pc \in Ended
       \/ pc \in {"saveRead", "verifyRead"} /\ mode = "BULK"
       \/ pc \in {"saveSome", "verifySome"} /\ transfer.kind = "read" /\ transfer.want > 0
          /\ recvQueue = <<>> /\ incoming = <<>>

WaitingInv == pc \in Waiting =>
  /\ mode \in {"IDLE", "STREAM"} /\ transfer.kind \in {"none", "stream"}
  /\ Ops(sendQueue) \cup Ops(outgoing) \subseteq {"NOP"}
  /\ at = "loop" => Ops(rxFifo) \subseteq {"NOP"}
  /\ lastWriteOk => at \in {"loop", "app"}
  /\ transfer.kind = "none" => outgoing = <<>>
  /\ pc = "ping" => ~lastWriteOk
  /\ pc = "hello" => lastWriteOk
  /\ pc # "pinged" => transfer.kind = "none"

\* The answers to HELLO are taken in the order in which they are pushed.
Base == IF pc = "partitions" THEN 1 ELSE 0
Taken == Base + Len(recvQueue)
Brought == Taken + Len(incoming)
Told == Brought + Len(txFifo)

GreetingInv == pc \in Greeting =>
  /\ InTurn(recvQueue, Base) /\ InTurn(incoming, Taken) /\ InTurn(txFifo, Brought)
  /\ Told <= 3
  /\ at \in {"answer", "sync"} =>
       job.op = "HELLO" /\ peer /\ outgoing = <<>> /\ sendQueue = <<>>
  /\ at = "answer" => job.addr = Told /\ Told <= 2
  /\ at = "loop" => Ops(rxFifo) \subseteq {"NOP", "HELLO"}
  /\ Ops(sendQueue) \cup Ops(outgoing) \subseteq {"HELLO"}
  /\ Ops(sendQueue) \cup Ops(outgoing) # {} => Told = 0
  /\ at = "loop" /\ "HELLO" \in Ops(rxFifo) => Told = 0
  /\ pc = "helloSent" => transfer.kind \in {"stream", "none"} /\ mode = "STREAM" /\ recvQueue = <<>>
  /\ pc # "helloSent" => transfer.kind \in {"read", "none"} /\ mode = "READ"
                         /\ outgoing = <<>> /\ sendQueue = <<>> /\ Len(recvQueue) <= transfer.want
  /\ transfer.kind = "none" => outgoing = <<>>
  /\ pc = "helloAnswered" => transfer.want = 1
  /\ pc = "partitions" => transfer.want = 2

WorkingInv == pc \in Working =>
  /\ Ops(incoming) \cup Ops(txFifo) \subseteq {"READ"}
  /\ at = "answer" => job.op = "READ"
  /\ pc \in {"saveSome", "verifySome"} => Ops(recvQueue) \subseteq {"READ"}

ConvInv == Links /\ Lasts /\ Asked /\ WaitingInv /\ GreetingInv /\ WorkingInv

FlInv == TypeInv /\ ConvInv

-----------------------------------------------------------------------------
LEMMA Partitions2 ==
  /\ partcount = 2 /\ DOMAIN parts = 1 .. 2
  /\ parts[1] = [name |-> "eeprom", size |-> E2END + 1, pad |-> 1]
  /\ parts[2] = [name |-> "flash", size |-> BLDADDR, pad |-> SPM_PAGESIZE]
  /\ \A p \in 1 .. 2 : parts[p].size \in Nat /\ Rest(parts[p].size, IOSIZE) = 0
<1>1. Rest(BLDADDR, IOSIZE) = 0
  BY Sizes, DividesOn
<1> QED
  BY <1>1, Sizes DEF parts, partcount

\* The answers to HELLO are three.
LEMMA AnswerIs ==
  /\ Answer(0) = [op |-> "HELLO", numparts |-> 2]
  /\ \A k \in {1, 2} : Answer(k) = [op |-> "PARTINFO", info |-> parts[k]]
  /\ \A k \in {0, 1, 2} : Answer(k) \in Answers
BY Partitions2 DEF Answer, Answers

LEMMA ModeOf ==
  /\ Mode("none") = mode /\ Mode("stream") = "STREAM" /\ Mode("bulk") = "BULK"
  /\ Mode("bulkSync") = "BULK" /\ Mode("read") = "READ"
BY DEF Mode

\* A packet goes from one queue to the next.
LEMMA Move ==
  ASSUME NEW V, NEW s \in Seq(V), NEW t \in Seq(V), s # <<>>
  PROVE  /\ Tail(s) \in Seq(V) /\ Append(t, Head(s)) \in Seq(V) /\ Head(s) \in V
         /\ Ops(Tail(s)) \subseteq Ops(s) /\ Head(s).op \in Ops(s)
         /\ Ops(Append(t, Head(s))) = Ops(t) \cup {Head(s).op}
         /\ Len(s) \in Nat /\ Len(t) \in Nat
         /\ Len(s) = Len(Tail(s)) + 1 /\ Len(Append(t, Head(s))) = Len(t) + 1
<1>1. /\ Head(s) \in V /\ Tail(s) \in Seq(V) /\ Len(s) \in Nat /\ Len(s) > 0
      /\ Len(Tail(s)) = Len(s) - 1
  BY TailFacts
<1>2. Append(t, Head(s)) \in Seq(V) /\ Len(Append(t, Head(s))) = Len(t) + 1 /\ Len(t) \in Nat
  BY <1>1, AppendProperties, LenProperties
<1>3. Len(s) = Len(Tail(s)) + 1
  <2> DEFINE l == Len(Tail(s))
  <2>1. l = Len(s) - 1 /\ Len(s) \in Int
    BY <1>1
  <2> HIDE DEF l
  <2>2. Len(s) = l + 1
    BY <2>1
  <2> QED
    BY <2>2 DEF l
<1>4. Ops(Tail(s)) \subseteq Ops(s) /\ Head(s).op \in Ops(s)
  BY OpsTail
<1>5. Ops(Append(t, Head(s))) = Ops(t) \cup {Head(s).op}
  BY <1>1, OpsAppend
<1> QED
  BY <1>1, <1>2, <1>3, <1>4, <1>5

\* With it goes the place of a question.
LEMMA MoveLast ==
  ASSUME NEW V, NEW s \in Seq(V), NEW t \in Seq(V), s # <<>>, NEW ops, LastOnly(s, ops),
         Ops(t) \cap ops = {}
  PROVE  /\ LastOnly(Tail(s), ops) /\ LastOnly(Append(t, Head(s)), ops)
         /\ Head(s).op \in ops => Tail(s) = <<>>
<1>1. LastOnly(Tail(s), ops) /\ (Head(s).op \in ops => Tail(s) = <<>>)
  BY LastTail
<1>2. Head(s) \in V
  BY TailFacts
<1>3. LastOnly(Append(t, Head(s)), ops)
  BY <1>2, LastAppend
<1> QED
  BY <1>1, <1>3

LEMMA ConvInit == Init => ConvInv
<1> SUFFICES ASSUME Init PROVE ConvInv
  OBVIOUS
<1> USE DEF Init, TargetInit, LoaderInit, Boot0, NoTransfer, NoJob
<1>1. Links
  BY DEF Links
<1>2. Lasts
  BY OpsEmpty DEF Lasts
<1>3. Asked
  BY OpsEmpty DEF Asked
<1>4. WaitingInv /\ GreetingInv /\ WorkingInv
  BY DEF WaitingInv, GreetingInv, WorkingInv, Waiting, Greeting, Working
<1> QED
  BY <1>1, <1>2, <1>3, <1>4 DEF ConvInv

-----------------------------------------------------------------------------
(***************************************************************************)
(* The dongle and the air.                                                 *)
(***************************************************************************)
LEMMA HandOverConv == FlInv /\ HandOver => ConvInv'
<1> SUFFICES ASSUME FlInv, HandOver PROVE ConvInv'
  OBVIOUS
<1> DEFINE V == Commands(fileSize)
<1>0. /\ sendQueue \in Seq(V) /\ outgoing \in Seq(V) /\ sendQueue # <<>>
      /\ sendQueue' = Tail(sendQueue) /\ outgoing' = Append(outgoing, Head(sendQueue))
      /\ UNCHANGED <<program, transfer, recvQueue, lastWriteOk, mode, incoming, target, lastReset>>
  BY DEF FlInv, TypeInv, PacketTypes, HandOver
<1> HIDE DEF V
<1>1. /\ Ops(sendQueue') \subseteq Ops(sendQueue)
      /\ Ops(outgoing') \subseteq Ops(outgoing) \cup Ops(sendQueue)
      /\ Ops(outgoing') = Ops(outgoing) \cup {Head(sendQueue).op}
  BY <1>0, Move
<1> USE DEF FlInv, ConvInv
<1>2. Ops(outgoing) \cap Questions = {}
  BY <1>0 DEF Lasts
<1>3. /\ LastOnly(sendQueue', Questions) /\ LastOnly(outgoing', Questions)
      /\ Head(sendQueue).op \in Questions => sendQueue' = <<>>
  BY <1>0, <1>2, MoveLast DEF Lasts
<1>4. Links'
  BY <1>0 DEF Links, target, fifos
<1>5. Lasts'
  BY <1>0, <1>1, <1>2, <1>3 DEF Lasts, target, fifos, Open
<1>6. Asked'
  BY <1>0, <1>1 DEF Asked, target, fifos, program
<1>7. WaitingInv'
  BY <1>0, <1>1 DEF WaitingInv, Links, target, fifos, program
<1>8. GreetingInv'
  BY <1>0, <1>1, OpsEmpty DEF GreetingInv, Links, target, fifos, program, Base, Taken, Brought, Told, InTurn
<1>9. WorkingInv'
  BY <1>0, <1>1 DEF WorkingInv, target, fifos, program
<1> QED
  BY <1>4, <1>5, <1>6, <1>7, <1>8, <1>9

LEMMA WriteReturnsConv == FlInv /\ WriteReturns => ConvInv'
<1> SUFFICES ASSUME FlInv, WriteReturns PROVE ConvInv'
  OBVIOUS
<1>0. /\ transfer.kind \in {"stream", "bulk", "bulkSync"}
      /\ sendQueue = <<>> /\ (transfer.kind = "bulk" \/ outgoing = <<>>)
      /\ transfer'.kind = "none" /\ transfer'.want = transfer.want
      /\ UNCHANGED <<program, sendQueue, recvQueue, lastWriteOk, link, target, lastReset>>
  BY DEF FlInv, TypeInv, ProgramTypes, WriteReturns, Settled, Returns
<1> USE DEF FlInv, ConvInv, target, fifos, program, link
<1>1. Links'
  BY <1>0 DEF Links
<1>2. Lasts'
  BY <1>0 DEF Lasts, Open
<1>3. Asked'
  BY <1>0, OpsEmpty DEF Asked
<1>4. WaitingInv'
  BY <1>0 DEF WaitingInv
<1>5. GreetingInv'
  BY <1>0 DEF GreetingInv, Links, Base, Taken, Brought, Told
<1>6. WorkingInv'
  BY <1>0 DEF WorkingInv
<1> QED
  BY <1>1, <1>2, <1>3, <1>4, <1>5, <1>6

LEMMA CollectConv == FlInv /\ Collect => ConvInv'
<1> SUFFICES ASSUME FlInv, Collect PROVE ConvInv'
  OBVIOUS
<1>0. /\ transfer.kind = "read" /\ incoming # <<>> /\ Len(recvQueue) < transfer.want
      /\ transfer.want \in Nat
      /\ recvQueue' = Append(recvQueue, Head(incoming)) /\ incoming' = Tail(incoming)
      /\ incoming \in Seq(Answers) /\ recvQueue \in Seq(Answers) /\ txFifo \in Seq(Answers)
      /\ UNCHANGED <<program, transfer, sendQueue, lastWriteOk, mode, outgoing, target, lastReset>>
  BY DEF FlInv, TypeInv, ProgramTypes, PacketTypes, Collect
<1> USE DEF FlInv, ConvInv, target, fifos, program
<1>1. /\ Ops(incoming') \subseteq Ops(incoming)
      /\ Ops(recvQueue') \subseteq Ops(recvQueue) \cup Ops(incoming)
      /\ Len(recvQueue) \in Nat /\ Len(incoming) \in Nat /\ Len(incoming') \in Nat
      /\ Len(recvQueue') = Len(recvQueue) + 1 /\ Len(incoming) = Len(incoming') + 1
      /\ Head(incoming) \in Answers
  <2>1. Tail(incoming) \in Seq(Answers)
    BY <1>0, Move
  <2> QED
    BY <1>0, <2>1, Move, LenProperties
<1>2. Links'
  BY <1>0 DEF Links
<1>3. Lasts'
  BY <1>0 DEF Lasts, Open
<1>4. Asked'
  BY <1>0 DEF Asked
<1>5. WaitingInv'
  BY <1>0 DEF WaitingInv
<1>6. GreetingInv'
  <2> SUFFICES ASSUME pc \in Greeting PROVE GreetingInv'
    BY <1>0 DEF GreetingInv
  <2>0. Base' = Base /\ Base \in Nat /\ Len(txFifo') = Len(txFifo) /\ Len(txFifo) \in Nat
    BY <1>0, LenProperties DEF Base
  <2>1. Base' = Base /\ Taken' = Taken + 1 /\ Brought' = Brought /\ Told' = Told /\ Base \in Nat
        /\ Taken = Base + Len(recvQueue) /\ Taken \in Nat
    <3> HIDE DEF Base, FlInv, ConvInv, target, fifos, program
    <3>1. Taken' = Taken + 1 /\ Taken = Base + Len(recvQueue) /\ Taken \in Nat
      BY <1>1, <2>0 DEF Taken
    <3>2. Brought' = Brought /\ Told' = Told
      BY <1>1, <2>0 DEF Taken, Brought, Told
    <3> QED
      BY <2>0, <3>1, <3>2
  <2>2. InTurn(recvQueue, Base) /\ InTurn(incoming, Taken) /\ InTurn(txFifo, Brought)
    BY DEF GreetingInv
  <2>3. Head(incoming) = Answer(Taken) /\ InTurn(Tail(incoming), Taken + 1)
    BY <1>0, <2>1, <2>2, InTurnTail
  <2>4. InTurn(Append(recvQueue, Head(incoming)), Base)
    BY <1>0, <1>1, <2>1, <2>2, <2>3, InTurnAppend
  <2>5. InTurn(recvQueue, Base)' /\ InTurn(incoming, Taken)' /\ InTurn(txFifo, Brought)'
    BY <1>0, <2>1, <2>2, <2>3, <2>4 DEF InTurn, Answer
  <2> HIDE DEF Base, Taken, Brought, Told
  <2>6. Len(recvQueue') <= transfer.want
    BY <1>0, <1>1
  <2> QED
    BY <1>0, <2>1, <2>5, <2>6 DEF GreetingInv
<1>7. WorkingInv'
  BY <1>0, <1>1 DEF WorkingInv
<1> QED
  BY <1>2, <1>3, <1>4, <1>5, <1>6, <1>7

LEMMA ReadReturnsConv == FlInv /\ ReadReturns => ConvInv'
<1> SUFFICES ASSUME FlInv, ReadReturns PROVE ConvInv'
  OBVIOUS
<1>0. /\ transfer.kind = "read" /\ (Len(recvQueue) = transfer.want \/ Quiet)
      /\ transfer'.kind = "none" /\ transfer'.want = transfer.want
      /\ UNCHANGED <<program, sendQueue, recvQueue, lastWriteOk, link, target, lastReset>>
  BY DEF FlInv, TypeInv, ProgramTypes, ReadReturns, Returns
<1> USE DEF FlInv, ConvInv, target, fifos, program, link
<1>1. Links'
  BY <1>0 DEF Links
<1>2. Lasts'
  BY <1>0 DEF Lasts, Open
<1>3. Asked'
  <2>1. Len(<<>>) = 0
    OBVIOUS
  <2> QED
    BY <1>0, <2>1, OpsEmpty DEF Asked, Quiet
<1>4. WaitingInv'
  BY <1>0 DEF WaitingInv
<1>5. GreetingInv'
  BY <1>0 DEF GreetingInv, Base, Taken, Brought, Told
<1>6. WorkingInv'
  BY <1>0 DEF WorkingInv
<1> QED
  BY <1>1, <1>2, <1>3, <1>4, <1>5, <1>6

\* A packet is lost, or arrives in front of the handler.
LEMMA LostConv ==
  ASSUME FlInv, mode = "STREAM", outgoing # <<>>, outgoing' = Tail(outgoing), lastWriteOk' = FALSE,
         UNCHANGED <<others, rxFifo>>
  PROVE  ConvInv'
<1> DEFINE V == Commands(fileSize)
<1>0. outgoing \in Seq(V)
  BY DEF FlInv, TypeInv, PacketTypes
<1> HIDE DEF V
<1>1. Ops(outgoing') \subseteq Ops(outgoing)
  BY <1>0, Move
<1> USE DEF FlInv, ConvInv, others, io, memory, program
<1>2. LastOnly(outgoing', Questions)
  BY <1>0, LastTail DEF Lasts
<1>3. Links'
  BY DEF Links
<1>4. Lasts'
  BY <1>1, <1>2, OpsEmpty DEF Lasts, Open
<1>5. Asked'
  BY <1>1 DEF Asked
<1>6. WaitingInv'
  BY <1>1, OpsEmpty DEF WaitingInv
<1>7. GreetingInv'
  BY <1>1 DEF GreetingInv, Base, Taken, Brought, Told, InTurn, Answer
<1>8. WorkingInv'
  BY DEF WorkingInv
<1> QED
  BY <1>3, <1>4, <1>5, <1>6, <1>7, <1>8

LEMMA ArrivesConv ==
  ASSUME FlInv, mode \in {"STREAM", "BULK"}, outgoing # <<>>, outgoing' = Tail(outgoing), Hears,
         rxFifo' = Append(rxFifo, Head(outgoing)),
         lastWriteOk' \in BOOLEAN, lastWriteOk' => mode = "STREAM" \/ lastWriteOk,
         UNCHANGED others
  PROVE  ConvInv'
<1> DEFINE V == Commands(fileSize)
<1>0. outgoing \in Seq(V) /\ rxFifo \in Seq(V) /\ at = "loop"
  BY DEF FlInv, TypeInv, PacketTypes, Hears
<1> HIDE DEF V
<1>1. /\ Ops(outgoing') \subseteq Ops(outgoing) /\ Head(outgoing).op \in Ops(outgoing)
      /\ Ops(rxFifo') = Ops(rxFifo) \cup {Head(outgoing).op}
  BY <1>0, Move
<1> USE DEF FlInv, ConvInv, others, io, memory, program
<1>2. Ops(rxFifo) \cap Open = {} /\ Open \subseteq Questions /\ Open' = Open
  BY <1>0 DEF Lasts, Open, Questions
<1>3. /\ LastOnly(outgoing', Questions)
      /\ Head(outgoing).op \in Questions => outgoing' = <<>>
  BY <1>0, LastTail DEF Lasts
<1>4. LastOnly(rxFifo', Open)
  <2>1. LastOnly(outgoing, Open)
    BY <1>2, LastFewer DEF Lasts
  <2> QED
    BY <1>0, <1>2, <2>1, MoveLast
<1>5. Links'
  BY <1>0 DEF Links
<1>6. Lasts'
  BY <1>0, <1>1, <1>2, <1>3, <1>4 DEF Lasts
<1>7. Asked'
  BY <1>0, <1>1 DEF Asked, Links
<1>8. WaitingInv'
  BY <1>0, <1>1, OpsEmpty DEF WaitingInv
<1>9. GreetingInv'
  BY <1>0, <1>1 DEF GreetingInv, Base, Taken, Brought, Told, InTurn, Answer
<1>10. WorkingInv'
  BY <1>0 DEF WorkingInv
<1> QED
  BY <1>5, <1>6, <1>7, <1>8, <1>9, <1>10

LEMMA SentConv == FlInv /\ (BulkArrives \/ StreamArrives \/ StreamFails) => ConvInv'
<1> SUFFICES ASSUME FlInv, BulkArrives \/ StreamArrives \/ StreamFails PROVE ConvInv'
  OBVIOUS
<1>0. lastWriteOk \in BOOLEAN
  BY DEF FlInv, TypeInv, ProgramTypes
<1>1. CASE BulkArrives
  BY <1>0, <1>1, ArrivesConv DEF BulkArrives
<1>2. CASE StreamArrives
  BY <1>2, ArrivesConv DEF StreamArrives
<1>3. CASE StreamFails
  <2>1. CASE rxFifo' = rxFifo
    BY <1>3, <2>1, LostConv DEF StreamFails
  <2>2. CASE Hears /\ rxFifo' = Append(rxFifo, Head(outgoing))
    BY <1>3, <2>2, ArrivesConv DEF StreamFails
  <2> QED
    BY <1>3, <2>1, <2>2 DEF StreamFails
<1> QED
  BY <1>1, <1>2, <1>3

LEMMA AnswerArrivesConv == FlInv /\ AnswerArrives => ConvInv'
<1> SUFFICES ASSUME FlInv, AnswerArrives PROVE ConvInv'
  OBVIOUS
<1>0. /\ mode = "READ" /\ peer /\ txFifo # <<>>
      /\ incoming' = Append(incoming, Head(txFifo)) /\ txFifo' = Tail(txFifo)
      /\ incoming \in Seq(Answers) /\ recvQueue \in Seq(Answers) /\ txFifo \in Seq(Answers)
      /\ UNCHANGED <<loader, mode, outgoing, at, got_hello, boot_timer, peer, job, memory, rxFifo, lastReset>>
  BY DEF FlInv, TypeInv, PacketTypes, AnswerArrives
<1> USE DEF FlInv, ConvInv, loader, io, files, cursor
<1>1. /\ Ops(txFifo') \subseteq Ops(txFifo)
      /\ Ops(incoming') \subseteq Ops(txFifo) \cup Ops(incoming)
      /\ Len(recvQueue) \in Nat /\ Len(incoming) \in Nat /\ Len(txFifo) \in Nat /\ Len(txFifo') \in Nat
      /\ Len(incoming') = Len(incoming) + 1 /\ Len(txFifo) = Len(txFifo') + 1
      /\ Head(txFifo) \in Answers
  <2>1. Tail(txFifo) \in Seq(Answers)
    BY <1>0, Move
  <2> QED
    BY <1>0, <2>1, Move, LenProperties
<1>2. Links'
  BY <1>0 DEF Links
<1>3. Lasts'
  BY <1>0 DEF Lasts, Open
<1>4. Asked'
  BY <1>0 DEF Asked, Links
<1>5. WaitingInv'
  BY <1>0 DEF WaitingInv
<1>6. GreetingInv'
  <2> SUFFICES ASSUME pc \in Greeting PROVE GreetingInv'
    BY <1>0 DEF GreetingInv
  <2>0. Base' = Base /\ Base \in Nat /\ Len(recvQueue') = Len(recvQueue)
    BY <1>0 DEF Base
  <2>1. Base' = Base /\ Taken' = Taken /\ Brought' = Brought + 1 /\ Told' = Told /\ Base \in Nat
        /\ Brought = Taken + Len(incoming) /\ Taken \in Nat /\ Brought \in Nat
    <3> HIDE DEF Base, FlInv, ConvInv, loader, io, files, cursor
    <3>1. Taken' = Taken /\ Taken \in Nat
      BY <1>1, <2>0 DEF Taken
    <3>2. Brought' = Brought + 1 /\ Brought = Taken + Len(incoming) /\ Brought \in Nat
      BY <1>1, <3>1 DEF Brought
    <3>3. Told' = Told
      BY <1>1, <3>2 DEF Told
    <3> QED
      BY <2>0, <3>1, <3>2, <3>3
  <2>2. InTurn(recvQueue, Base) /\ InTurn(incoming, Taken) /\ InTurn(txFifo, Brought)
    BY DEF GreetingInv
  <2>3. Head(txFifo) = Answer(Brought) /\ InTurn(Tail(txFifo), Brought + 1)
    BY <1>0, <2>1, <2>2, InTurnTail
  <2>4. InTurn(Append(incoming, Head(txFifo)), Taken)
    BY <1>0, <1>1, <2>1, <2>2, <2>3, InTurnAppend
  <2>5. InTurn(recvQueue, Base)' /\ InTurn(incoming, Taken)' /\ InTurn(txFifo, Brought)'
    BY <1>0, <2>1, <2>2, <2>3, <2>4 DEF InTurn, Answer
  <2> QED
    BY <1>0, <2>1, <2>5 DEF GreetingInv, Links
<1>7. WorkingInv'
  BY <1>0, <1>1 DEF WorkingInv
<1> QED
  BY <1>2, <1>3, <1>4, <1>5, <1>6, <1>7

-----------------------------------------------------------------------------
(***************************************************************************)
(* The target.                                                             *)
(***************************************************************************)
\* A command that asks nothing.
LEMMA DropsConv ==
  ASSUME FlInv, at = "loop", rxFifo # <<>>, rxFifo' = Tail(rxFifo), at' \in {"loop", "app"},
         UNCHANGED <<got_hello, boot_timer, peer, job, txFifo, loader, link, lastReset>>
  PROVE  ConvInv'
<1> DEFINE V == Commands(fileSize)
<1>0. rxFifo \in Seq(V)
  BY DEF FlInv, TypeInv, PacketTypes
<1> HIDE DEF V
<1>1. Ops(rxFifo') \subseteq Ops(rxFifo)
  BY <1>0, OpsTail
<1> USE DEF FlInv, ConvInv, loader, io, link, files, cursor
<1>2. LastOnly(rxFifo', Open) /\ Open' = Open
  BY <1>0, LastTail DEF Lasts, Open
<1>3. Links'
  BY DEF Links
<1>4. Lasts'
  BY <1>1, <1>2 DEF Lasts
<1>5. Asked'
  BY <1>1 DEF Asked
<1>6. WaitingInv'
  BY <1>1 DEF WaitingInv
<1>7. GreetingInv'
  BY <1>1 DEF GreetingInv, Base, Taken, Brought, Told, InTurn, Answer
<1>8. WorkingInv'
  BY DEF WorkingInv
<1> QED
  BY <1>3, <1>4, <1>5, <1>6, <1>7, <1>8

LEMMA TakesConv ==
  FlInv /\ (TakeWrite \/ TakeBoot \/ TakeOther) /\ UNCHANGED <<loader, link, lastReset>> => ConvInv'
<1> SUFFICES ASSUME FlInv, TakeWrite \/ TakeBoot \/ TakeOther, UNCHANGED <<loader, link, lastReset>>
             PROVE  ConvInv'
  OBVIOUS
<1>1. CASE TakeWrite
  BY <1>1, DropsConv DEF TakeWrite, HasCommand, Drop
<1>2. CASE TakeBoot
  BY <1>2, DropsConv DEF TakeBoot, HasCommand, Drop
<1>3. CASE TakeOther
  BY <1>3, DropsConv DEF TakeOther, Drop
<1> QED
  BY <1>1, <1>2, <1>3

LEMMA TakeHelloConv == FlInv /\ TakeHello /\ UNCHANGED <<loader, link, lastReset>> => ConvInv'
<1> SUFFICES ASSUME FlInv, TakeHello, UNCHANGED <<loader, link, lastReset>> PROVE ConvInv'
  OBVIOUS
<1>0. /\ at = "loop" /\ rxFifo # <<>> /\ Head(rxFifo).op = "HELLO" /\ rxFifo \in Seq(Commands(fileSize))
      /\ peer' = TRUE /\ rxFifo' = <<>> /\ job'.op = "HELLO" /\ job'.addr = 0 /\ at' = "answer"
      /\ UNCHANGED <<loader, link, txFifo>>
  BY DEF FlInv, TypeInv, PacketTypes, TakeHello, HasCommand, NoJob
<1>1. "HELLO" \in Ops(rxFifo)
  BY <1>0, OpsTail
<1> USE DEF FlInv, ConvInv, loader, io, link, files, cursor
<1>2. sendQueue = <<>> /\ outgoing = <<>> /\ txFifo = <<>>
  BY <1>0, <1>1 DEF Lasts, Open, Links, Questions
<1>3. Links'
  BY <1>0 DEF Links, Questions
<1>4. Lasts'
  BY <1>0, <1>2, OpsEmpty DEF Lasts
<1>5. Asked'
  BY <1>0, <1>2, OpsEmpty DEF Asked
<1>6. WaitingInv'
  BY <1>0, <1>1 DEF WaitingInv
<1>7. GreetingInv'
  BY <1>0, <1>1, <1>2, OpsEmpty DEF GreetingInv, Base, Taken, Brought, Told, InTurn, Answer
<1>8. WorkingInv'
  BY <1>0, <1>1 DEF WorkingInv, Asked, Working, Ended
<1> QED
  BY <1>3, <1>4, <1>5, <1>6, <1>7, <1>8

LEMMA TakeReadConv == FlInv /\ TakeRead /\ UNCHANGED <<loader, link, lastReset>> => ConvInv'
<1> SUFFICES ASSUME FlInv, TakeRead, UNCHANGED <<loader, link, lastReset>> PROVE ConvInv'
  OBVIOUS
<1> DEFINE V == Commands(fileSize)
<1>0. /\ at = "loop" /\ rxFifo # <<>> /\ Head(rxFifo).op = "READ" /\ rxFifo \in Seq(V)
      /\ rxFifo' = Tail(rxFifo) /\ job'.op = "READ" /\ at' = "answer"
      /\ UNCHANGED <<loader, link, txFifo, peer>>
  BY DEF FlInv, TypeInv, PacketTypes, TakeRead, HasCommand, Drop
<1> HIDE DEF V
<1>1. "READ" \in Ops(rxFifo)
  BY <1>0, OpsTail
<1> USE DEF FlInv, ConvInv, loader, io, link, files, cursor
<1>2. peer => rxFifo' = <<>>
  BY <1>0, LastTail DEF Lasts, Open, Questions
<1>3. Links'
  BY <1>0, <1>2 DEF Links, Questions
<1>4. Lasts'
  BY <1>0 DEF Lasts
<1>5. Asked'
  BY <1>0 DEF Asked
<1>6. WaitingInv'
  BY <1>0, <1>1 DEF WaitingInv
<1>7. GreetingInv'
  BY <1>0, <1>1 DEF GreetingInv
<1>8. WorkingInv'
  BY <1>0 DEF WorkingInv
<1> QED
  BY <1>3, <1>4, <1>5, <1>6, <1>7, <1>8

LEMMA PushHelloConv == FlInv /\ PushHello /\ UNCHANGED <<loader, link, lastReset>> => ConvInv'
<1> SUFFICES ASSUME FlInv, PushHello, UNCHANGED <<loader, link, lastReset>> PROVE ConvInv'
  OBVIOUS
<1>0. /\ at = "answer" /\ job.op = "HELLO" /\ job.addr \in Nat
      /\ txFifo' = Append(txFifo, HelloAnswer) /\ txFifo \in Seq(Answers)
      /\ incoming \in Seq(Answers) /\ recvQueue \in Seq(Answers)
      /\ job'.op = "HELLO" /\ job'.addr = job.addr + 1
      /\ at' = IF job.addr = partcount THEN "sync" ELSE "answer"
      /\ UNCHANGED <<loader, link, peer, rxFifo>>
  BY DEF FlInv, TypeInv, PacketTypes, TargetTypes, PushHello, MayPush, Push
<1>1. HelloAnswer = Answer(job.addr)
  BY <1>0 DEF HelloAnswer, Answer
<1>2. txFifo' # <<>> /\ (job.addr \in {0, 1, 2} => Len(txFifo') = Len(txFifo) + 1)
  <2>1. \A e : Append(txFifo, e) # <<>>
    BY <1>0
  <2>2. job.addr \in {0, 1, 2} => HelloAnswer \in Answers
    BY <1>1, AnswerIs
  <2> QED
    BY <1>0, <2>1, <2>2, AppendProperties
<1> USE DEF FlInv, ConvInv, loader, io, link, files, cursor
<1>3. Links'
  BY <1>0, <1>2 DEF Links, Questions
<1>4. Lasts'
  BY <1>0 DEF Lasts
<1>5. Asked'
  BY <1>0 DEF Asked
<1>6. WaitingInv'
  BY <1>0 DEF WaitingInv
<1>7. GreetingInv'
  <2> SUFFICES ASSUME pc \in Greeting PROVE GreetingInv'
    BY <1>0 DEF GreetingInv
  <2>1. job.addr = Told /\ Told <= 2
    BY <1>0 DEF GreetingInv
  <2>2. Len(recvQueue) \in Nat /\ Len(incoming) \in Nat /\ Len(txFifo) \in Nat
    BY <1>0, LenProperties
  <2>3. job.addr \in {0, 1, 2} /\ Told = Brought + Len(txFifo) /\ Brought \in Nat
    <3>1. Base \in Nat
      BY DEF Base
    <3> HIDE DEF FlInv, ConvInv, Base
    <3> QED
      BY <2>1, <2>2, <3>1, <1>0 DEF Told, Brought, Taken
  <2>4. HelloAnswer \in Answers
    BY <1>1, <2>3, AnswerIs
  <2>5. InTurn(Append(txFifo, HelloAnswer), Brought)
    BY <1>0, <1>1, <2>1, <2>3, <2>4, InTurnAppend DEF GreetingInv
  <2>6. Base' = Base /\ Taken' = Taken /\ Brought' = Brought
    BY <1>0 DEF Base, Taken, Brought
  <2>7. Told' = Told + 1 /\ Told \in Nat
    <3> HIDE DEF FlInv, ConvInv, Base, Taken, Brought
    <3> QED
      BY <1>2, <2>2, <2>3, <2>6 DEF Told
  <2>8. /\ Told' <= 3 /\ (at' = "answer" => job'.addr = Told' /\ Told' <= 2)
    BY <1>0, <2>1, <2>3, <2>7, Partitions2
  <2>9. at' \in {"answer", "sync"} /\ outgoing = <<>> /\ sendQueue = <<>>
    BY <1>0 DEF GreetingInv
  <2>10. InTurn(recvQueue, Base)' /\ InTurn(incoming, Taken)' /\ InTurn(txFifo, Brought)'
    <3>1. InTurn(recvQueue, Base) /\ InTurn(incoming, Taken)
      BY <1>0 DEF GreetingInv
    <3> HIDE DEF FlInv, ConvInv, Base, Taken, Brought
    <3> QED
      BY <1>0, <2>5, <2>6, <3>1 DEF InTurn, Answer
  <2> HIDE DEF Base, Taken, Brought, Told
  <2> QED
    BY <1>0, <2>8, <2>9, <2>10, OpsEmpty DEF GreetingInv
<1>8. WorkingInv'
  BY <1>0 DEF WorkingInv
<1> QED
  BY <1>3, <1>4, <1>5, <1>6, <1>7, <1>8

LEMMA ContentsAre ==
  ASSUME TypeInv, NEW p \in 1 .. 2
  PROVE  \A a \in 0 .. parts[p].size - 1 : contents(p)[a] \in Int
<1>1. CASE p = 1
  <2>1. contents(p) = eeprom /\ parts[p].size = E2END + 1
    BY <1>1, Partitions2 DEF contents
  <2>2. E2END + 1 - 1 = E2END
    BY Sizes
  <2>3. parts[p].size - 1 = E2END
    BY <2>1, <2>2, Sizes
  <2> QED
    BY <2>1, <2>3 DEF TypeInv, TargetTypes
<1>2. CASE p = 2
  BY <1>2, Partitions2, Sizes DEF contents, TypeInv, TargetTypes
<1> QED
  BY <1>1, <1>2

\* A block lies within the partition, or is empty.
LEMMA BlockIs ==
  ASSUME TypeInv, job.op = "READ"
  PROVE  /\ ReadBlock(job.part, job.addr) \in Seq(Int)
         /\ Len(ReadBlock(job.part, job.addr)) \in {0, IOSIZE}
         /\ [op |-> "READ", addr |-> job.addr, data |-> ReadBlock(job.part, job.addr)] \in Answers
<1> DEFINE p == job.part
           a == job.addr
<1>1. p \in 1 .. 2 /\ a \in Nat /\ Rest(a, IOSIZE) = 0
  BY DEF TypeInv, TargetTypes
<1>2. parts[p].size \in Nat /\ Rest(parts[p].size, IOSIZE) = 0
  BY <1>1, Partitions2
<1>3. ReadBlock(p, a) \in Seq(Int) /\ Len(ReadBlock(p, a)) \in {0, IOSIZE}
  <2> HIDE DEF p, a
  <2>1. CASE a >= parts[p].size
    BY <2>1, EmptySeq DEF ReadBlock
  <2>2. CASE ~(a >= parts[p].size)
    <3> DEFINE n == parts[p].size
    <3>1. a \in Int /\ n \in Int /\ a < n /\ Rest(n, IOSIZE) = 0
      BY <1>1, <1>2, <2>2
    <3> HIDE DEF n
    <3>2. a + IOSIZE <= n
      BY <1>1, <3>1, Apart, Sizes
    <3>3. \A k \in 1 .. IOSIZE : a + k - 1 \in 0 .. n - 1
      BY <1>1, <3>1, <3>2, Sizes
    <3>4. \A k \in 1 .. IOSIZE : contents(p)[a + k - 1] \in Int
      BY <1>1, <3>3, ContentsAre DEF n
    <3>5. ReadBlock(p, a) = [k \in 1 .. IOSIZE |-> contents(p)[a + k - 1]]
      BY <2>2 DEF ReadBlock
    <3> QED
      BY <3>4, <3>5, Sizes
  <2> QED
    BY <2>1, <2>2
<1> QED
  BY <1>1, <1>3 DEF Answers

LEMMA PushBlockConv == FlInv /\ PushBlock /\ UNCHANGED <<loader, link, lastReset>> => ConvInv'
<1> SUFFICES ASSUME FlInv, PushBlock, UNCHANGED <<loader, link, lastReset>> PROVE ConvInv'
  OBVIOUS
<1> DEFINE e == [op |-> "READ", addr |-> job.addr, data |-> ReadBlock(job.part, job.addr)]
<1>0. /\ at = "answer" /\ job.op = "READ" /\ txFifo' = Append(txFifo, e) /\ txFifo \in Seq(Answers)
      /\ job'.op = "READ" /\ at' \in {"answer", "sync"}
      /\ UNCHANGED <<loader, link, peer, rxFifo>>
  BY DEF FlInv, TypeInv, PacketTypes, TargetTypes, PushBlock, MayPush, Push
<1>1. e \in Answers /\ e.op = "READ"
  BY <1>0, BlockIs DEF FlInv
<1> HIDE DEF e
<1>2. Ops(txFifo') = Ops(txFifo) \cup {"READ"}
  BY <1>0, <1>1, OpsAppend
<1>3. txFifo' # <<>>
  BY <1>0
<1> USE DEF FlInv, ConvInv, loader, io, link, files, cursor
<1>4. Links'
  BY <1>0, <1>3 DEF Links, Questions
<1>5. Lasts'
  BY <1>0 DEF Lasts
<1>6. Asked'
  BY <1>0 DEF Asked
<1>7. WaitingInv'
  BY <1>0 DEF WaitingInv
<1>8. GreetingInv'
  BY <1>0 DEF GreetingInv
<1>9. WorkingInv'
  BY <1>0, <1>2 DEF WorkingInv
<1> QED
  BY <1>4, <1>5, <1>6, <1>7, <1>8, <1>9

LEMMA ListenAgainConv == FlInv /\ ListenAgain /\ UNCHANGED <<loader, link, lastReset>> => ConvInv'
<1> SUFFICES ASSUME FlInv, ListenAgain, UNCHANGED <<loader, link, lastReset>> PROVE ConvInv'
  OBVIOUS
<1>0. /\ at = "sync" /\ at' = "loop" /\ txFifo = <<>>
      /\ UNCHANGED <<loader, link, peer, job, fifos>>
  BY DEF ListenAgain
<1> USE DEF FlInv, ConvInv, loader, io, link, files, cursor, fifos
<1>1. rxFifo = <<>>
  BY <1>0 DEF Links, TypeInv, TargetTypes
<1>2. Links'
  BY <1>0 DEF Links
<1>3. Lasts'
  BY <1>0, <1>1, OpsEmpty DEF Lasts
<1>4. Asked'
  BY <1>0, <1>1, OpsEmpty DEF Asked
<1>5. WaitingInv'
  BY <1>0, <1>1, OpsEmpty DEF WaitingInv
<1>6. GreetingInv'
  BY <1>0, <1>1, OpsEmpty DEF GreetingInv, Base, Taken, Brought, Told, InTurn, Answer
<1>7. WorkingInv'
  BY <1>0 DEF WorkingInv
<1> QED
  BY <1>2, <1>3, <1>4, <1>5, <1>6, <1>7

LEMMA TickConv == FlInv /\ BootTimerTick /\ UNCHANGED <<loader, link, lastReset>> => ConvInv'
<1> SUFFICES ASSUME FlInv, BootTimerTick, UNCHANGED <<loader, link, lastReset>> PROVE ConvInv'
  OBVIOUS
<1>0. /\ at = "loop" /\ at' \in {"loop", "app"}
      /\ UNCHANGED <<loader, link, peer, job, fifos>>
  BY DEF BootTimerTick
<1> USE DEF FlInv, ConvInv, loader, io, link, files, cursor, fifos
<1>1. Links'
  BY <1>0 DEF Links
<1>2. Lasts'
  BY <1>0 DEF Lasts, Open
<1>3. Asked'
  BY <1>0 DEF Asked
<1>4. WaitingInv'
  BY <1>0 DEF WaitingInv
<1>5. GreetingInv'
  BY <1>0 DEF GreetingInv, Base, Taken, Brought, Told, InTurn, Answer
<1>6. WorkingInv'
  BY <1>0 DEF WorkingInv
<1> QED
  BY <1>1, <1>2, <1>3, <1>4, <1>5, <1>6

\* A start of the target loses what was on its way there, and the last answers.
LEMMA RestartConv ==
  ASSUME FlInv, RamLost, at' = "loop", UNCHANGED <<loader, link>>
  PROVE  ConvInv'
<1>0. /\ peer' = FALSE /\ rxFifo' = <<>> /\ txFifo' = <<>> /\ at' = "loop"
      /\ UNCHANGED <<loader, link>>
  BY DEF RamLost
<1> USE DEF FlInv, ConvInv, loader, io, link, files, cursor
<1>1. Links'
  BY <1>0 DEF Links
<1>2. Lasts'
  BY <1>0, OpsEmpty DEF Lasts
<1>3. Asked'
  BY <1>0, OpsEmpty DEF Asked
<1>4. WaitingInv'
  BY <1>0, OpsEmpty DEF WaitingInv
<1>5. GreetingInv'
  <2> SUFFICES ASSUME pc \in Greeting PROVE GreetingInv'
    BY <1>0 DEF GreetingInv
  <2>1. Base' = Base /\ Taken' = Taken /\ Brought' = Brought
    BY <1>0 DEF Base, Taken, Brought
  <2>2. Brought \in Nat /\ Len(txFifo) \in Nat /\ Len(txFifo') = 0
    <3>1. Base \in Nat /\ Len(recvQueue) \in Nat /\ Len(incoming) \in Nat /\ Len(txFifo) \in Nat
      BY LenProperties DEF Base, TypeInv, PacketTypes
    <3> HIDE DEF FlInv, ConvInv, Base
    <3> QED
      BY <1>0, <3>1 DEF Brought, Taken
  <2>3. Told' <= Told /\ Told' \in Nat /\ Told \in Nat
    <3> HIDE DEF FlInv, ConvInv, Base, Taken, Brought
    <3> QED
      BY <2>1, <2>2 DEF Told
  <2>4. Told' <= 3 /\ (Told = 0 => Told' = 0)
    BY <2>3 DEF GreetingInv
  <2>5. InTurn(recvQueue, Base)' /\ InTurn(incoming, Taken)' /\ InTurn(txFifo, Brought)'
    BY <1>0, <2>1, InTurnEmpty DEF InTurn, Answer, GreetingInv
  <2> HIDE DEF Base, Taken, Brought, Told
  <2> QED
    BY <1>0, <2>4, <2>5, OpsEmpty DEF GreetingInv
<1>6. WorkingInv'
  BY <1>0, OpsEmpty DEF WorkingInv
<1> QED
  BY <1>1, <1>2, <1>3, <1>4, <1>5, <1>6

LEMMA TargetConv == FlInv /\ (TargetActs \/ TargetResets \/ PowerCut) => ConvInv'
<1> SUFFICES ASSUME FlInv, TargetActs \/ TargetResets \/ PowerCut PROVE ConvInv'
  OBVIOUS
<1>1. CASE TargetActs
  BY <1>1, TakesConv, TakeHelloConv, TakeReadConv, PushHelloConv, PushBlockConv, ListenAgainConv, TickConv
     DEF TargetActs, TargetNext, TakeCommand
<1>2. CASE TargetResets
  BY <1>2, RestartConv DEF TargetResets, GiveUpAnswering, Reset
<1>3. CASE PowerCut
  BY <1>3, RestartConv DEF PowerCut, PowerFails
<1> QED
  BY <1>1, <1>2, <1>3

-----------------------------------------------------------------------------
(***************************************************************************)
(* The user.                                                               *)
(***************************************************************************)
LEMMA UserKillsConv == FlInv /\ UserKills => ConvInv'
<1> SUFFICES ASSUME FlInv, UserKills PROVE ConvInv'
  OBVIOUS
<1>0. /\ pc' = "killed" /\ transfer'.kind = "none" /\ sendQueue' = <<>>
      /\ UNCHANGED <<target, link, lastReset>>
  BY DEF UserKills, Kill, NoTransfer
<1> USE DEF FlInv, ConvInv, target, fifos, link
<1>1. Links'
  BY <1>0 DEF Links
<1>2. Lasts'
  BY <1>0, OpsEmpty DEF Lasts, Open
<1>3. Asked'
  BY <1>0 DEF Asked, Ended
<1>4. WaitingInv' /\ GreetingInv' /\ WorkingInv'
  BY <1>0 DEF WaitingInv, GreetingInv, WorkingInv, Waiting, Greeting, Working
<1> QED
  BY <1>1, <1>2, <1>3, <1>4

LEMMA UserStartsConv == FlInv /\ UserStarts => ConvInv'
<1> SUFFICES ASSUME FlInv, UserStarts PROVE ConvInv'
  OBVIOUS
<1>0. /\ pc' = "ping" /\ transfer'.kind = "none" /\ sendQueue' = <<>> /\ lastWriteOk' = FALSE
      /\ at = "loop" => rxFifo = <<>>
      /\ mode' = "IDLE" /\ outgoing' = <<>> /\ incoming' = <<>>
      /\ UNCHANGED target
  BY DEF UserStarts, Start, NoTransfer
<1> USE DEF FlInv, ConvInv, target, fifos
<1>1. Links'
  BY <1>0 DEF Links
<1>2. Lasts'
  BY <1>0, OpsEmpty DEF Lasts, Open
<1>3. Asked'
  BY <1>0, OpsEmpty DEF Asked
<1>4. WaitingInv'
  BY <1>0, OpsEmpty DEF WaitingInv
<1>5. GreetingInv' /\ WorkingInv'
  BY <1>0 DEF GreetingInv, WorkingInv, Greeting, Working
<1> QED
  BY <1>1, <1>2, <1>3, <1>4, <1>5

-----------------------------------------------------------------------------
(***************************************************************************)
(* The calls of the loader.                                                *)
(***************************************************************************)
LEMMA WorkIs ==
  ASSUME NEW n \in 1 .. 4, NEW failed
  PROVE  Work(n, failed) \in {"save", "restore", "verify", "run", "done"}
<1> DEFINE works == <<"save", "restore", "verify", "run">>
           wanted == [save |-> session.read, restore |-> session.write,
                      verify |-> session.verify, run |-> session.run /\ ~failed]
           left == {i \in n .. 4 : wanted[works[i]]}
<1>1. Work(n, failed) = IF left = {} THEN "done" ELSE works[Min(left)]
  BY DEF Work
<1>2. left \subseteq 1 .. 4
  OBVIOUS
<1> HIDE DEF left
<1>3. ASSUME left # {} PROVE Min(left) \in left
  <2>1. \E x \in left : \A y \in left : x <= y
    <3>1. CASE 1 \in left
      BY <1>2, <3>1
    <3>2. CASE 1 \notin left /\ 2 \in left
      BY <1>2, <3>2
    <3>3. CASE 1 \notin left /\ 2 \notin left /\ 3 \in left
      BY <1>2, <3>3
    <3>4. CASE 1 \notin left /\ 2 \notin left /\ 3 \notin left
      <4>1. \A x \in left : x = 4
        <5> TAKE x \in left
        <5>1. x \in 1 .. 4 /\ x # 1 /\ x # 2 /\ x # 3
          BY <1>2, <3>4
        <5> QED
          BY <5>1
      <4> QED
        BY <1>3, <4>1
    <3> QED
      BY <3>1, <3>2, <3>3, <3>4
  <2> QED
    BY <2>1 DEF Min
<1>4. \A i \in 1 .. 4 : works[i] \in {"save", "restore", "verify", "run"}
  OBVIOUS
<1> QED
  BY <1>1, <1>2, <1>3, <1>4

LEMMA CurrentPart ==
  ASSUME ptable = parts, session \in Command_line
  PROVE  /\ currentPartId \in 1 .. 2 /\ currentPart = parts[currentPartId]
         /\ currentPart.size \in Nat /\ Rest(currentPart.size, IOSIZE) = 0
<1> DEFINE named == {i \in DOMAIN ptable : ptable[i].name = session.part}
<1>1. named = {1} \/ named = {2}
  <2>1. session.part \in {"eeprom", "flash"} /\ DOMAIN ptable = 1 .. 2
    BY Partitions2 DEF Command_line
  <2>2. ptable[1].name = "eeprom" /\ ptable[2].name = "flash"
    BY Partitions2
  <2> QED
    BY <2>1, <2>2
<1>2. currentPartId = IF named = {} THEN 1 ELSE Min(named)
  BY DEF currentPartId
<1> HIDE DEF named
<1>3. \A i \in {1, 2} : Min({i}) = i
  BY DEF Min
<1>4. currentPartId \in 1 .. 2
  BY <1>1, <1>2, <1>3
<1> QED
  BY <1>4, Partitions2 DEF currentPart

LEMMA AtLeastOne ==
  ASSUME NEW a \in Nat, NEW m \in Nat \ {0}
  PROVE  a \div m \in Nat /\ (a >= m <=> a \div m >= 1)
<1>1. a = m * (a \div m) + (a % m) /\ a \div m \in Int /\ a \div m >= 0 /\ a % m \in 0 .. m - 1
  BY DivMod
<1> DEFINE q == a \div m
           r == a % m
<1> HIDE DEF q, r
<1>2. q = 0 => m * q = 0
  BY <1>1 DEF q
<1>3. q >= 1 => m * q >= m
  BY <1>1 DEF q
<1>4. a = m * q + r /\ q \in Int /\ q >= 0 /\ r \in 0 .. m - 1 /\ m * q \in Int
  BY <1>1 DEF q, r
<1>5. q \in Nat /\ (a >= m <=> q >= 1)
  BY <1>2, <1>3, <1>4
<1> QED
  BY <1>5 DEF q

LEMMA QueueNumber ==
  ASSUME ptable = parts, session \in Command_line, NEW a \in Nat
  PROVE  numToQueue(a) \in Nat
<1> DEFINE n == currentPart.size
           q == (n - a) \div IOSIZE
<1>1. n \in Nat /\ n \in Int
  BY CurrentPart
<1>2. numToQueue(a) = IF a >= n THEN 0 ELSE Min({NumPacketsPerRun, q})
  BY DEF numToQueue
<1> HIDE DEF n
<1>3. ASSUME ~(a >= n) PROVE q \in Nat
  <2>1. n - a \in Nat
    BY <1>1, <1>3
  <2> QED
    BY <2>1, AtLeastOne, Sizes
<1> HIDE DEF q
<1>4. ASSUME ~(a >= n) PROVE Min({NumPacketsPerRun, q}) \in Nat
  BY <1>3, <1>4, MinOfTwo, LoaderAssumption
<1> QED
  BY <1>2, <1>4

\* There is a block to queue as long as the address is in the partition.
LEMMA QueueNum ==
  ASSUME ptable = parts, session \in Command_line, NEW a \in Nat, Rest(a, IOSIZE) = 0
  PROVE  numToQueue(a) \in Nat /\ (numToQueue(a) > 0 <=> a < currentPart.size)
<1> DEFINE n == currentPart.size
<1>1. n \in Nat /\ n \in Int /\ Rest(n, IOSIZE) = 0
  BY CurrentPart
<1>2. numToQueue(a) = IF a >= n THEN 0 ELSE Min({NumPacketsPerRun, (n - a) \div IOSIZE})
  BY DEF numToQueue
<1> HIDE DEF n
<1>3. ASSUME ~(a >= n) PROVE numToQueue(a) \in Nat /\ numToQueue(a) > 0
  <2>1. a + IOSIZE <= n
    BY <1>1, <1>3, Apart, Sizes
  <2>2. n - a \in Nat /\ n - a >= IOSIZE
    BY <1>1, <2>1, Sizes
  <2>3. (n - a) \div IOSIZE \in Nat /\ (n - a) \div IOSIZE >= 1
    BY <2>2, AtLeastOne, Sizes
  <2> DEFINE q == (n - a) \div IOSIZE
  <2> HIDE DEF q
  <2>4. q \in Nat /\ q >= 1 /\ NumPacketsPerRun \in Nat /\ NumPacketsPerRun >= 1
    BY <2>3, LoaderAssumption DEF q
  <2>5. Min({NumPacketsPerRun, q}) \in Nat /\ Min({NumPacketsPerRun, q}) > 0
    BY <2>4, MinOfTwo
  <2> QED
    BY <1>2, <1>3, <2>5 DEF q
<1> QED
  BY <1>1, <1>2, <1>3 DEF n

\* Between transfers nothing of the loader asks.
LEMMA NothingAsked ==
  ASSUME FlInv, transfer.kind = "none", pc \notin Ended
  PROVE  /\ sendQueue = <<>> /\ Ops(outgoing) \cap Questions = {}
         /\ at = "loop" /\ pc \notin {"helloSent", "helloAnswered", "saveRead", "verifyRead"} =>
              Ops(rxFifo) \cap Open = {}
BY DEF FlInv, ConvInv, Links, Asked, Open, Questions

LEMMA SilentLinks ==
  ASSUME FlInv, LoaderActs, transfer.kind = "none", UNCHANGED io
  PROVE  Links' /\ Lasts' /\ UNCHANGED <<io, link, target>>
<1>1. UNCHANGED <<io, link, target>>
  BY ModeOf DEF LoaderActs, io, link
<1> QED
  BY <1>1 DEF FlInv, ConvInv, Links, Lasts, Open, io, link, target, fifos

LEMMA WriteLinks ==
  ASSUME FlInv, LoaderActs, transfer.kind = "none", pc \notin Ended,
         NEW kind \in {"stream", "bulk", "bulkSync"}, NEW packets, Write(kind, packets),
         LastOnly(packets, Questions),
         at = "loop" => Ops(rxFifo) \cap Open = {}
  PROVE  /\ Links' /\ Lasts' /\ UNCHANGED target
         /\ sendQueue' = packets /\ recvQueue' = <<>>
         /\ transfer'.kind = (IF packets = <<>> THEN "none" ELSE kind)
         /\ packets # <<>> => mode' = (IF kind = "stream" THEN "STREAM" ELSE "BULK")
         /\ packets = <<>> => mode' = mode
         /\ outgoing' \in {outgoing, <<>>} /\ incoming' \in {incoming, <<>>}
<1>1. /\ sendQueue' = packets /\ recvQueue' = <<>>
      /\ transfer'.kind = (IF packets = <<>> THEN "none" ELSE kind)
  BY DEF Write
<1>2. mode' = Mode(transfer'.kind) /\ UNCHANGED target
      /\ IF mode' = mode THEN UNCHANGED <<outgoing, incoming>>
                         ELSE outgoing' = <<>> /\ incoming' = <<>>
  BY DEF LoaderActs
<1>3. /\ packets # <<>> => mode' = (IF kind = "stream" THEN "STREAM" ELSE "BULK")
      /\ packets = <<>> => mode' = mode
  BY <1>1, <1>2, ModeOf
<1>4. Ops(outgoing) \cap Questions = {}
  BY NothingAsked
<1> USE DEF FlInv, ConvInv, target, fifos
<1>5. Links'
  BY <1>1, <1>2, <1>3 DEF Links
<1>6. Lasts'
  BY <1>1, <1>2, <1>4, OpsEmpty DEF Lasts, Open
<1> QED
  BY <1>1, <1>2, <1>3, <1>5, <1>6

LEMMA ReadLinks ==
  ASSUME FlInv, LoaderActs, transfer.kind = "none", pc \notin Ended, NEW n, Read(n)
  PROVE  /\ Links' /\ Lasts' /\ UNCHANGED target
         /\ sendQueue' = <<>> /\ recvQueue' = <<>> /\ mode' = "READ"
         /\ transfer'.kind = "read" /\ transfer'.want = n
         /\ outgoing' \in {outgoing, <<>>} /\ incoming' \in {incoming, <<>>}
         /\ mode # "READ" => outgoing' = <<>> /\ incoming' = <<>>
         /\ mode = "READ" => outgoing' = outgoing /\ incoming' = incoming
<1>1. sendQueue' = <<>> /\ recvQueue' = <<>> /\ transfer'.kind = "read" /\ transfer'.want = n
  BY DEF Read
<1>2. mode' = Mode(transfer'.kind) /\ UNCHANGED target
      /\ IF mode' = mode THEN UNCHANGED <<outgoing, incoming>>
                         ELSE outgoing' = <<>> /\ incoming' = <<>>
  BY DEF LoaderActs
<1>3. mode' = "READ"
  BY <1>1, <1>2, ModeOf
<1> USE DEF FlInv, ConvInv, target, fifos
<1>4. Links'
  BY <1>1, <1>2, <1>3 DEF Links
<1>5. Lasts'
  BY <1>1, <1>2, OpsEmpty DEF Lasts, Open
<1> QED
  BY <1>1, <1>2, <1>3, <1>4, <1>5

(***************************************************************************)
(* Until the target has answered, and while it tells its partitions.       *)
(***************************************************************************)
LEMMA PingConv == FlInv /\ LoaderActs /\ Ping => ConvInv'
<1> SUFFICES ASSUME FlInv, LoaderActs, Ping PROVE ConvInv'
  OBVIOUS
<1> DEFINE packets == <<[op |-> "NOP"]>>
<1>0. /\ pc = "ping" /\ transfer.kind = "none" /\ pc' = "pinged" /\ lastWriteOk' = lastWriteOk
      /\ Write("stream", packets)
  BY DEF Ping, Executes, At
<1>1. Ops(packets) = {"NOP"} /\ packets # <<>>
  BY OpsOne
<1> HIDE DEF packets
<1>2. LastOnly(packets, Questions)
  BY <1>1, LastNone DEF Questions
<1>3. Ops(outgoing) \cap Questions = {} /\ (at = "loop" => Ops(rxFifo) \cap Open = {}) /\ pc \notin Ended
  BY <1>0, NothingAsked DEF Ended
<1>4. /\ Links' /\ Lasts' /\ UNCHANGED target
      /\ sendQueue' = packets /\ transfer'.kind = "stream" /\ mode' = "STREAM"
      /\ outgoing' \in {outgoing, <<>>}
  BY <1>0, <1>1, <1>2, <1>3, WriteLinks
<1> USE DEF FlInv, ConvInv, target, fifos
<1>5. WaitingInv'
  BY <1>0, <1>1, <1>4, OpsEmpty DEF WaitingInv, Waiting
<1>6. Asked'
  BY <1>0, <1>1, <1>4, OpsEmpty DEF Asked, WaitingInv, Waiting
<1>7. GreetingInv' /\ WorkingInv'
  BY <1>0 DEF GreetingInv, WorkingInv, Greeting, Working
<1> QED
  BY <1>4, <1>5, <1>6, <1>7

LEMMA PingedConv == FlInv /\ LoaderActs /\ Pinged => ConvInv'
<1> SUFFICES ASSUME FlInv, LoaderActs, Pinged PROVE ConvInv'
  OBVIOUS
<1>0. /\ pc = "pinged" /\ transfer.kind = "none" /\ pc' = IF lastWriteOk THEN "hello" ELSE "ping"
      /\ UNCHANGED <<io, lastWriteOk>>
  BY DEF Pinged, At
<1>1. Links' /\ Lasts' /\ UNCHANGED <<io, link, target>>
  BY <1>0, SilentLinks
<1> USE DEF FlInv, ConvInv, target, fifos, io, link
<1>2. WaitingInv'
  BY <1>0, <1>1 DEF WaitingInv, Waiting
<1>3. Asked'
  BY <1>0, <1>1 DEF Asked, Ended
<1>4. GreetingInv' /\ WorkingInv'
  BY <1>0 DEF GreetingInv, WorkingInv, Greeting, Working
<1> QED
  BY <1>1, <1>2, <1>3, <1>4

LEMMA HelloConv == FlInv /\ LoaderActs /\ Hello => ConvInv'
<1> SUFFICES ASSUME FlInv, LoaderActs, Hello PROVE ConvInv'
  OBVIOUS
<1> DEFINE packets == <<[op |-> "HELLO"]>>
<1>0. /\ pc = "hello" /\ transfer.kind = "none" /\ pc' = "helloSent" /\ lastWriteOk' = lastWriteOk
      /\ Write("stream", packets)
  BY DEF Hello, Executes, At
<1>1. Ops(packets) = {"HELLO"} /\ packets # <<>>
  BY OpsOne
<1>2. LastOnly(packets, Questions)
  BY DEF LastOnly
<1> HIDE DEF packets
<1>3. Ops(outgoing) \cap Questions = {} /\ (at = "loop" => Ops(rxFifo) \cap Open = {}) /\ pc \notin Ended
  BY <1>0, NothingAsked DEF Ended
<1>4. /\ Links' /\ Lasts' /\ UNCHANGED target
      /\ sendQueue' = packets /\ recvQueue' = <<>> /\ transfer'.kind = "stream" /\ mode' = "STREAM"
      /\ outgoing' \in {outgoing, <<>>}
  BY <1>0, <1>1, <1>2, <1>3, WriteLinks
<1> USE DEF FlInv, ConvInv, target, fifos
<1>5. /\ at \in {"loop", "app"} /\ outgoing' = <<>>
      /\ at = "loop" => Ops(rxFifo) \subseteq {"NOP"}
  BY <1>0, <1>4 DEF WaitingInv, Waiting
<1>6. txFifo' = <<>> /\ incoming' = <<>> /\ Base' = 0
  BY <1>0, <1>4, <1>5 DEF Links, Base
<1>7. Taken' = 0 /\ Brought' = 0 /\ Told' = 0
  <2> HIDE DEF Base
  <2> QED
    BY <1>4, <1>6 DEF Taken, Brought, Told
<1>8. GreetingInv'
  BY <1>0, <1>1, <1>4, <1>5, <1>6, <1>7, OpsEmpty, InTurnEmpty DEF GreetingInv, Greeting, InTurn
<1>9. Asked'
  BY <1>0, <1>1, <1>4, <1>5, OpsEmpty DEF Asked, Ended
<1>10. WaitingInv' /\ WorkingInv'
  BY <1>0 DEF WaitingInv, WorkingInv, Waiting, Working
<1> QED
  BY <1>4, <1>8, <1>9, <1>10

LEMMA AwaitHelloConv == FlInv /\ LoaderActs /\ AwaitHello => ConvInv'
<1> SUFFICES ASSUME FlInv, LoaderActs, AwaitHello PROVE ConvInv'
  OBVIOUS
<1>0. /\ pc = "helloSent" /\ transfer.kind = "none" /\ pc' = "helloAnswered" /\ Read(1)
      /\ pc \notin Ended
  BY DEF AwaitHello, Executes, At, Ended
<1>1. /\ Links' /\ Lasts' /\ UNCHANGED target
      /\ sendQueue' = <<>> /\ recvQueue' = <<>> /\ mode' = "READ"
      /\ transfer'.kind = "read" /\ transfer'.want = 1
      /\ mode # "READ" => outgoing' = <<>> /\ incoming' = <<>>
  BY <1>0, ReadLinks
<1> USE DEF FlInv, ConvInv, target, fifos
<1>2. mode = "STREAM" /\ recvQueue = <<>> /\ incoming = <<>>
  BY <1>0 DEF GreetingInv, Greeting, Links
<1>3. outgoing' = <<>> /\ incoming' = <<>>
  BY <1>1, <1>2
<1>4. Base' = Base /\ Taken' = Taken /\ Brought' = Brought /\ Told' = Told
  BY <1>0, <1>1, <1>2, <1>3 DEF Base, Taken, Brought, Told
<1>5. InTurn(txFifo, Brought)'
  BY <1>0, <1>1, <1>4 DEF InTurn, Answer, GreetingInv, Greeting
<1>6. Len(recvQueue') <= transfer'.want
  <2>1. Len(recvQueue') = 0
    BY <1>1
  <2> QED
    BY <1>1, <2>1
<1>7. GreetingInv'
  <2> HIDE DEF Base, Taken, Brought, Told
  <2> QED
    BY <1>0, <1>1, <1>3, <1>4, <1>5, <1>6, OpsEmpty, InTurnEmpty DEF GreetingInv, Greeting, InTurn
<1>8. Asked'
  BY <1>0, <1>1, <1>3, OpsEmpty DEF Asked, Ended
<1>9. WaitingInv' /\ WorkingInv'
  BY <1>0 DEF WaitingInv, WorkingInv, Waiting, Working
<1> QED
  BY <1>1, <1>7, <1>8, <1>9

LEMMA EndsConv ==
  ASSUME FlInv, LoaderActs, transfer.kind = "none", UNCHANGED io, pc' \in Ended
  PROVE  ConvInv'
<1>1. Links' /\ Lasts' /\ UNCHANGED <<io, link, target>>
  BY SilentLinks
<1>2. Asked'
  BY <1>1 DEF Asked
<1>3. WaitingInv' /\ GreetingInv' /\ WorkingInv'
  BY DEF WaitingInv, GreetingInv, WorkingInv, Waiting, Greeting, Working, Ended
<1> QED
  BY <1>1, <1>2, <1>3 DEF ConvInv

\* What the loader takes for the answer to HELLO is that answer.
LEMMA FirstAnswer ==
  ASSUME FlInv, pc = "helloAnswered", recvQueue # <<>>
  PROVE  recvQueue[1] = Answer(0) /\ Len(recvQueue) = 1
<1>1. /\ recvQueue \in Seq(Answers) /\ InTurn(recvQueue, 0) /\ Len(recvQueue) <= 1
  BY DEF FlInv, TypeInv, PacketTypes, ConvInv, GreetingInv, Greeting, Base
<1>2. recvQueue[1] = Answer(0)
  BY <1>1, InTurnTail, TailFacts
<1>3. Len(recvQueue) \in Nat /\ Len(recvQueue) > 0
  BY <1>1, TailFacts
<1> DEFINE l == Len(recvQueue)
<1>4. l \in Nat /\ l > 0 /\ l <= 1
  BY <1>1, <1>3
<1> HIDE DEF l
<1>5. l = 1
  BY <1>4
<1> QED
  BY <1>2, <1>5 DEF l

LEMMA HelloAnsweredConv == FlInv /\ LoaderActs /\ HelloAnswered => ConvInv' /\ pc' # "misled"
<1> SUFFICES ASSUME FlInv, LoaderActs, HelloAnswered PROVE ConvInv' /\ pc' # "misled"
  OBVIOUS
<1>0. pc = "helloAnswered" /\ transfer.kind = "none" /\ pc \notin Ended
  BY DEF HelloAnswered, At, Ended
<1>1. CASE recvQueue = <<>>
  <2>1. pc' = "failed" /\ UNCHANGED io
    BY <1>1 DEF HelloAnswered
  <2> QED
    BY <1>0, <2>1, EndsConv DEF Ended
<1>2. CASE recvQueue # <<>>
  <2>1. recvQueue[1] = [op |-> "HELLO", numparts |-> 2] /\ Len(recvQueue) = 1
    BY <1>0, <1>2, FirstAnswer, AnswerIs
  <2>2. pc' = "partitions" /\ Read(2)
    BY <1>2, <2>1 DEF HelloAnswered
  <2>3. /\ Links' /\ Lasts' /\ UNCHANGED target
        /\ sendQueue' = <<>> /\ recvQueue' = <<>> /\ mode' = "READ"
        /\ transfer'.kind = "read" /\ transfer'.want = 2
        /\ mode = "READ" => outgoing' = outgoing /\ incoming' = incoming
    BY <1>0, <2>2, ReadLinks
  <2> USE DEF FlInv, ConvInv, target, fifos
  <2>4. mode = "READ" /\ outgoing = <<>>
    BY <1>0 DEF GreetingInv, Greeting
  <2>5. Base = 0 /\ Base' = 1 /\ incoming' = incoming /\ txFifo' = txFifo /\ Len(recvQueue') = 0
    BY <1>0, <2>2, <2>3, <2>4 DEF Base
  <2>6. Taken' = Taken /\ Brought' = Brought /\ Told' = Told /\ Taken = 1
    <3> HIDE DEF Base
    <3>1. Taken' = 1 /\ Taken = 1
      BY <2>1, <2>5 DEF Taken
    <3> QED
      BY <2>5, <3>1 DEF Brought, Told
  <2>7. Told # 0
    <3>1. incoming \in Seq(Answers) /\ txFifo \in Seq(Answers)
      BY DEF TypeInv, PacketTypes
    <3>2. Len(incoming) \in Nat /\ Len(txFifo) \in Nat
      BY <3>1, LenProperties
    <3> HIDE DEF Taken
    <3> QED
      BY <2>6, <3>2 DEF Told, Brought
  <2>8. InTurn(incoming, Taken)' /\ InTurn(txFifo, Brought)' /\ InTurn(recvQueue, Base)'
    BY <1>0, <2>3, <2>4, <2>6, InTurnEmpty DEF InTurn, Answer, GreetingInv, Greeting
  <2>9. Len(recvQueue') <= transfer'.want
    BY <2>3, <2>5
  <2>10. GreetingInv'
    <3> HIDE DEF Base, Taken, Brought, Told
    <3> QED
      BY <1>0, <2>2, <2>3, <2>4, <2>6, <2>8, <2>9, OpsEmpty DEF GreetingInv, Greeting
  <2>11. Asked'
    BY <1>0, <2>2, <2>3, <2>4, <2>7, OpsEmpty DEF Asked, Ended, GreetingInv, Greeting
  <2>12. WaitingInv' /\ WorkingInv'
    BY <2>2 DEF WaitingInv, WorkingInv, Waiting, Working
  <2> QED
    BY <2>2, <2>3, <2>10, <2>11, <2>12
<1> QED
  BY <1>1, <1>2

\* With enough packets the table is that of the target, and nothing is left to come.
LEMMA WholeTable ==
  ASSUME FlInv, pc = "partitions", ~(Len(recvQueue) < transfer.want)
  PROVE  /\ \A i \in DOMAIN recvQueue : recvQueue[i].op = "PARTINFO"
         /\ [i \in DOMAIN recvQueue |-> recvQueue[i].info] = parts
         /\ incoming = <<>> /\ txFifo = <<>> /\ at # "answer"
<1>1. /\ recvQueue \in Seq(Answers) /\ incoming \in Seq(Answers) /\ txFifo \in Seq(Answers)
      /\ InTurn(recvQueue, 1) /\ Len(recvQueue) <= transfer.want /\ transfer.want = 2
      /\ Told <= 3 /\ (at = "answer" => Told <= 2)
  BY DEF FlInv, TypeInv, PacketTypes, ConvInv, GreetingInv, Greeting, Base
<1>2. Len(recvQueue) \in Nat /\ Len(incoming) \in Nat /\ Len(txFifo) \in Nat
  BY <1>1, LenProperties
<1>3. Len(recvQueue) = 2 /\ DOMAIN recvQueue = 1 .. 2
  <2>1. Len(recvQueue) = 2
    <3> DEFINE l == Len(recvQueue)
    <3>1. l \in Nat /\ l <= 2 /\ ~(l < 2)
      BY <1>1, <1>2
    <3> HIDE DEF l
    <3>2. l = 2
      BY <3>1
    <3> QED
      BY <3>2 DEF l
  <2> QED
    BY <1>1, <2>1, LenProperties
<1>4. Told = 3 + Len(incoming) + Len(txFifo)
  <2>1. Taken = 3
    BY <1>3 DEF Taken, Base
  <2> QED
    BY <1>2, <2>1 DEF Told, Brought
<1>5. Len(incoming) = 0 /\ Len(txFifo) = 0 /\ at # "answer"
  <2> HIDE DEF Told
  <2> QED
    BY <1>1, <1>2, <1>4
<1>6. \A i \in 1 .. 2 : recvQueue[i] = [op |-> "PARTINFO", info |-> parts[i]]
  <2>1. \A i \in 1 .. 2 : 1 + i - 1 = i /\ i \in {1, 2}
    OBVIOUS
  <2>2. \A i \in 1 .. 2 : recvQueue[i] = Answer(i)
    BY <1>1, <1>3, <2>1 DEF InTurn
  <2> QED
    BY <2>1, <2>2, AnswerIs
<1>7. [i \in DOMAIN recvQueue |-> recvQueue[i].info] = parts
  <2>1. [i \in DOMAIN recvQueue |-> recvQueue[i].info] = [i \in 1 .. 2 |-> parts[i]]
    BY <1>3, <1>6
  <2>2. parts = [i \in 1 .. 2 |-> parts[i]]
    BY DEF parts
  <2> QED
    BY <2>1, <2>2
<1> QED
  BY <1>1, <1>3, <1>5, <1>6, <1>7, EmptySeq

LEMMA PartitionsConv ==
  FlInv /\ LoaderActs /\ Partitions => ConvInv' /\ pc' # "misled" /\ (pc' \in Working => ptable' = parts)
<1> SUFFICES ASSUME FlInv, LoaderActs, Partitions
             PROVE  ConvInv' /\ pc' # "misled" /\ (pc' \in Working => ptable' = parts)
  OBVIOUS
<1>0. pc = "partitions" /\ transfer.kind = "none" /\ UNCHANGED io
  BY DEF Partitions, At
<1>1. CASE Len(recvQueue) < transfer.want
  <2>1. pc' = "failed"
    BY <1>1 DEF Partitions
  <2> QED
    BY <1>0, <2>1, EndsConv DEF Ended, Working
<1>2. CASE ~(Len(recvQueue) < transfer.want)
  <2>1. incoming = <<>> /\ txFifo = <<>> /\ at # "answer"
    BY <1>0, <1>2, WholeTable
  <2>2. ptable' = parts /\ pc' = Work(1, FALSE)
    BY <1>0, <1>2, WholeTable DEF Partitions
  <2>3. pc' \in {"save", "restore", "verify", "run", "done"}
    <3>1. 1 \in 1 .. 4
      OBVIOUS
    <3> QED
      BY <2>2, <3>1, WorkIs
  <2>4. Links' /\ Lasts' /\ UNCHANGED <<io, link, target>>
    BY <1>0, SilentLinks
  <2> USE DEF FlInv, ConvInv, target, fifos, io, link
  <2>5. WorkingInv'
    BY <2>1, <2>3, <2>4, OpsEmpty DEF WorkingInv
  <2>6. Told # 0
    <3>1. recvQueue \in Seq(Answers) /\ Base = 1
      BY <1>0 DEF TypeInv, PacketTypes, Base
    <3>2. Len(recvQueue) \in Nat /\ Len(incoming) = 0 /\ Len(txFifo) = 0
      BY <2>1, <3>1, LenProperties
    <3> HIDE DEF Base
    <3> QED
      BY <3>1, <3>2 DEF Told, Brought, Taken
  <2>7. Asked'
    BY <1>0, <2>4, <2>6, OpsEmpty DEF Asked, GreetingInv, Greeting
  <2>8. WaitingInv' /\ GreetingInv'
    BY <2>3 DEF WaitingInv, GreetingInv, Waiting, Greeting
  <2> QED
    BY <2>2, <2>3, <2>4, <2>5, <2>7, <2>8
<1> QED
  BY <1>1, <1>2

(***************************************************************************)
(* The works.                                                              *)
(***************************************************************************)
LEMMA WorkingSilent ==
  ASSUME FlInv, LoaderActs, transfer.kind = "none", UNCHANGED io,
         pc \in Working \ {"saveRead", "verifyRead"},
         pc' \in (Working \ {"saveSome", "verifySome"}) \cup {"done"}
  PROVE  ConvInv'
<1>1. Links' /\ Lasts' /\ UNCHANGED <<io, link, target>>
  BY SilentLinks
<1>2. pc \notin Ended /\ pc \notin {"helloSent", "helloAnswered", "saveRead", "verifyRead"}
  BY DEF Working, Ended
<1>3. /\ sendQueue = <<>> /\ Ops(outgoing) \cap Questions = {}
      /\ at = "loop" => Ops(rxFifo) \cap Open = {}
  BY <1>2, NothingAsked
<1> USE DEF FlInv, ConvInv, target, fifos, io, link
<1>4. Asked'
  BY <1>1, <1>3, OpsEmpty DEF Asked, Questions, Open
<1>5. WorkingInv'
  BY <1>1 DEF WorkingInv
<1>6. WaitingInv' /\ GreetingInv'
  BY DEF WaitingInv, GreetingInv, Waiting, Greeting, Working
<1> QED
  BY <1>1, <1>4, <1>5, <1>6

LEMMA WorkingWrite ==
  ASSUME FlInv, LoaderActs, transfer.kind = "none", pc \in Working \ {"saveRead", "verifyRead"},
         NEW kind \in {"bulk", "bulkSync"}, NEW packets, Write(kind, packets),
         LastOnly(packets, Questions), "HELLO" \notin Ops(packets), pc' \in Working,
         "READ" \in Ops(packets) =>
           packets # <<>> /\ kind = "bulkSync" /\ pc' \in {"saveRead", "verifyRead"}
  PROVE  ConvInv'
<1>1. pc \notin Ended /\ pc \notin {"helloSent", "helloAnswered", "saveRead", "verifyRead"}
  BY DEF Working, Ended
<1>2. /\ Ops(outgoing) \cap Questions = {}
      /\ at = "loop" => Ops(rxFifo) \cap Open = {}
  BY <1>1, NothingAsked
<1>3. /\ Links' /\ Lasts' /\ UNCHANGED target
      /\ sendQueue' = packets /\ recvQueue' = <<>>
      /\ transfer'.kind = (IF packets = <<>> THEN "none" ELSE kind)
      /\ outgoing' \in {outgoing, <<>>} /\ incoming' \in {incoming, <<>>}
  BY <1>1, <1>2, WriteLinks
<1> USE DEF FlInv, ConvInv, target, fifos
<1>4. Asked'
  BY <1>2, <1>3, OpsEmpty DEF Asked, Questions, Open
<1>5. WorkingInv'
  BY <1>3, OpsEmpty DEF WorkingInv
<1>6. WaitingInv' /\ GreetingInv'
  BY DEF WaitingInv, GreetingInv, Waiting, Greeting, Working
<1> QED
  BY <1>3, <1>4, <1>5, <1>6

LEMMA WorkingRead ==
  ASSUME FlInv, LoaderActs, transfer.kind = "none", pc \in {"saveRead", "verifyRead", "verifySome"},
         NEW n \in Nat, Read(n), pc' \in Working \cup {"done"},
         pc # "verifySome" => n > 0 /\ pc' \in {"saveSome", "verifySome"}
  PROVE  ConvInv'
<1>1. pc \in Working /\ pc \notin Ended
  BY DEF Working, Ended
<1>2. Ops(outgoing) \cap Questions = {}
  BY <1>1, NothingAsked
<1>3. pc = "verifySome" /\ at = "loop" => Ops(rxFifo) \cap Open = {}
  BY <1>1, NothingAsked
<1>4. /\ Links' /\ Lasts' /\ UNCHANGED target
      /\ sendQueue' = <<>> /\ recvQueue' = <<>> /\ mode' = "READ"
      /\ transfer'.kind = "read" /\ transfer'.want = n
      /\ outgoing' \in {outgoing, <<>>} /\ incoming' \in {incoming, <<>>}
      /\ mode # "READ" => outgoing' = <<>> /\ incoming' = <<>>
  BY <1>1, ReadLinks
<1> USE DEF FlInv, ConvInv, target, fifos
<1>5. Asked'
  BY <1>1, <1>2, <1>3, <1>4, OpsEmpty DEF Asked, Questions, Open, Working
<1>6. WorkingInv'
  BY <1>1, <1>4, OpsEmpty DEF WorkingInv
<1>7. WaitingInv' /\ GreetingInv'
  BY DEF WaitingInv, GreetingInv, Waiting, Greeting, Working
<1> QED
  BY <1>4, <1>5, <1>6, <1>7

\* The blocks of a write ask nothing.
LEMMA OpsOfWrites ==
  ASSUME NEW n, NEW s \in Seq(Writes(n))
  PROVE  Ops(s) \subseteq {"WRITE"} /\ LastOnly(s, Questions)
<1>1. DOMAIN s = 1 .. Len(s) /\ \A i \in 1 .. Len(s) : s[i] \in Writes(n)
  BY ElementOfSeq, LenProperties
<1>2. \A i \in DOMAIN s : s[i].op = "WRITE"
  BY <1>1 DEF Writes
<1>3. Ops(s) \subseteq {"WRITE"}
  BY <1>2 DEF Ops
<1> QED
  BY <1>3, LastNone DEF Questions

LEMMA TakenForRead ==
  ASSUME FlInv, pc \in {"saveSome", "verifySome"}
  PROVE  Blocks
BY DEF FlInv, ConvInv, WorkingInv, Working, Blocks, Ops

\* One command in a transfer of its own.
LEMMA ReadCommandConv ==
  ASSUME FlInv, LoaderActs, transfer.kind = "none", pc \in Working \ {"saveRead", "verifyRead"},
         NEW a, Write("bulkSync", ReadCommand(a)), pc' \in {"saveRead", "verifyRead"}
  PROVE  ConvInv'
<1>1. Ops(ReadCommand(a)) = {"READ"} /\ ReadCommand(a) # <<>>
  BY OpsOne DEF ReadCommand
<1>2. LastOnly(ReadCommand(a), Questions)
  BY DEF LastOnly, ReadCommand
<1>3. pc' \in Working
  BY DEF Working
<1> QED
  BY <1>1, <1>2, <1>3, WorkingWrite

-----------------------------------------------------------------------------
(***************************************************************************)
(* The blocks that are queued.                                             *)
(***************************************************************************)
LEMMA IsWrite ==
  ASSUME FlInv, pc \in Working, NEW a \in Nat, Rest(a, IOSIZE) = 0, NEW data \in Block,
         \/ a < currentPart.size
         \/ currentPartId = 2 /\ (fileSize + IOSIZE <= BLDADDR => a < BLDADDR),
         \A k \in 1 .. IOSIZE :
           a + k - 1 < fileSize /\ a + k - 1 < currentPart.size => data[k] = a + k - 1
  PROVE  WriteCommand(a, data) \in Writes(fileSize)
<1> DEFINE p == currentPartId
           c == [op |-> "WRITE", part |-> p, addr |-> a, data |-> data]
<1>1. p \in 1 .. 2 /\ currentPart = parts[p]
  BY CurrentPart DEF FlInv, TypeInv, ProgramTypes
<1> HIDE DEF p
<1>2. c \in [op : {"WRITE"}, part : 1 .. 2, addr : Nat, data : Block]
  BY <1>1
<1>3. c.part = p /\ c.addr = a /\ c.data = data
  OBVIOUS
<1>4. WriteCommand(a, data) = c
  BY DEF WriteCommand, p
<1> HIDE DEF c
<1>5. Carries(c, fileSize)
  BY <1>1, <1>3 DEF Carries
<1>6. c.part = 1 => c.addr < E2END + 1
  BY <1>1, <1>3, Partitions2 DEF p
<1>7. c.part = 2 /\ fileSize + IOSIZE <= BLDADDR => c.addr < BLDADDR
  BY <1>1, <1>3, Partitions2 DEF p
<1> QED
  BY <1>2, <1>3, <1>4, <1>5, <1>6, <1>7 DEF Writes

LEMMA Arithmetic ==
  ASSUME NEW r \in Nat, NEW m \in Nat, r <= m, NEW n \in Nat \ {0}, NEW i \in 1 .. (m - r) \div n
  PROVE  (i - 1) * n \in Nat /\ (i - 1) * n < m - r
<1> DEFINE q == (m - r) \div n
<1>1. m - r \in Nat /\ m - r \in Int
  OBVIOUS
<1>2. m - r = n * q + ((m - r) % n) /\ q \in Int /\ (m - r) % n \in 0 .. n - 1
  BY <1>1, DivMod
<1> HIDE DEF q
<1>3. i \in Int /\ i >= 1 /\ i <= q
  BY <1>2 DEF q
<1>4. n * q >= n * i /\ n * i = (i - 1) * n + n /\ (i - 1) * n \in Int /\ (i - 1) * n >= 0
  BY <1>2, <1>3
<1>5. m - r >= n * q /\ m - r \in Int /\ n * q \in Int /\ n * i \in Int
  BY <1>1, <1>2, <1>3
<1> DEFINE x == (i - 1) * n
           y == n * i
           z == n * q
<1>6. x \in Int /\ x >= 0 /\ y = x + n /\ z >= y /\ m - r >= z /\ y \in Int /\ z \in Int
  BY <1>4, <1>5
<1> HIDE DEF x, y, z
<1>7. x \in Nat /\ x < m - r
  BY <1>1, <1>6
<1> QED
  BY <1>7 DEF x

\* The padding ends where a page ends.
LEMMA PadsAreWrites ==
  ASSUME FlInv, pc = "pad"
  PROVE  PadBlocks \in Seq(Writes(fileSize))
<1>0. /\ pc \in Working /\ ptable = parts /\ session \in Command_line /\ fileSize \in Nat
      /\ addr \in Nat /\ addr \in Int /\ Rest(addr, IOSIZE) = 0 /\ pos <= fileSize /\ pos \in Nat
      /\ pos = addr \/ (pos = fileSize /\ pos <= addr /\ addr < pos + IOSIZE)
      /\ addr >= currentPart.size \/ addr >= fileSize
  BY LoaderAssumption DEF FlInv, TypeInv, ProgramTypes, CursorTypes, Working, Writing
<1>1. currentPartId \in 1 .. 2 /\ currentPart = parts[currentPartId] /\ currentPart.size \in Nat
  BY <1>0, CurrentPart
<1>2. CASE currentPart.pad <= 1
  BY <1>2, EmptySeq DEF PadBlocks
<1>3. CASE ~(currentPart.pad <= 1)
  <2>1. currentPartId = 2 /\ currentPart.pad = SPM_PAGESIZE
    BY <1>1, <1>3, Partitions2
  <2> DEFINE r == Rest(addr, SPM_PAGESIZE)
             n == (SPM_PAGESIZE - r) \div IOSIZE
             block(i) == PadBlock(addr + (i - 1) * IOSIZE)
  <2>2. PadBlocks = [i \in 1 .. n |-> block(i)]
    BY <1>3, <2>1 DEF PadBlocks, Rest
  <2>3. r \in Nat /\ r <= SPM_PAGESIZE /\ r < SPM_PAGESIZE /\ PageOf(addr) = addr - r
        /\ PageOf(addr) \in Nat /\ Rest(PageOf(addr), SPM_PAGESIZE) = 0
    BY <1>0, PageFacts, Sizes
  <2> HIDE DEF r
  <2>4. n \in Nat
    BY <2>3, AtLeastOne, Sizes
  <2>5. fileSize + IOSIZE <= BLDADDR => addr + (SPM_PAGESIZE - r) <= BLDADDR
    <3> SUFFICES ASSUME fileSize + IOSIZE <= BLDADDR PROVE addr + (SPM_PAGESIZE - r) <= BLDADDR
      OBVIOUS
    <3>1. addr < BLDADDR
      BY <1>0, Sizes
    <3> DEFINE p == PageOf(addr)
    <3>2. p \in Int /\ p < BLDADDR /\ BLDADDR \in Int /\ Rest(p, SPM_PAGESIZE) = 0 /\ p = addr - r
      BY <1>0, <2>3, <3>1, Sizes
    <3> HIDE DEF p
    <3>3. p + SPM_PAGESIZE <= BLDADDR
      BY <3>2, Apart, Sizes
    <3> QED
      BY <1>0, <2>3, <3>2, <3>3, Sizes
  <2>6. ASSUME NEW i \in 1 .. n PROVE block(i) \in Writes(fileSize)
    <3> DEFINE x == (i - 1) * IOSIZE
               a == addr + x
               data == [k \in 1 .. IOSIZE |-> Padding]
    <3>1. x \in Nat /\ x < SPM_PAGESIZE - r
      BY <2>3, Arithmetic, Sizes
    <3>2. x \in Int /\ Rest(x, IOSIZE) = 0
      <4>1. i - 1 \in Int
        BY <2>4
      <4> QED
        BY <4>1, MultipleOf, Sizes
    <3> HIDE DEF x
    <3>3. a \in Nat /\ a >= addr /\ (fileSize + IOSIZE <= BLDADDR => a < BLDADDR)
      BY <1>0, <2>3, <2>5, <3>1, Sizes
    <3>4. Rest(a, IOSIZE) = 0
      BY <1>0, <3>2, SumOfMultiples, Sizes
    <3> HIDE DEF a
    <3>5. \A k \in 1 .. IOSIZE : ~(a + k - 1 < fileSize /\ a + k - 1 < currentPart.size)
      BY <1>0, <1>1, <3>3, Sizes
    <3>6. data \in Block
      BY DEF Block, Padding
    <3> HIDE DEF data
    <3>7. WriteCommand(a, data) \in Writes(fileSize)
      BY <1>0, <2>1, <3>3, <3>4, <3>5, <3>6, IsWrite
    <3> QED
      BY <3>7 DEF PadBlock, a, data, x
  <2> HIDE DEF n, block
  <2> QED
    BY <2>2, <2>4, <2>6
<1> QED
  BY <1>2, <1>3

\* What the next step of a verification does with the transfer.
LEMMA VerifySomeIs ==
  ASSUME FlInv, VerifySome
  PROVE  LET after == {"save", "restore", "verify", "run", "done"} IN
         \/ UNCHANGED io /\ pc' \in after
         \/ pc' \in {"verifySome"} \cup after /\ \E n \in Nat : Read(n)
<1> DEFINE after == {"save", "restore", "verify", "run", "done"}
<1>0. pc = "verifySome" /\ pc \in Working /\ ptable = parts /\ session \in Command_line
  BY DEF FlInv, TypeInv, ProgramTypes, At, VerifySome, Working
<1>1. \A failed : Work(4, failed) \in after
  <2>1. 4 \in 1 .. 4
    OBVIOUS
  <2> QED
    BY <2>1, WorkIs
<1> HIDE DEF after
<1>2. \/ UNCHANGED io /\ pc' \in after
      \/ pc' = "verifySome" /\ Read(numToQueue(LastAddr)) /\ recvQueue # <<>>
      \/ recvQueue = <<>> /\ pc' \in {"verifySome"} \cup after
         /\ \E a \in 0 .. currentPart.size : Read(numToQueue(a))
  BY <1>0, <1>1, TakenForRead DEF VerifySome
<1>3. ASSUME NEW a \in Nat PROVE numToQueue(a) \in Nat
  BY <1>0, QueueNumber
<1>4. recvQueue # <<>> => LastAddr \in Nat
  <2> SUFFICES ASSUME recvQueue # <<>> PROVE LastAddr \in Nat
    OBVIOUS
  <2>1. recvQueue \in Seq(Answers) /\ Len(recvQueue) \in Nat /\ Len(recvQueue) > 0
    BY TailFacts DEF FlInv, TypeInv, PacketTypes
  <2>2. Len(recvQueue) \in DOMAIN recvQueue /\ Len(recvQueue) \in 1 .. Len(recvQueue)
    BY <2>1, LenProperties
  <2>3. recvQueue[Len(recvQueue)] \in Answers /\ recvQueue[Len(recvQueue)].op = "READ"
    BY <1>0, <2>1, <2>2, TakenForRead, ElementOfSeq DEF Blocks
  <2> QED
    BY <2>3 DEF LastAddr, Answers
<1>5. \A a \in 0 .. currentPart.size : a \in Nat
  OBVIOUS
<1>6. \/ UNCHANGED io /\ pc' \in after
      \/ pc' \in {"verifySome"} \cup after /\ \E n \in Nat : Read(n)
  BY <1>2, <1>3, <1>4, <1>5
<1> QED
  BY <1>6 DEF after

LEMMA WorkingConv ==
  ASSUME BLDADDR > 0
  PROVE  FlInv /\ LoaderActs /\ pc \in Working => ConvInv' /\ pc' \in Working \cup {"done"}
<1> SUFFICES ASSUME FlInv, LoaderActs, pc \in Working
             PROVE  ConvInv' /\ pc' \in Working \cup {"done"}
  OBVIOUS
<1>0. /\ ptable = parts /\ session \in Command_line /\ addr \in Nat /\ transfer.kind = "none"
      /\ batch \in Seq(Writes(fileSize))
  BY DEF FlInv, TypeInv, ProgramTypes, CursorTypes, LoaderActs, LoaderCalls, At, Executes,
         Ping, Pinged, Hello, AwaitHello, HelloAnswered, Partitions, Restore, QueueBlock,
         QueueLastAgain, BatchFull, NothingQueued, WriteSome, Pad, Restored, Save, SaveRead,
         SaveSome, Verify, VerifyRead, VerifySome, Run, Ran
<1> DEFINE after == {"save", "restore", "verify", "run", "done"}
<1>1. \A n \in 1 .. 4 : \A failed : Work(n, failed) \in after
  BY WorkIs
<1>2. 2 \in 1 .. 4 /\ 3 \in 1 .. 4 /\ 4 \in 1 .. 4
  OBVIOUS
<1>3. ASSUME Restore \/ QueueBlock \/ QueueLastAgain \/ BatchFull \/ NothingQueued \/ Restored \/ Ran
      PROVE  ConvInv' /\ pc' \in Working \cup {"done"}
  <2>1. /\ pc \notin {"saveRead", "verifyRead"} /\ UNCHANGED io
        /\ pc' \in {"readSome", "writeSome", "pad"} \cup after
    BY <1>1, <1>2, <1>3 DEF At, Restore, QueueBlock, QueueLastAgain, BatchFull, NothingQueued, Restored, Ran
  <2>2. pc' \in (Working \ {"saveSome", "verifySome"}) \cup {"done"}
    BY <2>1 DEF Working
  <2> QED
    BY <1>0, <2>1, <2>2, WorkingSilent
<1>4. ASSUME SaveSome PROVE ConvInv' /\ pc' \in Working \cup {"done"}
  <2>1. pc = "saveSome" /\ UNCHANGED io /\ pc' \in {"saveRead"} \cup after
    BY <1>1, <1>2, <1>4, TakenForRead DEF At, SaveSome
  <2>2. pc' \in (Working \ {"saveSome", "verifySome"}) \cup {"done"}
    BY <2>1 DEF Working
  <2> QED
    BY <1>0, <2>1, <2>2, WorkingSilent
<1>5. ASSUME WriteSome PROVE ConvInv' /\ pc' \in Working
  <2>1. pc = "writeSome" /\ pc' = "readSome" /\ Write("bulk", batch)
    BY <1>5 DEF At, WriteSome
  <2>2. Ops(batch) \subseteq {"WRITE"} /\ LastOnly(batch, Questions) /\ pc' \in Working
    BY <1>0, <2>1, OpsOfWrites DEF Working
  <2> QED
    BY <1>0, <2>1, <2>2, WorkingWrite
<1>6. ASSUME Pad PROVE ConvInv' /\ pc' \in Working
  <2>1. pc = "pad" /\ pc' = "restored" /\ Write("bulkSync", PadBlocks)
    BY <1>6 DEF At, Pad
  <2>2. Ops(PadBlocks) \subseteq {"WRITE"} /\ LastOnly(PadBlocks, Questions) /\ pc' \in Working
    BY <2>1, PadsAreWrites, OpsOfWrites DEF Working
  <2> QED
    BY <1>0, <2>1, <2>2, WorkingWrite
<1>7. ASSUME Save PROVE ConvInv' /\ pc' \in Working
  <2>1. pc = "save" /\ pc' = "saveRead" /\ Write("bulkSync", ReadCommand(currentPart.size))
    BY <1>7 DEF At, Save, Executes
  <2> QED
    BY <1>0, <2>1, ReadCommandConv DEF Working
<1>8. ASSUME Verify PROVE ConvInv' /\ pc' \in Working
  <2>1. pc = "verify" /\ pc' = "verifyRead" /\ Write("bulkSync", ReadCommand(toverify))
    BY <1>8 DEF At, Verify
  <2> QED
    BY <1>0, <2>1, ReadCommandConv DEF Working
<1>9. ASSUME Run PROVE ConvInv' /\ pc' \in Working
  <2> DEFINE packets == <<[op |-> "BOOT", part |-> currentPartId]>>
  <2>1. pc = "run" /\ pc' = "ran" /\ Write("bulkSync", packets)
    BY <1>9 DEF At, Run, Executes
  <2>2. Ops(packets) = {"BOOT"}
    BY OpsOne
  <2> HIDE DEF packets
  <2>3. LastOnly(packets, Questions) /\ pc' \in Working
    BY <2>1, <2>2, LastNone DEF Questions, Working
  <2> QED
    BY <1>0, <2>1, <2>2, <2>3, WorkingWrite
<1>10. numToQueue(0) \in Nat /\ numToQueue(0) > 0
  <2>1. 0 \in Nat /\ Rest(0, IOSIZE) = 0
    BY Sizes DEF Rest
  <2>2. 0 < currentPart.size
    BY <1>0, CurrentPart, Partitions2, Sizes
  <2> QED
    BY <1>0, <2>1, <2>2, QueueNum
<1>11. ASSUME SaveRead \/ VerifyRead PROVE ConvInv' /\ pc' \in Working
  <2>1. /\ pc \in {"saveRead", "verifyRead"} /\ pc' \in {"saveSome", "verifySome"}
        /\ Read(numToQueue(0))
    BY <1>11 DEF At, SaveRead, VerifyRead, Executes
  <2> QED
    BY <1>0, <1>10, <2>1, WorkingRead DEF Working
<1>12. ASSUME VerifySome PROVE ConvInv' /\ pc' \in Working \cup {"done"}
  <2>1. pc = "verifySome"
    BY <1>12 DEF At, VerifySome
  <2>2. \/ UNCHANGED io /\ pc' \in after
        \/ pc' \in {"verifySome"} \cup after /\ \E n \in Nat : Read(n)
    BY <1>12, VerifySomeIs
  <2>3. ASSUME UNCHANGED io, pc' \in after PROVE ConvInv' /\ pc' \in Working \cup {"done"}
    <3>1. pc' \in (Working \ {"saveSome", "verifySome"}) \cup {"done"}
      BY <2>3 DEF Working
    <3> QED
      BY <1>0, <2>1, <2>3, <3>1, WorkingSilent
  <2>4. ASSUME NEW n \in Nat, Read(n), pc' \in {"verifySome"} \cup after
        PROVE  ConvInv' /\ pc' \in Working \cup {"done"}
    <3>1. pc' \in Working \cup {"done"}
      BY <2>4 DEF Working
    <3> QED
      BY <1>0, <2>1, <2>4, <3>1, WorkingRead
  <2> HIDE DEF after
  <2> QED
    BY <2>2, <2>3, <2>4
<1>13. LoaderCalls
  BY DEF LoaderActs
<1>14. ~Ping /\ ~Pinged /\ ~Hello /\ ~AwaitHello /\ ~HelloAnswered /\ ~Partitions
  BY DEF Working, At, Executes, Ping, Pinged, Hello, AwaitHello, HelloAnswered, Partitions
<1> QED
  BY <1>3, <1>4, <1>5, <1>6, <1>7, <1>8, <1>9, <1>11, <1>12, <1>13, <1>14, Zenon DEF LoaderCalls

-----------------------------------------------------------------------------
(***************************************************************************)
(* Every step keeps the types.                                             *)
(***************************************************************************)
LEMMA SameLength ==
  ASSUME NEW m \in Nat, NEW n \in Nat, 1 .. m = 1 .. n
  PROVE  m = n
<1>1. m <= n
  <2>1. CASE m = 0
    BY <2>1
  <2>2. CASE m # 0
    <3>1. m \in 1 .. m
      BY <2>2
    <3>2. m \in 1 .. n
      BY <3>1
    <3> QED
      BY <3>2
  <2> QED
    BY <2>1, <2>2
<1>2. n <= m
  <2>1. CASE n = 0
    BY <2>1
  <2>2. CASE n # 0
    <3>1. n \in 1 .. n
      BY <2>2
    <3>2. n \in 1 .. m
      BY <3>1
    <3> QED
      BY <3>2
  <2> QED
    BY <2>1, <2>2
<1> QED
  BY <1>1, <1>2

LEMMA BlockIsSeq ==
  ASSUME NEW data \in Block
  PROVE  data \in Seq(Int) /\ Len(data) = IOSIZE
<1>1. data \in Seq(Int)
  BY Sizes DEF Block
<1>2. DOMAIN data = 1 .. Len(data) /\ DOMAIN data = 1 .. IOSIZE /\ Len(data) \in Nat
  BY <1>1, LenProperties DEF Block
<1>3. Len(data) = IOSIZE
  BY <1>2, SameLength, Sizes
<1> QED
  BY <1>1, <1>3

LEMMA PatchIs ==
  ASSUME NEW n \in Nat, NEW mem \in [0 .. n -> Int], NEW first \in Int, NEW data \in Seq(Int)
  PROVE  /\ Patch(mem, first, data) \in [0 .. n -> Int]
         /\ \A a \in 0 .. n : Patch(mem, first, data)[a] =
              IF first <= a /\ a < first + Len(data) THEN data[a - first + 1] ELSE mem[a]
<1>1. Len(data) \in Nat /\ \A k \in 1 .. Len(data) : data[k] \in Int
  BY LenProperties, ElementOfSeq
<1> DEFINE l == Len(data)
           new(a) == IF a \in first .. first + l - 1 THEN data[a - first + 1] ELSE mem[a]
<1>2. Patch(mem, first, data) = [a \in 0 .. n |-> new(a)]
  BY DEF Patch
<1> HIDE DEF l
<1>3. ASSUME NEW a \in 0 .. n
      PROVE  /\ new(a) \in Int
             /\ new(a) = IF first <= a /\ a < first + l THEN data[a - first + 1] ELSE mem[a]
  <2>1. CASE first <= a /\ a < first + l
    <3>1. a \in first .. first + l - 1 /\ a - first + 1 \in 1 .. l
      BY <1>1, <2>1 DEF l
    <3>2. new(a) = data[a - first + 1] /\ data[a - first + 1] \in Int
      BY <1>1, <3>1 DEF l
    <3> QED
      BY <2>1, <3>2
  <2>2. CASE ~(first <= a /\ a < first + l)
    <3>1. a \notin first .. first + l - 1
      BY <1>1, <2>2 DEF l
    <3> QED
      BY <2>2, <3>1
  <2> QED
    BY <2>1, <2>2
<1> HIDE DEF new
<1>4. [a \in 0 .. n |-> new(a)] \in [0 .. n -> Int]
  BY <1>3
<1> QED
  BY <1>2, <1>3, <1>4 DEF l

\* A whole page, as Programmed writes it, and as a power cut leaves it.
LEMMA PageIsSeq ==
  ASSUME NEW buf \in [0 .. SPM_PAGESIZE - 1 -> Int], NEW n \in Int
  PROVE  LET page == [o \in 1 .. SPM_PAGESIZE |-> IF o <= n THEN buf[o - 1] ELSE Erased]
             whole == [o \in 1 .. SPM_PAGESIZE |-> buf[o - 1]]
         IN page \in Seq(Int) /\ Len(page) = SPM_PAGESIZE /\ whole \in Seq(Int) /\ Len(whole) = SPM_PAGESIZE
<1> DEFINE page == [o \in 1 .. SPM_PAGESIZE |-> IF o <= n THEN buf[o - 1] ELSE Erased]
           whole == [o \in 1 .. SPM_PAGESIZE |-> buf[o - 1]]
<1>1. \A o \in 1 .. SPM_PAGESIZE : o - 1 \in 0 .. SPM_PAGESIZE - 1 /\ buf[o - 1] \in Int
  BY Sizes
<1>2. page \in [1 .. SPM_PAGESIZE -> Int] /\ whole \in [1 .. SPM_PAGESIZE -> Int]
  BY <1>1 DEF Erased
<1> HIDE DEF page, whole
<1>3. \A s \in [1 .. SPM_PAGESIZE -> Int] : s \in Seq(Int) /\ Len(s) = SPM_PAGESIZE
  <2> TAKE s \in [1 .. SPM_PAGESIZE -> Int]
  <2>1. s \in Seq(Int)
    BY Sizes
  <2>2. DOMAIN s = 1 .. Len(s) /\ DOMAIN s = 1 .. SPM_PAGESIZE /\ Len(s) \in Nat
    BY <2>1, LenProperties
  <2> QED
    BY <2>1, <2>2, SameLength, Sizes
<1> QED
  BY <1>2, <1>3 DEF page, whole

LEMMA CommandIs ==
  ASSUME TypeInv, rxFifo # <<>>
  PROVE  /\ Command \in Commands(fileSize)
         /\ Command.op = "READ" => Command.part \in 1 .. 2 /\ Command.addr \in Nat
         /\ Command.op = "WRITE" => Command \in Writes(fileSize)
         /\ Tail(rxFifo) \in Seq(Commands(fileSize))
<1>1. rxFifo \in Seq(Commands(fileSize))
  BY DEF TypeInv, PacketTypes
<1>2. Command \in Commands(fileSize) /\ Tail(rxFifo) \in Seq(Commands(fileSize))
  BY <1>1, TailFacts DEF Command
<1>3. Command.op = "READ" => Command.part \in 1 .. 2 /\ Command.addr \in Nat
  BY <1>2 DEF Commands, Writes
<1>4. Command.op = "WRITE" => Command \in Writes(fileSize)
  BY <1>2 DEF Commands
<1> QED
  BY <1>2, <1>3, <1>4

LEMMA WriteIs ==
  ASSUME NEW n, NEW c \in Writes(n)
  PROVE  /\ c.op = "WRITE" /\ c.part \in 1 .. 2 /\ c.addr \in Nat /\ c.data \in Block
         /\ Rest(c.addr, IOSIZE) = 0 /\ Carries(c, n)
         /\ c.part = 1 => c.addr < E2END + 1
         /\ c.part = 2 /\ n + IOSIZE <= BLDADDR => c.addr < BLDADDR
         /\ c.addr % SPM_PAGESIZE \in Int /\ c.addr % (E2END + 1) \in Int
<1>1. c.addr \in Nat
  BY DEF Writes
<1>2. c.addr % SPM_PAGESIZE \in Int /\ c.addr % (E2END + 1) \in Int
  <2>1. \A m \in Nat \ {0} : Rest(c.addr, m) \in 0 .. m - 1
    BY <1>1, RestRange
  <2>2. E2END + 1 \in Nat \ {0}
    BY Sizes
  <2> QED
    BY <2>1, <2>2, Sizes DEF Rest
<1> QED
  BY <1>1, <1>2 DEF Writes

LEMMA MemoryTypes ==
  ASSUME TypeInv
  PROVE  /\ pbuf \in [0 .. SPM_PAGESIZE - 1 -> Int] /\ flash \in [0 .. FLASHEND -> Int]
         /\ eeprom \in [0 .. E2END -> Int]
         /\ SPM_PAGESIZE - 1 \in Nat /\ FLASHEND \in Nat /\ E2END \in Nat
<1>1. SPM_PAGESIZE - 1 \in Nat /\ FLASHEND \in Nat /\ E2END \in Nat
  BY Sizes
<1>2. /\ pbuf \in [0 .. SPM_PAGESIZE - 1 -> Int] /\ flash \in [0 .. FLASHEND -> Int]
      /\ eeprom \in [0 .. E2END -> Int]
  BY DEF TypeInv, TargetTypes
<1> QED
  BY <1>1, <1>2

LEMMA TakeWriteTypes ==
  ASSUME TypeInv, TakeWrite
  PROVE  memory' \in [0 .. SPM_PAGESIZE - 1 -> Int] \X [0 .. FLASHEND -> Int] \X [0 .. E2END -> Int]
<1>0. rxFifo # <<>> /\ Command.op = "WRITE"
  BY DEF TakeWrite, HasCommand, Command
<1>1. Command \in Writes(fileSize)
  BY <1>0, CommandIs
<1> DEFINE a == Command.addr
           d == Command.data
<1>2. a \in Nat /\ d \in Seq(Int) /\ a % SPM_PAGESIZE \in Int /\ a % (E2END + 1) \in Int
  BY <1>1, WriteIs, BlockIsSeq
<1>3. \/ do_flash_write(a, d)
      \/ do_eeprom_write(a, d)
  BY DEF TakeWrite
<1> HIDE DEF a, d
<1>4. CASE do_flash_write(a, d)
  <2>1. pbuf' \in [0 .. SPM_PAGESIZE - 1 -> Int]
    BY <1>2, <1>4, MemoryTypes, PatchIs DEF do_flash_write
  <2>2. PageOf(a) \in Int
    BY <1>2, PageFacts
  <2> DEFINE whole == [o \in 1 .. SPM_PAGESIZE |-> pbuf'[o - 1]]
  <2>3. whole \in Seq(Int)
    <3>1. 0 \in Int
      OBVIOUS
    <3> QED
      BY <2>1, <3>1, PageIsSeq
  <2>4. flash' \in {flash, Patch(flash, PageOf(a), whole)} /\ eeprom' = eeprom
    BY <1>4 DEF do_flash_write, Programmed
  <2> HIDE DEF whole
  <2>5. Patch(flash, PageOf(a), whole) \in [0 .. FLASHEND -> Int]
    BY <2>2, <2>3, MemoryTypes, PatchIs
  <2> QED
    BY <2>1, <2>4, <2>5, MemoryTypes DEF memory
<1>5. CASE do_eeprom_write(a, d)
  <2>1. eeprom' \in [0 .. E2END -> Int]
    BY <1>2, <1>5, MemoryTypes, PatchIs DEF do_eeprom_write
  <2> QED
    BY <1>5, <2>1, MemoryTypes DEF do_eeprom_write, memory
<1> QED
  BY <1>3, <1>4, <1>5

LEMMA PowerFailsTypes ==
  ASSUME TypeInv, PowerFails
  PROVE  flash' \in [0 .. FLASHEND -> Int] /\ eeprom' \in [0 .. E2END -> Int]
<1>1. CASE UNCHANGED <<flash, eeprom>>
  BY <1>1, MemoryTypes
<1>2. CASE ~UNCHANGED <<flash, eeprom>>
  <2>0. rxFifo # <<>> /\ Command.op = "WRITE"
    BY <1>2 DEF PowerFails, HasCommand, Command
  <2>1. Command \in Writes(fileSize)
    BY <2>0, CommandIs
  <2> DEFINE a == Command.addr
             d == Command.data
             buf == Patch(pbuf, a % SPM_PAGESIZE, d)
  <2>2. a \in Nat /\ d \in Seq(Int) /\ a % SPM_PAGESIZE \in Int /\ a % (E2END + 1) \in Int /\ d \in Block
    BY <2>1, WriteIs, BlockIsSeq
  <2>3. \/ flash' \in TornPages(buf, a) /\ UNCHANGED eeprom
        \/ eeprom' \in TornBlocks(d, a) /\ UNCHANGED flash
    BY <1>2 DEF PowerFails
  <2> HIDE DEF a, d
  <2>4. buf \in [0 .. SPM_PAGESIZE - 1 -> Int]
    BY <2>2, MemoryTypes, PatchIs
  <2> HIDE DEF buf
  <2>5. CASE flash' \in TornPages(buf, a) /\ UNCHANGED eeprom
    <3> DEFINE page(n) == [o \in 1 .. SPM_PAGESIZE |-> IF o <= n THEN buf[o - 1] ELSE Erased]
    <3>1. flash' = flash \/ \E n \in 0 .. SPM_PAGESIZE - 1 : flash' = Patch(flash, PageOf(a), page(n))
      BY <2>5 DEF TornPages
    <3>2. \A n \in Int : page(n) \in Seq(Int)
      BY <2>4, PageIsSeq
    <3>3. PageOf(a) \in Int
      BY <2>2, PageFacts
    <3> HIDE DEF page
    <3>4. ASSUME NEW n \in 0 .. SPM_PAGESIZE - 1
          PROVE  Patch(flash, PageOf(a), page(n)) \in [0 .. FLASHEND -> Int]
      <4>1. page(n) \in Seq(Int)
        BY <3>2
      <4> DEFINE p == page(n)
      <4> HIDE DEF p
      <4>2. Patch(flash, PageOf(a), p) \in [0 .. FLASHEND -> Int]
        BY <3>3, <4>1, MemoryTypes, PatchIs DEF p
      <4> QED
        BY <4>2 DEF p
    <3> QED
      BY <2>5, <3>1, <3>4, MemoryTypes
  <2>6. CASE eeprom' \in TornBlocks(d, a) /\ UNCHANGED flash
    <3>1. PICK n \in 0 .. IOSIZE - 1 : eeprom' = Patch(eeprom, a % (E2END + 1), SubSeq(d, 1, n))
      BY <2>6 DEF TornBlocks
    <3>2. SubSeq(d, 1, n) \in Seq(Int)
      <4>1. n \in Nat /\ n <= Len(d) /\ Len(d) = IOSIZE /\ n \in Int
        BY <2>2, BlockIsSeq, Sizes
      <4> QED
        BY <2>2, <4>1
    <3> QED
      BY <2>2, <2>6, <3>1, <3>2, MemoryTypes, PatchIs
  <2> QED
    BY <2>3, <2>5, <2>6
<1> QED
  BY <1>1, <1>2

LEMMA TargetActsTypes == TypeInv /\ TargetActs => TypeInv'
<1> SUFFICES ASSUME TypeInv, TargetActs PROVE TypeInv'
  OBVIOUS
<1>0. UNCHANGED <<loader, link, lastReset>>
  BY DEF TargetActs
<1>1. ProgramTypes'
  BY <1>0 DEF TypeInv, ProgramTypes, loader, files, io
<1>2. CursorTypes'
  BY <1>0 DEF TypeInv, CursorTypes, loader, files, cursor, currentPart, currentPartId
<1>3. ASSUME rxFifo' \in Seq(Commands(fileSize)), txFifo' \in Seq(Answers) PROVE PacketTypes'
  BY <1>0, <1>3 DEF TypeInv, PacketTypes, loader, link, files, io
<1>4. <<>> \in Seq(Commands(fileSize)) /\ rxFifo \in Seq(Commands(fileSize)) /\ txFifo \in Seq(Answers)
  BY EmptySeq DEF TypeInv, PacketTypes
<1>5. CASE TakeHello
  <2>1. PacketTypes'
    BY <1>3, <1>4, <1>5 DEF TakeHello
  <2>2. TargetTypes'
    BY <1>0, <1>5 DEF TypeInv, TargetTypes, TakeHello, NoJob, memory, Places
  <2> QED
    BY <1>1, <1>2, <2>1, <2>2 DEF TypeInv
<1>6. CASE TakeRead
  <2>0. rxFifo # <<>> /\ Command.op = "READ"
    BY <1>6 DEF TakeRead, HasCommand, Command
  <2>1. rxFifo' \in Seq(Commands(fileSize)) /\ Command.part \in 1 .. 2 /\ Command.addr \in Nat
    BY <1>6, <2>0, CommandIs DEF TakeRead, Drop
  <2>2. PacketTypes'
    BY <1>3, <1>4, <1>6, <2>1 DEF TakeRead
  <2>3. Rest(0, IOSIZE) = 0
    BY Sizes DEF Rest
  <2>4. TargetTypes'
    BY <1>0, <1>6, <2>1, <2>3 DEF TypeInv, TargetTypes, TakeRead, memory, Places
  <2> QED
    BY <1>1, <1>2, <2>2, <2>4 DEF TypeInv
<1>7. CASE TakeWrite
  <2>1. PacketTypes'
    BY <1>3, <1>4, <1>7, CommandIs DEF TakeWrite, Drop, HasCommand
  <2>2. /\ pbuf' \in [0 .. SPM_PAGESIZE - 1 -> Int] /\ flash' \in [0 .. FLASHEND -> Int]
        /\ eeprom' \in [0 .. E2END -> Int]
    BY <1>7, TakeWriteTypes DEF memory
  <2>3. TargetTypes'
    BY <1>0, <1>7, <2>2 DEF TypeInv, TargetTypes, TakeWrite
  <2> QED
    BY <1>1, <1>2, <2>1, <2>3 DEF TypeInv
<1>8. CASE TakeBoot
  <2>1. PacketTypes'
    BY <1>3, <1>4, <1>8, CommandIs DEF TakeBoot, Drop, HasCommand
  <2>2. TargetTypes'
    BY <1>0, <1>8 DEF TypeInv, TargetTypes, TakeBoot, memory, Places
  <2> QED
    BY <1>1, <1>2, <2>1, <2>2 DEF TypeInv
<1>9. CASE TakeOther
  <2>1. PacketTypes'
    BY <1>3, <1>4, <1>9, CommandIs DEF TakeOther, Drop
  <2>2. TargetTypes'
    BY <1>0, <1>9 DEF TypeInv, TargetTypes, TakeOther, memory
  <2> QED
    BY <1>1, <1>2, <2>1, <2>2 DEF TypeInv
<1>10. CASE PushHello
  <2>1. /\ at = "answer" /\ job.op = "HELLO" /\ job.addr \in {0, 1, 2}
        /\ txFifo' = Append(txFifo, HelloAnswer) /\ job' = [job EXCEPT !.addr = job.addr + 1]
        /\ at' = IF job.addr = partcount THEN "sync" ELSE "answer"
        /\ got_hello' = TRUE /\ UNCHANGED <<boot_timer, peer, memory, rxFifo>>
    BY <1>10 DEF TypeInv, TargetTypes, PushHello, MayPush, Push
  <2>2. HelloAnswer \in Answers
    BY <2>1, AnswerIs DEF HelloAnswer, Answer
  <2>3. PacketTypes'
    BY <1>3, <1>4, <2>1, <2>2, AppendProperties
  <2>4. job' \in [op : {"NONE", "HELLO", "READ"}, part : 1 .. 2, addr : Nat, toread : Nat]
        /\ job'.op = "HELLO" /\ job'.addr = job.addr + 1
    BY <2>1 DEF TypeInv, TargetTypes
  <2>5. at' = "answer" => job'.addr \in {0, 1, 2}
    BY <2>1, <2>4, Partitions2
  <2>6. TargetTypes'
    BY <1>0, <2>1, <2>4, <2>5 DEF TypeInv, TargetTypes, memory, Places
  <2> QED
    BY <1>1, <1>2, <2>3, <2>6 DEF TypeInv
<1>11. CASE PushBlock
  <2> DEFINE block == ReadBlock(job.part, job.addr)
             e == [op |-> "READ", addr |-> job.addr, data |-> block]
             next == job.addr + Len(block)
  <2>1. job.op = "READ" /\ job.addr \in Nat /\ Rest(job.addr, IOSIZE) = 0
    BY <1>11 DEF TypeInv, TargetTypes, PushBlock, MayPush
  <2>2. /\ txFifo' = Append(txFifo, e) /\ job' = [job EXCEPT !.addr = next]
        /\ at' = IF next < job.toread THEN "answer" ELSE "sync"
        /\ UNCHANGED <<got_hello, boot_timer, peer, memory, rxFifo>>
    BY <1>11 DEF PushBlock, Push
  <2>3. e \in Answers /\ Len(block) \in {0, IOSIZE}
    BY <2>1, BlockIs
  <2> HIDE DEF block, e
  <2>4. next \in Nat /\ Rest(next, IOSIZE) = 0
    <3>1. CASE Len(block) = 0
      <4>1. next = job.addr
        BY <2>1, <3>1
      <4> QED
        BY <2>1, <4>1
    <3>2. CASE Len(block) = IOSIZE
      <4>1. next = job.addr + IOSIZE
        BY <3>2
      <4>2. Rest(job.addr + IOSIZE, IOSIZE) = 0
        BY <2>1, NextBlock
      <4>3. job.addr + IOSIZE \in Nat
        BY <2>1, Sizes
      <4> QED
        BY <4>1, <4>2, <4>3
    <3> QED
      BY <2>3, <3>1, <3>2
  <2> HIDE DEF next
  <2>5. PacketTypes'
    BY <1>3, <1>4, <2>2, <2>3, AppendProperties
  <2>6. job' \in [op : {"NONE", "HELLO", "READ"}, part : 1 .. 2, addr : Nat, toread : Nat]
        /\ job'.op = "READ" /\ job'.addr = next
    BY <2>1, <2>2, <2>4 DEF TypeInv, TargetTypes
  <2>7. TargetTypes'
    BY <1>0, <2>2, <2>4, <2>6 DEF TypeInv, TargetTypes, memory, Places
  <2> QED
    BY <1>1, <1>2, <2>5, <2>7 DEF TypeInv
<1>12. CASE ListenAgain
  <2>1. PacketTypes'
    BY <1>3, <1>4, <1>12 DEF ListenAgain, fifos
  <2>2. TargetTypes'
    BY <1>0, <1>12 DEF TypeInv, TargetTypes, ListenAgain, memory, Places
  <2> QED
    BY <1>1, <1>2, <2>1, <2>2 DEF TypeInv
<1>13. CASE BootTimerTick
  <2>1. PacketTypes'
    BY <1>3, <1>4, <1>13 DEF BootTimerTick, fifos
  <2>2. TargetTypes'
    BY <1>0, <1>13 DEF TypeInv, TargetTypes, BootTimerTick, memory, Places
  <2> QED
    BY <1>1, <1>2, <2>1, <2>2 DEF TypeInv
<1> QED
  BY <1>5, <1>6, <1>7, <1>8, <1>9, <1>10, <1>11, <1>12, <1>13 DEF TargetActs, TargetNext, TakeCommand

LEMMA RestartTypes ==
  ASSUME TypeInv, RamLost, at' = "loop", UNCHANGED <<loader, link>>, lastReset' = sessions,
         flash' \in [0 .. FLASHEND -> Int], eeprom' \in [0 .. E2END -> Int]
  PROVE  TypeInv'
<1>1. ProgramTypes'
  BY DEF TypeInv, ProgramTypes, loader, files, io
<1>2. CursorTypes'
  BY DEF TypeInv, CursorTypes, loader, files, cursor, currentPart, currentPartId
<1>3. PacketTypes'
  BY EmptySeq DEF TypeInv, PacketTypes, loader, link, files, io, RamLost
<1>4. pbuf' \in [0 .. SPM_PAGESIZE - 1 -> Int]
  BY DEF RamLost, Zeroed
<1>5. job' \in [op : {"NONE", "HELLO", "READ"}, part : 1 .. 2, addr : Nat, toread : Nat]
      /\ job'.op = "NONE"
  BY DEF RamLost, NoJob
<1>6. peer' \in BOOLEAN /\ got_hello' \in BOOLEAN /\ boot_timer' \in Nat /\ lastReset' \in Nat
  BY DEF RamLost, TypeInv, ProgramTypes
<1>7. TargetTypes'
  BY <1>4, <1>5, <1>6 DEF TargetTypes, Places
<1> QED
  BY <1>1, <1>2, <1>3, <1>7 DEF TypeInv

LEMMA LinkTypes ==
  TypeInv /\ (HandOver \/ WriteReturns \/ Collect \/ ReadReturns
              \/ BulkArrives \/ StreamArrives \/ StreamFails \/ AnswerArrives) => TypeInv'
<1> SUFFICES ASSUME TypeInv,
                    HandOver \/ WriteReturns \/ Collect \/ ReadReturns
                    \/ BulkArrives \/ StreamArrives \/ StreamFails \/ AnswerArrives
             PROVE  TypeInv'
  OBVIOUS
<1> USE DEF HandOver, WriteReturns, Collect, ReadReturns, BulkArrives, StreamArrives, StreamFails,
            AnswerArrives
<1>1. UNCHANGED <<program, at, got_hello, boot_timer, peer, job, memory, lastReset, mode>>
  BY DEF others, loader, target, link, program, files, cursor
<1>2. transfer' \in {transfer, [transfer EXCEPT !.kind = "none"]} /\ lastWriteOk' \in {lastWriteOk, TRUE, FALSE}
  BY DEF Returns, others, loader, io
<1>3. ProgramTypes'
  BY <1>1, <1>2 DEF TypeInv, ProgramTypes, program, files
<1>4. CursorTypes'
  BY <1>1 DEF TypeInv, CursorTypes, program, files, cursor, currentPart, currentPartId
<1>5. TargetTypes'
  BY <1>1 DEF TypeInv, TargetTypes, memory
<1>6. PacketTypes'
  <2> DEFINE V == Commands(fileSize)
  <2>0. /\ sendQueue \in Seq(V) /\ outgoing \in Seq(V) /\ rxFifo \in Seq(V)
        /\ recvQueue \in Seq(Answers) /\ incoming \in Seq(Answers) /\ txFifo \in Seq(Answers)
        /\ mode' \in {"IDLE", "STREAM", "BULK", "READ"} /\ fileSize' = fileSize
    BY <1>1 DEF TypeInv, PacketTypes, program, files
  <2>1. SUFFICES /\ sendQueue' \in Seq(V) /\ outgoing' \in Seq(V) /\ rxFifo' \in Seq(V)
                 /\ recvQueue' \in Seq(Answers) /\ incoming' \in Seq(Answers) /\ txFifo' \in Seq(Answers)
    BY <2>0 DEF PacketTypes
  <2> HIDE DEF V
  <2> USE DEF others, loader, target, link, io, fifos, program
  <2>2. CASE HandOver
    BY <2>0, <2>2, Move
  <2>3. CASE WriteReturns
    BY <2>0, <2>3
  <2>4. CASE Collect
    BY <2>0, <2>4, Move
  <2>5. CASE ReadReturns
    BY <2>0, <2>5
  <2>6. CASE BulkArrives
    BY <2>0, <2>6, Move
  <2>7. CASE StreamArrives
    BY <2>0, <2>7, Move
  <2>8. CASE StreamFails
    <3>1. rxFifo' \in {rxFifo, Append(rxFifo, Head(outgoing))}
      BY <2>8
    <3>2. /\ outgoing # <<>> /\ outgoing' = Tail(outgoing)
          /\ UNCHANGED <<sendQueue, recvQueue, incoming, txFifo>>
      BY <2>8
    <3>3. outgoing' \in Seq(V) /\ Append(rxFifo, Head(outgoing)) \in Seq(V)
      BY <2>0, <3>2, Move
    <3> QED
      BY <2>0, <3>1, <3>2, <3>3
  <2>9. CASE AnswerArrives
    BY <2>0, <2>9, Move
  <2> QED
    BY <2>2, <2>3, <2>4, <2>5, <2>6, <2>7, <2>8, <2>9
<1> QED
  BY <1>3, <1>4, <1>5, <1>6 DEF TypeInv

LEMMA SomeCommands ==
  ASSUME NEW n \in Nat
  PROVE  /\ <<[op |-> "NOP"]>> \in Seq(Commands(n)) /\ <<[op |-> "HELLO"]>> \in Seq(Commands(n))
         /\ \A p \in 1 .. 2 : <<[op |-> "BOOT", part |-> p]>> \in Seq(Commands(n))
         /\ \A p \in 1 .. 2, a \in Nat : <<[op |-> "READ", part |-> p, addr |-> a]>> \in Seq(Commands(n))
         /\ \A s \in Seq(Writes(n)) : s \in Seq(Commands(n))
<1>1. /\ [op |-> "NOP"] \in Commands(n) /\ [op |-> "HELLO"] \in Commands(n)
      /\ \A p \in 1 .. 2 : [op |-> "BOOT", part |-> p] \in Commands(n)
      /\ \A p \in 1 .. 2, a \in Nat : [op |-> "READ", part |-> p, addr |-> a] \in Commands(n)
      /\ Writes(n) \subseteq Commands(n)
  BY DEF Commands
<1> DEFINE V == Commands(n)
<1> HIDE DEF V
<1>2. \A c \in V : <<c>> \in Seq(V)
  OBVIOUS
<1>3. \A s \in Seq(Writes(n)) : s \in Seq(V)
  <2> DEFINE W == Writes(n)
  <2>1. W \subseteq V
    BY <1>1 DEF V
  <2> HIDE DEF W
  <2>2. \A s \in Seq(W) : s \in Seq(V)
    BY <2>1, SeqMonotonic
  <2> QED
    BY <2>2 DEF W
<1> QED
  BY <1>1, <1>2, <1>3 DEF V

LEMMA LoaderIo ==
  ASSUME FlInv, LoaderActs
  PROVE  \/ UNCHANGED io
         \/ \E kind \in {"stream", "bulk", "bulkSync"}, packets \in Seq(Commands(fileSize)) :
              Write(kind, packets)
         \/ \E n \in Nat : Read(n)
<1> DEFINE V == Commands(fileSize)
<1>0. fileSize \in Nat /\ session \in Command_line /\ (pc \in Working => ptable = parts)
      /\ batch \in Seq(Writes(fileSize))
  BY LoaderAssumption DEF FlInv, TypeInv, ProgramTypes, CursorTypes
<1>1. CASE Ping
  BY <1>0, <1>1, SomeCommands DEF Ping
<1>2. CASE Hello
  BY <1>0, <1>2, SomeCommands DEF Hello
<1>3. CASE Pinged \/ Partitions \/ Restore \/ QueueBlock \/ QueueLastAgain \/ BatchFull \/ NothingQueued
           \/ Restored \/ SaveSome \/ Ran
  BY <1>3 DEF Pinged, Partitions, Restore, QueueBlock, QueueLastAgain, BatchFull, NothingQueued,
              Restored, SaveSome, Ran
<1>4. CASE AwaitHello
  BY <1>4 DEF AwaitHello
<1>5. CASE HelloAnswered
  <2>1. CASE recvQueue = <<>>
    BY <1>5, <2>1 DEF HelloAnswered
  <2>2. CASE recvQueue # <<>>
    <3>1. recvQueue[1].op = "HELLO" /\ recvQueue[1].numparts = 2
      BY <1>5, <2>2, FirstAnswer, AnswerIs DEF HelloAnswered, At
    <3> QED
      BY <1>5, <2>2, <3>1 DEF HelloAnswered
  <2> QED
    BY <2>1, <2>2
<1>6. CASE WriteSome
  BY <1>0, <1>6, SomeCommands DEF WriteSome
<1>7. CASE Pad
  <2>1. PadBlocks \in Seq(Writes(fileSize))
    BY <1>7, PadsAreWrites DEF Pad, At
  <2> QED
    BY <1>0, <1>7, <2>1, SomeCommands DEF Pad
<1>8. ASSUME pc \in Working
      PROVE  currentPartId \in 1 .. 2 /\ currentPart.size \in Nat
  BY <1>0, <1>8, CurrentPart
<1>9. CASE Save
  <2>1. pc \in Working
    BY <1>9 DEF Save, Executes, At, Working
  <2>2. ReadCommand(currentPart.size) \in Seq(V)
    BY <1>0, <1>8, <2>1, SomeCommands DEF ReadCommand
  <2> QED
    BY <1>9, <2>2 DEF Save
<1>10. CASE Verify
  <2>1. pc \in Working
    BY <1>10 DEF Verify, At, Working
  <2>2. toverify \in Nat
    <3>1. currentPart.size \in Nat
      BY <1>8, <2>1
    <3> DEFINE n == currentPart.size
    <3> HIDE DEF n
    <3>2. Min({n, fileSize}) \in Nat
      BY <1>0, <3>1, MinOfTwo DEF n
    <3> QED
      BY <3>2 DEF n, toverify
  <2>3. ReadCommand(toverify) \in Seq(V)
    BY <1>0, <1>8, <2>1, <2>2, SomeCommands DEF ReadCommand
  <2> QED
    BY <1>10, <2>3 DEF Verify
<1>11. CASE Run
  <2>1. pc \in Working
    BY <1>11 DEF Run, Executes, At, Working
  <2> QED
    BY <1>0, <1>8, <1>11, <2>1, SomeCommands DEF Run
<1>12. CASE SaveRead \/ VerifyRead
  <2>1. pc \in Working
    BY <1>12 DEF SaveRead, VerifyRead, Executes, At, Working
  <2>2. numToQueue(0) \in Nat
    BY <1>0, <2>1, QueueNumber
  <2> QED
    BY <1>12, <2>2 DEF SaveRead, VerifyRead
<1>13. CASE VerifySome
  BY <1>13, VerifySomeIs
<1> QED
  BY <1>1, <1>2, <1>3, <1>4, <1>5, <1>6, <1>7, <1>9, <1>10, <1>11, <1>12, <1>13 DEF LoaderActs, LoaderCalls

LEMMA FileBlockIs ==
  ASSUME FlInv, pc = "readSome", Remaining > 0
  PROVE  /\ FileBlock \in Block /\ pos = addr /\ pos < fileSize /\ Remaining = fileSize - pos
         /\ \A k \in 1 .. IOSIZE : addr + k - 1 < fileSize => FileBlock[k] = addr + k - 1
<1>0. /\ fileSize \in Nat /\ pos \in Nat /\ pos <= fileSize /\ addr \in Nat /\ buffer \in Block
      /\ pos = addr \/ pos = fileSize
  BY LoaderAssumption DEF FlInv, TypeInv, ProgramTypes, CursorTypes, Writing
<1>1. Remaining = fileSize - pos /\ pos < fileSize /\ pos = addr
  BY <1>0, MaxOfTwo DEF Remaining
<1>2. FileBlock = [k \in 1 .. IOSIZE |-> IF k <= fileSize - pos THEN pos + k - 1 ELSE buffer[k]]
  BY <1>1 DEF FileBlock
<1>3. \A k \in 1 .. IOSIZE : pos + k - 1 \in Int /\ buffer[k] \in Int
  BY <1>0 DEF Block
<1>4. FileBlock \in Block
  BY <1>2, <1>3 DEF Block
<1>5. ASSUME NEW k \in 1 .. IOSIZE, addr + k - 1 < fileSize PROVE FileBlock[k] = addr + k - 1
  <2>1. k <= fileSize - pos
    BY <1>0, <1>1, <1>5, Sizes
  <2> QED
    BY <1>1, <1>2, <2>1
<1> QED
  BY <1>1, <1>4, <1>5

LEMMA QueueBlockCursor ==
  ASSUME FlInv, QueueBlock
  PROVE  CursorTypes'
<1>0. /\ fileSize \in Nat /\ pos \in Nat /\ addr \in Nat /\ batch \in Seq(Writes(fileSize))
      /\ Rest(addr, IOSIZE) = 0 /\ ptable = parts /\ session \in Command_line /\ pc = "readSome"
      /\ pc \in Working /\ pos \in Int /\ fileSize \in Int
  BY LoaderAssumption
     DEF FlInv, TypeInv, ProgramTypes, CursorTypes, Writing, Working, QueueBlock, At
<1>1. /\ Len(batch) < numToQueue(addr) /\ Remaining > 0
      /\ buffer' = FileBlock /\ batch' = Append(batch, WriteCommand(addr, FileBlock))
      /\ pos' = pos + Min({IOSIZE, Remaining}) /\ addr' = addr + IOSIZE
      /\ pc' \in {"writeSome", "readSome"} /\ UNCHANGED <<session, ptable, fileSize>>
  BY DEF QueueBlock, files
<1>2. /\ FileBlock \in Block /\ pos = addr /\ pos < fileSize /\ Remaining = fileSize - pos
      /\ \A k \in 1 .. IOSIZE : addr + k - 1 < fileSize => FileBlock[k] = addr + k - 1
  BY <1>0, <1>1, FileBlockIs
<1>3. addr < currentPart.size
  <2>1. Len(batch) \in Nat /\ numToQueue(addr) \in Nat
    BY <1>0, QueueNumber, LenProperties
  <2>2. numToQueue(addr) > 0
    BY <1>1, <2>1
  <2> QED
    BY <1>0, <2>2, QueueNum
<1>4. WriteCommand(addr, FileBlock) \in Writes(fileSize)
  BY <1>0, <1>2, <1>3, IsWrite
<1>5. batch' \in Seq(Writes(fileSize))
  BY <1>0, <1>1, <1>4, AppendProperties
<1>6. pos' = IF IOSIZE <= fileSize - pos THEN pos + IOSIZE ELSE fileSize
  <2> DEFINE r == fileSize - pos
  <2>1. r \in Int /\ pos + r = fileSize
    BY <1>0
  <2> HIDE DEF r
  <2>2. Min({IOSIZE, r}) = IF IOSIZE <= r THEN IOSIZE ELSE r
    BY <2>1, MinOfTwo, Sizes
  <2>3. pos' = pos + Min({IOSIZE, r})
    BY <1>1, <1>2 DEF r
  <2> QED
    BY <2>1, <2>2, <2>3 DEF r
<1>7. /\ addr' \in Nat /\ pos' \in Nat /\ pos' <= fileSize
      /\ pos' = addr' \/ (pos' = fileSize /\ pos' <= addr' /\ addr' < pos' + IOSIZE)
  BY <1>0, <1>1, <1>2, <1>6, Sizes
<1>8. Rest(addr', IOSIZE) = 0
  BY <1>0, <1>1, NextBlock
<1> QED
  BY <1>1, <1>2, <1>5, <1>7, <1>8 DEF CursorTypes

LEMMA QueueLastAgainCursor ==
  ASSUME FlInv, QueueLastAgain
  PROVE  CursorTypes'
<1>0. /\ fileSize \in Nat /\ pos \in Nat /\ addr \in Nat /\ batch \in Seq(Writes(fileSize))
      /\ Rest(addr, IOSIZE) = 0 /\ ptable = parts /\ session \in Command_line /\ pc = "readSome"
      /\ pc \in Working /\ pos <= fileSize /\ buffer \in Block
      /\ pos = addr \/ (pos = fileSize /\ pos <= addr /\ addr < pos + IOSIZE)
  BY LoaderAssumption
     DEF FlInv, TypeInv, ProgramTypes, CursorTypes, Writing, Working, QueueLastAgain, At
<1>1. /\ Len(batch) < numToQueue(addr) /\ Remaining = 0
      /\ batch' = Append(batch, WriteCommand(addr, buffer))
      /\ pc' = "writeSome" /\ UNCHANGED <<session, ptable, addr, buffer, pos, fileSize>>
  BY DEF QueueLastAgain, files
<1>2. addr < currentPart.size
  <2>1. Len(batch) \in Nat /\ numToQueue(addr) \in Nat
    BY <1>0, QueueNumber, LenProperties
  <2>2. numToQueue(addr) > 0
    BY <1>1, <2>1
  <2> QED
    BY <1>0, <2>2, QueueNum
<1>3. fileSize <= pos
  BY <1>0, <1>1, MaxOfTwo DEF Remaining
<1>4. \A k \in 1 .. IOSIZE : ~(addr + k - 1 < fileSize)
  BY <1>0, <1>3, Sizes
<1>5. WriteCommand(addr, buffer) \in Writes(fileSize)
  BY <1>0, <1>2, <1>4, IsWrite
<1>6. batch' \in Seq(Writes(fileSize))
  BY <1>0, <1>1, <1>5, AppendProperties
<1> QED
  BY <1>0, <1>1, <1>6 DEF CursorTypes

LEMMA NothingQueuedCursor ==
  ASSUME FlInv, NothingQueued
  PROVE  CursorTypes'
<1>0. /\ fileSize \in Nat /\ pos \in Nat /\ addr \in Nat /\ pos <= fileSize
      /\ Rest(addr, IOSIZE) = 0 /\ ptable = parts /\ session \in Command_line /\ pc = "readSome"
      /\ pos <= addr
  BY LoaderAssumption
     DEF FlInv, TypeInv, ProgramTypes, CursorTypes, Writing, Working, NothingQueued, At
<1>1. /\ numToQueue(addr) = 0 \/ Remaining = 0
      /\ pc' = "pad" /\ UNCHANGED <<session, ptable, addr, buffer, pos, batch, fileSize>>
  BY DEF NothingQueued, files, cursor
<1>2. Remaining = 0 => fileSize <= addr
  BY <1>0, MaxOfTwo DEF Remaining
<1>3. numToQueue(addr) = 0 => addr >= currentPart.size
  <2>1. currentPart.size \in Nat
    BY <1>0, CurrentPart
  <2> QED
    BY <1>0, <2>1, QueueNum
<1>4. addr >= currentPart.size \/ addr >= fileSize
  BY <1>0, <1>1, <1>2, <1>3
<1>5. currentPart' = currentPart
  BY <1>1 DEF currentPart, currentPartId
<1>6. CursorTypes
  BY DEF FlInv, TypeInv
<1>7. addr' >= currentPart'.size \/ addr' >= fileSize'
  BY <1>1, <1>4, <1>5
<1> QED
  BY <1>0, <1>1, <1>6, <1>7 DEF CursorTypes, Writing

LEMMA LoaderTypes ==
  ASSUME BLDADDR > 0
  PROVE  FlInv /\ LoaderActs => TypeInv' /\ pc' # "misled"
<1> SUFFICES ASSUME FlInv, LoaderActs PROVE TypeInv' /\ pc' # "misled"
  OBVIOUS
<1>0. TypeInv
  BY DEF FlInv
<1>1. /\ UNCHANGED <<target, lastReset, session, fileSize, sessions>>
      /\ lastWriteOk' = lastWriteOk
      /\ mode' = Mode(transfer'.kind)
      /\ outgoing' \in {outgoing, <<>>} /\ incoming' \in {incoming, <<>>}
  <2>1. UNCHANGED <<session, fileSize, sessions, lastWriteOk>>
    BY DEF LoaderActs, LoaderCalls, Executes, files,
           Ping, Pinged, Hello, AwaitHello, HelloAnswered, Partitions, Restore, QueueBlock,
           QueueLastAgain, BatchFull, NothingQueued, WriteSome, Pad, Restored, Save, SaveRead,
           SaveSome, Verify, VerifyRead, VerifySome, Run, Ran
  <2> QED
    BY <2>1 DEF LoaderActs
<1>2. TargetTypes'
  BY <1>0, <1>1 DEF TypeInv, TargetTypes, target, memory
<1>3. /\ transfer' \in [kind : {"none", "stream", "bulk", "bulkSync", "read"}, want : Nat]
      /\ sendQueue' \in Seq(Commands(fileSize)) /\ recvQueue' \in Seq(Answers)
  <2>1. <<>> \in Seq(Commands(fileSize)) /\ <<>> \in Seq(Answers)
    BY EmptySeq
  <2>2. /\ transfer \in [kind : {"none", "stream", "bulk", "bulkSync", "read"}, want : Nat]
        /\ sendQueue \in Seq(Commands(fileSize)) /\ recvQueue \in Seq(Answers)
    BY <1>0 DEF TypeInv, ProgramTypes, PacketTypes
  <2>3. CASE UNCHANGED io
    BY <2>2, <2>3 DEF io
  <2>4. ASSUME NEW kind \in {"stream", "bulk", "bulkSync"}, NEW packets \in Seq(Commands(fileSize)),
               Write(kind, packets)
        PROVE  /\ transfer' \in [kind : {"none", "stream", "bulk", "bulkSync", "read"}, want : Nat]
               /\ sendQueue' \in Seq(Commands(fileSize)) /\ recvQueue' \in Seq(Answers)
    BY <2>1, <2>4 DEF Write
  <2>5. ASSUME NEW n \in Nat, Read(n)
        PROVE  /\ transfer' \in [kind : {"none", "stream", "bulk", "bulkSync", "read"}, want : Nat]
               /\ sendQueue' \in Seq(Commands(fileSize)) /\ recvQueue' \in Seq(Answers)
    BY <2>1, <2>5 DEF Read
  <2> QED
    BY <2>3, <2>4, <2>5, LoaderIo
<1>4. mode' \in {"IDLE", "STREAM", "BULK", "READ"}
  <2>1. transfer'.kind \in {"none", "stream", "bulk", "bulkSync", "read"}
    BY <1>3
  <2> QED
    BY <1>0, <1>1, <2>1, ModeOf DEF TypeInv, PacketTypes
<1>5. PacketTypes'
  BY <1>0, <1>1, <1>3, <1>4, EmptySeq DEF TypeInv, PacketTypes, target, fifos
<1>6. CASE pc \in Working
  <2>1. pc' \in Working \cup {"done"}
    BY <1>6, WorkingConv
  <2>2. ptable' = ptable /\ ptable = parts
    BY <1>0, <1>6 DEF LoaderActs, LoaderCalls, At, Executes, Working, cursor,
           Ping, Pinged, Hello, AwaitHello, HelloAnswered, Partitions, Restore, QueueBlock,
           QueueLastAgain, BatchFull, NothingQueued, WriteSome, Pad, Restored, Save, SaveRead,
           SaveSome, Verify, VerifyRead, VerifySome, Run, Ran, TypeInv, ProgramTypes
  <2>3. ProgramTypes'
    BY <1>0, <1>1, <1>3, <2>1, <2>2 DEF TypeInv, ProgramTypes, Ended
  <2>4. currentPart' = currentPart
    BY <1>1, <2>2 DEF currentPart, currentPartId
  <2>5. ASSUME QueueBlock PROVE CursorTypes'
    BY <2>5, QueueBlockCursor
  <2>6. ASSUME QueueLastAgain PROVE CursorTypes'
    BY <2>6, QueueLastAgainCursor
  <2>7. ASSUME NothingQueued PROVE CursorTypes'
    BY <2>7, NothingQueuedCursor
  <2>8. ASSUME Restore PROVE CursorTypes'
    <3>1. /\ addr' = 0 /\ pos' = 0 /\ batch' = <<>> /\ pc' = "readSome" /\ buffer' = buffer
          /\ fileSize \in Nat /\ buffer \in Block
      BY <1>0, <2>8, LoaderAssumption DEF Restore, TypeInv, ProgramTypes, CursorTypes
    <3>2. Rest(0, IOSIZE) = 0
      BY Sizes DEF Rest
    <3> QED
      BY <1>1, <3>1, <3>2, EmptySeq DEF CursorTypes
  <2>9. ASSUME WriteSome PROVE CursorTypes'
    <3>1. /\ batch' = <<>> /\ pc = "writeSome" /\ pc' = "readSome"
          /\ UNCHANGED <<addr, buffer, pos, fileSize>>
      BY <2>9 DEF WriteSome, At, files
    <3> QED
      BY <1>0, <3>1, EmptySeq DEF TypeInv, CursorTypes, Writing
  <2>10. ASSUME BatchFull PROVE CursorTypes'
    <3>1. pc = "readSome" /\ pc' = "writeSome" /\ UNCHANGED <<addr, buffer, pos, batch, fileSize>>
      BY <2>10 DEF BatchFull, At, files, cursor
    <3> QED
      BY <1>0, <3>1 DEF TypeInv, CursorTypes, Writing
  <2>11. ASSUME pc' \notin Writing, UNCHANGED <<addr, buffer, batch>> PROVE CursorTypes'
    BY <1>0, <1>1, <2>11 DEF TypeInv, CursorTypes, Writing
  <2>12. ASSUME Pad \/ Restored \/ Save \/ SaveRead \/ SaveSome \/ Verify \/ VerifyRead \/ VerifySome
                \/ Run \/ Ran
         PROVE  CursorTypes'
    <3> DEFINE after == {"save", "restore", "verify", "run", "done"}
    <3>1. UNCHANGED <<addr, buffer, batch>>
      BY <2>12 DEF Pad, Restored, Save, SaveRead, SaveSome, Verify, VerifyRead, VerifySome, Run, Ran,
                   Executes, cursor
    <3>2. \A n \in 1 .. 4 : \A failed : Work(n, failed) \in after
      BY WorkIs
    <3>3. 2 \in 1 .. 4 /\ 3 \in 1 .. 4
      OBVIOUS
    <3>4. CASE VerifySome
      <4>1. pc' \in {"verifySome"} \cup after
        BY <3>4, VerifySomeIs
      <4> QED
        BY <2>11, <3>1, <4>1 DEF Writing
    <3>5. CASE SaveSome
      <4>1. pc' \in {"saveRead"} \cup after
        BY <3>2, <3>3, <3>5, TakenForRead DEF SaveSome, At
      <4> QED
        BY <2>11, <3>1, <4>1 DEF Writing
    <3>6. CASE Pad \/ Restored \/ Save \/ SaveRead \/ Verify \/ VerifyRead \/ Run \/ Ran
      <4>1. pc' \in {"restored", "saveRead", "saveSome", "verifyRead", "verifySome", "ran"} \cup after
        BY <3>2, <3>3, <3>6 DEF Pad, Restored, Save, SaveRead, Verify, VerifyRead, Run, Ran, Executes
      <4> QED
        BY <2>11, <3>1, <4>1 DEF Writing
    <3> QED
      BY <2>12, <3>4, <3>5, <3>6
  <2>13. ~Ping /\ ~Pinged /\ ~Hello /\ ~AwaitHello /\ ~HelloAnswered /\ ~Partitions
    BY <1>6 DEF Working, At, Executes, Ping, Pinged, Hello, AwaitHello, HelloAnswered, Partitions
  <2>14. LoaderCalls
    BY DEF LoaderActs
  <2>15. CursorTypes'
    BY <2>5, <2>6, <2>7, <2>8, <2>9, <2>10, <2>12, <2>13, <2>14, Zenon DEF LoaderCalls
  <2> QED
    BY <1>2, <1>5, <2>1, <2>3, <2>15 DEF TypeInv, Working
<1>7. CASE pc \notin Working
  <2>1. Ping \/ Pinged \/ Hello \/ AwaitHello \/ HelloAnswered \/ Partitions
    BY <1>7 DEF LoaderActs, LoaderCalls, At, Executes, Working,
           Restore, QueueBlock, QueueLastAgain, BatchFull, NothingQueued, WriteSome, Pad, Restored,
           Save, SaveRead, SaveSome, Verify, VerifyRead, VerifySome, Run, Ran
  <2>2. UNCHANGED <<addr, buffer, batch>>
    BY <2>1 DEF Ping, Pinged, Hello, AwaitHello, HelloAnswered, Partitions, Executes, cursor
  <2>3. /\ pc' \in Waiting \cup Greeting \cup {"failed", "save", "restore", "verify", "run", "done"}
        /\ pc' \in Working => ptable' = parts
    <3>1. CASE Ping \/ Pinged \/ Hello \/ AwaitHello
      BY <3>1 DEF Ping, Pinged, Hello, AwaitHello, Executes, Waiting, Greeting, Working
    <3>2. CASE HelloAnswered
      BY <3>2, HelloAnsweredConv DEF HelloAnswered, Greeting, Working
    <3>3. CASE Partitions
      <4>1. pc' # "misled" /\ (pc' \in Working => ptable' = parts)
        BY <3>3, PartitionsConv
      <4>2. Work(1, FALSE) \in {"save", "restore", "verify", "run", "done"}
        <5>1. 1 \in 1 .. 4
          OBVIOUS
        <5> QED
          BY <5>1, WorkIs
      <4> QED
        BY <3>3, <4>1, <4>2 DEF Partitions
    <3> QED
      BY <2>1, <3>1, <3>2, <3>3
  <2>4. ProgramTypes'
    BY <1>0, <1>1, <1>3, <2>3 DEF TypeInv, ProgramTypes, Ended, Working
  <2>5. CursorTypes'
    BY <1>0, <1>1, <2>2, <2>3 DEF TypeInv, CursorTypes, Writing, Waiting, Greeting
  <2> QED
    BY <1>2, <1>5, <2>3, <2>4, <2>5 DEF TypeInv, Waiting, Greeting
<1> QED
  BY <1>6, <1>7

LEMMA UserTypes == TypeInv /\ (UserStarts \/ UserKills) => TypeInv'
<1> SUFFICES ASSUME TypeInv, UserStarts \/ UserKills PROVE TypeInv'
  OBVIOUS
<1>0. UNCHANGED <<target, lastReset, fileSize>>
  BY DEF UserStarts, Start, UserKills, Kill, files
<1>1. TargetTypes'
  BY <1>0 DEF TypeInv, TargetTypes, target, memory
<1>2. CASE UserStarts
  <2>1. sessions' \in 1 .. Len(Sessions) /\ Sessions \in Seq(SUBSET Command_line)
    BY <1>2, LoaderAssumption, LenProperties DEF UserStarts, Start, TypeInv, ProgramTypes
  <2>2. session' \in Command_line
    BY <1>2, <2>1, ElementOfSeq DEF UserStarts, Start
  <2>3. /\ pc' = "ping" /\ lastWriteOk' = FALSE
        /\ transfer' \in [kind : {"none", "stream", "bulk", "bulkSync", "read"}, want : Nat]
    BY <1>2 DEF UserStarts, Start, NoTransfer
  <2>4. sessions' \in Nat /\ fileSize' \in FileSizes
    BY <1>0, <2>1 DEF TypeInv, ProgramTypes
  <2>5. ProgramTypes'
    BY <2>2, <2>3, <2>4 DEF ProgramTypes, Waiting, Working
  <2>6. CursorTypes'
    BY <1>0, <1>2, EmptySeq DEF CursorTypes, UserStarts, Start, Block, Stack, Writing
  <2>7. PacketTypes'
    BY <1>0, <1>2, EmptySeq DEF TypeInv, PacketTypes, UserStarts, Start, target, fifos
  <2> QED
    BY <1>1, <2>5, <2>6, <2>7 DEF TypeInv
<1>3. CASE UserKills
  <2>1. ProgramTypes'
    BY <1>0, <1>3 DEF TypeInv, ProgramTypes, UserKills, Kill, NoTransfer, Ended, Working, files
  <2>2. CursorTypes'
    BY <1>0, <1>3 DEF TypeInv, CursorTypes, UserKills, Kill, cursor, Writing
  <2>3. PacketTypes'
    BY <1>0, <1>3, EmptySeq DEF TypeInv, PacketTypes, UserKills, Kill, target, fifos, link
  <2> QED
    BY <1>1, <2>1, <2>2, <2>3 DEF TypeInv
<1> QED
  BY <1>2, <1>3

LEMMA TypesInit == Init => TypeInv
<1> SUFFICES ASSUME Init PROVE TypeInv
  OBVIOUS
<1>1. 1 \in DOMAIN Sessions /\ Sessions[1] \subseteq Command_line
  <2>1. Sessions \in Seq(SUBSET Command_line) /\ Len(Sessions) \in Nat /\ Len(Sessions) > 0
    BY LoaderAssumption, TailFacts
  <2>2. 1 \in 1 .. Len(Sessions)
    BY <2>1
  <2> QED
    BY <2>1, <2>2, LenProperties, ElementOfSeq
<1> USE DEF Init, LoaderInit, TargetInit, Boot0, Unwritten
<1>2. ProgramTypes
  BY <1>1 DEF ProgramTypes, Ended, Working, NoTransfer
<1>3. CursorTypes
  BY EmptySeq DEF CursorTypes, Block, Stack, Writing
<1>4. PacketTypes
  BY EmptySeq DEF PacketTypes
<1>5. /\ pbuf \in [0 .. SPM_PAGESIZE - 1 -> Int] /\ flash \in [0 .. FLASHEND -> Int]
      /\ eeprom \in [0 .. E2END -> Int]
  BY DEF Zeroed, Old
<1>6. job \in [op : {"NONE", "HELLO", "READ"}, part : 1 .. 2, addr : Nat, toread : Nat]
      /\ job.op = "NONE"
  BY DEF NoJob
<1>7. /\ at \in Places /\ peer \in BOOLEAN /\ got_hello \in BOOLEAN /\ boot_timer \in Nat
      /\ lastReset \in Nat
  BY DEF Places
<1>8. TargetTypes
  BY <1>5, <1>6, <1>7 DEF TargetTypes
<1> QED
  BY <1>2, <1>3, <1>4, <1>8 DEF TypeInv

-----------------------------------------------------------------------------
LEMMA FlInvInit == Init => FlInv
BY TypesInit, ConvInit DEF FlInv

LEMMA Stutters == FlInv /\ UNCHANGED vars => FlInv'
<1> SUFFICES ASSUME FlInv, UNCHANGED vars PROVE FlInv'
  OBVIOUS
<1> USE DEF vars, target, loader, link, fifos, memory, cursor, io, files
<1>1. TypeInv'
  BY DEF FlInv, TypeInv, ProgramTypes, CursorTypes, PacketTypes, TargetTypes, currentPart, currentPartId
<1>2. Links' /\ Lasts' /\ Asked'
  BY DEF FlInv, ConvInv, Links, Lasts, Asked, Open
<1>3. WaitingInv' /\ WorkingInv'
  BY DEF FlInv, ConvInv, WaitingInv, WorkingInv
<1>4. GreetingInv'
  BY DEF FlInv, ConvInv, GreetingInv, Base, Taken, Brought, Told, InTurn, Answer
<1> QED
  BY <1>1, <1>2, <1>3, <1>4 DEF FlInv, ConvInv

LEMMA FlInvNext ==
  ASSUME BLDADDR > 0
  PROVE  FlInv /\ Next => FlInv' /\ (pc' = "misled" => pc = "misled")
<1> SUFFICES ASSUME FlInv, Next PROVE FlInv' /\ (pc' = "misled" => pc = "misled")
  OBVIOUS
<1>0. TypeInv
  BY DEF FlInv
<1>1. CASE LoaderActs
  <2>1. TypeInv' /\ pc' # "misled"
    BY <1>1, LoaderTypes
  <2>2. ConvInv'
    <3>1. CASE pc \in Working
      BY <1>1, <3>1, WorkingConv
    <3>2. CASE pc \notin Working
      <4>1. Ping \/ Pinged \/ Hello \/ AwaitHello \/ HelloAnswered \/ Partitions
        BY <1>1, <3>2 DEF LoaderActs, LoaderCalls, At, Executes, Working,
               Restore, QueueBlock, QueueLastAgain, BatchFull, NothingQueued, WriteSome, Pad, Restored,
               Save, SaveRead, SaveSome, Verify, VerifyRead, VerifySome, Run, Ran
      <4> QED
        BY <1>1, <4>1, PingConv, PingedConv, HelloConv, AwaitHelloConv, HelloAnsweredConv, PartitionsConv
    <3> QED
      BY <3>1, <3>2
  <2> QED
    BY <2>1, <2>2 DEF FlInv
<1>2. CASE UserStarts \/ UserKills
  <2>1. FlInv'
    BY <1>0, <1>2, UserTypes, UserStartsConv, UserKillsConv DEF FlInv
  <2> QED
    BY <1>2, <2>1 DEF UserStarts, Start, UserKills, Kill
<1>3. CASE HandOver \/ WriteReturns \/ Collect \/ ReadReturns
           \/ BulkArrives \/ StreamArrives \/ StreamFails \/ AnswerArrives
  <2>1. TypeInv'
    BY <1>0, <1>3, LinkTypes
  <2>2. ConvInv'
    BY <1>3, HandOverConv, WriteReturnsConv, CollectConv, ReadReturnsConv, SentConv, AnswerArrivesConv
  <2>3. UNCHANGED pc
    BY <1>3 DEF HandOver, WriteReturns, Collect, ReadReturns, BulkArrives, StreamArrives, StreamFails,
                AnswerArrives, others, program, loader
  <2> QED
    BY <2>1, <2>2, <2>3 DEF FlInv
<1>4. CASE TargetActs \/ TargetResets \/ PowerCut
  <2>1. ConvInv'
    BY <1>4, TargetConv
  <2>2. UNCHANGED pc
    BY <1>4 DEF TargetActs, TargetResets, PowerCut, loader
  <2>3. TypeInv'
    <3>1. CASE TargetActs
      BY <1>0, <3>1, TargetActsTypes
    <3>2. CASE TargetResets
      BY <1>0, <3>2, MemoryTypes, RestartTypes DEF TargetResets, GiveUpAnswering, Reset
    <3>3. CASE PowerCut
      BY <1>0, <3>3, PowerFailsTypes, RestartTypes DEF PowerCut, PowerFails
    <3> QED
      BY <1>4, <3>1, <3>2, <3>3
  <2> QED
    BY <2>1, <2>2, <2>3 DEF FlInv
<1> QED
  BY <1>1, <1>2, <1>3, <1>4 DEF Next

(* What a program takes for the answer to its question is that answer: the
   partitions it works on are those the target has told, whoever asked before,
   whatever was lost, and wherever a loader was killed or a target reset. *)
THEOREM NobodyIsMisled == ASSUME BLDADDR > 0 PROVE Spec => []AnswersInTurn
<1>1. Init => FlInv /\ AnswersInTurn
  BY FlInvInit DEF Init, LoaderInit, AnswersInTurn
<1>2. FlInv /\ AnswersInTurn /\ [Next]_vars => (FlInv /\ AnswersInTurn)'
  BY FlInvNext, Stutters DEF AnswersInTurn, vars, loader
<1> QED
  BY <1>1, <1>2, PTL DEF Spec

-----------------------------------------------------------------------------
(***************************************************************************)
(* What is written to the flash.                                           *)
(***************************************************************************)
\* The pages that a command for the flash can reach end before the bootloader.
LEMMA PageEndsBefore ==
  ASSUME NEW a \in Nat, a < BLDADDR
  PROVE  PageOf(a) \in Nat /\ PageOf(a) + SPM_PAGESIZE <= BLDADDR
<1> DEFINE p == PageOf(a)
<1>1. /\ p \in Nat /\ p \in Int /\ p <= a /\ Rest(p, SPM_PAGESIZE) = 0
      /\ BLDADDR \in Int /\ Rest(BLDADDR, SPM_PAGESIZE) = 0
  BY PageFacts, Sizes
<1> HIDE DEF p
<1>2. p < BLDADDR
  BY <1>1
<1>3. p + SPM_PAGESIZE <= BLDADDR
  BY <1>1, <1>2, Apart, Sizes
<1> QED
  BY <1>1, <1>3 DEF p

\* A page that ends before the bootloader does not reach it.
LEMMA PatchBeyond ==
  ASSUME TypeInv, NEW p \in Int, p + SPM_PAGESIZE <= BLDADDR,
         NEW page \in Seq(Int), Len(page) = SPM_PAGESIZE, NEW x \in BLDADDR .. FLASHEND
  PROVE  Patch(flash, p, page)[x] = flash[x]
<1>1. FLASHEND \in Nat /\ flash \in [0 .. FLASHEND -> Int] /\ x \in 0 .. FLASHEND
      /\ x \in Int /\ BLDADDR <= x /\ BLDADDR \in Int /\ SPM_PAGESIZE \in Int
  BY MemoryTypes, Sizes
<1>2. \A a \in 0 .. FLASHEND : Patch(flash, p, page)[a] =
        IF p <= a /\ a < p + Len(page) THEN page[a - p + 1] ELSE flash[a]
  BY <1>1, PatchIs
<1>3. ~(x < p + Len(page))
  BY <1>1
<1> QED
  BY <1>1, <1>2, <1>3

\* After a step the flash is what it was but for a page of the partition.
LEMMA FlashSteps ==
  ASSUME FlInv, Next, fileSize + IOSIZE <= BLDADDR, NEW x \in BLDADDR .. FLASHEND
  PROVE  flash'[x] = flash[x]
<1>0. TypeInv /\ x \in 0 .. FLASHEND /\ x \in Int
  BY Sizes DEF FlInv
<1>1. CASE TargetActs /\ TakeWrite
  <2>0. rxFifo # <<>> /\ Command.op = "WRITE"
    BY <1>1 DEF TakeWrite, HasCommand, Command
  <2>1. Command \in Writes(fileSize)
    BY <1>0, <2>0, CommandIs
  <2> DEFINE a == Command.addr
             d == Command.data
  <2>2. /\ a \in Nat /\ d \in Seq(Int) /\ a % SPM_PAGESIZE \in Int
        /\ Command.part = 2 => a < BLDADDR
    BY <2>1, WriteIs, BlockIsSeq
  <2>3. \/ do_flash_write(a, d) /\ Command.part = 2
        \/ do_eeprom_write(a, d)
    <3>1. Command.part \in 1 .. 2 /\ (parts[Command.part].name = "flash" => Command.part = 2)
      BY <2>1, WriteIs, Partitions2
    <3> QED
      BY <1>1, <3>1 DEF TakeWrite
  <2> HIDE DEF a, d
  <2>4. CASE do_eeprom_write(a, d)
    BY <2>4 DEF do_eeprom_write
  <2>5. CASE do_flash_write(a, d) /\ Command.part = 2
    <3> DEFINE whole == [o \in 1 .. SPM_PAGESIZE |-> pbuf'[o - 1]]
    <3>1. pbuf' \in [0 .. SPM_PAGESIZE - 1 -> Int] /\ 0 \in Int
      BY <1>0, <1>1, TakeWriteTypes DEF memory
    <3>2. whole \in Seq(Int) /\ Len(whole) = SPM_PAGESIZE
      BY <3>1, PageIsSeq
    <3>3. flash' \in {flash, Patch(flash, PageOf(a), whole)}
      BY <2>5 DEF do_flash_write, Programmed
    <3> HIDE DEF whole
    <3> DEFINE p == PageOf(a)
    <3>4. p \in Int /\ p + SPM_PAGESIZE <= BLDADDR
      BY <2>2, <2>5, PageEndsBefore
    <3> HIDE DEF p
    <3>5. Patch(flash, p, whole)[x] = flash[x]
      BY <1>0, <3>2, <3>4, PatchBeyond
    <3> QED
      BY <3>3, <3>5 DEF p
  <2> QED
    BY <2>3, <2>4, <2>5
<1>2. CASE PowerCut
  <2>1. CASE flash' = flash
    BY <2>1
  <2>2. CASE flash' # flash
    <3>0. rxFifo # <<>> /\ Command.op = "WRITE"
      BY <1>2, <2>2 DEF PowerCut, PowerFails, HasCommand, Command
    <3>1. Command \in Writes(fileSize)
      BY <1>0, <3>0, CommandIs
    <3> DEFINE a == Command.addr
               d == Command.data
               buf == Patch(pbuf, a % SPM_PAGESIZE, d)
    <3>2. /\ a \in Nat /\ d \in Seq(Int) /\ a % SPM_PAGESIZE \in Int
          /\ Command.part = 2 => a < BLDADDR
      BY <3>1, WriteIs, BlockIsSeq
    <3>3. flash' \in TornPages(buf, a) /\ Command.part = 2
      <4>1. Command.part \in 1 .. 2 /\ (parts[Command.part].name = "flash" => Command.part = 2)
        BY <3>1, WriteIs, Partitions2
      <4> QED
        BY <1>2, <2>2, <4>1 DEF PowerCut, PowerFails
    <3> HIDE DEF a, d
    <3>4. buf \in [0 .. SPM_PAGESIZE - 1 -> Int]
      BY <1>0, <3>2, MemoryTypes, PatchIs
    <3> HIDE DEF buf
    <3> DEFINE page(n) == [o \in 1 .. SPM_PAGESIZE |-> IF o <= n THEN buf[o - 1] ELSE Erased]
    <3>5. PICK n \in 0 .. SPM_PAGESIZE - 1 : flash' = Patch(flash, PageOf(a), page(n))
      BY <2>2, <3>3 DEF TornPages
    <3> DEFINE torn == page(n)
               p == PageOf(a)
    <3>6. torn \in Seq(Int) /\ Len(torn) = SPM_PAGESIZE
      <4>1. n \in Int
        OBVIOUS
      <4> QED
        BY <3>4, <4>1, PageIsSeq
    <3> HIDE DEF page, torn
    <3>7. p \in Int /\ p + SPM_PAGESIZE <= BLDADDR
      BY <3>2, <3>3, PageEndsBefore
    <3>8. flash' = Patch(flash, p, torn)
      BY <3>5 DEF torn
    <3> HIDE DEF p
    <3>9. Patch(flash, p, torn)[x] = flash[x]
      BY <1>0, <3>6, <3>7, PatchBeyond
    <3> QED
      BY <3>8, <3>9
  <2> QED
    BY <2>1, <2>2
<1>3. CASE ~(TargetActs /\ TakeWrite) /\ ~PowerCut
  <2>1. UNCHANGED flash
    BY <1>3 DEF Next, UserStarts, UserKills, LoaderActs, HandOver, WriteReturns, Collect, ReadReturns,
                BulkArrives, StreamArrives, StreamFails, AnswerArrives, others, target, memory, fifos,
                TargetActs, TargetNext, TakeCommand, TakeHello, TakeRead, TakeBoot, TakeOther,
                PushHello, PushBlock, ListenAgain, BootTimerTick, TargetResets, GiveUpAnswering, Reset
  <2> QED
    BY <2>1
<1> QED
  BY <1>1, <1>2, <1>3

LEMMA SameFile == Next => fileSize' = fileSize
BY DEF Next, UserStarts, UserKills, LoaderActs, HandOver, WriteReturns, Collect, ReadReturns,
       BulkArrives, StreamArrives, StreamFails, AnswerArrives, others, loader, files, program,
       TargetActs, TargetResets, PowerCut, Start, Kill, LoaderCalls, Executes,
       Ping, Pinged, Hello, AwaitHello, HelloAnswered, Partitions, Restore, QueueBlock,
       QueueLastAgain, BatchFull, NothingQueued, WriteSome, Pad, Restored, Save, SaveRead,
       SaveSome, Verify, VerifyRead, VerifySome, Run, Ran

(* The last block of a file may be sent twice and a page of padding follows it:
   an image that leaves less than a block free before the bootloader damages it.  *)
ImagesFit == \A size \in FileSizes : size + IOSIZE <= BLDADDR

(* Writing an image that fits leaves the bootloader alone, wherever sessions end
   and the power fails. *)
THEOREM BootloaderSurvives == ASSUME ImagesFit PROVE Spec => []BootSectionIntact
<1> DEFINE Fits == fileSize \in FileSizes /\ fileSize + IOSIZE <= BLDADDR /\ BLDADDR > 0
<1>1. Init => FlInv /\ Fits /\ BootSectionIntact
  <2> SUFFICES ASSUME Init PROVE FlInv /\ Fits /\ BootSectionIntact
    OBVIOUS
  <2>1. FlInv
    BY FlInvInit
  <2>2. fileSize \in FileSizes /\ fileSize \in Nat /\ fileSize + IOSIZE <= BLDADDR
    BY ImagesFit, LoaderAssumption DEF Init, LoaderInit, ImagesFit
  <2>3. BLDADDR > 0
    BY <2>2, Sizes
  <2>4. BootSectionIntact
    BY Sizes DEF Init, TargetInit, Unwritten, BootSectionIntact
  <2> QED
    BY <2>1, <2>2, <2>3, <2>4
<1>2. (FlInv /\ Fits /\ BootSectionIntact) /\ [Next]_vars => (FlInv /\ Fits /\ BootSectionIntact)'
  <2> SUFFICES ASSUME FlInv, Fits, BootSectionIntact, [Next]_vars
               PROVE  (FlInv /\ Fits /\ BootSectionIntact)'
    OBVIOUS
  <2>1. CASE Next
    <3>1. FlInv' /\ fileSize' = fileSize
      BY <2>1, FlInvNext, SameFile
    <3>2. BootSectionIntact'
      BY <2>1, FlashSteps DEF BootSectionIntact
    <3> QED
      BY <3>1, <3>2
  <2>2. CASE UNCHANGED vars
    BY <2>2, Stutters DEF vars, loader, files, target, memory, BootSectionIntact
  <2> QED
    BY <2>1, <2>2
<1>3. FlInv /\ Fits /\ BootSectionIntact => BootSectionIntact
  OBVIOUS
<1> QED
  BY <1>1, <1>2, PTL DEF Spec
=============================================================================
