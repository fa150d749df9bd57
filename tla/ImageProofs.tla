----------------------------- MODULE ImageProofs -----------------------------
(***************************************************************************)
(* A byte of the image is at its own address or not there, for every       *)
(* geometry of the target, every size of image and every sequence of       *)
(* sessions.                                                               *)
(*                                                                         *)
(* do_flash_write programs a page when its last block arrives and does not *)
(* ask whether the others came.  That they did follows from the order of   *)
(* blocks: Path is what the target has yet to hear, from its FIFO back to  *)
(* the block that the loader is filling.  PathInv says that each block on  *)
(* it is the one before it again or the next one, and that the page buffer *)
(* holds whatever of its page comes before the first of them.  ModeInv     *)
(* says where there are no blocks at all: a session that begins finds none *)
(* of an earlier one on the way.  A reset empties the page buffer, which   *)
(* Forgotten allows for.                                                   *)
(***************************************************************************)
EXTENDS FlashingProofs

(***************************************************************************)
(* The blocks on a path: each is the one before it again, or the next one,  *)
(* and nothing comes between two of them.                                  *)
(***************************************************************************)
IsBlock(c) == c.op = "WRITE"
NoBlocks(s) == \A i \in 1 .. Len(s) : ~IsBlock(s[i])
Follows(b, c) == c.part = b.part /\ c.addr \in {b.addr, b.addr + IOSIZE}
Consecutive(s) ==
  \A i \in 1 .. Len(s) - 1 : IsBlock(s[i]) =>
    IF IsBlock(s[i + 1]) THEN Follows(s[i], s[i + 1])
                         ELSE \A j \in i + 1 .. Len(s) : ~IsBlock(s[j])
FirstIn(s, G) ==
  \A i \in 1 .. Len(s) : IsBlock(s[i]) /\ (\A j \in 1 .. i - 1 : ~IsBlock(s[j])) => s[i] \in G

LEMMA ConcatIs ==
  ASSUME NEW V, NEW s \in Seq(V), NEW t \in Seq(V)
  PROVE  /\ s \o t \in Seq(V) /\ Len(s) \in Nat /\ Len(t) \in Nat
         /\ Len(s \o t) = Len(s) + Len(t)
         /\ \A i \in 1 .. Len(s) : (s \o t)[i] = s[i]
         /\ \A i \in 1 .. Len(t) : (s \o t)[Len(s) + i] = t[i]
<1> DEFINE l == Len(s)
           m == Len(t)
<1>1. /\ s \o t \in Seq(V) /\ l \in Nat /\ m \in Nat /\ Len(s \o t) = l + m
      /\ \A i \in 1 .. l + m : (s \o t)[i] = IF i <= l THEN s[i] ELSE t[i - l]
  BY ConcatProperties, LenProperties
<1> HIDE DEF l, m
<1>2. \A i \in 1 .. l : (s \o t)[i] = s[i]
  BY <1>1
<1>3. ASSUME NEW i \in 1 .. m PROVE (s \o t)[l + i] = t[i]
  <2>1. l + i \in 1 .. l + m /\ ~(l + i <= l) /\ (l + i) - l = i
    BY <1>1
  <2> QED
    BY <1>1, <2>1
<1> QED
  BY <1>1, <1>2, <1>3 DEF l, m

\* A part of a path is a path.
LEMMA PathParts ==
  ASSUME NEW V, NEW s \in Seq(V), NEW t \in Seq(V), Consecutive(s \o t)
  PROVE  Consecutive(s) /\ Consecutive(t) /\ \A G : FirstIn(s \o t, G) => FirstIn(s, G)
<1> DEFINE l == Len(s)
           m == Len(t)
           u == s \o t
<1>1. /\ l \in Nat /\ m \in Nat /\ Len(u) = l + m
      /\ \A i \in 1 .. l : u[i] = s[i]
      /\ \A i \in 1 .. m : u[l + i] = t[i]
  BY ConcatIs
<1>2. \A i \in 1 .. Len(u) - 1 : IsBlock(u[i]) =>
        IF IsBlock(u[i + 1]) THEN Follows(u[i], u[i + 1])
                             ELSE \A j \in i + 1 .. Len(u) : ~IsBlock(u[j])
  BY DEF Consecutive
<1> HIDE DEF l, m, u
<1>3. ASSUME NEW i \in 1 .. l - 1, IsBlock(s[i])
      PROVE  IF IsBlock(s[i + 1]) THEN Follows(s[i], s[i + 1])
                                  ELSE \A j \in i + 1 .. l : ~IsBlock(s[j])
  <2>1. i \in 1 .. Len(u) - 1 /\ i \in 1 .. l /\ i + 1 \in 1 .. l
        /\ \A j \in i + 1 .. l : j \in i + 1 .. Len(u) /\ j \in 1 .. l
    BY <1>1
  <2>2. u[i] = s[i] /\ u[i + 1] = s[i + 1] /\ \A j \in i + 1 .. l : u[j] = s[j]
    BY <1>1, <2>1
  <2> QED
    BY <1>2, <1>3, <2>1, <2>2
<1>4. ASSUME NEW i \in 1 .. m - 1, IsBlock(t[i])
      PROVE  IF IsBlock(t[i + 1]) THEN Follows(t[i], t[i + 1])
                                  ELSE \A j \in i + 1 .. m : ~IsBlock(t[j])
  <2>1. l + i \in 1 .. Len(u) - 1 /\ i \in 1 .. m /\ i + 1 \in 1 .. m /\ l + (i + 1) = (l + i) + 1
        /\ \A j \in i + 1 .. m : l + j \in (l + i) + 1 .. Len(u) /\ j \in 1 .. m
    BY <1>1
  <2>2. u[l + i] = t[i] /\ u[(l + i) + 1] = t[i + 1] /\ \A j \in i + 1 .. m : u[l + j] = t[j]
    BY <1>1, <2>1
  <2> QED
    BY <1>2, <1>4, <2>1, <2>2
<1>5. ASSUME NEW G, FirstIn(u, G) PROVE FirstIn(s, G)
  <2>1. ASSUME NEW i \in 1 .. l, IsBlock(s[i]), \A j \in 1 .. i - 1 : ~IsBlock(s[j]) PROVE s[i] \in G
    <3>1. i \in 1 .. Len(u) /\ u[i] = s[i] /\ \A j \in 1 .. i - 1 : j \in 1 .. l /\ u[j] = s[j]
      BY <1>1
    <3> QED
      BY <1>5, <2>1, <3>1 DEF FirstIn
  <2> QED
    BY <2>1 DEF FirstIn, l
<1> QED
  BY <1>3, <1>4, <1>5 DEF Consecutive, l, m, u

\* The first packet leaves.
LEMMA PathTail ==
  ASSUME NEW V, NEW s \in Seq(V), s # <<>>, Consecutive(s)
  PROVE  /\ Consecutive(Tail(s))
         /\ \A G : FirstIn(s, G) /\ ~IsBlock(Head(s)) => FirstIn(Tail(s), G)
         /\ \A G : FirstIn(s, G) /\ IsBlock(Head(s)) => Head(s) \in G
         /\ \A G : IsBlock(Head(s)) /\ (\A c \in V : IsBlock(c) /\ Follows(Head(s), c) => c \in G)
               => FirstIn(Tail(s), G)
<1> DEFINE l == Len(s)
           t == Tail(s)
           h == Head(s)
<1>1. /\ t \in Seq(V) /\ l \in Nat /\ l > 0 /\ Len(t) = l - 1
      /\ \A i \in 1 .. l - 1 : t[i] = s[i + 1]
      /\ h = s[1] /\ h \in V
  BY TailFacts
<1>2. \A i \in 1 .. l - 1 : IsBlock(s[i]) =>
        IF IsBlock(s[i + 1]) THEN Follows(s[i], s[i + 1])
                             ELSE \A j \in i + 1 .. l : ~IsBlock(s[j])
  BY DEF Consecutive
<1>3. \A i \in 1 .. l - 1 : t[i] \in V
  BY <1>1, ElementOfSeq
<1> HIDE DEF l, t, h
<1>4. ASSUME NEW i \in 1 .. Len(t) - 1, IsBlock(t[i])
      PROVE  IF IsBlock(t[i + 1]) THEN Follows(t[i], t[i + 1])
                                  ELSE \A j \in i + 1 .. Len(t) : ~IsBlock(t[j])
  <2>1. i + 1 \in 1 .. l - 1 /\ i \in 1 .. l - 1
        /\ \A j \in i + 1 .. Len(t) : j + 1 \in (i + 1) + 1 .. l /\ j \in 1 .. l - 1
    BY <1>1
  <2>2. t[i] = s[i + 1] /\ t[i + 1] = s[(i + 1) + 1] /\ \A j \in i + 1 .. Len(t) : t[j] = s[j + 1]
    BY <1>1, <2>1
  <2> QED
    BY <1>2, <1>4, <2>1, <2>2
<1>5. ASSUME NEW G, FirstIn(s, G), ~IsBlock(h) PROVE FirstIn(t, G)
  <2>1. ASSUME NEW i \in 1 .. Len(t), IsBlock(t[i]), \A j \in 1 .. i - 1 : ~IsBlock(t[j]) PROVE t[i] \in G
    <3>1. i + 1 \in 1 .. l /\ t[i] = s[i + 1]
      BY <1>1
    <3>2. ASSUME NEW j \in 1 .. (i + 1) - 1 PROVE ~IsBlock(s[j])
      <4>1. CASE j = 1
        BY <1>1, <1>5, <4>1
      <4>2. CASE j # 1
        <5>1. j - 1 \in 1 .. i - 1 /\ j - 1 \in 1 .. l - 1 /\ (j - 1) + 1 = j
          BY <1>1, <4>2
        <5>2. t[j - 1] = s[j]
          BY <1>1, <5>1
        <5> QED
          BY <2>1, <5>1, <5>2
      <4> QED
        BY <4>1, <4>2
    <3> QED
      BY <1>5, <2>1, <3>1, <3>2 DEF FirstIn, l
  <2> QED
    BY <2>1 DEF FirstIn
<1>6. ASSUME NEW G, FirstIn(s, G), IsBlock(h) PROVE h \in G
  <2>1. 1 \in 1 .. l /\ \A j \in 1 .. 1 - 1 : ~IsBlock(s[j])
    BY <1>1
  <2> QED
    BY <1>1, <1>6, <2>1 DEF FirstIn, l
<1>7. ASSUME NEW G, IsBlock(h), \A c \in V : IsBlock(c) /\ Follows(h, c) => c \in G
      PROVE  FirstIn(t, G)
  <2>1. ASSUME NEW i \in 1 .. Len(t), IsBlock(t[i]), \A j \in 1 .. i - 1 : ~IsBlock(t[j]) PROVE t[i] \in G
    <3>1. i + 1 \in 1 .. l /\ i \in 1 .. l - 1 /\ t[i] = s[i + 1] /\ 1 \in 1 .. l - 1 /\ t[1] = s[1 + 1]
      BY <1>1
    <3>2. IsBlock(s[1 + 1])
      <4>1. i + 1 \in 1 + 1 .. l
        BY <3>1
      <4> QED
        BY <1>1, <1>2, <1>7, <2>1, <3>1, <4>1
    <3>3. i = 1
      <4>1. i # 1 => 1 \in 1 .. i - 1
        BY <3>1
      <4> QED
        BY <2>1, <3>1, <3>2, <4>1
    <3>4. Follows(h, t[1])
      BY <1>1, <1>2, <1>7, <3>1, <3>2
    <3> QED
      BY <1>3, <1>7, <2>1, <3>1, <3>3, <3>4
  <2> QED
    BY <2>1 DEF FirstIn
<1> QED
  BY <1>4, <1>5, <1>6, <1>7 DEF Consecutive, l, t, h

\* Something else goes behind.
LEMMA PathEnd ==
  ASSUME NEW V, NEW s \in Seq(V), NEW e \in V, ~IsBlock(e), Consecutive(s)
  PROVE  Consecutive(Append(s, e)) /\ \A G : FirstIn(s, G) => FirstIn(Append(s, e), G)
<1> DEFINE l == Len(s)
           u == Append(s, e)
<1>1. /\ l \in Nat /\ Len(u) = l + 1 /\ u[l + 1] = e
      /\ \A i \in 1 .. l : u[i] = s[i]
  BY AppendProperties, LenProperties
<1>2. \A i \in 1 .. l - 1 : IsBlock(s[i]) =>
        IF IsBlock(s[i + 1]) THEN Follows(s[i], s[i + 1])
                             ELSE \A j \in i + 1 .. l : ~IsBlock(s[j])
  BY DEF Consecutive
<1> HIDE DEF l, u
<1>3. ASSUME NEW i \in 1 .. Len(u) - 1, IsBlock(u[i])
      PROVE  IF IsBlock(u[i + 1]) THEN Follows(u[i], u[i + 1])
                                  ELSE \A j \in i + 1 .. Len(u) : ~IsBlock(u[j])
  <2>1. CASE i = l
    <3>1. u[i + 1] = e /\ \A j \in i + 1 .. Len(u) : j = l + 1
      BY <1>1, <2>1
    <3> QED
      BY <1>1, <3>1
  <2>2. CASE i # l
    <3>1. i \in 1 .. l - 1 /\ i \in 1 .. l /\ i + 1 \in 1 .. l
          /\ \A j \in i + 1 .. Len(u) : j = l + 1 \/ (j \in i + 1 .. l /\ j \in 1 .. l)
      BY <1>1, <2>2
    <3>2. u[i] = s[i] /\ u[i + 1] = s[i + 1]
      BY <1>1, <3>1
    <3>3. ASSUME ~IsBlock(s[i + 1]), NEW j \in i + 1 .. Len(u) PROVE ~IsBlock(u[j])
      <4>1. CASE j = l + 1
        BY <1>1, <4>1
      <4>2. CASE j \in i + 1 .. l /\ j \in 1 .. l
        BY <1>1, <1>2, <1>3, <3>1, <3>2, <3>3, <4>2
      <4> QED
        BY <3>1, <4>1, <4>2
    <3> QED
      BY <1>2, <1>3, <3>1, <3>2, <3>3
  <2> QED
    BY <2>1, <2>2
<1>4. ASSUME NEW G, FirstIn(s, G) PROVE FirstIn(u, G)
  <2>1. ASSUME NEW i \in 1 .. Len(u), IsBlock(u[i]), \A j \in 1 .. i - 1 : ~IsBlock(u[j]) PROVE u[i] \in G
    <3>1. i # l + 1
      BY <1>1, <2>1
    <3>2. i \in 1 .. l /\ u[i] = s[i] /\ \A j \in 1 .. i - 1 : j \in 1 .. l /\ u[j] = s[j]
      BY <1>1, <3>1
    <3> QED
      BY <1>4, <2>1, <3>2 DEF FirstIn, l
  <2> QED
    BY <2>1 DEF FirstIn
<1> QED
  BY <1>3, <1>4 DEF Consecutive, l, u

\* Instead of one block come several, the first of which is for the same place.
LEMMA PathGoesOn ==
  ASSUME NEW V, NEW s \in Seq(V), NEW f \in V, IsBlock(f), Consecutive(Append(s, f)),
         NEW b \in Seq(V), b # <<>>, \A i \in 1 .. Len(b) : IsBlock(b[i]),
         \A i \in 1 .. Len(b) - 1 : Follows(b[i], b[i + 1]),
         b[1].part = f.part, b[1].addr = f.addr
  PROVE  /\ Consecutive(s \o b)
         /\ \A G : FirstIn(Append(s, f), G) /\ (f \in G => b[1] \in G) => FirstIn(s \o b, G)
<1> DEFINE l == Len(s)
           m == Len(b)
           a == Append(s, f)
           u == s \o b
<1>1. /\ l \in Nat /\ Len(a) = l + 1 /\ a[l + 1] = f
      /\ \A i \in 1 .. l : a[i] = s[i]
  BY AppendProperties, LenProperties
<1>2. /\ m \in Nat /\ m > 0 /\ Len(u) = l + m
      /\ \A i \in 1 .. l : u[i] = s[i]
      /\ \A i \in 1 .. m : u[l + i] = b[i]
  BY ConcatIs, TailFacts
<1>3. \A i \in 1 .. Len(a) - 1 : IsBlock(a[i]) =>
        IF IsBlock(a[i + 1]) THEN Follows(a[i], a[i + 1])
                             ELSE \A j \in i + 1 .. Len(a) : ~IsBlock(a[j])
  BY DEF Consecutive
<1>4. (\A i \in 1 .. m : IsBlock(b[i])) /\ \A i \in 1 .. m - 1 : Follows(b[i], b[i + 1])
  OBVIOUS
<1> HIDE DEF l, m, a, u
<1>5. ASSUME NEW i \in 1 .. Len(u) - 1, IsBlock(u[i])
      PROVE  IsBlock(u[i + 1]) /\ Follows(u[i], u[i + 1])
  <2>1. CASE i < l
    <3>1. /\ i \in 1 .. Len(a) - 1 /\ i \in 1 .. l /\ i + 1 \in 1 .. l
          /\ l + 1 \in i + 1 .. Len(a)
      BY <1>1, <2>1
    <3>2. u[i] = s[i] /\ u[i + 1] = s[i + 1] /\ a[i] = s[i] /\ a[i + 1] = s[i + 1]
      BY <1>1, <1>2, <3>1
    <3> QED
      BY <1>1, <1>3, <1>5, <3>1, <3>2
  <2>2. CASE i = l
    <3>1. i \in 1 .. Len(a) - 1 /\ i \in 1 .. l /\ 1 \in 1 .. m /\ i + 1 = l + 1
      BY <1>1, <1>2, <2>2
    <3>2. u[i] = a[i] /\ u[i + 1] = b[1] /\ a[i + 1] = f
      BY <1>1, <1>2, <3>1
    <3>3. Follows(a[i], f)
      BY <1>3, <1>5, <3>1, <3>2
    <3> QED
      BY <1>4, <3>1, <3>2, <3>3 DEF Follows
  <2>3. CASE i > l
    <3> DEFINE k == i - l
    <3>1. k \in 1 .. m - 1 /\ k \in 1 .. m /\ k + 1 \in 1 .. m /\ i = l + k /\ i + 1 = l + (k + 1)
      BY <1>1, <1>2, <2>3
    <3> HIDE DEF k
    <3>2. u[i] = b[k] /\ u[i + 1] = b[k + 1]
      BY <1>2, <3>1
    <3> QED
      BY <1>4, <3>1, <3>2
  <2> QED
    BY <1>1, <1>2, <2>1, <2>2, <2>3
<1>6. ASSUME NEW G, FirstIn(a, G), f \in G => b[1] \in G PROVE FirstIn(u, G)
  <2>1. ASSUME NEW i \in 1 .. Len(u), IsBlock(u[i]), \A j \in 1 .. i - 1 : ~IsBlock(u[j]) PROVE u[i] \in G
    <3>1. CASE i <= l
      <4>1. /\ i \in 1 .. l /\ i \in 1 .. Len(a) /\ \A j \in 1 .. i - 1 : j \in 1 .. l
        BY <1>1, <3>1
      <4>2. u[i] = a[i] /\ \A j \in 1 .. i - 1 : u[j] = a[j]
        BY <1>1, <1>2, <4>1
      <4> QED
        BY <1>6, <2>1, <4>1, <4>2 DEF FirstIn
    <3>2. CASE i = l + 1
      <4>1. l + 1 \in 1 .. Len(a) /\ \A j \in 1 .. (l + 1) - 1 : j \in 1 .. l /\ j \in 1 .. i - 1
        BY <1>1, <3>2
      <4>2. \A j \in 1 .. (l + 1) - 1 : ~IsBlock(a[j])
        BY <1>1, <1>2, <2>1, <4>1
      <4>3. f \in G
        BY <1>1, <1>6, <4>1, <4>2 DEF FirstIn
      <4>4. u[i] = b[1]
        <5>1. 1 \in 1 .. m
          BY <1>2
        <5> QED
          BY <1>2, <3>2, <5>1
      <4> QED
        BY <1>6, <4>3, <4>4
    <3>3. CASE i > l + 1
      <4>1. l + 1 \in 1 .. i - 1 /\ 1 \in 1 .. m
        BY <1>1, <1>2, <3>3
      <4>2. IsBlock(u[l + 1])
        BY <1>2, <1>4, <4>1
      <4> QED
        BY <2>1, <4>1, <4>2
    <3> QED
      BY <1>1, <1>2, <3>1, <3>2, <3>3
  <2> QED
    BY <2>1 DEF FirstIn
<1> QED
  BY <1>5, <1>6 DEF Consecutive, a, u

\* Without blocks there is nothing to follow.
LEMMA PathWithout ==
  ASSUME NEW V, NEW s \in Seq(V), NoBlocks(s)
  PROVE  /\ Consecutive(s) /\ \A G : FirstIn(s, G)
         /\ \A f \in V : Consecutive(Append(s, f)) /\ \A G : f \in G => FirstIn(Append(s, f), G)
<1> DEFINE l == Len(s)
<1>1. l \in Nat /\ \A i \in 1 .. l : ~IsBlock(s[i])
  BY LenProperties DEF NoBlocks
<1>2. ASSUME NEW f \in V
      PROVE  Consecutive(Append(s, f)) /\ \A G : f \in G => FirstIn(Append(s, f), G)
  <2> DEFINE u == Append(s, f)
  <2>1. Len(u) = l + 1 /\ u[l + 1] = f /\ \A i \in 1 .. l : u[i] = s[i]
    BY AppendProperties, LenProperties
  <2> HIDE DEF l, u
  <2>2. \A i \in 1 .. Len(u) - 1 : ~IsBlock(u[i])
    BY <1>1, <2>1
  <2>3. ASSUME NEW G, f \in G, NEW i \in 1 .. Len(u), IsBlock(u[i]) PROVE u[i] \in G
    <3>1. i = l + 1
      BY <1>1, <2>1, <2>3
    <3> QED
      BY <2>1, <2>3, <3>1
  <2> QED
    BY <2>2, <2>3 DEF Consecutive, FirstIn, u
<1> HIDE DEF l
<1>3. \A i \in 1 .. l - 1 : i \in 1 .. l
  BY <1>1
<1> QED
  BY <1>1, <1>2, <1>3 DEF Consecutive, FirstIn, l

LEMMA NoBlocksIs ==
  ASSUME NEW V, NEW s \in Seq(V)
  PROVE  "WRITE" \notin Ops(s) <=> NoBlocks(s)
BY LenProperties DEF Ops, NoBlocks, IsBlock

LEMMA NoBlocksConcat ==
  ASSUME NEW V, NEW s \in Seq(V), NEW t \in Seq(V), NoBlocks(s), NoBlocks(t)
  PROVE  NoBlocks(s \o t)
<1> DEFINE l == Len(s)
           m == Len(t)
           u == s \o t
<1>1. /\ l \in Nat /\ m \in Nat /\ Len(u) = l + m
      /\ \A i \in 1 .. l : u[i] = s[i]
      /\ \A i \in 1 .. m : u[l + i] = t[i]
  BY ConcatIs
<1>2. (\A i \in 1 .. l : ~IsBlock(s[i])) /\ (\A i \in 1 .. m : ~IsBlock(t[i]))
  BY DEF NoBlocks
<1> HIDE DEF l, m, u
<1>3. ASSUME NEW i \in 1 .. Len(u) PROVE ~IsBlock(u[i])
  <2>1. CASE i <= l
    BY <1>1, <1>2, <2>1
  <2>2. CASE i > l
    <3>1. i - l \in 1 .. m /\ l + (i - l) = i
      BY <1>1, <2>2
    <3>2. u[l + (i - l)] = t[i - l]
      BY <1>1, <3>1
    <3> QED
      BY <1>2, <3>1, <3>2
  <2> QED
    BY <1>1, <2>1, <2>2
<1> QED
  BY <1>3 DEF NoBlocks, u

\* A packet goes from one part of the path into the next.
Three(V, s, t, r) == s \in Seq(V) /\ t \in Seq(V) /\ r \in Seq(V)

LEMMA Regroup ==
  ASSUME NEW V, NEW s, NEW t, NEW r, Three(V, s, t, r)
  PROVE  (s \o t) \o r = s \o (t \o r)
<1>1. s \in Seq(V) /\ t \in Seq(V) /\ r \in Seq(V)
  BY DEF Three
<1> QED
  BY <1>1, ConcatAssociative

LEMMA PathShift ==
  ASSUME NEW V, NEW s, NEW t, NEW r, Three(V, s, t, r), t # <<>>
  PROVE  Append(s, Head(t)) \o (Tail(t) \o r) = s \o (t \o r)
<1>0. s \in Seq(V) /\ t \in Seq(V) /\ r \in Seq(V)
  BY DEF Three
<1>1. /\ Head(t) \in V /\ Head(t) = t[1] /\ Tail(t) \in Seq(V) /\ Len(t) \in Nat /\ Len(t) > 0
      /\ Len(Tail(t)) = Len(t) - 1 /\ \A i \in 1 .. Len(t) - 1 : Tail(t)[i] = t[i + 1]
  BY <1>0, TailFacts
<1>2. <<Head(t)>> \in Seq(V) /\ Len(<<Head(t)>>) = 1 /\ <<Head(t)>>[1] = Head(t)
  BY <1>1
<1>3. <<Head(t)>> \o Tail(t) = t
  <2> DEFINE h == <<Head(t)>>
             q == Tail(t)
             u == h \o q
             l == Len(t)
  <2>1. /\ u \in Seq(V) /\ Len(u) = 1 + Len(q) /\ (\A i \in 1 .. 1 : u[i] = h[i])
        /\ \A i \in 1 .. Len(q) : u[1 + i] = q[i]
    BY <1>1, <1>2, ConcatIs
  <2>2. l \in Nat /\ l > 0 /\ Len(q) = l - 1 /\ h[1] = t[1] /\ \A i \in 1 .. l - 1 : q[i] = t[i + 1]
    BY <1>1, <1>2
  <2> HIDE DEF h, q, u, l
  <2>3. ASSUME NEW i \in 1 .. l PROVE u[i] = t[i]
    <3>1. CASE i = 1
      BY <2>1, <2>2, <3>1
    <3>2. CASE i # 1
      <4>1. i - 1 \in 1 .. l - 1 /\ 1 + (i - 1) = i /\ (i - 1) + 1 = i
        BY <2>2, <3>2
      <4>2. u[1 + (i - 1)] = q[i - 1] /\ q[i - 1] = t[(i - 1) + 1]
        BY <2>1, <2>2, <4>1
      <4> QED
        BY <4>1, <4>2
    <3> QED
      BY <3>1, <3>2
  <2>4. Len(u) = l
    BY <2>1, <2>2
  <2>5. u = t
    BY <1>0, <2>1, <2>3, <2>4, SeqEqual DEF l
  <2> QED
    BY <2>5 DEF u, h, q
<1>4. Append(s, Head(t)) = s \o <<Head(t)>>
  BY <1>0, <1>1, AppendIsConcat
<1>5. Tail(t) \o r \in Seq(V)
  BY <1>0, <1>1, ConcatProperties
<1>6. (s \o <<Head(t)>>) \o (Tail(t) \o r) = s \o (<<Head(t)>> \o (Tail(t) \o r))
  <2>1. Three(V, s, <<Head(t)>>, Tail(t) \o r)
    BY <1>0, <1>2, <1>5 DEF Three
  <2> QED
    BY <2>1, Regroup
<1>7. <<Head(t)>> \o (Tail(t) \o r) = (<<Head(t)>> \o Tail(t)) \o r
  <2>1. Three(V, <<Head(t)>>, Tail(t), r)
    BY <1>0, <1>1, <1>2 DEF Three
  <2> QED
    BY <2>1, Regroup
<1> QED
  BY <1>3, <1>4, <1>6, <1>7, Zenon

LEMMA PathHead ==
  ASSUME NEW V, NEW s \in Seq(V), NEW t \in Seq(V), s # <<>>
  PROVE  s \o t # <<>> /\ Head(s \o t) = Head(s) /\ Tail(s \o t) = Tail(s) \o t
<1> DEFINE u == s \o t
           w == Tail(s) \o t
           l == Len(s)
           m == Len(t)
<1>1. /\ u \in Seq(V) /\ l \in Nat /\ m \in Nat /\ Len(u) = l + m
      /\ \A i \in 1 .. l : u[i] = s[i]
      /\ \A i \in 1 .. m : u[l + i] = t[i]
  BY ConcatIs
<1>2. /\ Tail(s) \in Seq(V) /\ l > 0 /\ Len(Tail(s)) = l - 1 /\ Head(s) = s[1]
      /\ \A i \in 1 .. l - 1 : Tail(s)[i] = s[i + 1]
  BY TailFacts
<1>3. /\ w \in Seq(V) /\ Len(w) = (l - 1) + m
      /\ \A i \in 1 .. l - 1 : w[i] = Tail(s)[i]
      /\ \A i \in 1 .. m : w[(l - 1) + i] = t[i]
  BY <1>2, ConcatIs
<1>4. u # <<>>
  <2>1. Len(u) # 0
    BY <1>1, <1>2
  <2> QED
    BY <2>1
<1>5. /\ Tail(u) \in Seq(V) /\ Len(Tail(u)) = Len(u) - 1 /\ Head(u) = u[1]
      /\ \A i \in 1 .. Len(u) - 1 : Tail(u)[i] = u[i + 1]
  BY <1>1, <1>4, TailFacts
<1> DEFINE v == Tail(u)
<1> HIDE DEF u, w, l, m, v
<1>6. ASSUME NEW i \in 1 .. (l - 1) + m PROVE v[i] = w[i]
  <2>1. CASE i <= l - 1
    <3>1. i \in 1 .. l - 1 /\ i \in 1 .. Len(u) - 1 /\ i + 1 \in 1 .. l
      BY <1>1, <1>2, <2>1
    <3> QED
      BY <1>1, <1>2, <1>3, <1>5, <3>1 DEF v
  <2>2. CASE i > l - 1
    <3> DEFINE k == i - (l - 1)
    <3>1. k \in 1 .. m /\ i = (l - 1) + k /\ i + 1 = l + k /\ i \in 1 .. Len(u) - 1
      BY <1>1, <1>2, <2>2
    <3> HIDE DEF k
    <3>2. v[i] = u[l + k]
      BY <1>5, <3>1 DEF v
    <3>3. u[l + k] = t[k] /\ w[(l - 1) + k] = t[k]
      BY <1>1, <1>3, <3>1
    <3> QED
      BY <3>1, <3>2, <3>3
  <2> QED
    BY <1>1, <1>2, <2>1, <2>2
<1>7. Len(v) = (l - 1) + m /\ Len(w) = (l - 1) + m /\ v \in Seq(V) /\ w \in Seq(V)
  BY <1>1, <1>2, <1>3, <1>5 DEF v
<1>8. v = w
  BY <1>6, <1>7, SeqEqual
<1>9. u[1] = s[1]
  BY <1>1, <1>2
<1> QED
  BY <1>2, <1>4, <1>5, <1>8, <1>9 DEF u, v, w

-----------------------------------------------------------------------------
(***************************************************************************)
(* The parts of the way: what the target heard, what the dongle holds, what *)
(* the loader has queued, and what it plans.                               *)
(***************************************************************************)
Route(V, h, o, s, p) == h \in Seq(V) /\ o \in Seq(V) /\ s \in Seq(V) /\ p \in Seq(V)
Along(h, o, s, p) == h \o (o \o (s \o p))

\* In front of the plan.
LEMMA RouteIs ==
  ASSUME NEW V, NEW h, NEW o, NEW s, NEW p, Route(V, h, o, s, p)
  PROVE  /\ Along(h, o, s, p) \in Seq(V) /\ Along(h, o, s, <<>>) \in Seq(V)
         /\ Along(h, o, s, p) = Along(h, o, s, <<>>) \o p
<1>1. h \in Seq(V) /\ o \in Seq(V) /\ s \in Seq(V) /\ p \in Seq(V)
  BY DEF Route
<1>2. s \o p \in Seq(V) /\ o \o s \in Seq(V) /\ s \o <<>> = s
  BY <1>1, ConcatProperties, ConcatEmptySeq
<1>3. o \o (s \o p) \in Seq(V) /\ h \o (o \o s) \in Seq(V)
  BY <1>1, <1>2, ConcatProperties
<1>4. h \o (o \o (s \o p)) \in Seq(V)
  BY <1>1, <1>3, ConcatProperties
<1>5. (o \o s) \o p = o \o (s \o p)
  <2>1. Three(V, o, s, p)
    BY <1>1 DEF Three
  <2> QED
    BY <2>1, Regroup
<1>7. (h \o (o \o s)) \o p = h \o ((o \o s) \o p)
  <2> DEFINE q == o \o s
  <2>1. Three(V, h, q, p)
    BY <1>1, <1>2 DEF Three
  <2> HIDE DEF q
  <2>2. (h \o q) \o p = h \o (q \o p)
    BY <2>1, Regroup
  <2> QED
    BY <2>2 DEF q
<1> QED
  BY <1>2, <1>3, <1>4, <1>5, <1>7, Zenon DEF Along

\* A packet goes from the dongle to the target, from the loader to the dongle.
LEMMA RouteShift ==
  ASSUME NEW V, NEW h, NEW o, NEW s, NEW p, Route(V, h, o, s, p)
  PROVE  /\ o # <<>> => Along(Append(h, Head(o)), Tail(o), s, p) = Along(h, o, s, p)
         /\ s # <<>> => Along(h, Append(o, Head(s)), Tail(s), p) = Along(h, o, s, p)
<1>1. h \in Seq(V) /\ o \in Seq(V) /\ s \in Seq(V) /\ p \in Seq(V) /\ s \o p \in Seq(V)
  BY ConcatProperties DEF Route
<1>2. ASSUME o # <<>> PROVE Along(Append(h, Head(o)), Tail(o), s, p) = Along(h, o, s, p)
  <2> DEFINE q == s \o p
  <2>1. q \in Seq(V)
    BY <1>1
  <2> HIDE DEF q
  <2>2. Three(V, h, o, q)
    BY <1>1, <2>1 DEF Three
  <2>3. Append(h, Head(o)) \o (Tail(o) \o q) = h \o (o \o q)
    BY <1>2, <2>2, PathShift
  <2> QED
    BY <2>3 DEF Along, q
<1>3. ASSUME s # <<>> PROVE Along(h, Append(o, Head(s)), Tail(s), p) = Along(h, o, s, p)
  <2>0. Three(V, o, s, p)
    BY <1>1 DEF Three
  <2>1. Append(o, Head(s)) \o (Tail(s) \o p) = o \o (s \o p)
    BY <1>3, <2>0, PathShift
  <2> QED
    BY <2>1, Zenon DEF Along
<1> QED
  BY <1>2, <1>3

\* The target takes a packet.
LEMMA RouteTail ==
  ASSUME NEW V, NEW h, NEW o, NEW s, NEW p, Route(V, h, o, s, p), h # <<>>
  PROVE  /\ Along(h, o, s, p) # <<>> /\ Head(Along(h, o, s, p)) = Head(h)
         /\ Tail(Along(h, o, s, p)) = Along(Tail(h), o, s, p)
<1>1. h \in Seq(V) /\ o \in Seq(V) /\ s \in Seq(V) /\ p \in Seq(V) /\ s \o p \in Seq(V)
  BY ConcatProperties DEF Route
<1> DEFINE q == o \o (s \o p)
<1>2. q \in Seq(V)
  BY <1>1, ConcatProperties
<1> HIDE DEF q
<1>3. h \o q # <<>> /\ Head(h \o q) = Head(h) /\ Tail(h \o q) = Tail(h) \o q
  BY <1>1, <1>2, PathHead
<1> QED
  BY <1>3, Zenon DEF Along, q

LEMMA Fewer ==
  ASSUME NEW V, NEW u \in Seq(V), NEW t \in Seq(V), NEW w, w = u \o t, Consecutive(w)
  PROVE  Consecutive(u) /\ \A G : FirstIn(w, G) => FirstIn(u, G)
BY PathParts

\* What is in front is lost, or what is behind.
LEMMA RouteFewer ==
  ASSUME NEW V, NEW h, NEW o, NEW s, NEW p, Route(V, h, o, s, p), Consecutive(Along(h, o, s, p))
  PROVE  /\ Consecutive(Along(<<>>, o, s, p))
         /\ Consecutive(Along(h, o, s, <<>>))
         /\ Consecutive(Along(h, o, <<>>, <<>>))
         /\ \A G : FirstIn(Along(h, o, s, p), G) =>
              FirstIn(Along(h, o, s, <<>>), G) /\ FirstIn(Along(h, o, <<>>, <<>>), G)
<1>1. h \in Seq(V) /\ o \in Seq(V) /\ s \in Seq(V) /\ p \in Seq(V)
  BY DEF Route
<1>2. ASSUME NEW u \in Seq(V), NEW t \in Seq(V), Consecutive(u \o t)
      PROVE  Consecutive(u) /\ Consecutive(t) /\ \A G : FirstIn(u \o t, G) => FirstIn(u, G)
  BY <1>2, PathParts
<1>3. Along(<<>>, o, s, p) = o \o (s \o p) /\ o \o (s \o p) \in Seq(V)
  <2>1. s \o p \in Seq(V)
    BY <1>1, ConcatProperties
  <2>2. o \o (s \o p) \in Seq(V)
    BY <1>1, <2>1, ConcatProperties
  <2>3. \A q \in Seq(V) : <<>> \o q = q
    BY ConcatEmptySeq
  <2> QED
    BY <2>2, <2>3, Zenon DEF Along
<1>4. Consecutive(Along(<<>>, o, s, p))
  <2>1. Consecutive(h \o Along(<<>>, o, s, p))
    BY <1>3, Zenon DEF Along
  <2> QED
    BY <1>1, <1>2, <1>3, <2>1, Zenon
<1>5. /\ Along(h, o, s, <<>>) \in Seq(V) /\ Along(h, o, s, p) = Along(h, o, s, <<>>) \o p
  BY RouteIs
<1>6. /\ Consecutive(Along(h, o, s, <<>>))
      /\ \A G : FirstIn(Along(h, o, s, p), G) => FirstIn(Along(h, o, s, <<>>), G)
  BY <1>1, <1>5, Fewer, Zenon
<1>7. Along(h, o, s, <<>>) = Along(h, o, <<>>, <<>>) \o s /\ Along(h, o, <<>>, <<>>) \in Seq(V)
  <2>1. Route(V, h, o, <<>>, s)
    BY <1>1 DEF Route
  <2>2. Along(h, o, <<>>, s) = Along(h, o, <<>>, <<>>) \o s /\ Along(h, o, <<>>, <<>>) \in Seq(V)
    BY <2>1, RouteIs
  <2>3. s \o <<>> = <<>> \o s
    BY <1>1, ConcatEmptySeq
  <2> QED
    BY <2>2, <2>3, Zenon DEF Along
<1>8. /\ Consecutive(Along(h, o, <<>>, <<>>))
      /\ \A G : FirstIn(Along(h, o, s, <<>>), G) => FirstIn(Along(h, o, <<>>, <<>>), G)
  BY <1>1, <1>6, <1>7, Fewer, Zenon
<1> QED
  BY <1>4, <1>6, <1>8, Zenon

\* The plan is queued.
LEMMA RoutePlan ==
  ASSUME NEW V, NEW h, NEW o, NEW p, Route(V, h, o, <<>>, p)
  PROVE  /\ Along(h, o, p, <<>>) = Along(h, o, <<>>, p)
         /\ \A f \in V : Along(h, o, p, <<f>>) = Along(h, o, <<>>, Append(p, f))
<1>1. p \in Seq(V)
  BY DEF Route
<1>2. p \o <<>> = <<>> \o p
  BY <1>1, ConcatEmptySeq
<1>3. ASSUME NEW f \in V PROVE Along(h, o, p, <<f>>) = Along(h, o, <<>>, Append(p, f))
  <2>1. p \o <<f>> = Append(p, f) /\ Append(p, f) \in Seq(V)
    BY <1>1, AppendIsConcat, AppendProperties
  <2>2. <<>> \o Append(p, f) = Append(p, f)
    BY <2>1, ConcatEmptySeq
  <2> QED
    BY <2>1, <2>2, Zenon DEF Along
<1> QED
  BY <1>2, <1>3, Zenon DEF Along

\* Before anything is written.
LEMMA RouteNone ==
  ASSUME NEW V, NEW h, NEW o, NEW s, NEW p, Route(V, h, o, s, p),
         "WRITE" \notin Ops(h) \cup Ops(o) \cup Ops(s)
  PROVE  NoBlocks(Along(h, o, s, <<>>))
<1>1. h \in Seq(V) /\ o \in Seq(V) /\ s \in Seq(V)
  BY DEF Route
<1>2. o \o s \in Seq(V) /\ s \o <<>> = s
  BY <1>1, ConcatProperties, ConcatEmptySeq
<1>3. NoBlocks(h) /\ NoBlocks(o) /\ NoBlocks(s)
  BY <1>1, NoBlocksIs
<1>4. NoBlocks(o \o s)
  BY <1>1, <1>3, NoBlocksConcat
<1> DEFINE q == o \o s
<1>5. NoBlocks(h \o q)
  <2>1. q \in Seq(V) /\ NoBlocks(q)
    BY <1>2, <1>4
  <2> HIDE DEF q
  <2> QED
    BY <1>1, <1>3, <2>1, NoBlocksConcat
<1> QED
  BY <1>2, <1>5, Zenon DEF Along

-----------------------------------------------------------------------------
(***************************************************************************)
(* The way to the target, and what its page buffer must hold before a block *)
(* arrives.                                                                *)
(***************************************************************************)
Heard == IF at = "loop" THEN rxFifo ELSE <<>>
Plan == IF pc \in Writing THEN Append(batch, WriteCommand(addr, buffer)) ELSE <<>>
Path == Along(Heard, outgoing, sendQueue, Plan)

AnyWrites == [op : {"WRITE"}, part : 1 .. 2, addr : Nat, data : Block]
Items == Commands(fileSize) \cup AnyWrites

\* Bytes that a reset, or a power cut while a page is programmed, leaves behind.
Forgotten == IF lastReset = 0 THEN {} ELSE {Zeroed}
Torn == IF lastReset = 0 THEN {} ELSE {Zeroed, Erased}

PageReady(a) ==
  \A o \in 0 .. Rest(a, SPM_PAGESIZE) - 1 :
    PageOf(a) + o < fileSize /\ PageOf(a) + o < BLDADDR => pbuf[o] \in {PageOf(a) + o} \cup Forgotten
Ready == {c \in Items : IsBlock(c) /\ (c.part = 2 => PageReady(c.addr))}

\* The target will take what comes with the page buffer as it is now.
Listening == at = "loop" \/ (at # "app" /\ peer)

PathInv == Consecutive(Path) /\ (Listening => FirstIn(Path, Ready))

\* Where no blocks can be.
NotYet == Waiting \cup Greeting \cup {"save", "saveRead", "saveSome", "restore"}
NoneYet == "WRITE" \notin Ops(Heard) \cup Ops(outgoing) \cup Ops(sendQueue)

ModeInv ==
  /\ mode # "BULK" => "WRITE" \notin Ops(outgoing) \cup Ops(sendQueue)
  /\ mode \in {"IDLE", "STREAM"} \/ pc \in NotYet => NoneYet
  /\ pc \in Working => mode \in {"READ", "BULK"} /\ (mode = "READ" => outgoing = <<>>)
  /\ pc = "pad" => batch = <<>>
  /\ sessions = 0 => /\ pc = "idle" /\ at \in {"loop", "app"}
                     /\ rxFifo = <<>> /\ outgoing = <<>> /\ sendQueue = <<>>

BytesInv ==
  /\ \A a \in 0 .. E2END : a < fileSize => eeprom[a] \in {Old, a} \cup Torn
  /\ \A a \in 0 .. FLASHEND : a < fileSize /\ a < BLDADDR => flash[a] \in {Old, a} \cup Torn

ImageInv == PathInv /\ ModeInv /\ BytesInv

-----------------------------------------------------------------------------
\* The block that is being filled in.
LEMMA WriteCommandIs ==
  ASSUME TypeInv, pc \in Working, NEW a \in Nat, NEW data \in Block
  PROVE  /\ WriteCommand(a, data) \in AnyWrites /\ IsBlock(WriteCommand(a, data))
         /\ WriteCommand(a, data).part = currentPartId /\ WriteCommand(a, data).addr = a
<1>1. currentPartId \in 1 .. 2
  BY CurrentPart DEF TypeInv, ProgramTypes
<1> QED
  BY <1>1 DEF WriteCommand, AnyWrites, IsBlock

LEMMA ItemsAre ==
  ASSUME TypeInv
  PROVE  /\ fileSize \in Nat
         /\ \A s \in Seq(Commands(fileSize)) : s \in Seq(Items)
         /\ batch \in Seq(Items) /\ \A i \in 1 .. Len(batch) : IsBlock(batch[i])
<1>1. fileSize \in Nat
  BY LoaderAssumption DEF TypeInv, ProgramTypes
<1> DEFINE C == Commands(fileSize)
           W == Writes(fileSize)
<1>2. C \subseteq Items /\ W \subseteq C
  BY DEF Items, Commands
<1>3. batch \in Seq(W) /\ \A w \in W : IsBlock(w)
  BY DEF TypeInv, CursorTypes, Writes, IsBlock
<1> HIDE DEF C, W
<1>4. W \subseteq Items
  BY <1>2
<1>5. \A s \in Seq(C) : s \in Seq(Items)
  BY <1>2, SeqMonotonic
<1>6. batch \in Seq(Items)
  BY <1>3, <1>4, SeqMonotonic
<1>7. \A i \in 1 .. Len(batch) : batch[i] \in W
  BY <1>3, ElementOfSeq
<1> QED
  BY <1>1, <1>3, <1>5, <1>6, <1>7 DEF C

LEMMA RouteNow ==
  ASSUME TypeInv
  PROVE  Route(Items, Heard, outgoing, sendQueue, Plan)
<1> DEFINE C == Commands(fileSize)
<1>1. rxFifo \in Seq(C) /\ outgoing \in Seq(C) /\ sendQueue \in Seq(C)
  BY DEF TypeInv, PacketTypes
<1>2. <<>> \in Seq(C) /\ <<>> \in Seq(Items)
  BY EmptySeq
<1> HIDE DEF C
<1>3. Heard \in Seq(C)
  BY <1>1, <1>2 DEF Heard
<1>4. \A s \in Seq(C) : s \in Seq(Items)
  BY ItemsAre DEF C
<1>5. Plan \in Seq(Items)
  <2>1. CASE pc \in Writing
    <3>1. pc \in Working /\ addr \in Nat /\ buffer \in Block
      BY <2>1 DEF Working, Writing, TypeInv, CursorTypes
    <3>2. WriteCommand(addr, buffer) \in Items
      BY <3>1, WriteCommandIs DEF Items
    <3>3. Append(batch, WriteCommand(addr, buffer)) \in Seq(Items)
      BY <3>2, ItemsAre, AppendProperties
    <3> QED
      BY <2>1, <3>3 DEF Plan
  <2>2. CASE pc \notin Writing
    BY <1>2, <2>2 DEF Plan
  <2> QED
    BY <2>1, <2>2
<1> QED
  BY <1>1, <1>3, <1>4, <1>5 DEF Route

\* Nothing on the way.
LEMMA RouteEmpty ==
  /\ Along(<<>>, <<>>, <<>>, <<>>) = <<>>
  /\ Consecutive(<<>>) /\ \A G : FirstIn(<<>>, G)
<1>1. <<>> \o <<>> = <<>>
  <2>1. \A S : \A s \in Seq(S) : s \o <<>> = s
    BY ConcatEmptySeq
  <2>2. <<>> \in Seq({})
    BY EmptySeq
  <2> QED
    BY <2>1, <2>2, Zenon
<1>2. Along(<<>>, <<>>, <<>>, <<>>) = <<>>
  BY <1>1, Zenon DEF Along
<1>3. Consecutive(<<>>) /\ \A G : FirstIn(<<>>, G)
  BY DEF Consecutive, FirstIn
<1> QED
  BY <1>2, <1>3

LEMMA FirstOfAll ==
  ASSUME NEW V, NEW s \in Seq(V), NEW G, \A c \in V : IsBlock(c) => c \in G
  PROVE  FirstIn(s, G)
BY ElementOfSeq DEF FirstIn

LEMMA ReadySame ==
  ASSUME UNCHANGED <<pbuf, lastReset, fileSize>>
  PROVE  Ready' = Ready /\ Items' = Items
BY DEF Ready, Items, PageReady, Forgotten

\* After a reset the page buffer is forgotten, and nobody minds.
Clean == TypeInv /\ lastReset # 0 /\ pbuf = [o \in 0 .. SPM_PAGESIZE - 1 |-> Zeroed]

LEMMA ReadyAll == Clean => \A c \in Items : IsBlock(c) => c \in Ready
<1> SUFFICES ASSUME Clean, NEW c \in Items, IsBlock(c), c.part = 2 PROVE PageReady(c.addr)
  BY DEF Ready
<1>1. c.addr \in Nat
  BY DEF Items, Commands, Writes, AnyWrites, IsBlock
<1>2. Rest(c.addr, SPM_PAGESIZE) \in 0 .. SPM_PAGESIZE - 1
  BY <1>1, PageFacts
<1>3. \A o \in 0 .. Rest(c.addr, SPM_PAGESIZE) - 1 : o \in 0 .. SPM_PAGESIZE - 1
  <2> DEFINE r == Rest(c.addr, SPM_PAGESIZE)
  <2>1. r \in 0 .. SPM_PAGESIZE - 1
    BY <1>2
  <2> HIDE DEF r
  <2>2. \A o \in 0 .. r - 1 : o \in 0 .. SPM_PAGESIZE - 1
    BY <2>1, Sizes
  <2> QED
    BY <2>2 DEF r
<1> QED
  BY <1>3 DEF PageReady, Forgotten, Clean

LEMMA ReadyAllNext == Clean' => \A c \in Items' : IsBlock(c) => c \in Ready'
<1>1. Clean => \A c \in Items : IsBlock(c) => c \in Ready
  BY ReadyAll
<1>2. (Clean => \A c \in Items : IsBlock(c) => c \in Ready)'
  BY <1>1, PTL
<1> QED
  BY <1>2

-----------------------------------------------------------------------------
(***************************************************************************)
(* Steps along the way.                                                    *)
(***************************************************************************)
LEMMA SamePath ==
  ASSUME PathInv, Path' = Path, Listening' => Listening, UNCHANGED <<pbuf, lastReset, fileSize>>
  PROVE  PathInv'
BY ReadySame DEF PathInv

LEMMA EmptyPath ==
  ASSUME Path' = <<>>
  PROVE  PathInv'
BY RouteEmpty DEF PathInv

LEMMA NonePath == TypeInv /\ NoneYet /\ Plan = <<>> => PathInv
<1> SUFFICES ASSUME TypeInv, NoneYet, Plan = <<>> PROVE PathInv
  OBVIOUS
<1>1. Route(Items, Heard, outgoing, sendQueue, Plan)
  BY RouteNow
<1>2. NoBlocks(Path)
  BY <1>1, RouteNone DEF Path, NoneYet
<1>3. Path \in Seq(Items)
  BY <1>1, RouteIs DEF Path
<1>4. Consecutive(Path) /\ \A G : FirstIn(Path, G)
  BY <1>2, <1>3, PathWithout
<1> QED
  BY <1>4 DEF PathInv

LEMMA NonePathNext == (TypeInv /\ NoneYet /\ Plan = <<>> => PathInv)'
<1>1. TypeInv /\ NoneYet /\ Plan = <<>> => PathInv
  BY NonePath
<1> QED
  BY <1>1, PTL

\* What the target heard is lost.
LEMMA FrontLost ==
  ASSUME TypeInv, PathInv, fileSize' = fileSize,
         Path' = Along(<<>>, outgoing, sendQueue, Plan),
         Listening' => Clean'
  PROVE  PathInv'
<1>1. Route(Items, Heard, outgoing, sendQueue, Plan)
  BY RouteNow
<1>2. Consecutive(Path')
  BY <1>1, RouteFewer DEF Path, PathInv
<1>3. ASSUME Listening' PROVE FirstIn(Path', Ready')
  <2>2. Items' = Items
    BY DEF Items
  <2>3. \A c \in Items : IsBlock(c) => c \in Ready'
    BY <1>3, <2>2, ReadyAllNext
  <2>4. Path' \in Seq(Items)
    <3>1. Route(Items, <<>>, outgoing, sendQueue, Plan)
      BY <1>1, EmptySeq DEF Route
    <3> QED
      BY <3>1, RouteIs
  <2> QED
    BY <2>3, <2>4, FirstOfAll
<1> QED
  BY <1>2, <1>3 DEF PathInv

\* What is not yet in the dongle is lost.
LEMMA BackLost ==
  ASSUME TypeInv, PathInv, Path' \in {Along(Heard, outgoing, sendQueue, <<>>),
                                      Along(Heard, outgoing, <<>>, <<>>)},
         Listening' => Listening, UNCHANGED <<pbuf, lastReset, fileSize>>
  PROVE  PathInv'
<1>1. Route(Items, Heard, outgoing, sendQueue, Plan)
  BY RouteNow
<1>2. Consecutive(Along(Heard, outgoing, sendQueue, Plan))
  BY DEF Path, PathInv
<1>3. /\ Consecutive(Path')
      /\ \A G : FirstIn(Path, G) => FirstIn(Path', G)
  BY <1>1, <1>2, RouteFewer DEF Path
<1> QED
  BY <1>3, ReadySame DEF PathInv

\* Packets on their way, and answers.
LEMMA LinkPath ==
  ASSUME FlInv, ImageInv,
         HandOver \/ WriteReturns \/ Collect \/ ReadReturns \/ BulkArrives \/ StreamArrives \/ AnswerArrives
  PROVE  Path' = Path /\ PathInv'
<1>0. TypeInv /\ PathInv
  BY DEF FlInv, ImageInv
<1>1. /\ UNCHANGED <<at, peer, pbuf, lastReset, fileSize, pc, ptable, session, addr, buffer, batch>>
  BY DEF HandOver, WriteReturns, Collect, ReadReturns, BulkArrives, StreamArrives, AnswerArrives,
         program, cursor, files, target, memory, others, loader
<1>2. Plan' = Plan /\ Listening' = Listening
  BY <1>1 DEF Plan, WriteCommand, currentPartId, Listening
<1>3. Route(Items, Heard, outgoing, sendQueue, Plan)
  BY <1>0, RouteNow
<1>4. CASE HandOver
  <2>1. sendQueue # <<>> /\ sendQueue' = Tail(sendQueue) /\ outgoing' = Append(outgoing, Head(sendQueue))
        /\ rxFifo' = rxFifo
    BY <1>4 DEF HandOver, target, fifos
  <2>2. Heard' = Heard
    BY <1>1, <2>1 DEF Heard
  <2>3. Along(Heard, Append(outgoing, Head(sendQueue)), Tail(sendQueue), Plan) = Path
    BY <1>3, <2>1, RouteShift DEF Path
  <2>4. Path' = Path
    BY <1>2, <2>1, <2>2, <2>3 DEF Path
  <2> QED
    BY <1>0, <1>1, <1>2, <2>4, SamePath
<1>5. CASE BulkArrives \/ StreamArrives
  <2>1. /\ outgoing # <<>> /\ at = "loop" /\ rxFifo' = Append(rxFifo, Head(outgoing))
        /\ outgoing' = Tail(outgoing) /\ sendQueue' = sendQueue
    BY <1>5 DEF BulkArrives, StreamArrives, Hears, others, io
  <2>2. Heard = rxFifo /\ Heard' = rxFifo'
    BY <1>1, <2>1 DEF Heard
  <2>3. Along(Append(Heard, Head(outgoing)), Tail(outgoing), sendQueue, Plan) = Path
    BY <1>3, <2>1, RouteShift DEF Path
  <2>4. Path' = Path
    BY <1>2, <2>1, <2>2, <2>3 DEF Path
  <2> QED
    BY <1>0, <1>1, <1>2, <2>4, SamePath
<1>6. CASE WriteReturns \/ Collect \/ ReadReturns \/ AnswerArrives
  <2>1. UNCHANGED <<rxFifo, outgoing, sendQueue>>
    BY <1>6 DEF WriteReturns, Collect, ReadReturns, AnswerArrives, target, fifos, loader, io, link
  <2>2. Path' = Path
    BY <1>1, <1>2, <2>1 DEF Path, Heard
  <2> QED
    BY <1>0, <1>1, <1>2, <2>2, SamePath
<1> QED
  BY <1>4, <1>5, <1>6

\* The steps of the target that take no block.
LEMMA TargetPath ==
  ASSUME FlInv, FlInv', ImageInv, TargetActs /\ ~TakeWrite
  PROVE  PathInv'
<1> DEFINE C == Commands(fileSize)
<1>0. /\ TypeInv /\ PathInv /\ ConvInv /\ rxFifo \in Seq(C)
      /\ UNCHANGED <<loader, link, lastReset>>
      /\ UNCHANGED <<fileSize, pc, ptable, session, addr, buffer, batch, outgoing, sendQueue>>
  BY DEF FlInv, TypeInv, PacketTypes, ImageInv, TargetActs, loader, link, io, cursor, files
<1> HIDE DEF C
<1>1. Plan' = Plan
  BY <1>0 DEF Plan, WriteCommand, currentPartId
<1>2. Route(Items, Heard, outgoing, sendQueue, Plan)
  BY <1>0, RouteNow
<1>3. ASSUME Heard' = <<>>, ~Listening' PROVE PathInv'
  <2>1. Path' = Along(<<>>, outgoing, sendQueue, Plan)
    BY <1>0, <1>1, <1>3 DEF Path
  <2> QED
    BY <1>0, <1>3, <2>1, FrontLost
<1>4. ASSUME Heard' = Heard, Listening' => Listening, UNCHANGED pbuf PROVE PathInv'
  <2>1. Path' = Path
    BY <1>0, <1>1, <1>4 DEF Path
  <2> QED
    BY <1>0, <1>4, <2>1, SamePath
<1>5. CASE TakeHello
  <2>1. "HELLO" \in Ops(rxFifo) /\ at = "loop" /\ at' = "answer"
    BY <1>0, <1>5, OpsTail DEF TakeHello, HasCommand
  <2>2. sendQueue = <<>> /\ outgoing = <<>> /\ pc \in Ended \cup {"helloSent", "helloAnswered"}
    BY <1>0, <2>1 DEF ConvInv, Lasts, Asked, Open, Questions
  <2>3. Plan = <<>>
    BY <2>2 DEF Plan, Ended, Writing
  <2>4. Path' = <<>>
    BY <1>0, <1>1, <2>1, <2>2, <2>3, RouteEmpty DEF Path, Heard
  <2> QED
    BY <2>4, EmptyPath
<1>6. CASE TakeRead
  <2>1. /\ "READ" \in Ops(rxFifo) /\ at = "loop" /\ at' = "answer" /\ peer' = peer
    BY <1>0, <1>6, OpsTail DEF TakeRead, HasCommand
  <2>2. CASE peer
    <3>1. /\ sendQueue = <<>> /\ outgoing = <<>>
          /\ pc \in Ended \cup {"saveRead", "verifyRead", "saveSome", "verifySome"}
      BY <1>0, <2>1, <2>2 DEF ConvInv, Lasts, Asked, Open, Questions
    <3>2. Plan = <<>>
      BY <3>1 DEF Plan, Ended, Writing
    <3>3. Path' = <<>>
      BY <1>0, <1>1, <2>1, <3>1, <3>2, RouteEmpty DEF Path, Heard
    <3> QED
      BY <3>3, EmptyPath
  <2>3. CASE ~peer
    BY <1>3, <2>1, <2>3 DEF Heard, Listening
  <2> QED
    BY <2>2, <2>3
<1>7. CASE TakeBoot
  BY <1>3, <1>7 DEF TakeBoot, Heard, Listening
<1>8. CASE TakeOther
  <2>1. /\ at = "loop" /\ rxFifo # <<>> /\ rxFifo' = Tail(rxFifo) /\ UNCHANGED <<at, peer, pbuf>>
        /\ Command.op # "NOP" => ~(Command.part \in 1 .. 2)
    BY <1>8, Partitions2 DEF TakeOther, Drop, memory
  <2>2. ~IsBlock(Head(rxFifo))
    BY <1>0, <2>1, CommandIs, WriteIs DEF IsBlock, Command
  <2>3. Heard = rxFifo /\ Heard' = Tail(rxFifo) /\ Listening' = Listening
    BY <2>1 DEF Heard, Listening
  <2>4. /\ Path # <<>> /\ Head(Path) = Head(rxFifo) /\ Path \in Seq(Items)
        /\ Tail(Path) = Along(Tail(rxFifo), outgoing, sendQueue, Plan)
    BY <1>2, <2>1, <2>3, RouteTail, RouteIs DEF Path
  <2>5. Path' = Tail(Path)
    BY <1>0, <1>1, <2>3, <2>4 DEF Path
  <2>6. Consecutive(Tail(Path)) /\ \A G : FirstIn(Path, G) => FirstIn(Tail(Path), G)
    BY <1>0, <2>2, <2>4, PathTail DEF PathInv
  <2>7. Ready' = Ready
    BY <1>0, <2>1, ReadySame
  <2> QED
    BY <1>0, <2>3, <2>5, <2>6, <2>7 DEF PathInv
<1>9. CASE PushHello \/ PushBlock
  <2>1. at = "answer" /\ at' \in {"answer", "sync"} /\ UNCHANGED <<peer, pbuf>>
    BY <1>9 DEF PushHello, PushBlock, MayPush, memory
  <2> QED
    BY <1>4, <2>1 DEF Heard, Listening
<1>10. CASE ListenAgain
  <2>1. at = "sync" /\ txFifo = <<>> /\ at' = "loop" /\ UNCHANGED <<peer, pbuf, rxFifo>>
    BY <1>10 DEF ListenAgain, memory, fifos
  <2>2. peer /\ rxFifo = <<>>
    BY <1>0, <2>1 DEF ConvInv, Links
  <2> QED
    BY <1>4, <2>1, <2>2 DEF Heard, Listening
<1>11. CASE BootTimerTick
  <2>1. at = "loop" /\ at' \in {"loop", "app"} /\ UNCHANGED <<peer, pbuf, rxFifo>>
    BY <1>11 DEF BootTimerTick, memory, fifos
  <2>2. CASE at' = "loop"
    BY <1>4, <2>1, <2>2 DEF Heard, Listening
  <2>3. CASE at' = "app"
    BY <1>3, <2>3 DEF Heard, Listening
  <2> QED
    BY <2>1, <2>2, <2>3
<1> QED
  BY <1>5, <1>6, <1>7, <1>8, <1>9, <1>10, <1>11 DEF TargetActs, TargetNext, TakeCommand

\* A program has been started before anything can be disturbed.
LEMMA DisturbedLate ==
  ASSUME FlInv, ImageInv, TargetResets \/ PowerCut
  PROVE  sessions # 0 /\ lastReset' = sessions
<1>1. CASE TargetResets
  BY <1>1 DEF TargetResets, GiveUpAnswering, Stuck, ImageInv, ModeInv
<1>2. CASE PowerCut
  BY <1>2 DEF PowerCut, Ended, ImageInv, ModeInv
<1> QED
  BY <1>1, <1>2

LEMMA DisturbedPath ==
  ASSUME FlInv, FlInv', ImageInv, TargetResets \/ PowerCut
  PROVE  PathInv'
<1>0. /\ TypeInv /\ TypeInv' /\ PathInv /\ sessions # 0 /\ lastReset' = sessions
      /\ UNCHANGED <<loader, link>> /\ RamLost
      /\ UNCHANGED <<fileSize, pc, ptable, session, addr, buffer, batch, outgoing, sendQueue>>
  BY DisturbedLate DEF FlInv, ImageInv, TargetResets, GiveUpAnswering, Reset, PowerCut, PowerFails,
                       loader, link, io, cursor, files
<1>1. Plan' = Plan /\ Heard' = <<>>
  BY <1>0 DEF Plan, WriteCommand, currentPartId, Heard, RamLost
<1>2. Path' = Along(<<>>, outgoing, sendQueue, Plan)
  BY <1>0, <1>1 DEF Path
<1>3. Clean'
  BY <1>0 DEF Clean, RamLost
<1> QED
  BY <1>0, <1>2, <1>3, FrontLost

LEMMA UserPath ==
  ASSUME FlInv, FlInv', ImageInv, UserStarts \/ UserKills
  PROVE  PathInv'
<1>0. TypeInv /\ PathInv
  BY DEF FlInv, ImageInv
<1>1. CASE UserStarts
  <2>1. /\ pc' = "ping" /\ at' = at /\ rxFifo' = rxFifo /\ (at = "loop" => rxFifo = <<>>)
        /\ outgoing' = <<>> /\ sendQueue' = <<>>
    BY <1>1 DEF UserStarts, Start, target, fifos
  <2>2. Path' = <<>>
    BY <2>1, RouteEmpty DEF Path, Heard, Plan, Writing
  <2> QED
    BY <2>2, EmptyPath
<1>2. CASE UserKills
  <2>1. /\ pc' = "killed" /\ sendQueue' = <<>>
        /\ UNCHANGED <<at, peer, rxFifo, outgoing, pbuf, lastReset, fileSize>>
    BY <1>2 DEF UserKills, Kill, target, fifos, memory, link, files
  <2>2. Path' = Along(Heard, outgoing, <<>>, <<>>)
    BY <2>1 DEF Path, Heard, Plan, Writing
  <2>3. Listening' = Listening
    BY <2>1 DEF Listening
  <2> QED
    BY <1>0, <2>1, <2>2, <2>3, BackLost
<1> QED
  BY <1>1, <1>2

-----------------------------------------------------------------------------
(***************************************************************************)
(* Where blocks can be.                                                    *)
(***************************************************************************)
LEMMA FewerOps ==
  ASSUME NEW V, NEW s \in Seq(V), NEW t \in Seq(V), s # <<>>
  PROVE  Ops(Tail(s)) \cup Ops(Append(t, Head(s))) = Ops(s) \cup Ops(t)
<1>1. /\ Ops(Tail(s)) \subseteq Ops(s) /\ Head(s).op \in Ops(s)
      /\ Ops(Append(t, Head(s))) = Ops(t) \cup {Head(s).op}
  BY Move
<1>2. Ops(s) \subseteq Ops(Tail(s)) \cup {Head(s).op}
  BY OpsHead
<1> QED
  BY <1>1, <1>2

LEMMA LinkMode ==
  ASSUME FlInv, ImageInv,
         HandOver \/ WriteReturns \/ Collect \/ ReadReturns \/ AnswerArrives
  PROVE  ModeInv'
<1> DEFINE C == Commands(fileSize)
<1>0. /\ ModeInv /\ sendQueue \in Seq(C) /\ outgoing \in Seq(C)
      /\ UNCHANGED <<mode, pc, batch, sessions, at, rxFifo>>
  BY DEF FlInv, TypeInv, PacketTypes, ImageInv, HandOver, WriteReturns, Collect, ReadReturns, AnswerArrives,
         program, cursor, target, fifos, loader, link
<1> HIDE DEF C
<1>1. Heard' = Heard
  BY <1>0 DEF Heard
<1>2. CASE HandOver
  <2>1. sendQueue # <<>> /\ sendQueue' = Tail(sendQueue) /\ outgoing' = Append(outgoing, Head(sendQueue))
    BY <1>2 DEF HandOver
  <2>2. Ops(sendQueue') \cup Ops(outgoing') = Ops(sendQueue) \cup Ops(outgoing)
    BY <1>0, <2>1, FewerOps
  <2>3. mode # "READ"
    BY <2>1 DEF FlInv, TypeInv, ProgramTypes, ConvInv, Links
  <2> QED
    BY <1>0, <1>1, <2>1, <2>2, <2>3 DEF ModeInv, NoneYet
<1>3. CASE WriteReturns \/ Collect \/ ReadReturns \/ AnswerArrives
  <2>1. UNCHANGED <<outgoing, sendQueue>>
    BY <1>3 DEF WriteReturns, Collect, ReadReturns, AnswerArrives, loader, io, link
  <2> QED
    BY <1>0, <1>1, <2>1 DEF ModeInv, NoneYet
<1> QED
  BY <1>2, <1>3

LEMMA SentMode ==
  ASSUME FlInv, ImageInv, BulkArrives \/ StreamArrives \/ StreamFails
  PROVE  ModeInv' /\ (StreamFails => NoneYet' /\ Plan' = <<>>)
<1> DEFINE C == Commands(fileSize)
<1>0. /\ ModeInv /\ outgoing \in Seq(C) /\ rxFifo \in Seq(C)
      /\ UNCHANGED <<mode, pc, batch, sessions, at, sendQueue>>
      /\ outgoing # <<>> /\ outgoing' = Tail(outgoing)
      /\ rxFifo' = rxFifo \/ (at = "loop" /\ rxFifo' = Append(rxFifo, Head(outgoing)))
      /\ mode \in {"BULK", "STREAM"} /\ (StreamFails => mode = "STREAM")
  BY DEF FlInv, TypeInv, PacketTypes, ImageInv, BulkArrives, StreamArrives, StreamFails,
         program, cursor, others, io, Hears
<1> HIDE DEF C
<1>1. /\ Ops(outgoing') \subseteq Ops(outgoing)
      /\ Ops(Heard') \subseteq Ops(Heard) \cup Ops(outgoing)
  <2>1. Ops(Tail(outgoing)) \cup Ops(Append(rxFifo, Head(outgoing))) = Ops(outgoing) \cup Ops(rxFifo)
    BY <1>0, FewerOps
  <2>2. Ops(Tail(outgoing)) \subseteq Ops(outgoing)
    BY <1>0, OpsTail
  <2> QED
    BY <1>0, <2>1, <2>2 DEF Heard
<1>2. NoneYet => NoneYet'
  BY <1>0, <1>1 DEF NoneYet
<1>3. sessions # 0
  BY <1>0 DEF ModeInv
<1>4. ModeInv'
  BY <1>0, <1>1, <1>2, <1>3 DEF ModeInv
<1>5. ASSUME StreamFails PROVE NoneYet' /\ Plan' = <<>>
  <2>1. mode = "STREAM"
    BY <1>0, <1>5
  <2>2. NoneYet /\ pc \notin Working
    BY <1>0, <2>1 DEF ModeInv
  <2>3. pc' \notin Writing
    BY <1>0, <2>2 DEF Working, Writing
  <2> QED
    BY <1>2, <2>2, <2>3 DEF Plan
<1> QED
  BY <1>4, <1>5

LEMMA TargetMode ==
  ASSUME FlInv, ImageInv, TargetActs \/ TargetResets \/ PowerCut
  PROVE  ModeInv'
<1> DEFINE C == Commands(fileSize)
<1>0. /\ ModeInv /\ ConvInv /\ rxFifo \in Seq(C)
      /\ UNCHANGED <<mode, pc, batch, sessions, outgoing, sendQueue>>
  BY DEF FlInv, TypeInv, PacketTypes, ImageInv, TargetActs, TargetResets, PowerCut, loader, link, io, cursor
<1> HIDE DEF C
<1>1. ASSUME Ops(Heard') \subseteq Ops(Heard),
             sessions = 0 => at' \in {"loop", "app"} /\ rxFifo' = <<>>
      PROVE  ModeInv'
  BY <1>0, <1>1 DEF ModeInv, NoneYet
<1>2. CASE TargetResets \/ PowerCut
  <2>1. rxFifo' = <<>> /\ at' = "loop"
    BY <1>2 DEF TargetResets, GiveUpAnswering, Reset, PowerCut, PowerFails, RamLost
  <2> QED
    BY <1>1, <2>1, OpsEmpty DEF Heard
<1>3. CASE TakeCommand
  <2>1. /\ at = "loop" /\ rxFifo # <<>> /\ rxFifo' \in {<<>>, Tail(rxFifo)}
    BY <1>3 DEF TakeCommand, TakeHello, TakeRead, TakeWrite, TakeBoot, TakeOther, HasCommand, Drop
  <2>2. Ops(Tail(rxFifo)) \subseteq Ops(rxFifo)
    BY <1>0, <2>1, OpsTail
  <2>3. Ops(Heard') \subseteq Ops(Heard)
    BY <2>1, <2>2, OpsEmpty DEF Heard
  <2>4. sessions # 0
    BY <1>0, <2>1 DEF ModeInv
  <2> QED
    BY <1>1, <2>3, <2>4
<1>4. CASE PushHello \/ PushBlock
  <2>1. at = "answer" /\ at' \in {"answer", "sync"}
    BY <1>4 DEF PushHello, PushBlock, MayPush
  <2>2. Heard' = Heard /\ sessions # 0
    BY <1>0, <2>1 DEF Heard, ModeInv
  <2> QED
    BY <1>1, <2>2
<1>5. CASE ListenAgain
  <2>1. at = "sync" /\ txFifo = <<>> /\ rxFifo' = rxFifo
    BY <1>5 DEF ListenAgain, fifos
  <2>2. rxFifo = <<>> /\ sessions # 0
    BY <1>0, <2>1 DEF ConvInv, Links, ModeInv
  <2> QED
    BY <1>1, <2>1, <2>2, OpsEmpty DEF Heard
<1>6. CASE BootTimerTick
  <2>1. at = "loop" /\ at' \in {"loop", "app"} /\ rxFifo' = rxFifo
    BY <1>6 DEF BootTimerTick, fifos
  <2>2. sessions = 0 => rxFifo = <<>>
    BY <1>0 DEF ModeInv
  <2> QED
    BY <1>1, <2>1, <2>2, OpsEmpty DEF Heard
<1>7. CASE TargetActs
  BY <1>3, <1>4, <1>5, <1>6, <1>7 DEF TargetActs, TargetNext
<1> QED
  BY <1>2, <1>7

LEMMA UserMode ==
  ASSUME FlInv, ImageInv, UserStarts \/ UserKills
  PROVE  ModeInv'
<1>0. ModeInv /\ sessions \in Nat
  BY DEF ImageInv, FlInv, TypeInv, ProgramTypes
<1>1. CASE UserStarts
  <2>1. /\ pc' = "ping" /\ at' = at /\ rxFifo' = rxFifo /\ (at = "loop" => rxFifo = <<>>)
        /\ outgoing' = <<>> /\ sendQueue' = <<>> /\ sessions' = sessions + 1 /\ mode' = "IDLE"
    BY <1>1 DEF UserStarts, Start, target, fifos
  <2>2. NoneYet' /\ sessions' # 0
    BY <1>0, <2>1, OpsEmpty DEF NoneYet, Heard
  <2> QED
    BY <2>1, <2>2, OpsEmpty DEF ModeInv, Working
<1>2. CASE UserKills
  <2>1. /\ pc' = "killed" /\ sendQueue' = <<>> /\ pc # "idle"
        /\ UNCHANGED <<at, rxFifo, outgoing, mode, sessions>>
    BY <1>2 DEF UserKills, Kill, Ended, target, fifos, link
  <2>2. sessions # 0 /\ Heard' = Heard
    BY <1>0, <2>1 DEF ModeInv, Heard
  <2> QED
    BY <1>0, <2>1, <2>2, OpsEmpty DEF ModeInv, NoneYet, NotYet, Waiting, Greeting, Working
<1> QED
  BY <1>1, <1>2

-----------------------------------------------------------------------------
(***************************************************************************)
(* The calls of the loader.                                                *)
(***************************************************************************)
LEMMA WorkLater ==
  ASSUME NEW n \in {3, 4}, NEW failed
  PROVE  Work(n, failed) \in {"verify", "run", "done"}
<1> DEFINE works == <<"save", "restore", "verify", "run">>
           wanted == [save |-> session.read, restore |-> session.write,
                      verify |-> session.verify, run |-> session.run /\ ~failed]
           left == {i \in n .. 4 : wanted[works[i]]}
<1>1. Work(n, failed) = IF left = {} THEN "done" ELSE works[Min(left)]
  BY DEF Work
<1>2. left \subseteq {3, 4}
  <2> SUFFICES ASSUME NEW i \in n .. 4 PROVE i \in {3, 4}
    OBVIOUS
  <2> QED
    OBVIOUS
<1> HIDE DEF left
<1>3. ASSUME left # {} PROVE Min(left) \in left
  <2>1. \E x \in left : \A y \in left : x <= y
    <3>1. CASE 3 \in left
      BY <1>2, <3>1
    <3>2. CASE 3 \notin left
      <4>1. \A x \in left : x = 4
        BY <1>2, <3>2
      <4> QED
        BY <1>3, <4>1
    <3> QED
      BY <3>1, <3>2
  <2> QED
    BY <2>1 DEF Min
<1>4. \A i \in {3, 4} : works[i] \in {"verify", "run"}
  OBVIOUS
<1> QED
  BY <1>1, <1>2, <1>3, <1>4

LEMMA AppendTwo ==
  ASSUME NEW V, NEW b \in Seq(V), NEW x \in V, NEW y \in V
  PROVE  Append(Append(b, x), y) = b \o <<x, y>>
<1>0. <<x>> \in Seq(V) /\ <<y>> \in Seq(V) /\ Append(<<x>>, y) = <<x, y>>
  <2>1. /\ <<x>> \in Seq(V) /\ <<y>> \in Seq(V) /\ <<x, y>> \in Seq(V)
        /\ Len(<<x>>) = 1 /\ Len(<<x, y>>) = 2 /\ <<x>>[1] = x /\ <<x, y>>[1] = x /\ <<x, y>>[2] = y
    OBVIOUS
  <2> DEFINE t == Append(<<x>>, y)
  <2>2. t \in Seq(V) /\ Len(t) = 2 /\ t[1] = x /\ t[2] = y
    BY <2>1, AppendProperties
  <2> HIDE DEF t
  <2>3. \A i \in 1 .. 2 : t[i] = <<x, y>>[i]
    BY <2>1, <2>2
  <2>4. t = <<x, y>>
    BY <2>1, <2>2, <2>3, SeqEqual
  <2> QED
    BY <2>1, <2>4 DEF t
<1>1. <<x>> \in Seq(V) /\ <<y>> \in Seq(V) /\ <<x>> \o <<y>> = <<x, y>>
  BY <1>0, AppendIsConcat
<1>2. Append(b, x) = b \o <<x>> /\ Append(b, x) \in Seq(V)
  BY AppendIsConcat, AppendProperties
<1>3. Append(Append(b, x), y) = Append(b, x) \o <<y>>
  BY <1>2, AppendIsConcat
<1>4. (b \o <<x>>) \o <<y>> = b \o (<<x>> \o <<y>>)
  BY <1>1, ConcatAssociative
<1> QED
  BY <1>1, <1>2, <1>3, <1>4, Zenon

\* The plan is followed, and changed on the way.
LEMMA PlanGoesOn ==
  ASSUME NEW V, NEW h, NEW o, NEW p, Route(V, h, o, <<>>, p), NEW f \in V, IsBlock(f),
         Consecutive(Along(h, o, <<>>, Append(p, f))),
         NEW b \in Seq(V), b # <<>>, \A i \in 1 .. Len(b) : IsBlock(b[i]),
         \A i \in 1 .. Len(b) - 1 : Follows(b[i], b[i + 1]),
         b[1].part = f.part, b[1].addr = f.addr
  PROVE  /\ Consecutive(Along(h, o, p, b))
         /\ \A G : FirstIn(Along(h, o, <<>>, Append(p, f)), G) /\ (f \in G => b[1] \in G)
                     => FirstIn(Along(h, o, p, b), G)
<1> DEFINE s == Along(h, o, p, <<>>)
<1>1. h \in Seq(V) /\ o \in Seq(V) /\ p \in Seq(V) /\ <<f>> \in Seq(V)
  BY DEF Route
<1>2. ASSUME NEW q \in Seq(V) PROVE s \in Seq(V) /\ Along(h, o, p, q) = s \o q
  <2>1. Route(V, h, o, p, q)
    BY <1>1 DEF Route
  <2> QED
    BY <2>1, RouteIs
<1>3. s \in Seq(V) /\ Along(h, o, p, b) = s \o b
  BY <1>2
<1>4. Along(h, o, p, <<f>>) = s \o <<f>>
  BY <1>1, <1>2, Zenon
<1>5. Along(h, o, <<>>, Append(p, f)) = Along(h, o, p, <<f>>)
  BY RoutePlan
<1> HIDE DEF s
<1>6. s \o <<f>> = Append(s, f)
  BY <1>3, AppendIsConcat
<1>7. Along(h, o, <<>>, Append(p, f)) = Append(s, f)
  BY <1>4, <1>5, <1>6, Zenon
<1>8. Consecutive(Append(s, f))
  BY <1>7
<1>9. /\ Consecutive(s \o b)
      /\ \A G : FirstIn(Append(s, f), G) /\ (f \in G => b[1] \in G) => FirstIn(s \o b, G)
  BY <1>3, <1>8, PathGoesOn
<1> QED
  BY <1>3, <1>7, <1>9

\* What every call of the loader does to the link.
LEMMA LoaderLink ==
  ASSUME FlInv, ImageInv, LoaderActs
  PROVE  /\ UNCHANGED <<target, at, peer, rxFifo, pbuf, flash, eeprom, lastReset, session, fileSize, sessions>>
         /\ transfer.kind = "none" /\ sendQueue = <<>> /\ pc \notin Ended /\ sessions # 0
         /\ Heard' = Heard /\ Listening' = Listening
         /\ mode' = Mode(transfer'.kind)
         /\ outgoing' = IF mode' = mode THEN outgoing ELSE <<>>
<1>1. transfer.kind = "none" /\ pc \notin Ended /\ UNCHANGED <<session, fileSize, sessions>>
  BY DEF LoaderActs, LoaderCalls, At, Executes, files, Ended,
         Ping, Pinged, Hello, AwaitHello, HelloAnswered, Partitions, Restore, QueueBlock,
         QueueLastAgain, BatchFull, NothingQueued, WriteSome, Pad, Restored, Save, SaveRead,
         SaveSome, Verify, VerifyRead, VerifySome, Run, Ran
<1>2. sendQueue = <<>>
  BY <1>1 DEF FlInv, ConvInv, Links
<1>3. sessions # 0
  BY <1>1 DEF ImageInv, ModeInv, Ended
<1>4. UNCHANGED <<target, at, peer, rxFifo, pbuf, flash, eeprom, lastReset>>
  BY DEF LoaderActs, target, memory, fifos
<1> QED
  BY <1>1, <1>2, <1>3, <1>4 DEF LoaderActs, Heard, Listening

\* As long as nothing is written, no block is on its way.
LEMMA NotYetLoader ==
  ASSUME FlInv, FlInv', ImageInv, LoaderActs, pc \in NotYet
  PROVE  PathInv' /\ ModeInv'
<1>0. /\ NoneYet /\ transfer.kind = "none" /\ sendQueue = <<>> /\ sessions' # 0
      /\ Heard' = Heard /\ mode' = Mode(transfer'.kind)
      /\ outgoing' = (IF mode' = mode THEN outgoing ELSE <<>>)
      /\ Links' /\ TypeInv'
  BY LoaderLink DEF ImageInv, ModeInv, FlInv, ConvInv
<1>1. ASSUME "WRITE" \notin Ops(sendQueue') PROVE NoneYet'
  BY <1>0, <1>1, OpsEmpty DEF NoneYet
<1>2. ASSUME "WRITE" \notin Ops(sendQueue'), pc' \notin Writing,
             pc' \in Working => mode' \in {"READ", "BULK"} /\ (mode' = "READ" => outgoing' = <<>>)
      PROVE  PathInv' /\ ModeInv'
  <2>1. NoneYet' /\ Plan' = <<>>
    BY <1>1, <1>2 DEF Plan
  <2>2. (TypeInv /\ NoneYet /\ Plan = <<>> => PathInv)'
    BY NonePathNext
  <2>3. PathInv'
    BY <1>0, <2>1, <2>2
  <2>4. pc' # "pad"
    BY <1>2 DEF Writing
  <2> QED
    BY <1>0, <1>2, <2>1, <2>3, <2>4 DEF ModeInv, NoneYet
<1>3. pc \in Working => mode \in {"READ", "BULK"} /\ (mode = "READ" => outgoing = <<>>)
  BY DEF ImageInv, ModeInv
<1>4. CASE Ping \/ Hello
  <2>1. /\ pc' \in {"pinged", "helloSent"}
        /\ sendQueue' = <<[op |-> "NOP"]>> \/ sendQueue' = <<[op |-> "HELLO"]>>
    BY <1>4 DEF Ping, Hello, Executes, Write
  <2>2. "WRITE" \notin Ops(sendQueue')
    BY <2>1, OpsOne
  <2> QED
    BY <1>2, <2>1, <2>2 DEF Working, Writing
<1>5. CASE Pinged \/ AwaitHello \/ HelloAnswered
  <2>1. pc' \in {"hello", "ping", "helloAnswered", "failed", "partitions", "misled"} /\ sendQueue' = <<>>
    BY <1>0, <1>5 DEF Pinged, AwaitHello, HelloAnswered, Executes, Read, io
  <2> QED
    BY <1>2, <2>1, OpsEmpty DEF Working, Writing
<1>6. CASE Partitions
  <2>1. /\ pc = "partitions" /\ UNCHANGED io /\ pc' \in {"failed", "misled", Work(1, FALSE)}
    BY <1>6 DEF Partitions, At
  <2>2. pc' \notin Writing
    <3>1. 1 \in 1 .. 4
      OBVIOUS
    <3>2. Work(1, FALSE) \in {"save", "restore", "verify", "run", "done"}
      BY <3>1, WorkIs
    <3> QED
      BY <2>1, <3>2 DEF Writing
  <2>3. mode = "READ" /\ outgoing = <<>>
    BY <2>1 DEF FlInv, ConvInv, GreetingInv, Greeting
  <2>4. mode' = "READ" /\ outgoing' = <<>> /\ sendQueue' = <<>>
    BY <1>0, <2>1, <2>3, ModeOf DEF io
  <2> QED
    BY <1>2, <2>2, <2>4, OpsEmpty
<1>7. CASE Save \/ SaveRead
  <2>1. /\ pc \in Working /\ pc' \in {"saveRead", "saveSome"}
        /\ (sendQueue' = ReadCommand(currentPart.size) /\ transfer'.kind = "bulkSync")
           \/ (sendQueue' = <<>> /\ transfer'.kind = "read")
    BY <1>7 DEF Save, SaveRead, Executes, At, Write, Read, ReadCommand, Working
  <2>2. "WRITE" \notin Ops(sendQueue')
    BY <2>1, OpsOne, OpsEmpty DEF ReadCommand
  <2>3. mode' \in {"READ", "BULK"} /\ (mode' = "READ" => outgoing' = <<>>)
    BY <1>0, <1>3, <2>1, ModeOf
  <2> QED
    BY <1>2, <2>1, <2>2, <2>3 DEF Writing
<1>8. CASE SaveSome
  <2>1. pc \in Working /\ UNCHANGED io /\ pc' \in {"misled", "saveRead", Work(2, FALSE)}
    BY <1>8 DEF SaveSome, At, Working
  <2>2. pc' \notin Writing
    <3>1. 2 \in 1 .. 4
      OBVIOUS
    <3>2. Work(2, FALSE) \in {"save", "restore", "verify", "run", "done"}
      BY <3>1, WorkIs
    <3> QED
      BY <2>1, <3>2 DEF Writing
  <2>3. mode' = mode /\ sendQueue' = <<>>
    BY <1>0, <2>1, ModeOf DEF io
  <2> QED
    BY <1>0, <1>2, <1>3, <2>1, <2>2, <2>3, OpsEmpty
<1>9. CASE Restore
  <2>1. /\ pc = "restore" /\ pc \in Working /\ UNCHANGED io /\ pc' = "readSome"
        /\ batch' = <<>> /\ addr' = 0 /\ UNCHANGED <<buffer, ptable>>
    BY <1>9 DEF Restore, At, Working
  <2>2. mode' = mode /\ sendQueue' = <<>> /\ outgoing' = outgoing
    BY <1>0, <2>1, ModeOf DEF io
  <2>3. NoneYet'
    BY <1>1, <2>2, OpsEmpty
  <2>4. ModeInv'
    BY <1>0, <1>3, <2>1, <2>2, <2>3 DEF ModeInv, NoneYet
  <2> DEFINE f == WriteCommand(0, buffer)
  <2>5. /\ UNCHANGED <<fileSize, session, pbuf, lastReset>> /\ fileSize \in Nat
        /\ f \in Items /\ IsBlock(f) /\ f.addr = 0
    <3>1. 0 \in Nat /\ buffer \in Block /\ TypeInv
      BY DEF FlInv, TypeInv, CursorTypes
    <3> QED
      BY <2>1, <3>1, WriteCommandIs, LoaderLink, ItemsAre DEF Items
  <2>6. Plan' = Append(<<>>, f)
    BY <2>1, <2>5 DEF Plan, Writing, WriteCommand, currentPartId
  <2>7. Append(<<>>, f) = <<f>>
    OBVIOUS
  <2>8. f \in Ready
    <3>1. Rest(0, SPM_PAGESIZE) = 0
      BY Sizes DEF Rest
    <3>2. \A x \in 0 .. Rest(0, SPM_PAGESIZE) - 1 : FALSE
      BY <3>1
    <3> QED
      BY <2>5, <3>2 DEF Ready, PageReady
  <2> HIDE DEF f
  <2> DEFINE q == Along(Heard, outgoing, <<>>, <<>>)
  <2>9. Route(Items, Heard, outgoing, <<>>, <<f>>)
    <3>1. Route(Items, Heard, outgoing, sendQueue, Plan)
      BY RouteNow DEF FlInv
    <3> QED
      BY <2>5, <3>1, EmptySeq DEF Route
  <2>10. q \in Seq(Items) /\ Along(Heard, outgoing, <<>>, <<f>>) = q \o <<f>> /\ NoBlocks(q)
    <3>1. "WRITE" \notin Ops(Heard) \cup Ops(outgoing) \cup Ops(<<>>)
      BY <1>0, OpsEmpty DEF NoneYet
    <3>2. q \in Seq(Items) /\ Along(Heard, outgoing, <<>>, <<f>>) = q \o <<f>>
      <4>1. ASSUME NEW t, Route(Items, Heard, outgoing, <<>>, t)
            PROVE  q \in Seq(Items) /\ Along(Heard, outgoing, <<>>, t) = q \o t
        BY <4>1, RouteIs
      <4> QED
        BY <2>9, <4>1, Zenon
    <3>3. NoBlocks(q)
      BY <2>9, <3>1, RouteNone
    <3> QED
      BY <3>2, <3>3
  <2> HIDE DEF q
  <2>11. q \o <<f>> = Append(q, f)
    BY <2>5, <2>10, AppendIsConcat
  <2>12. Consecutive(Append(q, f)) /\ \A G : f \in G => FirstIn(Append(q, f), G)
    BY <2>5, <2>10, PathWithout
  <2>13. Path' = Append(q, f)
    BY <1>0, <2>2, <2>6, <2>7, <2>10, <2>11 DEF Path
  <2>14. Ready' = Ready
    BY <2>5, ReadySame
  <2> QED
    BY <2>4, <2>8, <2>12, <2>13, <2>14 DEF PathInv
<1> QED
  BY <1>4, <1>5, <1>6, <1>7, <1>8, <1>9
     DEF LoaderActs, LoaderCalls, NotYet, Waiting, Greeting, At,
         QueueBlock, QueueLastAgain, BatchFull, NothingQueued, WriteSome, Pad, Restored,
         Verify, VerifyRead, VerifySome, Run, Ran, Executes

\* While something is written, or after.
Later == Working \ NotYet

LEMMA LaterMode ==
  ASSUME FlInv, FlInv', ImageInv, LoaderActs, pc \in Later,
         \/ UNCHANGED io
         \/ \E kind \in {"bulk", "bulkSync"} : \E packets : Write(kind, packets)
         \/ \E n : Read(n),
         pc' \in Later \cup Ended, pc' = "pad" => batch' = <<>>
  PROVE  /\ ModeInv'
         /\ (\E n : Read(n)) \/ outgoing' = outgoing
         /\ outgoing' \in {outgoing, <<>>}
<1>0. /\ transfer.kind = "none" /\ sendQueue = <<>> /\ sessions' # 0
      /\ mode' = Mode(transfer'.kind)
      /\ outgoing' = (IF mode' = mode THEN outgoing ELSE <<>>)
  BY LoaderLink
<1>1. mode \in {"READ", "BULK"} /\ (mode = "READ" => outgoing = <<>>)
      /\ (mode # "BULK" => "WRITE" \notin Ops(outgoing))
  BY DEF ImageInv, ModeInv, Later
<1>2. pc' \notin NotYet
  BY DEF Later, Ended, NotYet, Waiting, Greeting
<1>3. /\ mode' \in {"READ", "BULK"} /\ (mode' = "READ" => outgoing' = <<>> /\ sendQueue' = <<>>)
      /\ (\E n : Read(n)) \/ outgoing' = outgoing
  <2>1. CASE UNCHANGED io
    BY <1>0, <1>1, <2>1, ModeOf DEF io
  <2>2. CASE \E kind \in {"bulk", "bulkSync"} : \E packets : Write(kind, packets)
    <3>1. \/ sendQueue' = <<>> /\ transfer'.kind = "none"
          \/ transfer'.kind \in {"bulk", "bulkSync"}
      BY <2>2 DEF Write
    <3> QED
      BY <1>0, <1>1, <3>1, ModeOf
  <2>3. CASE \E n : Read(n)
    <3>1. sendQueue' = <<>> /\ transfer'.kind = "read"
      BY <2>3 DEF Read
    <3> QED
      BY <1>0, <1>1, <2>3, <3>1, ModeOf
  <2> QED
    BY <2>1, <2>2, <2>3
<1>4. ModeInv'
  BY <1>0, <1>2, <1>3, OpsEmpty DEF ModeInv
<1> QED
  BY <1>0, <1>3, <1>4

\* The calls that put nothing on the way.
LEMMA QuietLoader ==
  ASSUME FlInv, FlInv', ImageInv, LoaderActs, pc \in Later,
         BatchFull \/ NothingQueued \/ Restored \/ Ran \/ VerifyRead \/ VerifySome
  PROVE  /\ PathInv' /\ ModeInv'
         /\ outgoing' \in {outgoing, <<>>} /\ (outgoing' = outgoing => Path' = Path)
         /\ BatchFull \/ NothingQueued \/ Restored \/ Ran => outgoing' = outgoing
<1>0. /\ PathInv /\ TypeInv /\ sendQueue = <<>> /\ Heard' = Heard /\ Listening' = Listening
      /\ UNCHANGED <<pbuf, lastReset, fileSize, session>>
  BY LoaderLink DEF ImageInv, FlInv
<1>1. Route(Items, Heard, outgoing, sendQueue, Plan)
  BY <1>0, RouteNow
<1>2. CASE BatchFull \/ NothingQueued
  <2>1. /\ pc = "readSome" /\ pc' \in {"writeSome", "pad"} /\ (pc' = "pad" => batch = <<>>)
        /\ UNCHANGED <<ptable, addr, buffer, batch, io, sendQueue>>
    BY <1>2 DEF BatchFull, NothingQueued, At, cursor, io
  <2>2. pc' \in Later
    BY <2>1 DEF Later, Working, NotYet, Waiting, Greeting
  <2>3. ModeInv' /\ outgoing' = outgoing
    <3>1. ~\E n : Read(n)
      <4>1. transfer'.kind = "none"
        BY <2>1, LoaderLink DEF io
      <4> QED
        BY <4>1 DEF Read
    <3>2. pc' \in Later \cup Ended /\ (pc' = "pad" => batch' = <<>>)
      BY <2>1, <2>2
    <3> QED
      BY <2>1, <3>1, <3>2, LaterMode
  <2>4. Plan' = Plan
    BY <1>0, <2>1 DEF Plan, Writing, WriteCommand, currentPartId
  <2>5. Path' = Path
    BY <1>0, <2>1, <2>3, <2>4 DEF Path
  <2> QED
    BY <1>0, <1>2, <2>3, <2>5, SamePath
<1>3. CASE Restored \/ Ran \/ VerifyRead \/ VerifySome
  <2>1. Work(3, FALSE) \in {"verify", "run", "done"} /\ \A failed : Work(4, failed) \in {"verify", "run", "done"}
    BY WorkLater
  <2>2. /\ pc \notin Writing /\ pc' \in {"verify", "run", "done", "verifySome", "misled"}
        /\ UNCHANGED io \/ \E n : Read(n)
    BY <1>3, <2>1 DEF Restored, Ran, VerifyRead, VerifySome, At, Executes, Writing
  <2>3. pc' \in Later \cup Ended /\ pc' # "pad" /\ pc' \notin Writing
    BY <2>2 DEF Later, Working, Ended, NotYet, Waiting, Greeting, Writing
  <2>4. ModeInv' /\ outgoing' \in {outgoing, <<>>}
    BY <2>2, <2>3, LaterMode
  <2>5. Restored \/ Ran => outgoing' = outgoing
    <3>1. Restored \/ Ran => transfer'.kind = transfer.kind
      BY DEF Restored, Ran, io
    <3>2. transfer.kind = "none" /\ mode' = Mode(transfer'.kind)
          /\ outgoing' = IF mode' = mode THEN outgoing ELSE <<>>
      BY LoaderLink
    <3> QED
      BY <3>1, <3>2, ModeOf
  <2>6. pc \notin Writing => ~(BatchFull \/ NothingQueued)
    BY DEF BatchFull, NothingQueued, At, Writing
  <2>7. Plan = <<>> /\ Plan' = <<>> /\ sendQueue' = <<>>
    BY <1>0, <2>2, <2>3 DEF Plan, io, Read
  <2>8. CASE outgoing' = outgoing
    <3>1. Path' = Path
      BY <1>0, <2>7, <2>8 DEF Path
    <3> QED
      BY <1>0, <2>4, <2>8, <3>1, SamePath
  <2>9. CASE outgoing' = <<>>
    <3>1. Route(Items, Heard, <<>>, outgoing, <<>>)
      BY <1>1, <2>7, EmptySeq DEF Route
    <3>2. outgoing' = outgoing => Path' = Path
      BY <1>0, <2>7 DEF Path
    <3>3. Path = Along(Heard, <<>>, outgoing, <<>>)
      <4>1. outgoing \o (<<>> \o <<>>) = <<>> \o (outgoing \o <<>>)
        <5>1. \A s \in Seq(Items) : s \o <<>> = s /\ <<>> \o s = s
          BY ConcatEmptySeq
        <5>2. outgoing \in Seq(Items) /\ <<>> \in Seq(Items)
          BY <1>1, EmptySeq DEF Route
        <5> QED
          BY <5>1, <5>2, Zenon
      <4> QED
        BY <1>0, <2>7, <4>1, Zenon DEF Path, Along
    <3>4. Path' = Along(Heard, <<>>, <<>>, <<>>)
      BY <1>0, <2>7, <2>9 DEF Path
    <3>5. /\ Consecutive(Path')
          /\ \A G : FirstIn(Path, G) => FirstIn(Path', G)
      BY <1>0, <3>1, <3>3, <3>4, RouteFewer DEF PathInv
    <3> QED
      BY <1>0, <2>2, <2>4, <2>5, <2>6, <3>5, <3>2, ReadySame DEF PathInv
  <2> QED
    BY <2>2, <2>4, <2>8, <2>9, <2>6
<1> QED
  BY <1>2, <1>3

\* A command behind the blocks.
LEMMA CommandLoader ==
  ASSUME FlInv, FlInv', ImageInv, LoaderActs, pc \in Later, Verify \/ Run
  PROVE  /\ PathInv' /\ ModeInv'
         /\ \E e \in Items : ~IsBlock(e) /\ Path' = Append(Path, e) /\ (Verify => e.op = "READ")
<1>0. /\ PathInv /\ TypeInv /\ sendQueue = <<>> /\ Heard' = Heard /\ Listening' = Listening
      /\ UNCHANGED <<pbuf, lastReset, fileSize, session>>
  BY LoaderLink DEF ImageInv, FlInv
<1> DEFINE e == Head(sendQueue')
<1>1. /\ pc \in {"verify", "run"} /\ pc' \in {"verifyRead", "ran"}
      /\ \E packets : Write("bulkSync", packets)
      /\ sendQueue' = <<e>> /\ e.op \in {"READ", "BOOT"}
  BY DEF Verify, Run, Executes, At, Write, ReadCommand
<1>2. pc' \in Later /\ pc' # "pad" /\ Plan = <<>> /\ Plan' = <<>>
  BY <1>1 DEF Later, Working, NotYet, Waiting, Greeting, Plan, Writing
<1>3. ModeInv' /\ outgoing' = outgoing
  <2>1. \E kind \in {"bulk", "bulkSync"} : \E packets : Write(kind, packets)
    BY <1>1
  <2>2. ~\E n : Read(n)
    <3>1. \A n : Read(n) => sendQueue' = <<>>
      BY DEF Read
    <3>2. sendQueue' # <<>>
      BY <1>1
    <3> QED
      BY <3>1, <3>2
  <2> QED
    BY <1>2, <2>1, <2>2, LaterMode
<1>4. e \in Items /\ ~IsBlock(e)
  <2>1. sendQueue' \in Seq(Commands(fileSize))
    BY <1>0 DEF FlInv, TypeInv, PacketTypes
  <2>2. e \in Commands(fileSize)
    <3>1. sendQueue' # <<>>
      BY <1>1
    <3> QED
      BY <2>1, <3>1, TailFacts
  <2> QED
    BY <1>1, <2>2 DEF Items, IsBlock
<1>5. Verify => e.op = "READ"
  BY DEF Verify, Write, ReadCommand
<1> HIDE DEF e
<1>6. Route(Items, Heard, outgoing, <<>>, <<>>) /\ Path = Along(Heard, outgoing, <<>>, <<>>)
  BY <1>0, <1>2, RouteNow DEF Path
<1>7. Path' = Along(Heard, outgoing, <<e>>, <<>>)
  BY <1>0, <1>1, <1>2, <1>3 DEF Path
<1>8. Path \in Seq(Items)
  BY <1>6, RouteIs
<1>9. Along(Heard, outgoing, <<e>>, <<>>) = Append(Path, e)
  <2>1. ASSUME NEW t \in Seq(Items)
        PROVE  /\ Along(Heard, outgoing, <<>>, t) = Along(Heard, outgoing, <<>>, <<>>) \o t
               /\ Along(Heard, outgoing, t, <<>>) = Along(Heard, outgoing, <<>>, t)
    <3>1. Route(Items, Heard, outgoing, <<>>, t)
      BY <1>6 DEF Route
    <3>2. Along(Heard, outgoing, <<>>, t) = Along(Heard, outgoing, <<>>, <<>>) \o t
      BY <3>1, RouteIs
    <3>3. Along(Heard, outgoing, t, <<>>) = Along(Heard, outgoing, <<>>, t)
      BY <1>4, <3>1, RoutePlan
    <3> QED
      BY <3>2, <3>3
  <2>2. <<e>> \in Seq(Items)
    BY <1>4
  <2>3. Path \o <<e>> = Append(Path, e)
    BY <1>4, <1>8, AppendIsConcat
  <2>4. /\ Along(Heard, outgoing, <<>>, <<e>>) = Along(Heard, outgoing, <<>>, <<>>) \o <<e>>
        /\ Along(Heard, outgoing, <<e>>, <<>>) = Along(Heard, outgoing, <<>>, <<e>>)
    BY <2>1, <2>2, Zenon
  <2> QED
    BY <1>6, <2>3, <2>4, Zenon
<1>10. Consecutive(Append(Path, e)) /\ \A G : FirstIn(Path, G) => FirstIn(Append(Path, e), G)
  BY <1>0, <1>4, <1>8, PathEnd DEF PathInv
<1>11. Ready' = Ready
  BY <1>0, ReadySame
<1>12. PathInv'
  BY <1>0, <1>7, <1>9, <1>10, <1>11 DEF PathInv
<1> QED
  BY <1>3, <1>4, <1>7, <1>9, <1>12, <1>5

\* The padding goes on where the file ends.
LEMMA PadsFollow ==
  ASSUME FlInv, pc = "pad", PadBlocks # <<>>
  PROVE  /\ PadBlocks \in Seq(Items) /\ \A i \in 1 .. Len(PadBlocks) : IsBlock(PadBlocks[i])
         /\ \A i \in 1 .. Len(PadBlocks) - 1 : Follows(PadBlocks[i], PadBlocks[i + 1])
         /\ PadBlocks[1].part = currentPartId /\ PadBlocks[1].addr = addr
<1>0. /\ PadBlocks \in Seq(Writes(fileSize)) /\ addr \in Nat /\ Len(PadBlocks) \in Nat
      /\ DOMAIN PadBlocks = 1 .. Len(PadBlocks)
  BY PadsAreWrites, LenProperties DEF FlInv, TypeInv, CursorTypes
<1> DEFINE l == Len(PadBlocks)
<1>1. PadBlocks \in Seq(Items) /\ \A i \in 1 .. l : IsBlock(PadBlocks[i])
  <2>1. Writes(fileSize) \subseteq Items
    BY DEF Items, Commands
  <2>2. PadBlocks \in Seq(Items)
    <3> DEFINE W == Writes(fileSize)
               B == PadBlocks
    <3>1. B \in Seq(W) /\ W \subseteq Items
      BY <1>0, <2>1
    <3> HIDE DEF W, B
    <3>2. B \in Seq(Items)
      BY <3>1, SeqMonotonic
    <3> QED
      BY <3>2 DEF B
  <2>3. \A i \in 1 .. l : PadBlocks[i] \in Writes(fileSize)
    BY <1>0, ElementOfSeq
  <2> QED
    BY <2>2, <2>3 DEF Writes, IsBlock
<1> DEFINE n == (currentPart.pad - (addr % currentPart.pad)) \div IOSIZE
           block(i) == PadBlock(addr + (i - 1) * IOSIZE)
<1>2. PadBlocks = [i \in 1 .. n |-> block(i)]
  BY DEF PadBlocks
<1> HIDE DEF n
<1>3. \A i \in 1 .. l : PadBlocks[i].part = currentPartId /\ PadBlocks[i].addr = addr + (i - 1) * IOSIZE
  <2>1. DOMAIN PadBlocks = 1 .. n
    BY <1>2
  <2>2. \A i \in 1 .. l : PadBlocks[i] = block(i)
    BY <1>0, <1>2, <2>1
  <2>3. \A i \in 1 .. l : block(i).part = currentPartId /\ block(i).addr = addr + (i - 1) * IOSIZE
    BY DEF PadBlock, WriteCommand
  <2> QED
    BY <2>2, <2>3
<1>4. l \in Nat /\ l > 0
  BY <1>1, TailFacts
<1> HIDE DEF l, block
<1>5. ASSUME NEW i \in 1 .. l - 1 PROVE Follows(PadBlocks[i], PadBlocks[i + 1])
  <2>1. i \in 1 .. l /\ i + 1 \in 1 .. l /\ i \in Int
    BY <1>4
  <2>2. addr + ((i + 1) - 1) * IOSIZE = (addr + (i - 1) * IOSIZE) + IOSIZE
    <3>1. ((i + 1) - 1) * IOSIZE = (i - 1) * IOSIZE + IOSIZE
      BY <2>1, Sizes
    <3> DEFINE x == (i - 1) * IOSIZE
    <3>2. x \in Int
      BY <2>1, Sizes
    <3> HIDE DEF x
    <3>3. addr + (x + IOSIZE) = (addr + x) + IOSIZE
      BY <1>0, <3>2, Sizes
    <3> QED
      BY <3>1, <3>3 DEF x
  <2>3. PadBlocks[i + 1].addr = PadBlocks[i].addr + IOSIZE /\ PadBlocks[i + 1].part = PadBlocks[i].part
    BY <1>3, <2>1, <2>2
  <2> QED
    BY <2>3 DEF Follows
<1>6. addr + (1 - 1) * IOSIZE = addr
  BY <1>0, Sizes
<1>7. 1 \in 1 .. l
  BY <1>4
<1> QED
  BY <1>1, <1>3, <1>5, <1>6, <1>7 DEF l

\* Whether a block belongs to the set is a matter of where it goes.
OfPlaces(G) ==
  \A c \in Items : IsBlock(c) /\ c \in G =>
    \A d \in Items : IsBlock(d) /\ d.part = c.part /\ d.addr = c.addr => d \in G

\* The calls that read, queue and hand over blocks.
LEMMA WritingLoader ==
  ASSUME FlInv, FlInv', ImageInv, LoaderActs, pc \in Later,
         QueueBlock \/ QueueLastAgain \/ WriteSome \/ Pad
  PROVE  /\ PathInv' /\ ModeInv'
         /\ \A G : OfPlaces(G) /\ FirstIn(Path, G) => FirstIn(Path', G)
<1>0. /\ PathInv /\ TypeInv /\ sendQueue = <<>> /\ Heard' = Heard /\ Listening' = Listening
      /\ transfer.kind = "none" /\ UNCHANGED <<pbuf, lastReset, fileSize, session>>
  BY LoaderLink DEF ImageInv, FlInv
<1> DEFINE f == WriteCommand(addr, buffer)
<1>1. /\ pc \in {"readSome", "writeSome", "pad"} /\ pc \in Working /\ ptable' = ptable
      /\ pc' \in {"readSome", "writeSome", "restored"}
  BY DEF QueueBlock, QueueLastAgain, WriteSome, Pad, At, Working
<1>2. pc' \in Later /\ pc' # "pad" /\ currentPartId' = currentPartId
  BY <1>0, <1>1 DEF Later, Working, NotYet, Waiting, Greeting, currentPartId
<1>3. /\ addr \in Nat /\ f \in Items /\ IsBlock(f) /\ f.part = currentPartId /\ f.addr = addr
      /\ batch \in Seq(Items) /\ buffer \in Block
  <2>1. addr \in Nat /\ buffer \in Block
    BY <1>0 DEF TypeInv, CursorTypes
  <2> QED
    BY <1>0, <1>1, <2>1, WriteCommandIs, ItemsAre DEF Items
<1>4. Plan = Append(batch, f)
  BY <1>1 DEF Plan, Writing
<1> HIDE DEF f
<1>5. /\ Path = Along(Heard, outgoing, <<>>, Append(batch, f))
      /\ Route(Items, Heard, outgoing, <<>>, batch)
      /\ Consecutive(Path) /\ (Listening => FirstIn(Path, Ready))
  BY <1>0, <1>3, <1>4, RouteNow DEF Path, Route, PathInv
<1>6. Ready' = Ready
  BY <1>0, ReadySame
<1>7. ModeInv' /\ outgoing' = outgoing
  <2>1. \/ UNCHANGED io
        \/ \E kind \in {"bulk", "bulkSync"} : \E packets : Write(kind, packets)
    BY DEF QueueBlock, QueueLastAgain, WriteSome, Pad
  <2>2. ~\E n : Read(n)
    <3>1. transfer'.kind # "read"
      BY <1>0, <2>1 DEF io, Write
    <3> QED
      BY <3>1 DEF Read
  <2> QED
    BY <1>2, <2>1, <2>2, LaterMode
\* What comes instead of the block that was planned.
<1>8. ASSUME NEW b \in Seq(Items), b # <<>>, \A i \in 1 .. Len(b) : IsBlock(b[i]),
             \A i \in 1 .. Len(b) - 1 : Follows(b[i], b[i + 1]),
             b[1].part = f.part, b[1].addr = f.addr,
             Path' = Along(Heard, outgoing, batch, b)
      PROVE  PathInv' /\ \A G : OfPlaces(G) /\ FirstIn(Path, G) => FirstIn(Path', G)
  <2>1. b[1] \in Items /\ IsBlock(b[1])
    <3>1. Head(b) \in Items /\ Head(b) = b[1] /\ Len(b) \in Nat /\ Len(b) > 0
      BY <1>8, TailFacts
    <3>2. 1 \in 1 .. Len(b)
      BY <3>1
    <3> QED
      BY <1>8, <3>1, <3>2
  <2>2. f \in Ready => b[1] \in Ready
    BY <1>8, <2>1 DEF Ready
  <2>3. Consecutive(Along(Heard, outgoing, <<>>, Append(batch, f)))
    BY <1>5
  <2>4. /\ Consecutive(Along(Heard, outgoing, batch, b))
        /\ \A G : FirstIn(Along(Heard, outgoing, <<>>, Append(batch, f)), G) /\ (f \in G => b[1] \in G)
                    => FirstIn(Along(Heard, outgoing, batch, b), G)
    BY <1>3, <1>5, <1>8, <2>3, PlanGoesOn
  <2>5. Listening => FirstIn(Path', Ready)
    BY <1>5, <1>8, <2>2, <2>4
  <2>6. ASSUME NEW G, OfPlaces(G), FirstIn(Path, G) PROVE FirstIn(Path', G)
    <3>1. f \in G => b[1] \in G
      BY <1>3, <1>8, <2>1, <2>6 DEF OfPlaces
    <3> QED
      BY <1>5, <1>8, <2>4, <2>6, <3>1
  <2> QED
    BY <1>0, <1>6, <1>8, <2>4, <2>5, <2>6 DEF PathInv
\* Two blocks instead of one.
<1>9. ASSUME NEW x \in Items, NEW y \in Items, IsBlock(x), IsBlock(y), Follows(x, y),
             x.part = f.part, x.addr = f.addr, sendQueue' = <<>>,
             Plan' = Append(Append(batch, x), y)
      PROVE  PathInv' /\ \A G : OfPlaces(G) /\ FirstIn(Path, G) => FirstIn(Path', G)
  <2> DEFINE b == <<x, y>>
  <2>1. /\ b \in Seq(Items) /\ b # <<>> /\ Len(b) = 2 /\ b[1] = x /\ b[2] = y
    OBVIOUS
  <2>2. Append(Append(batch, x), y) = batch \o b
    BY <1>3, AppendTwo
  <2> HIDE DEF b
  <2>3. Path' = Along(Heard, outgoing, <<>>, batch \o b)
    BY <1>0, <1>7, <1>9, <2>2 DEF Path
  <2>4. batch \o b = <<>> \o (batch \o b)
    <3>1. batch \o b \in Seq(Items)
      BY <1>3, <2>1, ConcatProperties
    <3> QED
      BY <3>1, ConcatEmptySeq
  <2>5. Path' = Along(Heard, outgoing, batch, b)
    BY <2>3, <2>4, Zenon DEF Along
  <2>6. (\A i \in 1 .. Len(b) : IsBlock(b[i])) /\ \A i \in 1 .. Len(b) - 1 : Follows(b[i], b[i + 1])
    <3>1. (\A i \in 1 .. Len(b) : i = 1 \/ i = 2) /\ \A i \in 1 .. Len(b) - 1 : i = 1 /\ i + 1 = 2
      BY <2>1
    <3> QED
      BY <1>9, <2>1, <3>1
  <2> QED
    BY <1>8, <1>9, <2>1, <2>5, <2>6
<1>10. CASE QueueBlock
  <2> DEFINE x == WriteCommand(addr, FileBlock)
             y == WriteCommand(addr + IOSIZE, FileBlock)
  <2>1. /\ pc = "readSome" /\ Remaining > 0 /\ UNCHANGED io
        /\ batch' = Append(batch, x) /\ addr' = addr + IOSIZE /\ buffer' = FileBlock
        /\ pc' \in {"writeSome", "readSome"}
    BY <1>10 DEF QueueBlock, At
  <2>2. FileBlock \in Block /\ addr + IOSIZE \in Nat
    BY <1>3, <2>1, FileBlockIs, Sizes
  <2>3. /\ x \in Items /\ IsBlock(x) /\ x.part = currentPartId /\ x.addr = addr
        /\ y \in Items /\ IsBlock(y) /\ y.part = currentPartId /\ y.addr = addr + IOSIZE
    BY <1>0, <1>1, <1>3, <2>2, WriteCommandIs DEF Items
  <2>4. Plan' = Append(Append(batch, x), y)
    BY <1>2, <2>1 DEF Plan, Writing, WriteCommand
  <2> HIDE DEF x, y
  <2>5. sendQueue' = <<>> /\ Follows(x, y)
    BY <1>0, <2>1, <2>3 DEF io, Follows
  <2> QED
    BY <1>3, <1>7, <1>9, <2>3, <2>4, <2>5
<1>11. CASE QueueLastAgain
  <2>1. /\ UNCHANGED io /\ batch' = Append(batch, f) /\ UNCHANGED <<addr, buffer>> /\ pc' = "writeSome"
    BY <1>11 DEF QueueLastAgain, f
  <2>2. Plan' = Append(Append(batch, f), f)
    BY <1>2, <2>1 DEF Plan, Writing, WriteCommand, f
  <2>3. sendQueue' = <<>> /\ Follows(f, f)
    BY <1>0, <2>1 DEF io, Follows
  <2> QED
    BY <1>3, <1>7, <1>9, <2>2, <2>3
<1>12. CASE WriteSome
  <2>1. sendQueue' = batch /\ batch' = <<>> /\ UNCHANGED <<addr, buffer>> /\ pc' = "readSome"
    BY <1>12 DEF WriteSome, Write
  <2>2. Plan' = Append(<<>>, f)
    BY <1>2, <2>1 DEF Plan, Writing, WriteCommand, f
  <2>3. Append(<<>>, f) = <<f>>
    OBVIOUS
  <2>4. Along(Heard, outgoing, batch, <<f>>) = Along(Heard, outgoing, <<>>, Append(batch, f))
    BY <1>3, <1>5, RoutePlan
  <2>5. Path' = Path
    BY <1>0, <1>5, <1>7, <2>1, <2>2, <2>3, <2>4 DEF Path
  <2> QED
    BY <1>0, <1>7, <2>5, SamePath
<1>13. CASE Pad
  <2>1. pc = "pad" /\ pc' = "restored" /\ sendQueue' = PadBlocks /\ batch' = batch
    BY <1>13 DEF Pad, At, Write, cursor
  <2>2. batch = <<>> /\ Plan' = <<>>
    BY <2>1 DEF ImageInv, ModeInv, Plan, Writing
  <2>3. Path' = Along(Heard, outgoing, PadBlocks, <<>>)
    BY <1>0, <1>7, <2>1, <2>2 DEF Path
  <2>4. CASE PadBlocks = <<>>
    <3>1. Path' = Along(Heard, outgoing, <<>>, <<>>)
      BY <2>3, <2>4
    <3>2. Consecutive(Along(Heard, outgoing, <<>>, Append(batch, f)))
      BY <1>5
    <3>3. Route(Items, Heard, outgoing, <<>>, Append(batch, f))
      BY <1>3, <1>5, AppendProperties DEF Route
    <3>4. \A G : FirstIn(Path, G) => FirstIn(Path', G)
      BY <1>5, <3>1, <3>2, <3>3, RouteFewer
    <3> QED
      BY <1>0, <1>7, <3>1, <3>4, BackLost
  <2>5. CASE PadBlocks # <<>>
    <3> DEFINE b == PadBlocks
    <3>1. /\ b \in Seq(Items) /\ b # <<>> /\ \A i \in 1 .. Len(b) : IsBlock(b[i])
          /\ \A i \in 1 .. Len(b) - 1 : Follows(b[i], b[i + 1])
          /\ b[1].part = currentPartId /\ b[1].addr = addr
      BY <2>1, <2>5, PadsFollow
    <3> HIDE DEF b
    <3>2. Route(Items, Heard, outgoing, <<>>, b)
      BY <1>5, <3>1 DEF Route
    <3>3. Along(Heard, outgoing, b, <<>>) = Along(Heard, outgoing, <<>>, b)
      BY <3>2, RoutePlan
    <3>4. Path' = Along(Heard, outgoing, batch, b)
      BY <2>2, <2>3, <3>3 DEF b
    <3> QED
      BY <1>3, <1>7, <1>8, <3>1, <3>4
  <2> QED
    BY <1>7, <2>4, <2>5
<1> QED
  BY <1>10, <1>11, <1>12, <1>13

LEMMA LoaderPath ==
  ASSUME FlInv, FlInv', ImageInv, LoaderActs
  PROVE  PathInv' /\ ModeInv'
<1>1. CASE pc \in NotYet
  BY <1>1, NotYetLoader
<1>2. CASE pc \notin NotYet
  <2>1. pc \in Later
    BY <1>2, LoaderLink DEF FlInv, TypeInv, ProgramTypes, Later, NotYet
  <2>2. \/ QueueBlock \/ QueueLastAgain \/ WriteSome \/ Pad
        \/ BatchFull \/ NothingQueued \/ Restored \/ Ran \/ VerifyRead \/ VerifySome
        \/ Verify \/ Run
    BY <1>2 DEF LoaderActs, LoaderCalls, NotYet, Waiting, Greeting, At, Executes,
                Ping, Pinged, Hello, AwaitHello, HelloAnswered, Partitions, Restore, Save, SaveRead, SaveSome
  <2> QED
    BY <2>1, <2>2, WritingLoader, QuietLoader, CommandLoader
<1> QED
  BY <1>1, <1>2

-----------------------------------------------------------------------------
(***************************************************************************)
(* A block arrives.                                                        *)
(***************************************************************************)
\* What a block makes of the page buffer.
LEMMA PatchPage ==
  ASSUME NEW mem \in [0 .. SPM_PAGESIZE - 1 -> Int], NEW first \in Int, NEW data \in Seq(Int)
  PROVE  /\ Patch(mem, first, data) \in [0 .. SPM_PAGESIZE - 1 -> Int]
         /\ \A o \in 0 .. SPM_PAGESIZE - 1 : Patch(mem, first, data)[o] =
              IF first <= o /\ o < first + Len(data) THEN data[o - first + 1] ELSE mem[o]
<1> DEFINE e == SPM_PAGESIZE - 1
<1>1. e \in Nat /\ mem \in [0 .. e -> Int]
  BY Sizes
<1> HIDE DEF e
<1>2. /\ Patch(mem, first, data) \in [0 .. e -> Int]
      /\ \A o \in 0 .. e : Patch(mem, first, data)[o] =
           IF first <= o /\ o < first + Len(data) THEN data[o - first + 1] ELSE mem[o]
  BY <1>1, PatchIs
<1> QED
  BY <1>2 DEF e

\* The page buffer with a block whose page is ready for it.
LEMMA BufferFilled ==
  ASSUME TypeInv, NEW c \in Writes(fileSize), c.part = 2, NEW m,
         \A o \in 0 .. Rest(c.addr, SPM_PAGESIZE) - 1 :
           PageOf(c.addr) + o < fileSize /\ PageOf(c.addr) + o < BLDADDR
             => pbuf[o] \in {PageOf(c.addr) + o} \cup m
  PROVE  LET buf == Patch(pbuf, c.addr % SPM_PAGESIZE, c.data) IN
         /\ buf \in [0 .. SPM_PAGESIZE - 1 -> Int]
         /\ \A o \in 0 .. Rest(c.addr, SPM_PAGESIZE) + IOSIZE - 1 :
              PageOf(c.addr) + o < fileSize /\ PageOf(c.addr) + o < BLDADDR
                => buf[o] \in {PageOf(c.addr) + o} \cup m
<1> DEFINE a == c.addr
           d == c.data
           r == Rest(a, SPM_PAGESIZE)
           p == PageOf(a)
           buf == Patch(pbuf, r, d)
<1>1. /\ a \in Nat /\ d \in Seq(Int) /\ Len(d) = IOSIZE /\ Rest(a, IOSIZE) = 0
      /\ \A k \in 1 .. IOSIZE : a + k - 1 < fileSize /\ a + k - 1 < BLDADDR => d[k] = a + k - 1
  <2>1. /\ c.addr \in Nat /\ c.data \in Block /\ Rest(c.addr, IOSIZE) = 0
        /\ Carries(c, fileSize)
    BY WriteIs
  <2>2. c.data \in Seq(Int) /\ Len(c.data) = IOSIZE
    BY <2>1, BlockIsSeq
  <2>3. parts[c.part].size = BLDADDR
    BY Partitions2
  <2>4. \A k \in 1 .. IOSIZE : c.addr + k - 1 < fileSize /\ c.addr + k - 1 < BLDADDR
          => c.data[k] = c.addr + k - 1
    BY <2>1, <2>3 DEF Carries
  <2> QED
    BY <2>1, <2>2, <2>4
<1>2. r \in 0 .. SPM_PAGESIZE - 1 /\ p = a - r /\ p \in Nat /\ r + IOSIZE <= SPM_PAGESIZE
  BY <1>1, PageFacts, NextBlock
<1>3. \A o \in 0 .. r - 1 : p + o < fileSize /\ p + o < BLDADDR => pbuf[o] \in {p + o} \cup m
  OBVIOUS
<1>4. r = c.addr % SPM_PAGESIZE
  BY DEF Rest
<1> HIDE DEF a, d, r, p
<1>5. /\ buf \in [0 .. SPM_PAGESIZE - 1 -> Int]
      /\ \A o \in 0 .. SPM_PAGESIZE - 1 :
           buf[o] = IF r <= o /\ o < r + IOSIZE THEN d[o - r + 1] ELSE pbuf[o]
  <2>1. r \in Int /\ pbuf \in [0 .. SPM_PAGESIZE - 1 -> Int] /\ SPM_PAGESIZE - 1 \in Nat
    BY <1>2, MemoryTypes, Sizes
  <2>2. /\ buf \in [0 .. SPM_PAGESIZE - 1 -> Int]
        /\ \A o \in 0 .. SPM_PAGESIZE - 1 :
             buf[o] = IF r <= o /\ o < r + Len(d) THEN d[o - r + 1] ELSE pbuf[o]
    <3>1. d \in Seq(Int) /\ r \in Int
      BY <1>1, <2>1
    <3> QED
      BY <2>1, <3>1, PatchPage
  <2> HIDE DEF buf
  <2> QED
    BY <1>1, <2>2
<1> HIDE DEF buf
<1>6. ASSUME NEW o \in 0 .. r + IOSIZE - 1, p + o < fileSize, p + o < BLDADDR
      PROVE  buf[o] \in {p + o} \cup m
  <2>1. o \in 0 .. SPM_PAGESIZE - 1 /\ o \in Int
    BY <1>2, Sizes
  <2>2. CASE o < r
    <3>1. buf[o] = pbuf[o] /\ o \in 0 .. r - 1
      BY <1>2, <1>5, <2>1, <2>2
    <3> QED
      BY <1>3, <1>6, <3>1
  <2>3. CASE ~(o < r)
    <3> DEFINE k == o - r + 1
    <3>1. k \in 1 .. IOSIZE /\ a + k - 1 = p + o /\ r <= o /\ o < r + IOSIZE
      BY <1>1, <1>2, <1>6, <2>1, <2>3, Sizes
    <3>2. buf[o] = d[k]
      BY <1>5, <2>1, <3>1
    <3> HIDE DEF k
    <3>3. d[k] = p + o
      BY <1>1, <1>6, <3>1
    <3> QED
      BY <3>2, <3>3
  <2> QED
    BY <2>2, <2>3
<1> QED
  BY <1>4, <1>5, <1>6 DEF buf, a, d, r, p

\* The block that follows finds the page ready for it.
LEMMA NextReady ==
  ASSUME TypeInv, NEW c \in Writes(fileSize), NEW buf, NEW a \in {c.addr, c.addr + IOSIZE},
         NEW n, NEW m,
         \A o \in 0 .. Rest(c.addr, SPM_PAGESIZE) + IOSIZE - 1 :
           PageOf(c.addr) + o < n /\ PageOf(c.addr) + o < BLDADDR
             => buf[o] \in {PageOf(c.addr) + o} \cup m
  PROVE  \A o \in 0 .. Rest(a, SPM_PAGESIZE) - 1 :
           PageOf(a) + o < n /\ PageOf(a) + o < BLDADDR => buf[o] \in {PageOf(a) + o} \cup m
<1> DEFINE b == c.addr
           r == Rest(b, SPM_PAGESIZE)
           s == Rest(b + IOSIZE, SPM_PAGESIZE)
<1>1. b \in Nat /\ Rest(b, IOSIZE) = 0
  BY WriteIs
<1>2. r \in Nat /\ s \in Nat
  <2>1. b + IOSIZE \in Nat
    BY <1>1, Sizes
  <2> QED
    BY <1>1, <2>1, PageFacts
<1>3. s # 0 => s = r + IOSIZE /\ PageOf(b + IOSIZE) = PageOf(b)
  BY <1>1, NextBlock
<1>4. \A o \in 0 .. r + IOSIZE - 1 :
        PageOf(b) + o < n /\ PageOf(b) + o < BLDADDR => buf[o] \in {PageOf(b) + o} \cup m
  OBVIOUS
<1> HIDE DEF r, s
<1>5. CASE a = b
  <2>1. \A o \in 0 .. r - 1 : o \in 0 .. r + IOSIZE - 1
    BY <1>2, Sizes
  <2> QED
    BY <1>4, <1>5, <2>1 DEF r
<1>6. CASE a = b + IOSIZE
  <2>1. CASE s = 0
    <3>1. \A o \in 0 .. s - 1 : FALSE
      BY <2>1
    <3> QED
      BY <1>6, <3>1 DEF s
  <2>2. CASE s # 0
    <3>1. s = r + IOSIZE /\ PageOf(a) = PageOf(b)
      BY <1>3, <1>6, <2>2
    <3>2. Rest(a, SPM_PAGESIZE) = r + IOSIZE
      BY <1>6, <3>1 DEF s
    <3>3. \A o \in 0 .. Rest(a, SPM_PAGESIZE) - 1 : o \in 0 .. r + IOSIZE - 1
      BY <1>2, <3>2, Sizes
    <3> QED
      BY <1>4, <3>1, <3>3
  <2> QED
    BY <2>1, <2>2
<1> QED
  BY <1>5, <1>6

\* A page of which all bytes are in their place, or forgotten, or torn.
LEMMA PageWritten ==
  ASSUME TypeInv, NEW a \in Nat, NEW page \in Seq(Int), Len(page) = SPM_PAGESIZE, NEW T,
         \A o \in 1 .. SPM_PAGESIZE :
           PageOf(a) + o - 1 < fileSize /\ PageOf(a) + o - 1 < BLDADDR
             => page[o] \in {PageOf(a) + o - 1} \cup T,
         NEW x \in 0 .. FLASHEND, x < fileSize, x < BLDADDR, flash[x] \in {Old, x} \cup T
  PROVE  Patch(flash, PageOf(a), page)[x] \in {Old, x} \cup T
<1> DEFINE p == PageOf(a)
<1>1. p \in Nat /\ p \in Int
  <2>1. PageOf(a) \in Nat
    BY PageFacts
  <2> QED
    BY <2>1
<1>2. \A o \in 1 .. SPM_PAGESIZE : p + o - 1 < fileSize /\ p + o - 1 < BLDADDR => page[o] \in {p + o - 1} \cup T
  OBVIOUS
<1> HIDE DEF p
<1>3. Patch(flash, p, page)[x] = IF p <= x /\ x < p + SPM_PAGESIZE THEN page[x - p + 1] ELSE flash[x]
  <2>1. FLASHEND \in Nat /\ flash \in [0 .. FLASHEND -> Int]
    BY MemoryTypes, Sizes
  <2>2. \A y \in 0 .. FLASHEND : Patch(flash, p, page)[y] =
          IF p <= y /\ y < p + Len(page) THEN page[y - p + 1] ELSE flash[y]
    BY <1>1, <2>1, PatchIs
  <2> QED
    BY <2>2
<1>4. CASE p <= x /\ x < p + SPM_PAGESIZE
  <2> DEFINE o == x - p + 1
  <2>1. o \in 1 .. SPM_PAGESIZE /\ p + o - 1 = x
    BY <1>1, <1>4, Sizes
  <2> HIDE DEF o
  <2>2. page[o] \in {x} \cup T
    BY <1>2, <2>1
  <2>3. Patch(flash, p, page)[x] = page[o]
    BY <1>3, <1>4 DEF o
  <2> QED
    BY <2>2, <2>3 DEF p
<1>5. CASE ~(p <= x /\ x < p + SPM_PAGESIZE)
  BY <1>3, <1>5 DEF p
<1> QED
  BY <1>4, <1>5

\* A number below the size is the rest of itself.
LEMMA Below ==
  ASSUME NEW a \in Nat, NEW m \in Nat \ {0}, a < m
  PROVE  a % m = a
<1>1. a \in 0 .. m - 1 /\ 0 \in Nat
  OBVIOUS
<1>2. Rest(m * 0 + a, m) = a
  BY <1>1, RestOf
<1> QED
  BY <1>2 DEF Rest

\* A block, or the first bytes of one, goes to its own place in the EEPROM.
LEMMA BlockWritten ==
  ASSUME TypeInv, NEW c \in Writes(fileSize), c.part = 1, NEW d \in Seq(Int), Len(d) <= IOSIZE,
         \A k \in 1 .. Len(d) : d[k] = c.data[k], NEW T,
         NEW x \in 0 .. E2END, x < fileSize, eeprom[x] \in {Old, x} \cup T
  PROVE  Patch(eeprom, c.addr % (E2END + 1), d)[x] \in {Old, x} \cup T
<1> DEFINE a == c.addr
           l == Len(d)
<1>1. /\ a \in Nat /\ a < E2END + 1 /\ E2END \in Nat
      /\ \A k \in 1 .. IOSIZE : a + k - 1 < fileSize /\ a + k - 1 < E2END + 1 => c.data[k] = a + k - 1
  <2>1. a \in Nat /\ a < E2END + 1 /\ Carries(c, fileSize)
    BY WriteIs
  <2>2. parts[c.part].size = E2END + 1 /\ E2END \in Nat
    BY Partitions2, Sizes
  <2> QED
    BY <2>1, <2>2 DEF Carries
<1>2. c.addr % (E2END + 1) = a
  <2>1. E2END + 1 \in Nat \ {0}
    BY <1>1
  <2> QED
    BY <1>1, <2>1, Below
<1> HIDE DEF a
<1>3. l \in Nat /\ l <= IOSIZE
  BY LenProperties
<1>4. Patch(eeprom, a, d)[x] = IF a <= x /\ x < a + l THEN d[x - a + 1] ELSE eeprom[x]
  <2>1. eeprom \in [0 .. E2END -> Int] /\ a \in Int
    BY <1>1, MemoryTypes
  <2>2. \A y \in 0 .. E2END : Patch(eeprom, a, d)[y] =
          IF a <= y /\ y < a + Len(d) THEN d[y - a + 1] ELSE eeprom[y]
    BY <1>1, <2>1, PatchIs
  <2> QED
    BY <2>2
<1> HIDE DEF l
<1>5. CASE a <= x /\ x < a + l
  <2> DEFINE k == x - a + 1
  <2>1. k \in 1 .. l /\ k \in 1 .. IOSIZE /\ a + k - 1 = x /\ x < E2END + 1
    BY <1>1, <1>3, <1>5, Sizes
  <2>2. Patch(eeprom, a, d)[x] = d[k]
    BY <1>4, <1>5
  <2> HIDE DEF k
  <2>3. d[k] = x
    BY <1>1, <2>1 DEF l
  <2> QED
    BY <1>2, <2>2, <2>3
<1>6. CASE ~(a <= x /\ x < a + l)
  BY <1>2, <1>4, <1>6
<1> QED
  BY <1>5, <1>6

\* The target takes a block: the page buffer is ready for the one that follows.
LEMMA BlockTaken ==
  ASSUME FlInv, ImageInv, TargetActs, TakeWrite
  PROVE  /\ Command \in Writes(fileSize)
         /\ Command.part = 2 => PageReady(Command.addr)
         /\ PathInv'
<1> DEFINE c == Command
           buf == Patch(pbuf, c.addr % SPM_PAGESIZE, c.data)
<1>0. /\ TypeInv /\ PathInv
      /\ at = "loop" /\ rxFifo # <<>> /\ c.op = "WRITE" /\ rxFifo' = Tail(rxFifo)
      /\ UNCHANGED <<at, peer, lastReset, fileSize, pc, ptable, session, addr, buffer, batch,
                     outgoing, sendQueue>>
  BY DEF FlInv, ImageInv, TakeWrite, HasCommand, Command, Drop, TargetActs, loader, link, io, cursor, files
<1>1. c \in Writes(fileSize) /\ IsBlock(c)
  BY <1>0, CommandIs, WriteIs DEF IsBlock
<1>2. Heard = rxFifo /\ Heard' = Tail(rxFifo) /\ Listening /\ Plan' = Plan
  BY <1>0 DEF Heard, Listening, Plan, WriteCommand, currentPartId
<1>3. Route(Items, Heard, outgoing, sendQueue, Plan)
  BY <1>0, RouteNow
<1>4. /\ Path # <<>> /\ Head(Path) = c /\ Path \in Seq(Items)
      /\ Tail(Path) = Along(Tail(rxFifo), outgoing, sendQueue, Plan)
  BY <1>0, <1>2, <1>3, RouteTail, RouteIs DEF Path, Command
<1>5. Path' = Tail(Path)
  BY <1>0, <1>2, <1>4 DEF Path
<1>6. Consecutive(Path) /\ FirstIn(Path, Ready)
  BY <1>0, <1>2 DEF PathInv
<1> HIDE DEF c
<1>7. /\ Consecutive(Tail(Path)) /\ c \in Ready
      /\ \A G : (\A d \in Items : IsBlock(d) /\ Follows(c, d) => d \in G) => FirstIn(Tail(Path), G)
  BY <1>1, <1>4, <1>6, PathTail
<1>8. c.part = 2 => PageReady(c.addr)
  BY <1>7 DEF Ready
<1>9. ASSUME NEW d \in Items, IsBlock(d), Follows(c, d)
      PROVE  d \in Ready'
  <2>1. d \in Items' /\ Forgotten' = Forgotten /\ d.part = c.part /\ d.addr \in {c.addr, c.addr + IOSIZE}
    BY <1>0, <1>9 DEF Items, Forgotten, Follows
  <2>2. CASE c.part # 2
    BY <1>9, <2>1, <2>2 DEF Ready
  <2>3. CASE c.part = 2
    <3>1. PageReady(c.addr)
      BY <1>8, <2>3
    <3>2. pbuf' = buf
      BY <2>3, Partitions2 DEF TakeWrite, do_flash_write, c
    <3>3. \A o \in 0 .. Rest(c.addr, SPM_PAGESIZE) + IOSIZE - 1 :
            PageOf(c.addr) + o < fileSize /\ PageOf(c.addr) + o < BLDADDR
              => buf[o] \in {PageOf(c.addr) + o} \cup Forgotten
      BY <1>0, <1>1, <2>3, <3>1, BufferFilled DEF PageReady
    <3> HIDE DEF buf
    <3>4. \A o \in 0 .. Rest(d.addr, SPM_PAGESIZE) - 1 :
            PageOf(d.addr) + o < fileSize /\ PageOf(d.addr) + o < BLDADDR
              => buf[o] \in {PageOf(d.addr) + o} \cup Forgotten
      <4> DEFINE e == d.addr
      <4>1. e \in {c.addr, c.addr + IOSIZE}
        BY <2>1
      <4> HIDE DEF e
      <4>2. \A o \in 0 .. Rest(e, SPM_PAGESIZE) - 1 :
              PageOf(e) + o < fileSize /\ PageOf(e) + o < BLDADDR
                => buf[o] \in {PageOf(e) + o} \cup Forgotten
        BY <1>0, <1>1, <3>3, <4>1, NextReady
      <4> QED
        BY <4>2 DEF e
    <3>5. PageReady(d.addr)'
      BY <1>0, <2>1, <3>2, <3>4 DEF PageReady
    <3> QED
      BY <1>9, <2>1, <3>5 DEF Ready
  <2> QED
    BY <2>2, <2>3
<1>10. FirstIn(Path', Ready')
  BY <1>5, <1>7, <1>9
<1> QED
  BY <1>1, <1>5, <1>7, <1>8, <1>10 DEF PathInv, c

-----------------------------------------------------------------------------
(***************************************************************************)
(* The memories.                                                           *)
(***************************************************************************)
\* Where nothing is written, a byte may only be worse for a reset.
LEMMA BytesKept ==
  ASSUME BytesInv, fileSize' = fileSize, lastReset' = lastReset \/ lastReset' # 0
  PROVE  /\ Torn \subseteq Torn' /\ Forgotten' \subseteq Torn'
         /\ eeprom' = eeprom => \A x \in 0 .. E2END : x < fileSize => eeprom'[x] \in {Old, x} \cup Torn'
         /\ flash' = flash => \A x \in 0 .. FLASHEND : x < fileSize /\ x < BLDADDR
                                => flash'[x] \in {Old, x} \cup Torn'
<1>1. Torn \subseteq Torn' /\ Forgotten' \subseteq Torn'
  BY DEF Torn, Forgotten
<1> QED
  BY <1>1 DEF BytesInv

\* A page is written, or as much of it as the power lasts for.
LEMMA PageBytes ==
  ASSUME TypeInv, BytesInv, NEW c \in Writes(fileSize), c.part = 2, PageReady(c.addr),
         (c.addr + IOSIZE) % SPM_PAGESIZE = 0, NEW n \in Int, NEW T,
         Torn \subseteq T, Forgotten \subseteq T, n < SPM_PAGESIZE => Erased \in T,
         NEW x \in 0 .. FLASHEND, x < fileSize, x < BLDADDR
  PROVE  LET buf == Patch(pbuf, c.addr % SPM_PAGESIZE, c.data)
             page == [o \in 1 .. SPM_PAGESIZE |-> IF o <= n THEN buf[o - 1] ELSE Erased]
         IN  Patch(flash, PageOf(c.addr), page)[x] \in {Old, x} \cup T
<1> DEFINE buf == Patch(pbuf, c.addr % SPM_PAGESIZE, c.data)
           page == [o \in 1 .. SPM_PAGESIZE |-> IF o <= n THEN buf[o - 1] ELSE Erased]
           p == PageOf(c.addr)
           r == Rest(c.addr, SPM_PAGESIZE)
<1>1. /\ buf \in [0 .. SPM_PAGESIZE - 1 -> Int]
      /\ \A o \in 0 .. r + IOSIZE - 1 :
           p + o < fileSize /\ p + o < BLDADDR => buf[o] \in {p + o} \cup Forgotten
  BY BufferFilled DEF PageReady
<1>2. c.addr \in Nat /\ Rest(c.addr, IOSIZE) = 0
  BY WriteIs
<1>3. r + IOSIZE = SPM_PAGESIZE
  <2>1. Rest(c.addr + IOSIZE, SPM_PAGESIZE) = 0
    BY DEF Rest
  <2> QED
    BY <1>2, <2>1, NextBlock
<1>4. p \in Int
  <2>1. PageOf(c.addr) \in Nat
    BY <1>2, PageFacts
  <2> QED
    BY <2>1
<1>r. r \in Int
  <2>1. Rest(c.addr, SPM_PAGESIZE) \in 0 .. SPM_PAGESIZE - 1
    BY <1>2, PageFacts
  <2> QED
    BY <2>1
<1> HIDE DEF buf, p, r
<1>5. \A o \in 0 .. SPM_PAGESIZE - 1 : p + o < fileSize /\ p + o < BLDADDR => buf[o] \in {p + o} \cup Forgotten
  <2>1. r + IOSIZE - 1 = SPM_PAGESIZE - 1
    BY <1>3, <1>r, Sizes
  <2> QED
    BY <1>1, <2>1, Zenon
<1>6. page \in Seq(Int) /\ Len(page) = SPM_PAGESIZE
  BY <1>1, PageIsSeq
<1>7. ASSUME NEW o \in 1 .. SPM_PAGESIZE, p + o - 1 < fileSize, p + o - 1 < BLDADDR
      PROVE  page[o] \in {p + o - 1} \cup T
  <2>1. CASE o <= n
    <3> DEFINE k == o - 1
    <3>1. k \in 0 .. SPM_PAGESIZE - 1 /\ p + k = p + o - 1
      BY <1>4, Sizes
    <3>2. page[o] = buf[k]
      BY <2>1
    <3> HIDE DEF k, page
    <3>3. buf[k] \in {p + k} \cup Forgotten
      BY <1>5, <1>7, <3>1
    <3> QED
      BY <3>1, <3>2, <3>3
  <2>2. CASE ~(o <= n)
    <3>1. page[o] = Erased
      BY <2>2
    <3>2. n < SPM_PAGESIZE
      BY <2>2, Sizes
    <3> QED
      BY <3>1, <3>2
  <2> QED
    BY <2>1, <2>2
<1> HIDE DEF page
<1>8. flash[x] \in {Old, x} \cup T
  BY DEF BytesInv
<1>9. Patch(flash, PageOf(c.addr), page)[x] \in {Old, x} \cup T
  BY <1>2, <1>6, <1>7, <1>8, PageWritten DEF p
<1> QED
  BY <1>9 DEF page, buf

\* After a block that arrived.
LEMMA BlockBytes ==
  ASSUME FlInv, ImageInv, TargetActs, TakeWrite
  PROVE  BytesInv'
<1> DEFINE c == Command
           buf == Patch(pbuf, c.addr % SPM_PAGESIZE, c.data)
<1>0. /\ TypeInv /\ BytesInv /\ fileSize' = fileSize /\ Torn' = Torn /\ Forgotten \subseteq Torn
  BY DEF FlInv, ImageInv, TargetActs, loader, files, Torn, Forgotten
<1>1. c \in Writes(fileSize) /\ (c.part = 2 => PageReady(c.addr)) /\ c.part \in 1 .. 2
  BY BlockTaken, WriteIs
<1>2. /\ \A x \in 0 .. E2END : x < fileSize => eeprom[x] \in {Old, x} \cup Torn
      /\ \A x \in 0 .. FLASHEND : x < fileSize /\ x < BLDADDR => flash[x] \in {Old, x} \cup Torn
  BY <1>0 DEF BytesInv
<1>3. CASE c.part = 1
  <2>1. flash' = flash /\ eeprom' = Patch(eeprom, c.addr % (E2END + 1), c.data)
    BY <1>3, Partitions2 DEF TakeWrite, do_eeprom_write
  <2>2. c.data \in Seq(Int) /\ Len(c.data) = IOSIZE
    BY <1>1, WriteIs, BlockIsSeq
  <2> DEFINE d == c.data
  <2>3. d \in Seq(Int) /\ Len(d) <= IOSIZE /\ \A k \in 1 .. Len(d) : d[k] = c.data[k]
    BY <2>2, Sizes
  <2> HIDE DEF d, c
  <2>4. ASSUME NEW x \in 0 .. E2END, x < fileSize
        PROVE  Patch(eeprom, c.addr % (E2END + 1), d)[x] \in {Old, x} \cup Torn
    BY <1>0, <1>1, <1>2, <1>3, <2>3, <2>4, BlockWritten
  <2> QED
    BY <1>0, <1>2, <2>1, <2>4 DEF BytesInv, d
<1>4. CASE c.part = 2
  <2> DEFINE whole == [o \in 1 .. SPM_PAGESIZE |-> buf[o - 1]]
  <2>1. /\ eeprom' = eeprom /\ pbuf' = buf
        /\ flash' = IF (c.addr + IOSIZE) % SPM_PAGESIZE = 0
                      THEN Patch(flash, PageOf(c.addr), whole) ELSE flash
    BY <1>4, Partitions2 DEF TakeWrite, do_flash_write, Programmed
  <2>2. CASE (c.addr + IOSIZE) % SPM_PAGESIZE = 0
    <3> DEFINE n == SPM_PAGESIZE
               page == [o \in 1 .. SPM_PAGESIZE |-> IF o <= n THEN buf[o - 1] ELSE Erased]
    <3>1. n \in Int /\ (n < SPM_PAGESIZE => Erased \in Torn) /\ Torn \subseteq Torn
      BY Sizes
    <3>2. page = whole
      OBVIOUS
    <3> HIDE DEF c, n, whole
    <3>3. ASSUME NEW x \in 0 .. FLASHEND, x < fileSize, x < BLDADDR
          PROVE  Patch(flash, PageOf(c.addr), page)[x] \in {Old, x} \cup Torn
      BY <1>0, <1>1, <1>4, <2>2, <3>1, <3>3, PageBytes
    <3>4. flash' = Patch(flash, PageOf(c.addr), page)
      BY <2>1, <2>2, <3>2
    <3> HIDE DEF page
    <3> QED
      BY <1>0, <1>2, <2>1, <3>3, <3>4 DEF BytesInv
  <2>3. CASE (c.addr + IOSIZE) % SPM_PAGESIZE # 0
    BY <1>0, <1>2, <2>1, <2>3 DEF BytesInv
  <2> QED
    BY <2>2, <2>3
<1> QED
  BY <1>1, <1>3, <1>4

\* After a power cut.
LEMMA CutBytes ==
  ASSUME FlInv, ImageInv, PowerCut
  PROVE  BytesInv'
<1> DEFINE c == Command
           T == Torn'
           buf == Patch(pbuf, c.addr % SPM_PAGESIZE, c.data)
<1>0. /\ TypeInv /\ BytesInv /\ PathInv /\ fileSize' = fileSize /\ lastReset' # 0
      /\ Torn \subseteq T /\ Forgotten \subseteq T /\ Erased \in T
  BY DisturbedLate DEF FlInv, ImageInv, PowerCut, loader, files, Torn, Forgotten
<1>1. /\ eeprom' = eeprom => \A x \in 0 .. E2END : x < fileSize => eeprom'[x] \in {Old, x} \cup T
      /\ flash' = flash => \A x \in 0 .. FLASHEND : x < fileSize /\ x < BLDADDR
                             => flash'[x] \in {Old, x} \cup T
  BY <1>0, BytesKept
<1>2. CASE UNCHANGED <<flash, eeprom>>
  BY <1>0, <1>1, <1>2 DEF BytesInv
<1>3. CASE ~UNCHANGED <<flash, eeprom>>
  <2>1. /\ at = "loop" /\ rxFifo # <<>> /\ c.op = "WRITE" /\ c.part <= partcount
        /\ IF parts[c.part].name = "flash"
             THEN flash' \in TornPages(buf, c.addr) /\ eeprom' = eeprom
             ELSE eeprom' \in TornBlocks(c.data, c.addr) /\ flash' = flash
    BY <1>3 DEF PowerCut, PowerFails, HasCommand, Command
  <2>2. c \in Writes(fileSize) /\ IsBlock(c)
    BY <1>0, <2>1, CommandIs DEF IsBlock
  <2>3. c.part = 2 => PageReady(c.addr)
    <3>1. Heard = rxFifo /\ Listening
      BY <2>1 DEF Heard, Listening
    <3>2. Route(Items, Heard, outgoing, sendQueue, Plan)
      BY <1>0, RouteNow
    <3>3. Path # <<>> /\ Head(Path) = c /\ Path \in Seq(Items)
      BY <2>1, <3>1, <3>2, RouteTail, RouteIs DEF Path, Command
    <3>4. Consecutive(Path) /\ FirstIn(Path, Ready)
      BY <1>0, <3>1 DEF PathInv
    <3> HIDE DEF c
    <3>5. c \in Ready
      BY <2>2, <3>3, <3>4, PathTail
    <3> QED
      BY <3>5 DEF Ready
  <2>4. c.part \in 1 .. 2
    BY <2>2, WriteIs
  <2>5. CASE c.part = 1
    <3>1. flash' = flash /\ eeprom' \in TornBlocks(c.data, c.addr)
      BY <2>1, <2>5, Partitions2
    <3>2. PICK n \in 0 .. IOSIZE - 1 : eeprom' = Patch(eeprom, c.addr % (E2END + 1), SubSeq(c.data, 1, n))
      BY <3>1 DEF TornBlocks
    <3> DEFINE d == SubSeq(c.data, 1, n)
    <3>3. d \in Seq(Int) /\ Len(d) <= IOSIZE /\ \A k \in 1 .. Len(d) : d[k] = c.data[k]
      <4> DEFINE full == c.data
      <4>1. full \in Seq(Int) /\ Len(full) = IOSIZE
        BY <2>2, WriteIs, BlockIsSeq
      <4>2. n \in Int /\ 1 \in Int /\ n <= IOSIZE /\ n >= 0 /\ IOSIZE \in Int
        BY Sizes
      <4> HIDE DEF full, c
      <4>3. \A i \in 1 .. n : full[i] \in Int
        BY <4>1, <4>2, ElementOfSeq
      <4>4. /\ SubSeq(full, 1, n) \in Seq(Int)
            /\ Len(SubSeq(full, 1, n)) = IF 1 <= n THEN n - 1 + 1 ELSE 0
            /\ \A i \in 1 .. n - 1 + 1 : SubSeq(full, 1, n)[i] = full[1 + i - 1]
        BY <4>2, <4>3, SubSeqProperties
      <4> DEFINE sub == SubSeq(full, 1, n)
      <4>5. sub \in Seq(Int) /\ Len(sub) = n /\ \A i \in 1 .. n : sub[i] = full[1 + i - 1]
        BY <4>2, <4>4
      <4> HIDE DEF sub
      <4>6. \A i \in 1 .. n : sub[i] = full[i]
        BY <4>2, <4>5
      <4>7. sub \in Seq(Int) /\ Len(sub) <= IOSIZE /\ \A k \in 1 .. Len(sub) : sub[k] = full[k]
        BY <4>2, <4>5, <4>6
      <4> QED
        BY <4>7 DEF sub, full
    <3>4. \A x \in 0 .. E2END : x < fileSize => eeprom[x] \in {Old, x} \cup T
      BY <1>0 DEF BytesInv
    <3> HIDE DEF d, c, T
    <3>5. ASSUME NEW x \in 0 .. E2END, x < fileSize
          PROVE  Patch(eeprom, c.addr % (E2END + 1), d)[x] \in {Old, x} \cup T
      BY <1>0, <2>2, <2>5, <3>3, <3>4, <3>5, BlockWritten
    <3>6. eeprom' = Patch(eeprom, c.addr % (E2END + 1), d)
      BY <3>2 DEF d
    <3> QED
      BY <1>0, <1>1, <3>1, <3>5, <3>6 DEF BytesInv, T
  <2>6. CASE c.part = 2
    <3>1. eeprom' = eeprom /\ flash' \in TornPages(buf, c.addr)
      BY <2>1, <2>6, Partitions2
    <3>2. CASE (c.addr + IOSIZE) % SPM_PAGESIZE = 0
      <4> DEFINE page(n) == [o \in 1 .. SPM_PAGESIZE |-> IF o <= n THEN buf[o - 1] ELSE Erased]
      <4>1. PICK n \in 0 .. SPM_PAGESIZE - 1 : flash' = Patch(flash, PageOf(c.addr), page(n))
        BY <3>1, <3>2 DEF TornPages
      <4>2. n \in Int
        OBVIOUS
      <4> HIDE DEF c, T
      <4>3. ASSUME NEW x \in 0 .. FLASHEND, x < fileSize, x < BLDADDR
            PROVE  Patch(flash, PageOf(c.addr), page(n))[x] \in {Old, x} \cup T
        BY <1>0, <2>2, <2>3, <2>6, <3>2, <4>2, <4>3, PageBytes
      <4> HIDE DEF page
      <4> QED
        BY <1>0, <1>1, <3>1, <4>1, <4>3 DEF BytesInv, T
    <3>3. CASE (c.addr + IOSIZE) % SPM_PAGESIZE # 0
      <4>1. flash' = flash
        BY <3>1, <3>3 DEF TornPages
      <4> QED
        BY <1>0, <1>1, <3>1, <4>1 DEF BytesInv
    <3> QED
      BY <3>2, <3>3
  <2> QED
    BY <2>4, <2>5, <2>6
<1> QED
  BY <1>2, <1>3

\* All other steps leave the memories alone.
LEMMA OtherBytes ==
  ASSUME FlInv, ImageInv, Next, ~(TargetActs /\ TakeWrite), ~PowerCut
  PROVE  BytesInv'
<1>1. UNCHANGED <<flash, eeprom>>
  BY DEF Next, UserStarts, UserKills, LoaderActs, HandOver, WriteReturns, Collect, ReadReturns,
         BulkArrives, StreamArrives, StreamFails, AnswerArrives, others, target, memory, fifos,
         TargetActs, TargetNext, TakeCommand, TakeHello, TakeRead, TakeBoot, TakeOther,
         PushHello, PushBlock, ListenAgain, BootTimerTick, TargetResets, GiveUpAnswering, Reset
<1>2. lastReset' = lastReset \/ lastReset' # 0
  <2>1. CASE TargetResets
    BY <2>1, DisturbedLate
  <2>2. CASE ~TargetResets
    BY <2>2 DEF Next, UserStarts, UserKills, LoaderActs, HandOver, WriteReturns, Collect, ReadReturns,
                BulkArrives, StreamArrives, StreamFails, AnswerArrives, others, TargetActs
  <2> QED
    BY <2>1, <2>2
<1>3. fileSize' = fileSize /\ BytesInv
  BY SameFile DEF ImageInv
<1> QED
  BY <1>1, <1>2, <1>3, BytesKept DEF BytesInv

-----------------------------------------------------------------------------
(***************************************************************************)
(* The theorem.                                                            *)
(***************************************************************************)
LEMMA ImageInvInit == Init => ImageInv
<1> SUFFICES ASSUME Init PROVE ImageInv
  OBVIOUS
<1>1. /\ at = "loop" /\ rxFifo = <<>> /\ outgoing = <<>> /\ sendQueue = <<>> /\ pc = "idle"
      /\ mode = "IDLE" /\ sessions = 0 /\ lastReset = 0
      /\ flash = [a \in 0 .. FLASHEND |-> Old] /\ eeprom = [a \in 0 .. E2END |-> Old]
  BY DEF Init, TargetInit, Boot0, Unwritten, LoaderInit
<1>2. NoneYet /\ Heard = <<>> /\ Plan = <<>>
  BY <1>1, OpsEmpty DEF NoneYet, Heard, Plan, Writing
<1>3. PathInv
  BY <1>1, <1>2, RouteEmpty DEF PathInv, Path
<1>4. ModeInv
  BY <1>1, <1>2, OpsEmpty DEF ModeInv, Working
<1>5. BytesInv
  BY <1>1 DEF BytesInv
<1> QED
  BY <1>3, <1>4, <1>5 DEF ImageInv

LEMMA ImageInvNext ==
  ASSUME BLDADDR > 0
  PROVE  FlInv /\ ImageInv /\ Next => ImageInv'
<1> SUFFICES ASSUME FlInv, ImageInv, Next PROVE ImageInv'
  OBVIOUS
<1>0. FlInv' /\ TypeInv'
  BY FlInvNext DEF FlInv
<1>1. PathInv' /\ ModeInv'
  <2>1. CASE UserStarts \/ UserKills
    BY <1>0, <2>1, UserPath, UserMode
  <2>2. CASE LoaderActs
    BY <1>0, <2>2, LoaderPath
  <2>3. CASE HandOver \/ WriteReturns \/ Collect \/ ReadReturns \/ AnswerArrives
    BY <2>3, LinkPath, LinkMode
  <2>4. CASE BulkArrives \/ StreamArrives
    BY <2>4, LinkPath, SentMode
  <2>5. CASE StreamFails
    BY <1>0, <2>5, SentMode, NonePathNext
  <2>6. CASE TargetActs /\ TakeWrite
    BY <2>6, BlockTaken, TargetMode
  <2>7. CASE TargetActs /\ ~TakeWrite
    BY <1>0, <2>7, TargetPath, TargetMode
  <2>8. CASE TargetResets \/ PowerCut
    BY <1>0, <2>8, DisturbedPath, TargetMode
  <2> QED
    BY <2>1, <2>2, <2>3, <2>4, <2>5, <2>6, <2>7, <2>8 DEF Next
<1>2. BytesInv'
  BY BlockBytes, CutBytes, OtherBytes
<1> QED
  BY <1>1, <1>2 DEF ImageInv

LEMMA ImageStutters ==
  ASSUME ImageInv, UNCHANGED vars
  PROVE  ImageInv'
<1>1. UNCHANGED <<at, peer, pbuf, flash, eeprom, rxFifo, pc, session, ptable, addr, buffer, batch,
                  fileSize, sessions, sendQueue, outgoing, mode, lastReset>>
  BY DEF vars, target, memory, fifos, loader, link, io, cursor, files
<1>2. Heard' = Heard /\ Plan' = Plan /\ Listening' = Listening /\ NoneYet' = NoneYet
  BY <1>1 DEF Heard, Plan, Listening, NoneYet, WriteCommand, currentPartId
<1>3. Path' = Path
  BY <1>1, <1>2 DEF Path
<1>4. PathInv'
  BY <1>1, <1>2, <1>3, SamePath DEF ImageInv
<1>5. ModeInv'
  BY <1>1, <1>2 DEF ImageInv, ModeInv
<1>6. BytesInv'
  BY <1>1 DEF ImageInv, BytesInv, Torn
<1> QED
  BY <1>4, <1>5, <1>6 DEF ImageInv

\* The bytes are where the run says they are.
LEMMA BytesInPlace ==
  ASSUME TypeInv, BytesInv
  PROVE  ImageBytesInPlace
<1>1. fileSize \in Nat
  BY ItemsAre
<1>2. ASSUME NEW part \in 1 .. partcount, NEW a \in Image(part)
      PROVE  contents(part)[a] \in {Old, a} \cup Torn
  <2> DEFINE s == parts[part].size
  <2>1. part \in 1 .. 2 /\ s \in Nat
    BY <1>2, Partitions2
  <2>2. /\ part = 1 => s = E2END + 1 /\ contents(part) = eeprom
        /\ part = 2 => s = BLDADDR /\ contents(part) = flash
    BY Partitions2 DEF contents
  <2> HIDE DEF s
  <2>3. Min({fileSize, s}) \in {fileSize, s} /\ Min({fileSize, s}) <= fileSize /\ Min({fileSize, s}) <= s
    BY <1>1, <2>1, MinOfTwo
  <2>4. a \in 0 .. Min({fileSize, s}) - 1
    BY DEF Image, s
  <2>5. a \in Nat /\ a < fileSize /\ a < s
    BY <1>1, <2>1, <2>3, <2>4
  <2>6. CASE part = 1
    <3>1. a \in 0 .. E2END
      BY <2>2, <2>5, <2>6, Sizes
    <3> QED
      BY <2>2, <2>5, <2>6, <3>1 DEF BytesInv
  <2>7. CASE part = 2
    <3>1. a \in 0 .. FLASHEND
      BY <2>2, <2>5, <2>7, Sizes
    <3> QED
      BY <2>2, <2>5, <2>7, <3>1 DEF BytesInv
  <2> QED
    BY <2>1, <2>6, <2>7
<1> QED
  BY <1>2 DEF ImageBytesInPlace, Torn

\* Whatever is interrupted, restarted or killed, a byte of the image is at its own
\* address or not there; only a reset of the target, or a power cut while it writes,
\* leaves other bytes.  For all sizes of the image, of pages, blocks and memories,
\* all batches, command lines and numbers of sessions.
THEOREM BytesStayInPlace == ASSUME BLDADDR > 0 PROVE Spec => []ImageBytesInPlace
<1>1. Init => FlInv /\ ImageInv
  BY FlInvInit, ImageInvInit
<1>2. FlInv /\ ImageInv /\ [Next]_vars => (FlInv /\ ImageInv)'
  BY FlInvNext, ImageInvNext, Stutters, ImageStutters
<1>3. FlInv /\ ImageInv => ImageBytesInPlace
  BY BytesInPlace DEF FlInv, ImageInv
<1> QED
  BY <1>1, <1>2, <1>3, PTL DEF Spec
=============================================================================
