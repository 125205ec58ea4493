---------------------------- MODULE BuffersProofs ---------------------------
(***************************************************************************)
(* Proofs about Buffers: whatever the sizes, the strings and the calls,    *)
(* Tbuf and CircularBuffer are queues of bytes, and none of their          *)
(* assertions fails.                                                       *)
(***************************************************************************)
EXTENDS Buffers, SequenceTheorems, TLAPS

Octets == 0..255

-----------------------------------------------------------------------------
(* Sequences *)

\* A function on 1..n is a sequence of length n.
LEMMA FcnIsSeq ==
    ASSUME NEW S, NEW n \in Nat, NEW f \in [1..n -> S]
    PROVE  f \in Seq(S) /\ Len(f) = n
  OBVIOUS

\* What std::copy does to the cells of an array.
LEMMA CopyCells ==
    ASSUME NEW b \in Seq(Octets), NEW s \in Seq(Octets), NEW k \in Nat,
           k + Len(s) <= Len(b)
    PROVE  /\ T!Copy(s, b, k) \in Seq(Octets)
           /\ Len(T!Copy(s, b, k)) = Len(b)
           /\ \A i \in 1..Len(b) : T!Copy(s, b, k)[i] =
                 IF i \in (k + 1)..(k + Len(s)) THEN s[i - k] ELSE b[i]
  <1> DEFINE c == T!Copy(s, b, k)
  <1>1. Len(b) \in Nat /\ Len(s) \in Nat
    BY LenProperties
  <1>2. \A i \in 1..Len(b) : b[i] \in Octets
    BY ElementOfSeq
  <1>3. \A i \in 1..Len(s) : s[i] \in Octets
    BY ElementOfSeq
  <1>4. \A i \in (k + 1)..(k + Len(s)) : i - k \in 1..Len(s)
    BY <1>1
  <1>5. c \in [1..Len(b) -> Octets]
    BY <1>1, <1>2, <1>3, <1>4 DEF T!Copy
  <1>6. c \in Seq(Octets) /\ Len(c) = Len(b)
    BY <1>1, <1>5, FcnIsSeq
  <1> QED
    BY <1>6 DEF T!Copy

\* What vector::resize to a larger size does to the cells.
LEMMA ResizeCells ==
    ASSUME NEW b \in Seq(Octets), NEW n \in Nat, Len(b) <= n
    PROVE  /\ T!Resize(b, n) \in Seq(Octets)
           /\ Len(T!Resize(b, n)) = n
           /\ \A i \in 1..Len(b) : T!Resize(b, n)[i] = b[i]
  <1> DEFINE c == T!Resize(b, n)
  <1>1. Len(b) \in Nat
    BY LenProperties
  <1>2. \A i \in 1..Len(b) : b[i] \in Octets
    BY ElementOfSeq
  <1>3. c \in [1..n -> Octets]
    BY <1>1, <1>2 DEF T!Resize, Octets
  <1>4. c \in Seq(Octets) /\ Len(c) = n
    BY <1>3, FcnIsSeq
  <1> QED
    BY <1>1, <1>4 DEF T!Resize

\* The cells of a part of an array.
LEMMA PartCells ==
    ASSUME NEW b \in Seq(Octets), NEW r \in Nat, NEW w \in Nat,
           r <= w, w <= Len(b)
    PROVE  /\ SubSeq(b, r + 1, w) \in Seq(Octets)
           /\ Len(SubSeq(b, r + 1, w)) = w - r
           /\ \A i \in 1..(w - r) : SubSeq(b, r + 1, w)[i] = b[r + i]
  <1>1. Len(b) \in Nat
    BY LenProperties
  <1>2. \A i \in (r + 1)..w : b[i] \in Octets
    BY <1>1, ElementOfSeq
  <1>3. /\ SubSeq(b, r + 1, w) \in Seq(Octets)
        /\ Len(SubSeq(b, r + 1, w)) = IF r + 1 <= w THEN w - (r + 1) + 1 ELSE 0
        /\ \A i \in 1..(w - (r + 1) + 1) : SubSeq(b, r + 1, w)[i] = b[r + 1 + i - 1]
    BY <1>2, SubSeqProperties
  <1> QED
    BY <1>3

\* Names for what append() does to the unread bytes, so that lemmas about
\* them are matched by name.
Part(b, r, w) == SubSeq(b, r + 1, w)
Join(y, s) == y \o s

\* A part of a part is a part of the array.
LEMMA PartOfPart ==
    ASSUME NEW b \in Seq(Octets), NEW r \in Nat, NEW w \in Nat,
           NEW m \in Nat, NEW n \in Nat,
           r <= w, w <= Len(b), m <= n, n <= w - r
    PROVE  Part(Part(b, r, w), m, n) = Part(b, r + m, r + n)
  <1>1. Len(b) \in Nat
    BY LenProperties
  <1>2. PICK y \in Seq(Octets) :
          /\ y = Part(b, r, w)
          /\ Len(y) = w - r
          /\ \A i \in 1..(w - r) : y[i] = b[r + i]
    BY PartCells DEF Part
  <1>3. PICK x \in Seq(Octets) :
          /\ x = Part(y, m, n)
          /\ Len(x) = n - m
          /\ \A i \in 1..(n - m) : x[i] = y[m + i]
    <2>1. n <= Len(y)
      BY <1>2
    <2> QED
      BY <2>1, PartCells, ZenonT(60) DEF Part
  <1>4. PICK r1 \in Nat, w1 \in Nat :
          r1 = r + m /\ w1 = r + n /\ r1 <= w1 /\ w1 <= Len(b)
    BY <1>1
  <1>5. PICK z \in Seq(Octets) :
          /\ z = Part(b, r1, w1)
          /\ Len(z) = w1 - r1
          /\ \A i \in 1..(w1 - r1) : z[i] = b[r1 + i]
    <2>1. r1 <= w1 /\ w1 <= Len(b)
      BY <1>4
    <2>2. /\ Part(b, r1, w1) \in Seq(Octets)
          /\ Len(Part(b, r1, w1)) = w1 - r1
          /\ \A i \in 1..(w1 - r1) : Part(b, r1, w1)[i] = b[r1 + i]
      BY <2>1, PartCells, SMTT(60) DEF Part
    <2> QED
      BY <2>2, Zenon
  <1>6. Len(x) = Len(z)
    BY <1>3, <1>4, <1>5
  <1>7. ASSUME NEW i \in 1..(n - m) PROVE x[i] = z[i]
    <2>1. m + i \in 1..(w - r) /\ i \in 1..(w1 - r1) /\ r1 + i = r + (m + i)
      BY <1>4
    <2>2. x[i] = b[r + (m + i)]
      BY <1>2, <1>3, <2>1
    <2>3. z[i] = b[r1 + i]
      BY <1>5, <2>1
    <2> QED
      BY <2>1, <2>2, <2>3
  <1>8. x = z
    BY <1>3, <1>6, <1>7, SeqEqual
  <1> QED
    BY <1>2, <1>3, <1>4, <1>5, <1>8

\* A sequence that starts with y and goes on with s.
LEMMA ConcatIs ==
    ASSUME NEW S, NEW x \in Seq(S), NEW y \in Seq(S), NEW s \in Seq(S),
           Len(x) = Len(y) + Len(s),
           \A i \in 1..Len(y) : x[i] = y[i],
           \A i \in 1..Len(s) : x[Len(y) + i] = s[i]
    PROVE  x = Join(y, s)
  <1>1. Len(x) \in Nat /\ Len(y) \in Nat /\ Len(s) \in Nat
    BY LenProperties
  <1>2. PICK z \in Seq(S) :
          /\ z = y \o s
          /\ Len(z) = Len(y) + Len(s)
          /\ \A i \in 1..(Len(y) + Len(s)) :
                z[i] = IF i <= Len(y) THEN y[i] ELSE s[i - Len(y)]
    <2>1. /\ y \o s \in Seq(S)
          /\ Len(y \o s) = Len(y) + Len(s)
          /\ \A i \in 1..(Len(y) + Len(s)) :
                (y \o s)[i] = IF i <= Len(y) THEN y[i] ELSE s[i - Len(y)]
      BY ConcatProperties
    <2> QED
      BY <2>1, Zenon
  <1>3. ASSUME NEW i \in 1..Len(x) PROVE x[i] = z[i]
    <2>1. CASE i <= Len(y)
      BY <1>1, <1>2, <2>1
    <2>2. CASE i > Len(y)
      <3>1. i - Len(y) \in 1..Len(s) /\ i = Len(y) + (i - Len(y))
        BY <1>1, <2>2
      <3>2. x[i] = s[i - Len(y)]
        BY <3>1
      <3> QED
        BY <1>1, <1>2, <2>2, <3>2
    <2> QED
      BY <1>1, <2>1, <2>2
  <1>4. x = z
    BY <1>2, <1>3, SeqEqual
  <1> QED
    BY <1>2, <1>4, Zenon DEF Join

\* Joining is associative.
LEMMA JoinAssociative ==
    ASSUME NEW S, NEW x \in Seq(S), NEW y \in Seq(S), NEW z \in Seq(S)
    PROVE  Join(Join(x, y), z) = Join(x, Join(y, z))
  BY ConcatAssociative DEF Join

\* The array c holds, from r1 to w1, what b holds from r to w, and then s.
WrittenBehind(c, r1, w1, b, r, w, s) ==
    /\ r <= w /\ w <= Len(b)
    /\ w1 - r1 = w - r /\ w1 + Len(s) <= Len(c)
    /\ \A i \in 1..(w - r) : c[r1 + i] = b[r + i]
    /\ \A i \in 1..Len(s) : c[w1 + i] = s[i]

\* The contents of such an array are those of b and s behind them.
LEMMA PartOfWritten ==
    ASSUME NEW b \in Seq(Octets), NEW c \in Seq(Octets), NEW s \in Seq(Octets),
           NEW r \in Nat, NEW w \in Nat, NEW r1 \in Nat, NEW w1 \in Nat,
           WrittenBehind(c, r1, w1, b, r, w, s)
    PROVE  Part(c, r1, w1 + Len(s)) = Join(Part(b, r, w), s)
  <1>1. Len(s) \in Nat /\ Len(b) \in Nat /\ Len(c) \in Nat
    BY LenProperties
  <1> USE DEF WrittenBehind
  <1>2. PICK y \in Seq(Octets) :
          /\ y = SubSeq(b, r + 1, w)
          /\ Len(y) = w - r
          /\ \A i \in 1..(w - r) : y[i] = b[r + i]
    BY PartCells, ZenonT(60)
  <1>3. PICK n \in Nat : n = w1 + Len(s) /\ r1 <= n /\ n <= Len(c)
    BY <1>1
  <1>4. PICK x \in Seq(Octets) :
          /\ x = SubSeq(c, r1 + 1, n)
          /\ Len(x) = n - r1
          /\ \A i \in 1..(n - r1) : x[i] = c[r1 + i]
    <2>1. n <= Len(c) /\ r1 <= n
      BY <1>3
    <2>2. /\ SubSeq(c, r1 + 1, n) \in Seq(Octets)
          /\ Len(SubSeq(c, r1 + 1, n)) = n - r1
          /\ \A i \in 1..(n - r1) : SubSeq(c, r1 + 1, n)[i] = c[r1 + i]
      BY <2>1, PartCells
    <2> QED
      BY <2>2, Zenon
  <1>5. Len(x) = Len(y) + Len(s)
    BY <1>1, <1>2, <1>3, <1>4
  <1>6. \A i \in 1..Len(y) : x[i] = y[i]
    BY <1>1, <1>2, <1>3, <1>4
  <1>7. ASSUME NEW i \in 1..Len(s) PROVE x[Len(y) + i] = s[i]
    <2>1. Len(y) + i \in 1..(n - r1) /\ r1 + (Len(y) + i) = w1 + i
      BY <1>1, <1>2, <1>3, SMTT(60)
    <2>2. x[Len(y) + i] = c[r1 + (Len(y) + i)]
      BY <1>4, <2>1
    <2> QED
      BY <2>1, <2>2
  <1>8. x = Join(y, s)
    BY <1>5, <1>6, <1>7, ConcatIs
  <1> QED
    BY <1>2, <1>3, <1>4, <1>8 DEF Part

-----------------------------------------------------------------------------
(* Tbuf *)

\* The indices lie in the array, and no assertion has failed.
TbufInv ==
    /\ buf \in Seq(Octets)
    /\ ridx \in Nat /\ widx \in Nat
    /\ ridx <= widx /\ widx <= Len(buf)
    /\ tAborted = FALSE

\* append() slides or enlarges the array enough, and adds s to what was
\* unread; b and w are the array and its write index when it is called.
LEMMA AppendAdds ==
    ASSUME NEW b \in Seq(Octets), NEW w \in Nat, NEW s \in Seq(Octets),
           s # <<>> \/ w # Len(b),
           ridx \in Nat, ridx <= w, w <= Len(b),
           T!AppendTo(b, w, s)
    PROVE  /\ TbufInv'
           /\ T!Contents' = Join(Part(b, ridx, w), s)
           /\ tInt' = tInt
  <1> DEFINE room == Len(b) - w
             slide == Len(s) > room /\ Len(s) <= room + ridx
             grow == Len(s) > room + ridx
             moved == IF slide THEN T!Copy(SubSeq(b, ridx + 1, w), b, 0)
                      ELSE IF grow THEN T!Resize(b, w + Len(s)) ELSE b
             wMoved == IF slide THEN w - ridx ELSE w
             rMoved == IF slide THEN 0 ELSE ridx
  <1>1. /\ buf' = T!Copy(s, moved, wMoved)
        /\ ridx' = rMoved
        /\ widx' = wMoved + Len(s)
        /\ tAborted' = ~(Len(moved) - wMoved >= Len(s) /\ wMoved < Len(moved))
        /\ tInt' = tInt
    BY DEF T!AppendTo
  <1>2. Len(b) \in Nat /\ Len(s) \in Nat /\ (Len(s) # 0 \/ w < Len(b))
    BY LenProperties, EmptySeq
  <1>3. PICK b1 \in Seq(Octets), r1 \in Nat, w1 \in Nat :
          /\ b1 = moved /\ r1 = rMoved /\ w1 = wMoved
          /\ w1 - r1 = w - ridx
          /\ w1 + Len(s) <= Len(b1) /\ w1 < Len(b1)
          /\ \A i \in 1..(w - ridx) : b1[r1 + i] = b[ridx + i]
    <2>1. CASE slide
      <3>1. PICK p \in Seq(Octets) :
              /\ p = SubSeq(b, ridx + 1, w)
              /\ Len(p) = w - ridx
              /\ \A i \in 1..(w - ridx) : p[i] = b[ridx + i]
        BY PartCells
      <3>2. 0 + Len(p) <= Len(b)
        BY <1>2, <3>1
      <3>3. PICK b1 \in Seq(Octets) :
              /\ b1 = T!Copy(p, b, 0)
              /\ Len(b1) = Len(b)
              /\ \A i \in 1..Len(b) : b1[i] =
                    IF i \in (0 + 1)..(0 + Len(p)) THEN p[i - 0] ELSE b[i]
        BY <3>2, CopyCells
      <3>4. b1 = moved /\ wMoved = w - ridx /\ rMoved = 0
        BY <2>1, <3>1, <3>3
      <3>5. /\ w - ridx \in Nat /\ w - ridx + Len(s) <= Len(b1)
            /\ w - ridx < Len(b1)
        <4>1. Len(b1) = Len(b) /\ Len(b) \in Nat /\ Len(s) \in Nat
          BY <1>2, <3>3
        <4>2. Len(s) > Len(b) - w /\ Len(s) <= Len(b) - w + ridx
          BY <2>1
        <4> HIDE DEF moved, wMoved, rMoved, slide, grow, room
        <4> QED
          BY <4>1, <4>2
      <3>6. ASSUME NEW i \in 1..(w - ridx) PROVE b1[0 + i] = b[ridx + i]
        <4>1. /\ 0 + i \in 1..Len(b) /\ 0 + i \in (0 + 1)..(0 + Len(p))
              /\ (0 + i) - 0 = i
          BY <1>2, <3>1
        <4>2. b1[0 + i] = p[i]
          BY <3>3, <4>1
        <4> QED
          BY <3>1, <4>2
      <3>7. 0 \in Nat /\ (w - ridx) - 0 = w - ridx
        BY <3>5
      <3> HIDE DEF moved, wMoved, rMoved, slide
      <3> QED
        BY <3>4, <3>5, <3>6, <3>7, Zenon
    <2>2. CASE ~slide /\ grow
      <3>1. moved = T!Resize(b, w + Len(s)) /\ wMoved = w /\ rMoved = ridx
        BY <2>2
      <3>2. PICK n \in Nat : n = w + Len(s) /\ Len(b) <= n
        BY <1>2, <2>2
      <3>3. PICK b1 \in Seq(Octets) :
              /\ b1 = T!Resize(b, n)
              /\ Len(b1) = n
              /\ \A i \in 1..Len(b) : b1[i] = b[i]
        BY <3>2, ResizeCells
      <3>4. w + Len(s) <= Len(b1) /\ w < Len(b1)
        BY <1>2, <2>2, <3>2, <3>3
      <3>5. \A i \in 1..(w - ridx) : b1[ridx + i] = b[ridx + i]
        BY <1>2, <3>3
      <3>6. b1 = moved
        BY <3>1, <3>2, <3>3
      <3> HIDE DEF moved, wMoved, rMoved, slide, grow
      <3> QED
        BY <3>1, <3>4, <3>5, <3>6
    <2>3. CASE ~slide /\ ~grow
      <3>1. moved = b /\ wMoved = w /\ rMoved = ridx
        BY <2>3
      <3>2. w + Len(s) <= Len(b) /\ w < Len(b)
        BY <1>2, <2>3
      <3> HIDE DEF moved, wMoved, rMoved, slide, grow
      <3> QED
        BY <3>1, <3>2
    <2> QED
      BY <2>1, <2>2, <2>3
  <1> HIDE DEF moved, wMoved, rMoved, slide, grow, room
  <1>4. Len(b1) \in Nat
    BY LenProperties
  <1>5. PICK c \in Seq(Octets) :
          /\ c = T!Copy(s, b1, w1)
          /\ Len(c) = Len(b1)
          /\ \A i \in 1..Len(b1) : c[i] =
                IF i \in (w1 + 1)..(w1 + Len(s)) THEN s[i - w1] ELSE b1[i]
    <2>1. w1 + Len(s) <= Len(b1)
      BY <1>3
    <2> QED
      BY <2>1, CopyCells
  <1>6. \A i \in 1..(w - ridx) : c[r1 + i] = b[ridx + i]
    BY <1>2, <1>3, <1>4, <1>5
  <1>7. \A i \in 1..Len(s) : c[w1 + i] = s[i]
    BY <1>2, <1>3, <1>4, <1>5, SMTT(60)
  <1>8. Part(c, r1, w1 + Len(s)) = Join(Part(b, ridx, w), s)
    <2>1. WrittenBehind(c, r1, w1, b, ridx, w, s)
      BY <1>3, <1>5, <1>6, <1>7 DEF WrittenBehind
    <2> QED
      BY <2>1, PartOfWritten, SMTT(60)
  <1>9. buf' = c /\ ridx' = r1 /\ widx' = w1 + Len(s)
    BY <1>1, <1>3, <1>5
  <1>10. T!Contents' = Join(Part(b, ridx, w), s)
    BY <1>8, <1>9 DEF T!Contents, Part
  <1>11. tAborted' = FALSE
    <2>1. Len(b1) - w1 >= Len(s) /\ w1 < Len(b1)
      BY <1>2, <1>3, <1>4
    <2> QED
      BY <1>1, <1>3, <2>1
  <1>12. TbufInv'
    BY <1>2, <1>3, <1>4, <1>5, <1>9, <1>11 DEF TbufInv
  <1> QED
    BY <1>1, <1>10, <1>12

\* The precondition is needed: without it the assertion fails.
LEMMA UnappendableFails ==
    ASSUME TbufInv, NEW s \in Seq(Octets), T!Unappendable(s), T!append(s)
    PROVE  tAborted' = TRUE
  <1>1. PICK b \in Seq(Octets), r \in Nat, w \in Nat :
          b = buf /\ r = ridx /\ w = widx /\ r <= w /\ w <= Len(b)
    BY DEF TbufInv
  <1>2. Len(b) \in Nat /\ Len(s) = 0 /\ w = Len(b)
    BY <1>1, LenProperties, EmptySeq DEF T!Unappendable, T!Writeable
  <1>3. ~(Len(s) > Len(b) - w) /\ ~(Len(s) > Len(b) - w + r)
    BY <1>1, <1>2
  <1>4. tAborted' = ~(Len(b) - w >= Len(s) /\ w < Len(b))
    BY <1>1, <1>3 DEF T!append, T!AppendTo
  <1>5. (Len(b) - w >= Len(s) /\ w < Len(b)) = FALSE
    BY <1>2
  <1> QED
    BY <1>4, <1>5, Zenon

\* A new Tbuf is an empty queue.
LEMMA TbufInit == Init => TbufInv /\ T!Queue!QueueInit
  <1> SUFFICES ASSUME Init PROVE TbufInv /\ T!Queue!QueueInit
    OBVIOUS
  <1>1. InitSize \in Nat
    BY BuffersAssumption
  <1>2. buf \in [1..InitSize -> Octets]
    BY <1>1 DEF Init, T!Init, Octets
  <1>3. buf \in Seq(Octets) /\ Len(buf) = InitSize
    BY <1>1, <1>2, FcnIsSeq
  <1>4. ridx = 0 /\ widx = 0 /\ tInt = 0 /\ tAborted = FALSE
    BY DEF Init, T!Init
  <1>5. T!Contents = <<>>
    BY <1>4, SubSeqEmpty DEF T!Contents
  <1> QED
    BY <1>1, <1>3, <1>4, <1>5 DEF TbufInv, T!Queue!QueueInit

\* append() and readfd() add the string to the queue.
LEMMA TbufAppends ==
    ASSUME TbufInv, NEW s \in Seq(Octets),
           (T!append(s) /\ ~T!Unappendable(s)) \/ T!readfd(s)
    PROVE  TbufInv' /\ T!Queue!Enqueue(s)
  <1>1. PICK b \in Seq(Octets), r \in Nat, w \in Nat :
          b = buf /\ r = ridx /\ w = widx /\ r <= w /\ w <= Len(b)
    BY DEF TbufInv
  <1>2. Len(s) \in Nat /\ Len(b) \in Nat
    BY LenProperties
  <1>3. CASE T!append(s) /\ ~T!Unappendable(s)
    <2>1. T!AppendTo(b, w, s) /\ ridx \in Nat /\ ridx <= w
      BY <1>1, <1>3 DEF T!append
    <2>2. s # <<>> \/ w # Len(b)
      BY <1>1, <1>2, <1>3 DEF T!Unappendable, T!Writeable
    <2>3. TbufInv' /\ T!Contents' = Join(Part(b, ridx, w), s) /\ tInt' = tInt
      BY <1>1, <2>1, <2>2, AppendAdds
    <2> QED
      BY <1>1, <2>3 DEF T!Queue!Enqueue, T!Contents, Part, Join
  <1>4. CASE T!readfd(s) /\ Len(s) <= T!Writeable
    <2>1. /\ buf' = T!Copy(s, buf, widx)
          /\ widx' = widx + Len(s)
          /\ ridx' = ridx /\ tInt' = tInt /\ tAborted' = tAborted
      BY <1>4 DEF T!readfd
    <2>2. w + Len(s) <= Len(b)
      <3>1. Len(s) <= Len(b) - w
        BY <1>1, <1>4 DEF T!Writeable
      <3> QED
        BY <1>2, <3>1
    <2>3. PICK c \in Seq(Octets) :
            /\ c = T!Copy(s, b, w)
            /\ Len(c) = Len(b)
            /\ \A i \in 1..Len(b) : c[i] =
                  IF i \in (w + 1)..(w + Len(s)) THEN s[i - w] ELSE b[i]
      BY <2>2, CopyCells
    <2>4. \A i \in 1..(w - r) : c[r + i] = b[r + i]
      BY <1>1, <1>2, <2>2, <2>3
    <2>5. ASSUME NEW i \in 1..Len(s) PROVE c[w + i] = s[i]
      <3>1. /\ w + i \in 1..Len(b) /\ w + i \in (w + 1)..(w + Len(s))
            /\ (w + i) - w = i
        BY <1>2, <2>2
      <3> QED
        BY <2>3, <3>1
    <2>6. Part(c, r, w + Len(s)) = Join(Part(b, r, w), s)
      <3>1. WrittenBehind(c, r, w, b, r, w, s)
        BY <1>1, <2>2, <2>3, <2>4, <2>5 DEF WrittenBehind
      <3> QED
        BY <3>1, PartOfWritten
    <2>7. buf' = c /\ ridx' = r /\ widx' = w + Len(s)
      BY <1>1, <2>1, <2>3
    <2>8. T!Contents' = Join(T!Contents, s)
      BY <1>1, <2>6, <2>7 DEF T!Contents, Part
    <2>9. TbufInv'
      BY <1>1, <1>2, <2>1, <2>2, <2>3, <2>7 DEF TbufInv
    <2> QED
      BY <2>1, <2>8, <2>9 DEF T!Queue!Enqueue, Join
  <1>5. CASE T!readfd(s) /\ ~(Len(s) <= T!Writeable)
    <2>1. PICK f \in Nat : f = Len(b) - w /\ f = T!Writeable /\ f < Len(s)
      <3>1. Len(b) - w \in Nat
        BY <1>1, <1>2
      <3>2. T!Writeable = Len(b) - w
        BY <1>1 DEF T!Writeable
      <3>3. Len(b) - w < Len(s)
        BY <1>2, <1>5, <3>1, <3>2
      <3> QED
        BY <3>1, <3>2, <3>3
    <2>2. PICK s1 \in Seq(Octets) :
            /\ s1 = SubSeq(s, 0 + 1, f)
            /\ Len(s1) = f - 0
            /\ \A i \in 1..(f - 0) : s1[i] = s[0 + i]
      <3>1. 0 <= f /\ f <= Len(s)
        BY <1>2, <2>1
      <3> QED
        BY <3>1, PartCells
    <2>3. PICK s2 \in Seq(Octets) :
            /\ s2 = SubSeq(s, f + 1, Len(s))
            /\ Len(s2) = Len(s) - f
            /\ \A i \in 1..(Len(s) - f) : s2[i] = s[f + i]
      <3>1. f <= Len(s) /\ Len(s) <= Len(s) /\ Len(s) \in Nat
        BY <1>2, <2>1
      <3> QED
        BY <3>1, PartCells, ZenonT(60)
    <2>4. PICK c \in Seq(Octets) :
            /\ c = T!Copy(s1, b, w)
            /\ Len(c) = Len(b)
            /\ \A i \in 1..Len(b) : c[i] =
                  IF i \in (w + 1)..(w + Len(s1)) THEN s1[i - w] ELSE b[i]
      <3>1. w + Len(s1) <= Len(b)
        BY <1>2, <2>1, <2>2
      <3> QED
        BY <3>1, CopyCells
    <2>5. T!AppendTo(c, Len(b), s2)
      <3>1. T!AppendTo(T!Copy(SubSeq(s, 1, T!Writeable), buf, widx), Len(buf),
                       SubSeq(s, T!Writeable + 1, Len(s)))
        BY <1>5 DEF T!readfd
      <3>2. SubSeq(s, 1, T!Writeable) = s1
        BY <2>1, <2>2
      <3> QED
        BY <1>1, <2>1, <2>3, <2>4, <3>1, <3>2
    <2>6. s2 # <<>>
      <3>1. Len(s2) = Len(s) - f
        BY <2>3, Zenon
      <3> QED
        BY <1>2, <2>1, <3>1, EmptySeq
    <2>7. PICK n \in Nat : n = Len(b) /\ n = Len(c) /\ r <= n /\ w <= n
      BY <1>1, <1>2, <2>4
    <2>8. TbufInv' /\ T!Contents' = Join(Part(c, r, n), s2) /\ tInt' = tInt
      <3>1. T!AppendTo(c, n, s2) /\ ridx \in Nat /\ ridx <= n /\ n <= Len(c)
        BY <1>1, <2>5, <2>7
      <3>2. TbufInv' /\ T!Contents' = Join(Part(c, ridx, n), s2) /\ tInt' = tInt
        BY <2>6, <3>1, AppendAdds
      <3> QED
        BY <1>1, <3>2
    <2>9. Part(c, r, n) = Join(Part(b, r, w), s1)
      <3>1. n = w + Len(s1) /\ w + Len(s1) <= Len(c)
        BY <1>2, <2>1, <2>2, <2>7
      <3>2. \A i \in 1..(w - r) : c[r + i] = b[r + i]
        BY <1>1, <1>2, <2>1, <2>2, <2>4, SMTT(60)
      <3>3. ASSUME NEW i \in 1..Len(s1) PROVE c[w + i] = s1[i]
        <4>1. /\ w + i \in 1..Len(b) /\ w + i \in (w + 1)..(w + Len(s1))
              /\ (w + i) - w = i
          BY <1>1, <1>2, <2>1, <2>2
        <4> QED
          BY <2>4, <4>1
      <3>4. WrittenBehind(c, r, w, b, r, w, s1)
        BY <1>1, <3>1, <3>2, <3>3 DEF WrittenBehind
      <3>5. Part(c, r, w + Len(s1)) = Join(Part(b, r, w), s1)
        BY <3>4, PartOfWritten, SMTT(60)
      <3> QED
        BY <3>1, <3>5
    <2>10. s = Join(s1, s2)
      <3>0. Len(s1) = f - 0 /\ Len(s2) = Len(s) - f
        BY <2>2, <2>3, Zenon
      <3>1. Len(s) = Len(s1) + Len(s2)
        BY <1>2, <2>1, <3>0
      <3>2. \A i \in 1..Len(s1) : s[i] = s1[i]
        BY <1>2, <2>1, <2>2
      <3>3. \A i \in 1..Len(s2) : s[Len(s1) + i] = s2[i]
        <4>1. \A i \in 1..Len(s2) : s2[i] = s[f + i]
          BY <2>3, Zenon
        <4>2. Len(s1) = f
          BY <3>0
        <4> QED
          BY <4>1, <4>2, Zenon
      <3> QED
        BY <3>1, <3>2, <3>3, ConcatIs
    <2>11. PICK y \in Seq(Octets) : y = Part(b, r, w)
      BY <1>1, PartCells DEF Part
    <2>12. Join(Join(y, s1), s2) = Join(y, s)
      BY <2>10, JoinAssociative
    <2>13. T!Contents' = Join(T!Contents, s)
      BY <1>1, <2>8, <2>9, <2>11, <2>12 DEF T!Contents, Part
    <2> QED
      BY <2>8, <2>13 DEF T!Queue!Enqueue, Join
  <1> QED
    BY <1>3, <1>4, <1>5

\* retrieve() takes the oldest bytes away, resetting both indices included.
LEMMA TbufRetrieves ==
    ASSUME TbufInv, NEW n \in Nat \ {0}, T!retrieve(n)
    PROVE  /\ TbufInv'
           /\ n <= Len(T!Contents)
           /\ T!Contents' = T!Queue!From(T!Contents, n)
           /\ SubSeq(buf, ridx + 1, ridx + n) = SubSeq(T!Contents, 1, n)
  <1>1. PICK b \in Seq(Octets), r \in Nat, w \in Nat :
          b = buf /\ r = ridx /\ w = widx /\ r <= w /\ w <= Len(b)
    BY DEF TbufInv
  <1>2. /\ n <= w - r
        /\ buf' = b /\ tAborted' = tAborted
        /\ ridx' = IF n < w - r THEN r + n ELSE 0
        /\ widx' = IF n < w - r THEN w ELSE 0
    BY <1>1 DEF T!retrieve, T!Readable
  <1>3. Len(b) \in Nat
    BY LenProperties
  <1>4. PICK y \in Seq(Octets) : y = Part(b, r, w) /\ Len(y) = w - r
    BY <1>1, PartCells DEF Part
  <1>5. T!Contents = y
    BY <1>1, <1>4 DEF T!Contents, Part
  <1>6. TbufInv'
    BY <1>1, <1>2, <1>3 DEF TbufInv
  <1>7. SubSeq(buf, ridx + 1, ridx + n) = SubSeq(T!Contents, 1, n)
    <2>1. Part(y, 0, n) = Part(b, r + 0, r + n)
      BY <1>1, <1>2, <1>4, PartOfPart
    <2>2. r + 0 = r /\ 0 + 1 = 1
      OBVIOUS
    <2> QED
      BY <1>1, <1>5, <2>1, <2>2 DEF Part
  <1>8. T!Contents' = Part(y, n, w - r)
    <2>1. CASE n < w - r
      <3>1. T!Contents' = Part(b, r + n, w)
        BY <1>1, <1>2, <2>1 DEF T!Contents, Part
      <3>2. PICK m \in Nat : m = w - r /\ n <= m /\ r + m = w
        BY <1>1, <1>2
      <3>3. Part(y, n, m) = Part(b, r + n, r + m)
        BY <1>1, <1>4, <3>2, PartOfPart
      <3> QED
        BY <3>1, <3>2, <3>3
    <2>2. CASE ~(n < w - r)
      <3>1. ridx' = 0 /\ widx' = 0 /\ n = w - r
        BY <1>2, <2>2
      <3>2. T!Contents' = <<>>
        BY <3>1, SubSeqEmpty DEF T!Contents
      <3>3. Part(y, n, w - r) = <<>>
        BY <3>1, SubSeqEmpty DEF Part
      <3> QED
        BY <3>2, <3>3
    <2> QED
      BY <2>1, <2>2
  <1> QED
    BY <1>2, <1>4, <1>5, <1>6, <1>7, <1>8 DEF T!Queue!From, Part

\* Every call changes the queue as ByteQueue says; the iterations of
\* CircularBuffer leave it alone.
LEMMA TbufStep ==
    ASSUME TbufInv, [Next]_vars
    PROVE  TbufInv' /\ [T!Queue!QueueNext]_(T!Queue!queueVars)
  <1>1. ASSUME NEW s \in Pieces, AppendString(s) \/ Readfd(s)
        PROVE  TbufInv' /\ T!Queue!QueueNext
    <2>1. s \in Seq(Octets)
      BY BuffersAssumption DEF Octets
    <2>2. (T!append(s) /\ ~T!Unappendable(s)) \/ T!readfd(s)
      BY <1>1 DEF AppendString, Readfd
    <2>3. TbufInv' /\ T!Queue!Enqueue(s)
      BY <2>1, <2>2, TbufAppends
    <2> QED
      BY <2>3 DEF T!Queue!QueueNext
  <1>2. ASSUME ReadInt PROVE TbufInv' /\ T!Queue!QueueNext
    <2>1. T!retrieve(IntSize)
      BY <1>2 DEF ReadInt, T!read_int32
    <2>2. tInt' = T!Queue!Value(SubSeq(buf, ridx + 1, ridx + IntSize))
      BY <1>2 DEF ReadInt, T!read_int32
    <2>3. /\ TbufInv'
          /\ IntSize <= Len(T!Contents)
          /\ T!Contents' = T!Queue!From(T!Contents, IntSize)
          /\ SubSeq(buf, ridx + 1, ridx + IntSize) = SubSeq(T!Contents, 1, IntSize)
      BY <2>1, BuffersAssumption, TbufRetrieves
    <2> QED
      BY <2>2, <2>3, Zenon DEF T!Queue!QueueNext, T!Queue!ReadInt
  <1>3. ASSUME NEW n \in 1..MaxBuffered, Retrieve(n)
        PROVE  TbufInv' /\ T!Queue!QueueNext
    <2>1. T!retrieve(n) /\ tInt' = tInt /\ n \in Nat \ {0}
      BY <1>3, BuffersAssumption DEF Retrieve
    <2>2. /\ TbufInv'
          /\ n <= Len(T!Contents)
          /\ T!Contents' = T!Queue!From(T!Contents, n)
      BY <2>1, TbufRetrieves
    <2>3. Len(T!Contents) \in Nat
      BY PartCells DEF T!Contents, TbufInv
    <2>4. n \in 1..Len(T!Contents)
      BY <2>1, <2>2, <2>3
    <2>5. T!Queue!Retrieve(n)
      BY <2>1, <2>2 DEF T!Queue!Retrieve
    <2> QED
      BY <2>2, <2>4, <2>5 DEF T!Queue!QueueNext
  <1>4. ASSUME UNCHANGED tbufVars
        PROVE  TbufInv' /\ UNCHANGED T!Queue!queueVars
    BY <1>4 DEF tbufVars, TbufInv, T!Queue!queueVars, T!Contents
  <1>5. CASE Iteration
    BY <1>4, <1>5 DEF Iteration
  <1>6. CASE UNCHANGED vars
    BY <1>4, <1>6 DEF vars
  <1> QED
    BY <1>1, <1>2, <1>3, <1>5, <1>6 DEF Next

\* Sliding, growing and the reset of the indices never lose, repeat or
\* reorder a byte (class Tbuf): for every initial size, every size of the
\* extra buffer and every set of strings, Tbuf implements the queue.
THEOREM TbufImplementsQueue == Spec => TbufIsQueue
  <1>1. Init => TbufInv /\ T!Queue!QueueInit
    BY TbufInit
  <1>2. TbufInv /\ [Next]_vars
          => TbufInv' /\ [T!Queue!QueueNext]_(T!Queue!queueVars)
    BY TbufStep
  <1> QED
    BY <1>1, <1>2, PTL DEF Spec, TbufIsQueue, T!Queue!QueueSpec

-----------------------------------------------------------------------------
(* Sequences, for CircularBuffer *)

\* The cells of a concatenation.
LEMMA JoinCells ==
    ASSUME NEW S, NEW x \in Seq(S), NEW y \in Seq(S)
    PROVE  /\ Join(x, y) \in Seq(S)
           /\ Len(Join(x, y)) = Len(x) + Len(y)
           /\ \A i \in 1..(Len(x) + Len(y)) :
                 Join(x, y)[i] = IF i <= Len(x) THEN x[i] ELSE y[i - Len(x)]
  BY ConcatProperties DEF Join

\* A concatenation falls into the two parts it was made of.
LEMMA JoinParts ==
    ASSUME NEW x \in Seq(Octets), NEW y \in Seq(Octets)
    PROVE  /\ Part(Join(x, y), 0, Len(x)) = x
           /\ Part(Join(x, y), Len(x), Len(x) + Len(y)) = y
  <1>1. Len(x) \in Nat /\ Len(y) \in Nat
    BY LenProperties
  <1>2. PICK z \in Seq(Octets) :
          /\ z = Join(x, y)
          /\ Len(z) = Len(x) + Len(y)
          /\ \A i \in 1..(Len(x) + Len(y)) :
                z[i] = IF i <= Len(x) THEN x[i] ELSE y[i - Len(x)]
    BY JoinCells
  <1>3. PICK m \in Nat, n \in Nat :
          m = Len(x) /\ n = Len(x) + Len(y) /\ m <= n /\ n = Len(z) /\ 0 <= m
    BY <1>1, <1>2
  <1>4. Part(z, 0, m) = x
    <2>1. PICK p \in Seq(Octets) :
            /\ p = Part(z, 0, m)
            /\ Len(p) = m - 0
            /\ \A i \in 1..(m - 0) : p[i] = z[0 + i]
      <3>1. 0 <= m /\ m <= Len(z)
        BY <1>1, <1>2, <1>3
      <3> QED
        BY <3>1, PartCells DEF Part
    <2>2. Len(p) = Len(x)
      BY <1>3, <2>1
    <2>3. \A i \in 1..Len(p) : p[i] = x[i]
      BY <1>1, <1>2, <1>3, <2>1
    <2>4. p = x
      BY <2>2, <2>3, SeqEqual
    <2> QED
      BY <2>1, <2>4
  <1>5. Part(z, m, n) = y
    <2>1. PICK p \in Seq(Octets) :
            /\ p = Part(z, m, n)
            /\ Len(p) = n - m
            /\ \A i \in 1..(n - m) : p[i] = z[m + i]
      <3>1. m <= n /\ n <= Len(z)
        BY <1>3
      <3> QED
        BY <3>1, PartCells DEF Part
    <2>2. Len(p) = Len(y)
      BY <1>1, <1>3, <2>1
    <2>3. \A i \in 1..Len(p) : p[i] = y[i]
      BY <1>1, <1>2, <1>3, <2>1
    <2>4. p = y
      BY <2>2, <2>3, SeqEqual
    <2> QED
      BY <2>1, <2>4
  <1> QED
    BY <1>2, <1>3, <1>4, <1>5

\* An element may be moved from the front of y to the end of x.
LEMMA MoveOne ==
    ASSUME NEW x \in Seq(Octets), NEW y \in Seq(Octets), Len(y) >= 1
    PROVE  /\ Append(x, y[1]) \in Seq(Octets)
           /\ Len(Append(x, y[1])) = Len(x) + 1
           /\ Part(y, 1, Len(y)) \in Seq(Octets)
           /\ Len(Part(y, 1, Len(y))) = Len(y) - 1
           /\ Join(Append(x, y[1]), Part(y, 1, Len(y))) = Join(x, y)
  <1>1. Len(x) \in Nat /\ Len(y) \in Nat
    BY LenProperties
  <1>2. y[1] \in Octets
    BY <1>1, ElementOfSeq
  <1>3. PICK u \in Seq(Octets) :
          /\ u = Append(x, y[1])
          /\ Len(u) = Len(x) + 1
          /\ \A i \in 1..Len(x) : u[i] = x[i]
          /\ u[Len(x) + 1] = y[1]
    <2>1. /\ Append(x, y[1]) \in Seq(Octets)
          /\ Len(Append(x, y[1])) = Len(x) + 1
          /\ \A i \in 1..Len(x) : Append(x, y[1])[i] = x[i]
          /\ Append(x, y[1])[Len(x) + 1] = y[1]
      BY <1>2, AppendProperties
    <2> QED
      BY <2>1, Zenon
  <1>4. PICK v \in Seq(Octets) :
          /\ v = Part(y, 1, Len(y))
          /\ Len(v) = Len(y) - 1
          /\ \A i \in 1..(Len(y) - 1) : v[i] = y[1 + i]
    <2>1. PICK r \in Nat, w \in Nat : r = 1 /\ w = Len(y) /\ r <= w /\ w <= Len(y)
      <3>1. 1 \in Nat /\ Len(y) \in Nat /\ 1 <= Len(y) /\ Len(y) <= Len(y)
        BY <1>1
      <3> QED
        BY <3>1, Zenon
    <2>2. /\ Part(y, r, w) \in Seq(Octets)
          /\ Len(Part(y, r, w)) = w - r
          /\ \A i \in 1..(w - r) : Part(y, r, w)[i] = y[r + i]
      BY <2>1, PartCells DEF Part
    <2> QED
      BY <2>1, <2>2, Zenon
  <1>5. PICK z \in Seq(Octets) :
          /\ z = Join(u, v)
          /\ Len(z) = Len(u) + Len(v)
          /\ \A i \in 1..(Len(u) + Len(v)) :
                z[i] = IF i <= Len(u) THEN u[i] ELSE v[i - Len(u)]
    BY JoinCells
  <1>6. Len(u) = Len(x) + 1 /\ Len(v) = Len(y) - 1
    BY <1>3, <1>4, Zenon
  <1>7. Len(z) = Len(x) + Len(y)
    BY <1>1, <1>5, <1>6
  <1>8. /\ \A i \in 1..Len(x) : u[i] = x[i]
        /\ u[Len(x) + 1] = y[1]
        /\ \A i \in 1..(Len(u) + Len(v)) :
              z[i] = IF i <= Len(u) THEN u[i] ELSE v[i - Len(u)]
    BY <1>3, <1>5, Zenon
  <1>9. ASSUME NEW i \in 1..Len(x) PROVE z[i] = x[i]
    <2>1. i \in 1..(Len(u) + Len(v)) /\ i <= Len(u)
      BY <1>1, <1>6
    <2> QED
      BY <1>8, <2>1
  <1>10. ASSUME NEW i \in 1..Len(y) PROVE z[Len(x) + i] = y[i]
    <2>1. CASE i = 1
      BY <1>1, <1>6, <1>8, <2>1, SMTT(60)
    <2>2. CASE i # 1
      <3>1. PICK k \in Nat : k = i - 1 /\ k \in 1..(Len(y) - 1) /\ i = 1 + k
        BY <1>1, <2>2
      <3>2. v[k] = y[i]
        BY <1>4, <3>1
      <3>3. /\ Len(x) + i \in 1..(Len(u) + Len(v))
            /\ ~(Len(x) + i <= Len(u)) /\ (Len(x) + i) - Len(u) = k
        BY <1>1, <1>6, <3>1
      <3>4. z[Len(x) + i] = v[k]
        BY <1>8, <3>3
      <3> QED
        BY <3>2, <3>4
    <2> QED
      BY <2>1, <2>2
  <1>11. z = Join(x, y)
    BY <1>7, <1>9, <1>10, ConcatIs
  <1> QED
    BY <1>3, <1>4, <1>5, <1>11, Zenon

-----------------------------------------------------------------------------
(* The ring *)

\* The m cells of the ring b from r on, the ring with e in the cell w, and the
\* cell behind cell i.
Ring(b, r, m) ==
    [k \in 1..m |-> b[IF r + k > Len(b) THEN r + k - Len(b) ELSE r + k]]

Put(b, w, e) == [b EXCEPT ![w + 1] = e]

After(b, i) == IF i + 1 >= Len(b) THEN 0 ELSE i + 1

\* Indices and counter agree: the cell behind the contents is the next to
\* write, and at least one cell is free.
RingOK(b, r, m, w) ==
    /\ b \in Seq(Octets)
    /\ r \in Nat /\ r < Len(b)
    /\ m \in Nat /\ m < Len(b)
    /\ w = IF r + m >= Len(b) THEN r + m - Len(b) ELSE r + m

\* The contents of a ring are a sequence of octets.
LEMMA RingCells ==
    ASSUME NEW b \in Seq(Octets), NEW r \in Nat, NEW m \in Nat,
           r < Len(b), m < Len(b)
    PROVE  /\ Ring(b, r, m) \in Seq(Octets)
           /\ Len(Ring(b, r, m)) = m
           /\ \A k \in 1..m : Ring(b, r, m)[k] =
                 b[IF r + k > Len(b) THEN r + k - Len(b) ELSE r + k]
  <1>1. Len(b) \in Nat
    BY LenProperties
  <1>2. ASSUME NEW k \in 1..m
        PROVE  b[IF r + k > Len(b) THEN r + k - Len(b) ELSE r + k] \in Octets
    <2>1. (IF r + k > Len(b) THEN r + k - Len(b) ELSE r + k) \in 1..Len(b)
      BY <1>1
    <2> QED
      BY <2>1, ElementOfSeq
  <1>3. Ring(b, r, m) \in [1..m -> Octets]
    BY <1>2 DEF Ring
  <1> QED
    BY <1>3, FcnIsSeq DEF Ring

\* push() appends: w is the cell behind the contents.
LEMMA RingPush ==
    ASSUME NEW b \in Seq(Octets), NEW r \in Nat, NEW m \in Nat, NEW w \in Nat,
           NEW e \in Octets, RingOK(b, r, m, w), m + 1 < Len(b)
    PROVE  /\ Put(b, w, e) \in Seq(Octets)
           /\ Len(Put(b, w, e)) = Len(b)
           /\ Ring(Put(b, w, e), r, m + 1) = Append(Ring(b, r, m), e)
  <1> r < Len(b) /\ w = IF r + m >= Len(b) THEN r + m - Len(b) ELSE r + m
    BY DEF RingOK
  <1>1. Len(b) \in Nat
    BY LenProperties
  <1>2. w + 1 \in 1..Len(b)
    BY <1>1
  <1>3. PICK c \in Seq(Octets) :
          /\ c = Put(b, w, e)
          /\ Len(c) = Len(b)
          /\ \A j \in 1..Len(b) : c[j] = IF j = w + 1 THEN e ELSE b[j]
    <2>1. /\ [b EXCEPT ![w + 1] = e] \in Seq(Octets)
          /\ Len([b EXCEPT ![w + 1] = e]) = Len(b)
          /\ \A j \in 1..Len(b) :
                [b EXCEPT ![w + 1] = e][j] = IF j = w + 1 THEN e ELSE b[j]
      BY <1>2, ExceptSeq
    <2> QED
      BY <2>1, Zenon DEF Put
  <1>4. PICK n \in Nat : n = m + 1 /\ n < Len(c) /\ r < Len(c) /\ m < Len(b)
    BY <1>1, <1>3
  <1>5. PICK x \in Seq(Octets) :
          /\ x = Ring(c, r, n)
          /\ Len(x) = n
          /\ \A k \in 1..n : x[k] =
                c[IF r + k > Len(c) THEN r + k - Len(c) ELSE r + k]
    BY <1>4, RingCells
  <1>6. PICK y \in Seq(Octets) :
          /\ y = Ring(b, r, m)
          /\ Len(y) = m
          /\ \A k \in 1..m : y[k] =
                b[IF r + k > Len(b) THEN r + k - Len(b) ELSE r + k]
    BY <1>4, RingCells
  <1>7. PICK z \in Seq(Octets) :
          /\ z = Append(y, e)
          /\ Len(z) = Len(y) + 1
          /\ \A i \in 1..Len(y) : z[i] = y[i]
          /\ z[Len(y) + 1] = e
    <2>1. /\ Append(y, e) \in Seq(Octets)
          /\ Len(Append(y, e)) = Len(y) + 1
          /\ \A i \in 1..Len(y) : Append(y, e)[i] = y[i]
          /\ Append(y, e)[Len(y) + 1] = e
      BY AppendProperties
    <2> QED
      BY <2>1, Zenon
  <1>8. /\ Len(x) = n /\ Len(y) = m /\ Len(z) = Len(y) + 1 /\ n = m + 1
        /\ Len(c) = Len(b)
        /\ \A i \in 1..Len(y) : z[i] = y[i]
        /\ z[Len(y) + 1] = e
    BY <1>3, <1>4, <1>5, <1>6, <1>7, Zenon
  <1>9. ASSUME NEW k \in 1..n PROVE x[k] = z[k]
    <2> DEFINE j == IF r + k > Len(b) THEN r + k - Len(b) ELSE r + k
    <2>1. x[k] = c[j]
      BY <1>5, <1>8
    <2>2. CASE k = n
      <3>1. j = w + 1 /\ j \in 1..Len(b)
        BY <1>1, <1>4, <2>2
      <3>2. c[j] = e
        BY <1>3, <3>1
      <3>3. z[k] = e
        BY <1>8, <2>2
      <3> QED
        BY <2>1, <3>2, <3>3
    <2>3. CASE k # n
      <3>1. k \in 1..m /\ k \in 1..Len(y)
        BY <1>8, <2>3
      <3>2. j # w + 1 /\ j \in 1..Len(b)
        BY <1>1, <1>4, <3>1, SMTT(60)
      <3>3. c[j] = b[j]
        BY <1>3, <3>2
      <3>4. y[k] = b[j]
        BY <1>6, <3>1
      <3>5. z[k] = y[k]
        BY <1>8, <3>1
      <3> QED
        BY <2>1, <3>3, <3>4, <3>5
    <2> QED
      BY <2>2, <2>3
  <1>10. x = z
    <2>1. Len(x) = Len(z)
      BY <1>8
    <2>2. \A k \in 1..Len(x) : x[k] = z[k]
      BY <1>8, <1>9
    <2> QED
      BY <2>1, <2>2, SeqEqual
  <1> QED
    BY <1>3, <1>4, <1>5, <1>6, <1>7, <1>10, Zenon

\* pop() removes the oldest.
LEMMA RingPop ==
    ASSUME NEW b \in Seq(Octets), NEW r \in Nat, NEW m \in Nat,
           r < Len(b), m < Len(b), m >= 1
    PROVE  /\ b[r + 1] = Ring(b, r, m)[1]
           /\ Ring(b, After(b, r), m - 1) = Part(Ring(b, r, m), 1, m)
  <1>1. Len(b) \in Nat
    BY LenProperties
  <1>2. PICK r1 \in Nat, n \in Nat, o \in Nat :
          /\ r1 = After(b, r) /\ n = m - 1 /\ o = 1
          /\ r1 < Len(b) /\ n < Len(b) /\ o <= m
          /\ r1 = IF r + 1 >= Len(b) THEN 0 ELSE r + 1
    <2>1. /\ After(b, r) \in Nat /\ m - 1 \in Nat /\ 1 \in Nat
          /\ After(b, r) < Len(b) /\ m - 1 < Len(b) /\ 1 <= m
          /\ After(b, r) = IF r + 1 >= Len(b) THEN 0 ELSE r + 1
      BY <1>1 DEF After
    <2> QED
      BY <2>1, Zenon
  <1>3. PICK y \in Seq(Octets) :
          /\ y = Ring(b, r, m)
          /\ Len(y) = m
          /\ \A k \in 1..m : y[k] =
                b[IF r + k > Len(b) THEN r + k - Len(b) ELSE r + k]
    BY RingCells
  <1>4. PICK x \in Seq(Octets) :
          /\ x = Ring(b, r1, n)
          /\ Len(x) = n
          /\ \A k \in 1..n : x[k] =
                b[IF r1 + k > Len(b) THEN r1 + k - Len(b) ELSE r1 + k]
    <2>1. r1 < Len(b) /\ n < Len(b)
      BY <1>2, Zenon
    <2> QED
      BY <2>1, RingCells
  <1>5. PICK z \in Seq(Octets) :
          /\ z = Part(y, o, m)
          /\ Len(z) = m - o
          /\ \A i \in 1..(m - o) : z[i] = y[o + i]
    <2>1. o <= m /\ m <= Len(y)
      BY <1>2, <1>3
    <2>2. /\ Part(y, o, m) \in Seq(Octets)
          /\ Len(Part(y, o, m)) = m - o
          /\ \A i \in 1..(m - o) : Part(y, o, m)[i] = y[o + i]
      BY <2>1, PartCells DEF Part
    <2> QED
      BY <2>2, Zenon
  <1>6. ASSUME NEW k \in 1..n PROVE x[k] = z[k]
    <2> DEFINE j == IF r1 + k > Len(b) THEN r1 + k - Len(b) ELSE r1 + k
    <2>1. x[k] = b[j]
      BY <1>4
    <2>2. o + k \in 1..m /\ k \in 1..(m - o)
      BY <1>2
    <2>3. z[k] = y[o + k]
      BY <1>5, <2>2
    <2>4. j = IF r + (o + k) > Len(b) THEN r + (o + k) - Len(b) ELSE r + (o + k)
      <3>1. /\ n = m - 1 /\ o = 1
            /\ r1 = IF r + 1 >= Len(b) THEN 0 ELSE r + 1
        BY <1>2, Zenon
      <3>2. CASE r + 1 >= Len(b)
        <4>1. r1 = 0 /\ r + 1 = Len(b)
          BY <1>1, <3>1, <3>2
        <4>2. r1 + k = k /\ ~(k > Len(b)) /\ r + (o + k) = Len(b) + k
          BY <1>1, <3>1, <4>1, SMTT(60)
        <4> QED
          BY <1>1, <4>2
      <3>3. CASE ~(r + 1 >= Len(b))
        <4>1. r1 + k = r + (o + k)
          BY <3>1, <3>3
        <4> QED
          BY <1>1, <4>1, SMTT(60)
      <3> QED
        BY <3>2, <3>3
    <2>5. y[o + k] = b[j]
      BY <1>3, <2>2, <2>4
    <2> QED
      BY <2>1, <2>3, <2>5
  <1>7. x = z
    <2>1. Len(x) = n /\ Len(z) = n
      BY <1>2, <1>4, <1>5
    <2> QED
      BY <1>6, <2>1, SeqEqual
  <1>8. b[r + 1] = y[1]
    <2>1. 1 \in 1..m /\ ~(r + 1 > Len(b))
      BY <1>1
    <2> QED
      BY <1>3, <2>1
  <1> QED
    BY <1>2, <1>3, <1>4, <1>5, <1>7, <1>8, Zenon

\* Two rings with the same cells have the same contents.
LEMMA SameCells ==
    ASSUME NEW b \in Seq(Octets), NEW c \in Seq(Octets), NEW r \in Nat,
           NEW r1 \in Nat, NEW m \in Nat,
           \A k \in 1..m : c[IF r1 + k > Len(c) THEN r1 + k - Len(c) ELSE r1 + k]
                         = b[IF r + k > Len(b) THEN r + k - Len(b) ELSE r + k]
    PROVE  Ring(c, r1, m) = Ring(b, r, m)
  BY Zenon DEF Ring

\* The larger array of push_str() has the same contents, unrolled or not.
LEMMA RingGrow ==
    ASSUME NEW n \in Nat,
           RingOK(buffer, read_idx, readable_bytes, write_idx),
           C!Writeable < n, C!Grow(n)
    PROVE  /\ RingOK(buffer', read_idx', readable_bytes, write_idx')
           /\ Len(buffer') = readable_bytes + 1 + n
           /\ Ring(buffer', read_idx', readable_bytes)
                = Ring(buffer, read_idx, readable_bytes)
  <1>1. PICK b \in Seq(Octets), r \in Nat, m \in Nat :
          b = buffer /\ r = read_idx /\ m = readable_bytes
    BY DEF RingOK
  <1>2. Len(b) \in Nat
    BY LenProperties
  <1>3. /\ r < Len(b) /\ m < Len(b)
        /\ write_idx = IF r + m >= Len(b) THEN r + m - Len(b) ELSE r + m
    BY <1>1 DEF RingOK
  <1>4. PICK w \in Nat : w = write_idx
    BY <1>2, <1>3
  <1>5. PICK size \in Nat : size = m + 1 + n /\ Len(b) < size /\ m < size
                            /\ size = Len(b) - (Len(b) - m - 1) + n
    <2>1. Len(b) - m - 1 < n
      BY <1>1 DEF C!Writeable
    <2>2. /\ m + 1 + n \in Nat /\ Len(b) < m + 1 + n /\ m < m + 1 + n
          /\ m + 1 + n = Len(b) - (Len(b) - m - 1) + n
      BY <1>2, <2>1
    <2> QED
      BY <2>2, Zenon
  <1>6. \A i \in 1..Len(b) : b[i] \in Octets
    BY ElementOfSeq
  <1>7. C!Writeable = Len(b) - m - 1
    BY <1>1 DEF C!Writeable
  <1>8. CASE w < r
    <2>1. PICK tail \in Nat : tail = Len(b) - r
      BY <1>2, <1>3
    <2>2. w = r + m - Len(b) /\ r + m >= Len(b) /\ tail + w = m
      BY <1>2, <1>3, <1>4, <1>8, <2>1
    <2>3. /\ buffer' = [i \in 1..size |->
                          IF i <= tail THEN b[r + i]
                          ELSE IF i <= tail + w THEN b[i - tail] ELSE 0]
          /\ write_idx' = tail + w /\ read_idx' = 0
      BY <1>1, <1>4, <1>5, <1>7, <1>8, <2>1 DEF C!Grow
    <2>4. buffer' \in [1..size -> Octets]
      <3>1. ASSUME NEW i \in 1..size
            PROVE  (IF i <= tail THEN b[r + i]
                    ELSE IF i <= tail + w THEN b[i - tail] ELSE 0) \in Octets
        <4>1. CASE i <= tail
          <5>1. r + i \in 1..Len(b)
            BY <1>2, <2>1, <4>1
          <5> QED
            BY <1>6, <4>1, <5>1
        <4>2. CASE ~(i <= tail) /\ i <= tail + w
          <5>1. i - tail \in 1..Len(b)
            BY <1>2, <1>3, <2>1, <2>2, <4>2
          <5> QED
            BY <1>6, <4>2, <5>1
        <4>3. CASE ~(i <= tail) /\ ~(i <= tail + w)
          BY <4>3 DEF Octets
        <4> QED
          BY <4>1, <4>2, <4>3
      <3> QED
        BY <2>3, <3>1
    <2>5. PICK c \in Seq(Octets) : c = buffer' /\ Len(c) = size
      BY <2>4, FcnIsSeq
    <2>6. ASSUME NEW k \in 1..m
          PROVE  c[IF 0 + k > Len(c) THEN 0 + k - Len(c) ELSE 0 + k]
                   = b[IF r + k > Len(b) THEN r + k - Len(b) ELSE r + k]
      <3>1. k \in 1..size /\ 0 + k = k /\ ~(0 + k > Len(c))
        BY <1>5, <2>5
      <3>2. c[k] = IF k <= tail THEN b[r + k]
                   ELSE IF k <= tail + w THEN b[k - tail] ELSE 0
        BY <2>3, <2>5, <3>1
      <3>3. CASE k <= tail
        <4>1. ~(r + k > Len(b))
          BY <1>2, <2>1, <3>3
        <4> QED
          BY <3>1, <3>2, <3>3, <4>1
      <3>4. CASE ~(k <= tail)
        <4>1. r + k > Len(b) /\ k <= tail + w /\ k - tail = r + k - Len(b)
          BY <1>2, <2>1, <2>2, <3>4
        <4> QED
          BY <3>1, <3>2, <3>4, <4>1
      <3> QED
        BY <3>3, <3>4
    <2>7. Ring(c, 0, m) = Ring(b, r, m)
      BY <2>6, SameCells
    <2>8. RingOK(c, 0, m, tail + w)
      BY <1>5, <2>2, <2>5, SMTT(60) DEF RingOK
    <2> QED
      BY <1>1, <1>5, <2>3, <2>5, <2>7, <2>8
  <1>9. CASE ~(w < r)
    <2>1. w = r + m /\ r + m < Len(b)
      BY <1>2, <1>3, <1>4, <1>9
    <2>2. /\ buffer' = [i \in 1..size |-> IF i <= Len(b) THEN b[i] ELSE 0]
          /\ write_idx' = w /\ read_idx' = r
      BY <1>1, <1>4, <1>5, <1>7, <1>9 DEF C!Grow
    <2>3. buffer' \in [1..size -> Octets]
      BY <1>2, <1>6, <2>2 DEF Octets
    <2>4. PICK c \in Seq(Octets) : c = buffer' /\ Len(c) = size
      BY <2>3, FcnIsSeq
    <2>5. ASSUME NEW k \in 1..m
          PROVE  c[IF r + k > Len(c) THEN r + k - Len(c) ELSE r + k]
                   = b[IF r + k > Len(b) THEN r + k - Len(b) ELSE r + k]
      <3>1. /\ ~(r + k > Len(c)) /\ ~(r + k > Len(b))
            /\ r + k \in 1..size /\ r + k <= Len(b)
        BY <1>2, <1>5, <2>1, <2>4
      <3>2. c[r + k] = b[r + k]
        BY <2>2, <2>4, <3>1
      <3> QED
        BY <3>1, <3>2
    <2>6. Ring(c, r, m) = Ring(b, r, m)
      <3>1. \A k \in 1..m :
              c[IF r + k > Len(c) THEN r + k - Len(c) ELSE r + k]
                = b[IF r + k > Len(b) THEN r + k - Len(b) ELSE r + k]
        BY <2>5, Zenon
      <3> QED
        BY <3>1, Zenon DEF Ring
    <2>7. RingOK(c, r, m, w)
      BY <1>2, <1>3, <1>5, <2>1, <2>4, SMTT(60) DEF RingOK
    <2> QED
      BY <1>1, <1>5, <2>2, <2>4, <2>6, <2>7
  <1> QED
    BY <1>8, <1>9

-----------------------------------------------------------------------------
(* CircularBuffer *)

\* What the call under way still has to do fits: the bytes to push into the
\* free cells, the bytes to pop into the contents.
CallOK ==
    /\ pc \in {"idle", "push_str", "read_int32", "retrieve"}
    /\ rest \in Seq(Octets) /\ left \in Nat /\ got \in Seq(Octets)
    /\ pc = "push_str" =>
          Len(rest) >= 1 /\ readable_bytes + Len(rest) < Len(buffer)
    /\ pc \in {"read_int32", "retrieve"} => left >= 1 /\ left <= readable_bytes
    /\ pc = "read_int32" => Len(got) + left = IntSize
    /\ pc # "read_int32" => got = <<>>

\* The inductive invariant of CircularBuffer.
CircularInv ==
    /\ RingOK(buffer, read_idx, readable_bytes, write_idx)
    /\ CallOK
    /\ cAborted = FALSE

\* The contents as a function of the array.
LEMMA ContentsIsRing ==
    C!Contents = Ring(buffer, read_idx, readable_bytes)
  BY DEF C!Contents, C!Cell, Ring

\* The same in the next state.
LEMMA ContentsIsRingNext ==
    C!Contents' = Ring(buffer', read_idx', readable_bytes')
  BY DEF C!Contents, C!Cell, Ring

\* A new CircularBuffer is an empty queue.
LEMMA CircularInit == Init => CircularInv /\ C!Queue!QueueInit
  <1> SUFFICES ASSUME Init PROVE CircularInv /\ C!Queue!QueueInit
    OBVIOUS
  <1>1. InitSize \in Nat \ {0}
    BY BuffersAssumption
  <1>2. buffer \in [1..InitSize -> Octets]
    BY <1>1 DEF Init, C!Init, Octets
  <1>3. buffer \in Seq(Octets) /\ Len(buffer) = InitSize
    BY <1>1, <1>2, FcnIsSeq
  <1>4. /\ readable_bytes = 0 /\ read_idx = 0 /\ write_idx = 0 /\ pc = "idle"
        /\ rest = <<>> /\ left = 0 /\ got = <<>> /\ cInt = 0 /\ cAborted = FALSE
    BY DEF Init, C!Init
  <1>5. RingOK(buffer, read_idx, readable_bytes, write_idx)
    BY <1>1, <1>3, <1>4 DEF RingOK
  <1>6. <<>> \in Seq(Octets)
    BY EmptySeq
  <1>7. CallOK
    BY <1>4, <1>6 DEF CallOK
  <1>8. Ring(buffer, 0, 0) \in Seq(Octets) /\ Len(Ring(buffer, 0, 0)) = 0
    BY <1>1, <1>3, RingCells
  <1>9. C!Contents = <<>>
    BY <1>4, <1>8, ContentsIsRing, EmptySeq
  <1>10. C!Pending = <<>>
    BY <1>4, <1>9 DEF C!Pending
  <1> QED
    BY <1>4, <1>5, <1>7, <1>10 DEF CircularInv, C!Queue!QueueInit

\* push_str() and readfd() make room and take effect when they are called.
LEMMA CircularStarts ==
    ASSUME CircularInv, NEW s \in Seq(Octets), C!push_str(s)
    PROVE  CircularInv' /\ C!Queue!Enqueue(s)
  <1>1. PICK b \in Seq(Octets), m \in Nat :
          b = buffer /\ m = readable_bytes /\ m < Len(b)
    BY DEF CircularInv, RingOK
  <1>2. Len(b) \in Nat /\ Len(s) \in Nat /\ (s = <<>> <=> Len(s) = 0)
    BY LenProperties, EmptySeq
  <1>3. /\ pc = "idle" /\ rest' = s
        /\ pc' = IF s = <<>> THEN "idle" ELSE "push_str"
        /\ cAborted' = (Len(buffer') - readable_bytes - 1 < Len(s))
        /\ readable_bytes' = readable_bytes /\ left' = left /\ got' = got
        /\ cInt' = cInt
    BY DEF C!push_str
  <1>4. /\ RingOK(buffer', read_idx', m, write_idx')
        /\ m + Len(s) < Len(buffer')
        /\ Ring(buffer', read_idx', m) = Ring(buffer, read_idx, m)
    <2>1. CASE C!Writeable < Len(s)
      <3>1. C!Grow(Len(s))
        BY <2>1 DEF C!push_str
      <3>2. /\ RingOK(buffer', read_idx', m, write_idx')
            /\ Len(buffer') = m + 1 + Len(s)
            /\ Ring(buffer', read_idx', m) = Ring(buffer, read_idx, m)
        BY <1>1, <1>2, <2>1, <3>1, RingGrow DEF CircularInv
      <3> QED
        BY <1>2, <3>2
    <2>2. CASE ~(C!Writeable < Len(s))
      <3>1. buffer' = buffer /\ read_idx' = read_idx /\ write_idx' = write_idx
        BY <2>2 DEF C!push_str
      <3>2. C!Writeable = Len(b) - m - 1
        BY <1>1 DEF C!Writeable
      <3>3. m + Len(s) < Len(b)
        BY <1>2, <2>2, <3>2
      <3> QED
        BY <1>1, <3>1, <3>3 DEF CircularInv
    <2> QED
      BY <2>1, <2>2
  <1>5. PICK n \in Nat : n = Len(buffer') /\ m + Len(s) < n
    BY <1>4, LenProperties DEF RingOK
  <1>6. ~(n - m - 1 < Len(s))
    BY <1>2, <1>5
  <1>7. cAborted' = FALSE
    <2>1. cAborted' = (n - m - 1 < Len(s))
      BY <1>1, <1>3, <1>5, Zenon
    <2>2. (n - m - 1 < Len(s)) = FALSE
      BY <1>6
    <2> QED
      BY <2>1, <2>2, Zenon
  <1>8. CallOK'
    BY <1>1, <1>2, <1>3, <1>5 DEF CallOK, CircularInv
  <1>9. CircularInv'
    BY <1>1, <1>3, <1>4, <1>7, <1>8 DEF CircularInv
  <1>10. C!Contents' = C!Contents
    BY <1>1, <1>3, <1>4, ContentsIsRing, ContentsIsRingNext
  <1>11. C!Pending = C!Contents
    BY <1>3 DEF C!Pending
  <1>12. C!Pending' = C!Contents' \o s
    <2>1. CASE s # <<>>
      BY <1>3, <2>1 DEF C!Pending
    <2>2. CASE s = <<>>
      <3>1. C!Pending' = C!Contents' /\ pc' = "idle"
        BY <1>3, <2>2 DEF C!Pending
      <3>2. C!Contents' \in Seq(Octets)
        BY <1>3, <1>9, ContentsIsRingNext, RingCells DEF CircularInv, RingOK
      <3> QED
        BY <2>2, <3>1, <3>2
    <2> QED
      BY <2>1, <2>2
  <1> QED
    BY <1>3, <1>9, <1>10, <1>11, <1>12 DEF C!Queue!Enqueue

\* push() finds a free cell, and moves a byte from the string to the ring.
LEMMA CircularPush ==
    ASSUME CircularInv, C!push
    PROVE  CircularInv' /\ C!Pending' = C!Pending /\ cInt' = cInt
  <1>1. pc = "push_str"
    BY DEF C!push
  <1>2. PICK b \in Seq(Octets), r \in Nat, m \in Nat, t \in Seq(Octets) :
          /\ b = buffer /\ r = read_idx /\ m = readable_bytes /\ t = rest
          /\ r < Len(b) /\ m < Len(b)
          /\ Len(t) >= 1 /\ m + Len(t) < Len(b)
          /\ write_idx = IF r + m >= Len(b) THEN r + m - Len(b) ELSE r + m
    BY <1>1 DEF CircularInv, RingOK, CallOK
  <1>3. Len(b) \in Nat /\ Len(t) \in Nat
    BY LenProperties
  <1>4. PICK w \in Nat :
          /\ w = write_idx /\ w < Len(b)
          /\ w = IF r + m >= Len(b) THEN r + m - Len(b) ELSE r + m
    <2>1. /\ write_idx \in Nat /\ write_idx < Len(b)
          /\ write_idx = IF r + m >= Len(b) THEN r + m - Len(b) ELSE r + m
      BY <1>2, <1>3
    <2> QED
      BY <2>1, Zenon
  <1>5. m + 1 < Len(b)
    BY <1>2, <1>3
  <1>6. C!Succ(write_idx) = IF w + 1 >= Len(b) THEN 0 ELSE w + 1
    BY <1>2, <1>4 DEF C!Succ
  <1>7. (IF w + 1 >= Len(b) THEN 0 ELSE w + 1) # r
    BY <1>2, <1>3, <1>4, <1>5
  <1>8. /\ buffer' = [buffer EXCEPT ![write_idx + 1] = Head(rest)]
        /\ write_idx' = C!Succ(write_idx)
        /\ readable_bytes' = readable_bytes + 1
        /\ rest' = Tail(rest)
        /\ pc' = IF Len(rest) = 1 THEN "idle" ELSE pc
        /\ read_idx' = read_idx /\ left' = left /\ got' = got /\ cInt' = cInt
        /\ cAborted' = cAborted
    BY <1>2, <1>6, <1>7 DEF C!push
  <1>9. t # <<>>
    BY <1>2, EmptySeq
  <1>10. Head(t) = t[1] /\ t[1] \in Octets
    BY <1>2, <1>3, <1>9, ElementOfSeq
  <1>11. PICK u \in Seq(Octets) : u = Part(t, 1, Len(t)) /\ u = Tail(t) /\ Len(u) = Len(t) - 1
    <2>1. Tail(t) = Part(t, 1, Len(t))
      BY <1>9, TailIsSubSeq DEF Part
    <2>2. Tail(t) \in Seq(Octets) /\ Len(Tail(t)) = Len(t) - 1
      BY <1>9, HeadTailProperties
    <2> QED
      BY <2>1, <2>2, Zenon
  <1>12. PICK c \in Seq(Octets) :
           /\ c = buffer' /\ Len(c) = Len(b)
           /\ Ring(c, r, m + 1) = Append(Ring(b, r, m), t[1])
    <2>1. PICK e \in Octets : e = t[1]
      BY <1>10, Zenon
    <2>2. buffer' = Put(b, w, e)
      BY <1>2, <1>4, <1>8, <1>10, <2>1 DEF Put
    <2>3. RingOK(b, r, m, w)
      BY <1>2, <1>4, Zenon DEF CircularInv
    <2>4. /\ Put(b, w, e) \in Seq(Octets)
          /\ Len(Put(b, w, e)) = Len(b)
          /\ Ring(Put(b, w, e), r, m + 1) = Append(Ring(b, r, m), e)
      BY <1>5, <2>3, RingPush
    <2> QED
      BY <2>1, <2>2, <2>4, Zenon
  <1>13. PICK y \in Seq(Octets) : y = Ring(b, r, m)
    BY <1>2, RingCells
  <1>14. Join(Append(y, t[1]), u) = Join(y, t)
    <2>1. Len(t) >= 1
      BY <1>2, Zenon
    <2>2. Join(Append(y, t[1]), Part(t, 1, Len(t))) = Join(y, t)
      BY <2>1, MoveOne
    <2> QED
      BY <1>11, <2>2, Zenon
  <1>15. RingOK(buffer', read_idx', readable_bytes', write_idx')
    <2>1. write_idx' = IF w + 1 >= Len(b) THEN 0 ELSE w + 1
      BY <1>6, <1>8
    <2>2. write_idx' = IF r + (m + 1) >= Len(b) THEN r + (m + 1) - Len(b)
                       ELSE r + (m + 1)
      BY <1>2, <1>3, <1>4, <1>5, <2>1, SMTT(60)
    <2>3. RingOK(c, r, m + 1, write_idx')
      BY <1>2, <1>3, <1>5, <1>12, <2>2 DEF RingOK
    <2> QED
      BY <1>2, <1>8, <1>12, <2>3
  <1>16. rest' = u /\ readable_bytes' = m + 1 /\ got' = <<>> /\ left' = left /\ left \in Nat
    BY <1>1, <1>2, <1>8, <1>11 DEF CircularInv, CallOK
  <1>17. C!Contents' = Append(y, t[1])
    BY <1>2, <1>8, <1>12, <1>13, ContentsIsRingNext
  <1>18. C!Pending = Join(y, t)
    BY <1>1, <1>2, <1>13, ContentsIsRing DEF C!Pending, Join
  <1>19. cAborted' = FALSE
    BY <1>8 DEF CircularInv
  <1>20. CASE Len(t) = 1
    <2>1. pc' = "idle"
      BY <1>2, <1>8, <1>20
    <2>2. u = <<>>
      BY <1>11, <1>20, EmptySeq
    <2>3. Append(y, t[1]) \in Seq(Octets)
      BY <1>10, AppendProperties
    <2>4. Join(Append(y, t[1]), u) = Append(y, t[1])
      BY <2>2, <2>3, ConcatEmptySeq DEF Join
    <2>5. C!Pending' = C!Contents'
      BY <2>1 DEF C!Pending
    <2>6. CallOK'
      BY <1>16, <2>1, EmptySeq DEF CallOK
    <2> QED
      BY <1>8, <1>14, <1>15, <1>17, <1>18, <1>19, <2>4, <2>5, <2>6 DEF CircularInv
  <1>21. CASE Len(t) # 1
    <2>1. pc' = "push_str"
      BY <1>1, <1>2, <1>8, <1>21
    <2>2. Len(u) = Len(t) - 1 /\ Len(u) >= 1 /\ (m + 1) + Len(u) < Len(c)
      <3>1. /\ Len(t) >= 1 /\ m + Len(t) < Len(b)
            /\ Len(u) = Len(t) - 1 /\ Len(c) = Len(b)
        BY <1>2, <1>11, <1>12, Zenon
      <3> QED
        BY <1>3, <1>21, <3>1
    <2>3. C!Pending' = Join(C!Contents', u)
      BY <1>16, <2>1 DEF C!Pending, Join
    <2>4. CallOK'
      BY <1>12, <1>16, <2>1, <2>2, EmptySeq DEF CallOK
    <2> QED
      BY <1>8, <1>14, <1>15, <1>17, <1>18, <1>19, <2>3, <2>4 DEF CircularInv
  <1> QED
    BY <1>20, <1>21

\* read_int32() starts with as many bytes as it will pop.
LEMMA CircularReadStarts ==
    ASSUME CircularInv, C!read_int32
    PROVE  CircularInv' /\ C!Pending' = C!Pending /\ cInt' = cInt
  <1>1. /\ pc = "idle" /\ IntSize <= readable_bytes
        /\ pc' = "read_int32" /\ left' = IntSize
        /\ buffer' = buffer /\ readable_bytes' = readable_bytes
        /\ read_idx' = read_idx /\ write_idx' = write_idx
        /\ rest' = rest /\ got' = got /\ cInt' = cInt /\ cAborted' = cAborted
    BY DEF C!read_int32
  <1>2. IntSize \in Nat /\ IntSize >= 1
    BY BuffersAssumption
  <1>3. got = <<>> /\ Len(got) = 0
    BY <1>1 DEF CircularInv, CallOK
  <1>4. CallOK'
    BY <1>1, <1>2, <1>3 DEF CallOK, CircularInv
  <1>5. CircularInv'
    BY <1>1, <1>4 DEF CircularInv, RingOK
  <1>6. C!Contents' = C!Contents
    BY <1>1, ContentsIsRing, ContentsIsRingNext
  <1>7. C!Contents \in Seq(Octets)
    BY ContentsIsRing, RingCells DEF CircularInv, RingOK
  <1>8. <<>> \o C!Contents = C!Contents
    BY <1>7, ConcatEmptySeq
  <1>9. C!Pending = C!Contents
    BY <1>1 DEF C!Pending
  <1>10. C!Pending' = got' \o C!Contents'
    BY <1>1 DEF C!Pending
  <1> QED
    BY <1>1, <1>3, <1>5, <1>6, <1>8, <1>9, <1>10

\* So does retrieve(), which takes effect at once.
LEMMA CircularRetrieveStarts ==
    ASSUME CircularInv, NEW n \in Nat \ {0}, C!retrieve(n)
    PROVE  CircularInv' /\ C!Queue!Retrieve(n) /\ n <= Len(C!Pending)
  <1>1. /\ pc = "idle" /\ n <= readable_bytes
        /\ pc' = "retrieve" /\ left' = n
        /\ buffer' = buffer /\ readable_bytes' = readable_bytes
        /\ read_idx' = read_idx /\ write_idx' = write_idx
        /\ rest' = rest /\ got' = got /\ cInt' = cInt /\ cAborted' = cAborted
    BY DEF C!retrieve
  <1>2. CallOK'
    BY <1>1 DEF CallOK, CircularInv
  <1>3. CircularInv'
    BY <1>1, <1>2 DEF CircularInv, RingOK
  <1>4. C!Contents' = C!Contents
    BY <1>1, ContentsIsRing, ContentsIsRingNext
  <1>5. Len(C!Contents) = readable_bytes
    BY ContentsIsRing, RingCells DEF CircularInv, RingOK
  <1>6. C!Pending = C!Contents
    BY <1>1 DEF C!Pending
  <1>7. C!Pending' = SubSeq(C!Contents', left' + 1, readable_bytes')
    BY <1>1 DEF C!Pending
  <1>8. C!Pending' = C!Queue!From(C!Pending, n)
    BY <1>1, <1>4, <1>5, <1>6, <1>7 DEF C!Queue!From
  <1> QED
    BY <1>1, <1>3, <1>5, <1>6, <1>8 DEF C!Queue!Retrieve

\* pop() finds a byte.  An iteration of retrieve() changes nothing more, the
\* last one of read_int32() is when the integer is taken from the queue.
LEMMA CircularPop ==
    ASSUME CircularInv, C!pop
    PROVE  /\ CircularInv'
           /\ (C!Pending' = C!Pending /\ cInt' = cInt) \/ C!Queue!ReadInt
  <1>1. pc \in {"read_int32", "retrieve"}
    BY DEF C!pop
  <1>2. PICK b \in Seq(Octets), r \in Nat, m \in Nat, l \in Nat, g \in Seq(Octets) :
          /\ b = buffer /\ r = read_idx /\ m = readable_bytes /\ l = left /\ g = got
          /\ r < Len(b) /\ m < Len(b) /\ l >= 1 /\ l <= m
          /\ write_idx = IF r + m >= Len(b) THEN r + m - Len(b) ELSE r + m
    BY <1>1 DEF CircularInv, RingOK, CallOK
  <1>3. Len(b) \in Nat /\ Len(g) \in Nat
    BY LenProperties
  <1>4. read_idx # write_idx
    BY <1>2, <1>3
  <1> DEFINE seen == IF pc = "retrieve" THEN got ELSE Append(got, buffer[read_idx + 1])
  <1>5. /\ read_idx' = C!Succ(read_idx)
        /\ readable_bytes' = readable_bytes - 1
        /\ left' = left - 1
        /\ got' = IF left = 1 THEN <<>> ELSE seen
        /\ pc' = IF left = 1 THEN "idle" ELSE pc
        /\ cInt' = IF left = 1 /\ pc = "read_int32" THEN C!Queue!Value(seen) ELSE cInt
        /\ cAborted' = cAborted
        /\ buffer' = buffer /\ write_idx' = write_idx /\ rest' = rest
    BY <1>4 DEF C!pop
  <1> HIDE DEF seen
  <1>6. C!Succ(read_idx) = After(b, r)
    BY <1>2 DEF C!Succ, After
  <1>7. PICK y \in Seq(Octets) : y = Ring(b, r, m) /\ Len(y) = m
    BY <1>2, RingCells
  <1>8. b[r + 1] = y[1] /\ Ring(b, After(b, r), m - 1) = Part(y, 1, m)
    <2>1. r < Len(b) /\ m < Len(b) /\ m >= 1
      BY <1>2
    <2> QED
      BY <1>7, <2>1, RingPop
  <1>9. PICK n \in Nat, k \in Nat : n = m - 1 /\ k = l - 1 /\ k <= n
    <2>1. m - 1 \in Nat /\ l - 1 \in Nat /\ l - 1 <= m - 1
      BY <1>2
    <2> QED
      BY <2>1, Zenon
  <1>10. PICK r1 \in Nat :
           /\ r1 = After(b, r) /\ r1 < Len(b) /\ n < Len(b)
           /\ write_idx = IF r1 + n >= Len(b) THEN r1 + n - Len(b) ELSE r1 + n
    <2>1. /\ After(b, r) \in Nat /\ After(b, r) < Len(b)
          /\ n < Len(b)
      BY <1>2, <1>3, <1>9 DEF After
    <2>2. CASE r + 1 >= Len(b)
      <3>1. After(b, r) = 0 /\ r + 1 = Len(b)
        BY <1>2, <1>3, <2>2 DEF After
      <3>2. write_idx = n /\ 0 + n < Len(b)
        BY <1>2, <1>3, <1>9, <3>1, SMTT(60)
      <3>3. write_idx = IF 0 + n >= Len(b) THEN 0 + n - Len(b) ELSE 0 + n
        BY <1>3, <3>2
      <3> QED
        BY <2>1, <3>1, <3>3, Zenon
    <2>3. CASE ~(r + 1 >= Len(b))
      <3>1. After(b, r) = r + 1
        BY <2>3 DEF After
      <3>2. write_idx = IF (r + 1) + n >= Len(b) THEN (r + 1) + n - Len(b) ELSE (r + 1) + n
        BY <1>2, <1>3, <1>9
      <3> QED
        BY <2>1, <3>1, <3>2, Zenon
    <2> QED
      BY <2>2, <2>3
  <1>11. RingOK(buffer', read_idx', readable_bytes', write_idx')
    <2>1. RingOK(b, r1, n, write_idx)
      BY <1>10 DEF RingOK
    <2> QED
      BY <1>2, <1>5, <1>6, <1>9, <1>10, <2>1, Zenon
  <1>12. C!Contents = y
    BY <1>2, <1>7, ContentsIsRing, Zenon
  <1>13. C!Contents' = Part(y, 1, m)
    BY <1>2, <1>5, <1>6, <1>8, ContentsIsRingNext, Zenon
  <1>14. PICK v \in Seq(Octets) : v = Part(y, 1, m) /\ Len(v) = n
    <2>1. Len(y) >= 1
      BY <1>2, <1>7
    <2>2. /\ Part(y, 1, Len(y)) \in Seq(Octets)
          /\ Len(Part(y, 1, Len(y))) = Len(y) - 1
      BY <2>1, MoveOne
    <2> QED
      BY <1>7, <1>9, <2>2, Zenon
  <1>15. rest \in Seq(Octets) /\ cAborted' = FALSE
    BY <1>5 DEF CircularInv, CallOK
  <1>16. left' = k /\ readable_bytes' = n /\ rest' = rest
    BY <1>2, <1>5, <1>9, Zenon
  <1>17. CASE pc = "retrieve"
    <2>1. got = <<>> /\ seen = <<>> /\ got' = <<>> /\ cInt' = cInt
      BY <1>5, <1>17 DEF CircularInv, CallOK, seen
    <2>2. C!Pending = Part(y, l, m)
      BY <1>2, <1>12, <1>17 DEF C!Pending, Part
    <2>3. CASE l = 1
      <3>1. pc' = "idle"
        BY <1>2, <1>5, <2>3
      <3>2. C!Pending' = C!Contents'
        BY <3>1 DEF C!Pending
      <3>3. CallOK'
        BY <1>15, <1>16, <2>1, <3>1, EmptySeq DEF CallOK
      <3> QED
        BY <1>11, <1>13, <1>15, <2>1, <2>2, <2>3, <3>2, <3>3 DEF CircularInv
    <2>4. CASE l # 1
      <3>1. pc' = "retrieve"
        BY <1>2, <1>5, <1>17, <2>4
      <3>2. C!Pending' = Part(C!Contents', k, n)
        BY <1>16, <3>1 DEF C!Pending, Part
      <3>3. Part(Part(y, 1, m), k, n) = Part(y, 1 + k, 1 + n)
        <4>1. 1 \in Nat /\ 1 <= m /\ m <= Len(y) /\ k <= n /\ n <= m - 1
          BY <1>2, <1>7, <1>9
        <4> QED
          BY <4>1, PartOfPart
      <3>4. 1 + k = l /\ 1 + n = m /\ k >= 1
        BY <1>2, <1>9, <2>4
      <3>5. C!Pending' = C!Pending
        BY <1>13, <2>2, <3>2, <3>3, <3>4, Zenon
      <3>6. CallOK'
        BY <1>9, <1>15, <1>16, <2>1, <3>1, <3>4, EmptySeq DEF CallOK
      <3> QED
        BY <1>11, <1>15, <2>1, <3>5, <3>6 DEF CircularInv
    <2> QED
      BY <2>3, <2>4
  <1>18. CASE pc = "read_int32"
    <2>1. PICK u \in Seq(Octets) :
            /\ u = Append(g, y[1]) /\ Len(u) = Len(g) + 1
            /\ Join(u, v) = Join(g, y)
      <3>1. Len(y) >= 1
        BY <1>2, <1>7
      <3>2. /\ Append(g, y[1]) \in Seq(Octets)
            /\ Len(Append(g, y[1])) = Len(g) + 1
            /\ Join(Append(g, y[1]), Part(y, 1, Len(y))) = Join(g, y)
        BY <3>1, MoveOne
      <3> QED
        BY <1>7, <1>14, <3>2, Zenon
    <2>2. seen = u
      BY <1>2, <1>8, <1>18, <2>1 DEF seen
    <2>3. Len(g) + l = IntSize
      BY <1>2, <1>18 DEF CircularInv, CallOK
    <2>4. Len(u) + k = IntSize
      <3>1. Len(u) = Len(g) + 1
        BY <2>1, Zenon
      <3> QED
        BY <1>3, <1>9, <2>3, <3>1
    <2>5. C!Pending = Join(g, y)
      BY <1>2, <1>12, <1>18 DEF C!Pending, Join
    <2>6. CASE l = 1
      <3>1. pc' = "idle" /\ got' = <<>> /\ cInt' = C!Queue!Value(u)
        BY <1>2, <1>5, <1>18, <2>2, <2>6
      <3>2. C!Pending' = v
        BY <1>13, <1>14, <3>1 DEF C!Pending
      <3>3. CallOK'
        BY <1>15, <1>16, <3>1, EmptySeq DEF CallOK
      <3>4. CircularInv'
        BY <1>11, <1>15, <3>3 DEF CircularInv
      <3>5. Len(u) = IntSize /\ Len(u) \in Nat /\ Len(v) \in Nat
        BY <1>9, <2>4, <2>6, LenProperties
      <3>6. /\ Part(Join(u, v), 0, Len(u)) = u
            /\ Part(Join(u, v), Len(u), Len(u) + Len(v)) = v
        BY JoinParts
      <3>7. Len(Join(u, v)) = Len(u) + Len(v)
        BY JoinCells
      <3>8. C!Pending = Join(u, v)
        BY <2>1, <2>5, Zenon
      <3>9. SubSeq(C!Pending, 1, IntSize) = u
        <4>1. 0 + 1 = 1
          OBVIOUS
        <4> QED
          BY <3>5, <3>6, <3>8, <4>1, Zenon DEF Part
      <3>10. C!Queue!From(C!Pending, IntSize) = v
        BY <3>5, <3>6, <3>7, <3>8, Zenon DEF Part, C!Queue!From
      <3>11. IntSize <= Len(C!Pending)
        <4>1. Len(C!Pending) = IntSize + Len(v)
          BY <3>5, <3>7, <3>8, Zenon
        <4> QED
          BY <3>5, <4>1
      <3>12. C!Queue!ReadInt
        BY <3>1, <3>2, <3>9, <3>10, <3>11, Zenon DEF C!Queue!ReadInt
      <3> QED
        BY <3>4, <3>12
    <2>7. CASE l # 1
      <3>1. pc' = "read_int32" /\ got' = u /\ cInt' = cInt
        BY <1>2, <1>5, <1>18, <2>2, <2>7
      <3>2. C!Pending' = Join(u, v)
        BY <1>13, <1>14, <3>1 DEF C!Pending, Join
      <3>3. k >= 1
        BY <1>2, <1>9, <2>7
      <3>4. CallOK'
        BY <1>9, <1>15, <1>16, <2>4, <3>1, <3>3 DEF CallOK
      <3> QED
        BY <1>11, <1>15, <2>1, <2>5, <3>1, <3>2, <3>4, Zenon DEF CircularInv
    <2> QED
      BY <2>6, <2>7
  <1> QED
    BY <1>1, <1>17, <1>18

\* Every step of Buffers is a step of the queue, or leaves it alone.
LEMMA CircularStep ==
    ASSUME CircularInv, [Next]_vars
    PROVE  CircularInv' /\ [C!Queue!QueueNext]_(C!Queue!queueVars)
  <1>1. ASSUME NEW s \in Pieces, AppendString(s) \/ Readfd(s)
        PROVE  CircularInv' /\ C!Queue!QueueNext
    <2>1. s \in Seq(Octets)
      BY BuffersAssumption DEF Octets
    <2>2. C!push_str(s)
      BY <1>1 DEF AppendString, Readfd, C!readfd
    <2>3. CircularInv' /\ C!Queue!Enqueue(s)
      BY <2>1, <2>2, CircularStarts
    <2> QED
      BY <2>3 DEF C!Queue!QueueNext
  <1>2. CASE ReadInt
    BY <1>2, CircularReadStarts DEF ReadInt, C!Queue!queueVars
  <1>3. ASSUME NEW n \in 1..MaxBuffered, Retrieve(n)
        PROVE  CircularInv' /\ C!Queue!QueueNext
    <2>1. C!retrieve(n) /\ n \in Nat \ {0}
      BY <1>3, BuffersAssumption DEF Retrieve
    <2>2. CircularInv' /\ C!Queue!Retrieve(n) /\ n <= Len(C!Pending)
      BY <2>1, CircularRetrieveStarts
    <2>3. Len(C!Pending) \in Nat
      <3>1. C!Pending = C!Contents
        BY <2>1 DEF C!retrieve, C!Pending
      <3> QED
        BY <3>1, ContentsIsRing, RingCells DEF CircularInv, RingOK
    <2>4. n \in 1..Len(C!Pending)
      BY <2>1, <2>2, <2>3
    <2> QED
      BY <2>2, <2>4 DEF C!Queue!QueueNext
  <1>4. CASE Iteration
    BY <1>4, CircularPush, CircularPop
       DEF Iteration, C!Queue!queueVars, C!Queue!QueueNext
  <1>5. CASE UNCHANGED vars
    <2>1. CircularInv'
      BY <1>5 DEF vars, circularVars, CircularInv, RingOK, CallOK
    <2>2. C!Contents' = C!Contents
      BY <1>5, ContentsIsRing, ContentsIsRingNext DEF vars, circularVars
    <2>3. UNCHANGED C!Queue!queueVars
      BY <1>5, <2>2 DEF vars, circularVars, C!Queue!queueVars, C!Pending
    <2> QED
      BY <2>1, <2>3
  <1> QED
    BY <1>1, <1>2, <1>3, <1>4, <1>5 DEF Next

\* Wrapping around, unrolling into a larger array and the refusal of the last
\* free cell never lose, repeat or reorder a byte (class CircularBuffer): for
\* every initial size and every set of strings, it implements the queue.
THEOREM CircularBufferImplementsQueue == Spec => CircularBufferIsQueue
  <1>1. Init => CircularInv /\ C!Queue!QueueInit
    BY CircularInit
  <1>2. CircularInv /\ [Next]_vars
          => CircularInv' /\ [C!Queue!QueueNext]_(C!Queue!queueVars)
    BY CircularStep
  <1> QED
    BY <1>1, <1>2, PTL DEF Spec, CircularBufferIsQueue, C!Queue!QueueSpec

\* No call runs into an assertion of tbuf.h or circular_buffer.h, for every
\* set of strings, the empty one included, as long as the program respects
\* the preconditions: to take no more than is there, and not to append an
\* empty string to a Tbuf whose array is full, which fails tbuf.h:60.
THEOREM NoAssertionFails == Spec => []AssertionsHold
  <1>1. Init => TbufInv /\ CircularInv
    BY TbufInit, CircularInit
  <1>2. TbufInv /\ CircularInv /\ [Next]_vars => TbufInv' /\ CircularInv'
    BY TbufStep, CircularStep
  <1>3. TbufInv /\ CircularInv => AssertionsHold
    BY DEF TbufInv, CircularInv, AssertionsHold
  <1> QED
    BY <1>1, <1>2, <1>3, PTL DEF Spec

=============================================================================
