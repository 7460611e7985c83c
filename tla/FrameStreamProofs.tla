------------------------- MODULE FrameStreamProofs -------------------------
(***************************************************************************)
(* Proofs about FrameStream, for any header, any payload sizes, any room   *)
(* in the kernel and any number of frames: however the bytes are cut into  *)
(* writes and reads, the frames arrive whole and in order, and the end of  *)
(* the stream after the last of them.                                      *)
(***************************************************************************)
EXTENDS FrameStream, SequenceTheorems, TLAPS

(***************************************************************************)
(* Lemmas about sequences and frames.                                      *)
(***************************************************************************)

(* The two pieces in which a write or a read cuts a sequence. *)
LEMMA Pieces ==
  ASSUME NEW S, NEW s \in Seq(S), NEW n \in 0 .. Len(s)
  PROVE  /\ First(s, n) \in Seq(S) /\ Len(First(s, n)) = n
         /\ Rest(s, n) \in Seq(S) /\ Len(Rest(s, n)) = Len(s) - n
         /\ \A i \in 1 .. Len(s) - n : Rest(s, n)[i] = s[n + i]
         /\ First(s, n) \o Rest(s, n) = s
<1>1. Len(s) \in Nat /\ \A i \in 1 .. Len(s) : s[i] \in S
  BY LenProperties, ElementOfSeq
<1>2. First(s, n) \in Seq(S) /\ Len(First(s, n)) = n
  BY <1>1, SubSeqProperties DEF First
<1>3. /\ Rest(s, n) \in Seq(S) /\ Len(Rest(s, n)) = Len(s) - n
      /\ \A i \in 1 .. Len(s) - n : Rest(s, n)[i] = s[n + i]
  <2>1. \A i \in n + 1 .. Len(s) : s[i] \in S
    BY <1>1
  <2>2. /\ Rest(s, n) \in Seq(S)
        /\ Len(Rest(s, n)) = IF n + 1 <= Len(s) THEN Len(s) - (n + 1) + 1 ELSE 0
        /\ \A i \in 1 .. Len(s) - (n + 1) + 1 : Rest(s, n)[i] = s[(n + 1) + i - 1]
    BY <1>1, <2>1, SubSeqProperties DEF Rest
  <2> QED
    BY <1>1, <2>2
<1>4. First(s, n) \o Rest(s, n) = s
  <2>1. /\ 1 \in 1 .. Len(s) + 1
        /\ n \in 1 - 1 .. Len(s)
        /\ Len(s) \in n .. Len(s)
    BY <1>1
  <2>2. SubSeq(s, 1, n) \o SubSeq(s, n + 1, Len(s)) = SubSeq(s, 1, Len(s))
    BY <2>1, ConcatAdjacentSubSeq
  <2> QED
    BY <2>2, SubSeqFull DEF First, Rest
<1> QED
  BY <1>2, <1>3, <1>4

(* ConcatAssociative as a formula, which is easier to instantiate. *)
LEMMA Associative ==
  \A a, b, c \in Seq(AllBytes) : (a \o b) \o c = a \o (b \o c) /\ a \o b \in Seq(AllBytes)
BY ConcatAssociative, ConcatProperties

(* Moving the first n elements of one sequence to the end of the one before it
   leaves the concatenation as it was. *)
LEMMA MoveFirst ==
  ASSUME NEW r \in Seq(AllBytes), NEW s \in Seq(AllBytes), NEW n \in 0 .. Len(s)
  PROVE  (r \o First(s, n)) \o Rest(s, n) = r \o s
<1>1. /\ First(s, n) \in Seq(AllBytes) /\ Rest(s, n) \in Seq(AllBytes)
      /\ First(s, n) \o Rest(s, n) = s
  BY Pieces
<1>2. (r \o First(s, n)) \o Rest(s, n) = r \o (First(s, n) \o Rest(s, n))
  BY <1>1, Associative, Zenon
<1> QED
  BY <1>1, <1>2

(* What is behind the first n elements of a concatenation, n within its first
   part. *)
LEMMA RestOfConcat ==
  ASSUME NEW S, NEW r \in Seq(S), NEW s \in Seq(S), NEW n \in 0 .. Len(r)
  PROVE  Rest(r \o s, n) = Rest(r, n) \o s
<1> DEFINE c == r \o s
           q == Rest(r, n)
           d == q \o s
<1>1. Len(r) \in Nat /\ Len(s) \in Nat /\ n \in Nat /\ n <= Len(r)
  BY LenProperties
<1>2. /\ c \in Seq(S) /\ Len(c) = Len(r) + Len(s)
      /\ \A i \in 1 .. Len(r) + Len(s) : c[i] = IF i <= Len(r) THEN r[i] ELSE s[i - Len(r)]
  BY ConcatProperties
<1>3. /\ q \in Seq(S) /\ Len(q) = Len(r) - n
      /\ \A i \in 1 .. Len(r) - n : q[i] = r[n + i]
  BY Pieces
<1> HIDE DEF q
<1>4. /\ d \in Seq(S) /\ Len(d) = (Len(r) - n) + Len(s)
      /\ \A i \in 1 .. (Len(r) - n) + Len(s) :
           d[i] = IF i <= Len(r) - n THEN q[i] ELSE s[i - (Len(r) - n)]
  <2>1. /\ d \in Seq(S) /\ Len(d) = Len(q) + Len(s)
        /\ \A i \in 1 .. Len(q) + Len(s) : d[i] = IF i <= Len(q) THEN q[i] ELSE s[i - Len(q)]
    BY <1>3, ConcatProperties
  <2> QED
    BY <2>1, <1>3
<1> HIDE DEF c, d
<1>5. c \in Seq(S) /\ n \in 0 .. Len(c)
  BY <1>1, <1>2
<1>6. /\ Rest(c, n) \in Seq(S) /\ Len(Rest(c, n)) = Len(c) - n
      /\ \A i \in 1 .. Len(c) - n : Rest(c, n)[i] = c[n + i]
  BY <1>5, Pieces
<1>7. Len(Rest(c, n)) = Len(d)
  BY <1>1, <1>2, <1>4, <1>6
<1>8. ASSUME NEW i \in 1 .. Len(Rest(c, n))
      PROVE  Rest(c, n)[i] = d[i]
  <2>1. /\ i \in 1 .. (Len(r) - n) + Len(s) /\ n + i \in 1 .. Len(r) + Len(s)
        /\ Rest(c, n)[i] = c[n + i]
    BY <1>1, <1>2, <1>6
  <2>2. CASE i <= Len(r) - n
    <3>1. n + i <= Len(r) /\ i \in 1 .. Len(r) - n
      BY <2>1, <2>2, <1>1
    <3> QED
      BY <2>1, <2>2, <3>1, <1>2, <1>3, <1>4
  <2>3. CASE i > Len(r) - n
    <3>1. ~(n + i <= Len(r)) /\ (n + i) - Len(r) = i - (Len(r) - n)
      BY <2>1, <2>3, <1>1
    <3>2. ~(i <= Len(r) - n)
      BY <2>1, <2>3, <1>1
    <3> QED
      BY <2>1, <3>1, <3>2, <1>2, <1>4
  <2> QED
    BY <2>1, <2>2, <2>3, <1>1
<1>9. Rest(c, n) = d
  BY <1>4, <1>6, <1>7, <1>8, SeqEqual
<1> QED
  BY <1>9 DEF c, d, q

(* A frame as bytes. *)
LEMMA FrameBytes ==
  ASSUME NEW n \in Nat, NEW size \in Sizes
  PROVE  /\ Bytes(n, size) \in Seq(AllBytes)
         /\ Len(Bytes(n, size)) = Header + size
         /\ \A i \in 1 .. Header + size : Bytes(n, size)[i] = Byte(n, size, i)
         /\ Header + size \in Nat \ {0}
<1>1. Header + size \in Nat \ {0} /\ size \in Nat
  BY StreamAssumption
<1>2. \A i \in 1 .. Header + size : Byte(n, size, i) \in AllBytes
  BY <1>1 DEF Byte, AllBytes
<1>3. Bytes(n, size) \in [1 .. Header + size -> AllBytes]
  BY <1>2 DEF Bytes
<1>4. Bytes(n, size) \in Seq(AllBytes)
  BY <1>1, <1>3, SeqDef
<1> QED
  BY <1>1, <1>3, <1>4, LenProperties DEF Bytes

(* Sending a frame: its bytes behind aligned ones are aligned. *)
LEMMA SendAligned ==
  ASSUME NEW s \in Seq(AllBytes), NEW first \in Nat, NEW sizes \in Seq(Sizes),
         NEW size \in Sizes, Aligned(s, first, sizes)
  PROVE  Aligned(s \o Bytes(Len(sizes) + 1, size), first, Append(sizes, size))
<1> DEFINE n == Len(sizes) + 1
           b == Bytes(n, size)
           t == s \o b
           new == Append(sizes, size)
<1>1. Len(sizes) \in Nat /\ n \in Nat /\ DOMAIN sizes = 1 .. Len(sizes)
  BY LenProperties
<1>2. /\ new \in Seq(Sizes) /\ Len(new) = n /\ DOMAIN new = 1 .. n
      /\ \A i \in 1 .. Len(sizes) : new[i] = sizes[i]
      /\ new[n] = size
  BY <1>1, AppendProperties, LenProperties
<1>3. /\ b \in Seq(AllBytes) /\ Len(b) = Header + size /\ Header + size \in Nat \ {0}
      /\ \A i \in 1 .. Header + size : b[i] = Byte(n, size, i)
  BY <1>1, FrameBytes
<1>4. Len(s) \in Nat /\ DOMAIN s = 1 .. Len(s)
  BY LenProperties
<1>5. Header \in Nat \ {0} /\ size \in Nat /\ \A i \in DOMAIN sizes : sizes[i] \in Nat
  BY <1>1, StreamAssumption, ElementOfSeq
<1> HIDE DEF n, b, new
<1>6. /\ t \in Seq(AllBytes) /\ Len(t) = Len(s) + (Header + size) /\ DOMAIN t = 1 .. Len(t)
      /\ \A i \in 1 .. Len(s) : t[i] = s[i]
      /\ \A i \in 1 .. Header + size : t[Len(s) + i] = Byte(n, size, i)
  <2>1. /\ t \in Seq(AllBytes) /\ Len(t) = Len(s) + Len(b)
        /\ \A i \in 1 .. Len(s) + Len(b) : t[i] = IF i <= Len(s) THEN s[i] ELSE b[i - Len(s)]
    BY <1>3, ConcatProperties
  <2>2. DOMAIN t = 1 .. Len(t)
    BY <2>1, LenProperties
  <2>3. \A i \in 1 .. Len(s) : t[i] = s[i]
    BY <2>1, <1>3, <1>4
  <2>4. ASSUME NEW i \in 1 .. Header + size
        PROVE  t[Len(s) + i] = Byte(n, size, i)
    BY <2>1, <1>3, <1>4
  <2> QED
    BY <2>1, <2>2, <2>3, <2>4, <1>3
<1> HIDE DEF t
<1>7. ASSUME NEW i \in DOMAIN t, i <= Len(s)
      PROVE  InPlace(t, i, new)
  <2>1. i \in 1 .. Len(s) /\ t[i] = s[i]
    BY <1>4, <1>6, <1>7
  <2>2. /\ s[i].frame \in DOMAIN sizes
        /\ s[i].size = sizes[s[i].frame]
        /\ s[i].at \in 1 .. Header + s[i].size
        /\ \A j \in s[i].at .. Header + s[i].size :
             i + (j - s[i].at) \in DOMAIN s /\ s[i + (j - s[i].at)] = Byte(s[i].frame, s[i].size, j)
        /\ s[i].at = Header + s[i].size =>
             IF i = Len(s) THEN s[i].frame = Len(sizes)
             ELSE s[i + 1].frame = s[i].frame + 1 /\ s[i + 1].at = 1
    BY <2>1, <1>4 DEF Aligned, InPlace
  <2>3. s[i].size \in Nat
    BY <2>2, <1>5
  <2>4. t[i].frame \in DOMAIN new /\ t[i].size = new[t[i].frame]
    BY <2>1, <2>2, <1>1, <1>2, n \in Nat DEF n
  <2>5. ASSUME NEW j \in t[i].at .. Header + t[i].size
        PROVE  LET k == i + (j - t[i].at)
               IN  k \in DOMAIN t /\ t[k] = Byte(t[i].frame, t[i].size, j)
    <3>1. i + (j - s[i].at) \in 1 .. Len(s)
      BY <2>1, <2>2, <1>4
    <3>2. t[i + (j - s[i].at)] = s[i + (j - s[i].at)]
      BY <3>1, <1>6
    <3>3. i + (j - s[i].at) \in DOMAIN t
      BY <3>1, <1>3, <1>4, <1>6
    <3> QED
      BY <2>1, <2>2, <3>2, <3>3
  <2>6. ASSUME t[i].at = Header + t[i].size
        PROVE  IF i = Len(t) THEN t[i].frame = Len(new)
               ELSE t[i + 1].frame = t[i].frame + 1 /\ t[i + 1].at = 1
    <3>1. i # Len(t)
      BY <2>1, <1>3, <1>4, <1>6
    <3>2. CASE i = Len(s)
      <4>1. t[i + 1] = Byte(n, size, 1)
        <5>1. 1 \in 1 .. Header + size
          BY <1>3
        <5> QED
          BY <5>1, <3>2, <1>6
      <4>2. t[i].frame = Len(sizes)
        BY <3>2, <2>1, <2>2, <2>6
      <4> QED
        BY <3>1, <4>1, <4>2, <1>1 DEF Byte, n
    <3>3. CASE i # Len(s)
      <4>1. i + 1 \in 1 .. Len(s)
        BY <3>3, <2>1, <1>4
      <4> QED
        BY <3>1, <3>3, <4>1, <2>1, <2>2, <2>6, <1>6
    <3> QED
      BY <3>2, <3>3
  <2> QED
    BY <2>1, <2>2, <2>4, <2>5, <2>6 DEF InPlace
<1>8. ASSUME NEW i \in DOMAIN t, i > Len(s)
      PROVE  InPlace(t, i, new)
  <2> DEFINE a == i - Len(s)
  <2>1. a \in 1 .. Header + size /\ i = Len(s) + a
    BY <1>3, <1>4, <1>6, <1>8
  <2>2. t[i] = Byte(n, size, a)
    BY <2>1, <1>6
  <2>3. t[i].frame = n /\ t[i].size = size /\ t[i].at = a
    BY <2>2 DEF Byte
  <2>4. n \in DOMAIN new /\ new[n] = size /\ Len(new) = n
    BY <1>2, <1>1 DEF n
  <2>5. ASSUME NEW j \in a .. Header + size
        PROVE  i + (j - a) \in DOMAIN t /\ t[i + (j - a)] = Byte(n, size, j)
    <3>1. j \in 1 .. Header + size /\ i + (j - a) = Len(s) + j
      BY <2>1, <1>3, <1>4
    <3> QED
      BY <3>1, <1>3, <1>4, <1>6
  <2>6. a = Header + size => i = Len(t)
    BY <2>1, <1>6
  <2> HIDE DEF a
  <2> QED
    BY <2>1, <2>3, <2>4, <2>5, <2>6 DEF InPlace
<1>9. IF t = <<>> THEN first = Len(new) + 1 ELSE t[1].frame = first /\ t[1].at = 1
  <2>1. t # <<>>
    BY <1>3, <1>4, <1>6, EmptySeq
  <2>2. CASE s = <<>>
    <3>1. Len(s) = 0 /\ first = n
      BY <2>2, EmptySeq DEF Aligned, n
    <3>2. t[1] = Byte(n, size, 1)
      BY <3>1, <1>3, <1>6
    <3> QED
      BY <2>1, <3>1, <3>2 DEF Byte
  <2>3. CASE s # <<>>
    <3>1. 1 \in 1 .. Len(s)
      BY <2>3, EmptySeq
    <3> QED
      BY <2>1, <2>3, <3>1, <1>6 DEF Aligned
  <2> QED
    BY <2>2, <2>3
<1>10. Aligned(t, first, new)
  <2>1. \A i \in DOMAIN t : i <= Len(s) \/ i > Len(s)
    BY <1>4, <1>6
  <2>2. \A i \in DOMAIN t : InPlace(t, i, new)
    BY <2>1, <1>7, <1>8
  <2> QED
    BY <2>2, <1>9 DEF Aligned
<1> QED
  BY <1>10 DEF t, b, n, new

(* Handing out a frame: aligned bytes begin with a whole frame, the first one,
   and what is behind it is aligned for the next. *)
LEMMA CutAligned ==
  ASSUME NEW s \in Seq(AllBytes), NEW first \in Nat, NEW sizes \in Seq(Sizes),
         Aligned(s, first, sizes), s # <<>>
  PROVE  /\ first \in DOMAIN sizes /\ s[1].size = sizes[first] /\ s[1].at = 1
         /\ Header + s[1].size \in 1 .. Len(s)
         /\ \A j \in 1 .. Header + s[1].size : s[j] = Byte(first, s[1].size, j)
         /\ Aligned(Rest(s, Header + s[1].size), first + 1, sizes)
<1> DEFINE size == s[1].size
           m == Header + size
           t == Rest(s, m)
<1>1. /\ Len(s) \in Nat \ {0} /\ DOMAIN s = 1 .. Len(s)
      /\ Len(sizes) \in Nat /\ DOMAIN sizes = 1 .. Len(sizes)
  BY EmptySeq, LenProperties
<1>2. \A i \in 1 .. Len(s) : InPlace(s, i, sizes)
  BY <1>1 DEF Aligned
<1>3. InPlace(s, 1, sizes) /\ s[1].frame = first /\ s[1].at = 1
  BY <1>1, <1>2 DEF Aligned
<1>4. first \in DOMAIN sizes /\ size = sizes[first] /\ size \in Nat
  BY <1>1, <1>3, StreamAssumption, ElementOfSeq DEF InPlace
<1>5. m \in Nat \ {0} /\ Header \in Nat
  BY <1>4, StreamAssumption
<1>6. \A j \in 1 .. m : 1 + (j - 1) \in DOMAIN s /\ s[1 + (j - 1)] = Byte(first, size, j)
  BY <1>3 DEF InPlace
<1>7. \A j \in 1 .. m : j \in 1 .. Len(s) /\ s[j] = Byte(first, size, j)
  BY <1>1, <1>5, <1>6
<1>8. m \in 1 .. Len(s) /\ s[m] = Byte(first, size, m)
  BY <1>5, <1>7
<1>9. /\ t \in Seq(AllBytes) /\ Len(t) = Len(s) - m /\ DOMAIN t = 1 .. Len(t)
      /\ \A i \in 1 .. Len(t) : t[i] = s[m + i]
  <2>1. m \in 0 .. Len(s)
    BY <1>1, <1>8
  <2>2. /\ t \in Seq(AllBytes) /\ Len(t) = Len(s) - m
        /\ \A i \in 1 .. Len(s) - m : t[i] = s[m + i]
    BY <2>1, Pieces
  <2> QED
    BY <2>2, LenProperties
<1>10. IF m = Len(s) THEN first = Len(sizes) ELSE s[m + 1].frame = first + 1 /\ s[m + 1].at = 1
  <2>1. s[m].frame = first /\ s[m].size = size /\ s[m].at = m
    BY <1>8 DEF Byte
  <2>2. InPlace(s, m, sizes)
    BY <1>2, <1>8
  <2> QED
    BY <2>1, <2>2 DEF InPlace
<1> HIDE DEF t, m, size
<1>14. Len(s) \in Nat /\ m \in Nat /\ Len(t) \in Nat /\ Len(s) = m + Len(t)
  <2>1. Len(t) \in Nat
    BY <1>9, LenProperties
  <2> QED
    BY <2>1, <1>1, <1>5, <1>9
<1>11. ASSUME NEW i \in DOMAIN t
       PROVE  InPlace(t, i, sizes)
  <2>1. i \in 1 .. Len(t) /\ m + i \in 1 .. Len(s) /\ t[i] = s[m + i]
    BY <1>1, <1>8, <1>9
  <2> DEFINE b == s[m + i]
  <2>2. /\ b.frame \in DOMAIN sizes
        /\ b.size = sizes[b.frame]
        /\ b.at \in 1 .. Header + b.size
        /\ \A j \in b.at .. Header + b.size :
             (m + i) + (j - b.at) \in DOMAIN s /\ s[(m + i) + (j - b.at)] = Byte(b.frame, b.size, j)
        /\ b.at = Header + b.size =>
             IF m + i = Len(s) THEN b.frame = Len(sizes)
             ELSE s[(m + i) + 1].frame = b.frame + 1 /\ s[(m + i) + 1].at = 1
    BY <2>1, <1>2 DEF InPlace
  <2>3. b.size \in Nat
    BY <2>2, <1>1, StreamAssumption, ElementOfSeq
  <2>4. ASSUME NEW j \in b.at .. Header + b.size
        PROVE  i + (j - b.at) \in DOMAIN t /\ t[i + (j - b.at)] = Byte(b.frame, b.size, j)
    <3>1. (m + i) + (j - b.at) \in 1 .. Len(s) /\ s[(m + i) + (j - b.at)] = Byte(b.frame, b.size, j)
      BY <2>2, <1>1
    <3>2. /\ i + (j - b.at) \in 1 .. Len(t)
          /\ m + (i + (j - b.at)) = (m + i) + (j - b.at)
      <4> DEFINE d == j - b.at
      <4>1. d \in Nat /\ i \in Nat \ {0}
        <5>1. b.at \in Nat
          BY <2>2, <2>3, <1>5
        <5>2. i \in Nat \ {0}
          BY <2>1, <1>14
        <5> HIDE DEF b
        <5> QED
          BY <5>1, <5>2, <2>3, <1>5
      <4>2. (m + i) + d <= Len(s)
        BY <3>1, <1>14
      <4> HIDE DEF d
      <4>3. i + d \in 1 .. Len(t) /\ m + (i + d) = (m + i) + d
        BY <4>1, <4>2, <1>14
      <4> QED
        BY <4>3 DEF d
    <3> QED
      BY <3>1, <3>2, <1>9
  <2>5. ASSUME b.at = Header + b.size
        PROVE  IF i = Len(t) THEN b.frame = Len(sizes)
               ELSE t[i + 1].frame = b.frame + 1 /\ t[i + 1].at = 1
    <3>1. CASE i = Len(t)
      <4>1. m + i = Len(s)
        BY <3>1, <1>14
      <4> QED
        BY <3>1, <4>1, <2>2, <2>5
    <3>2. CASE i # Len(t)
      <4>1. /\ i + 1 \in 1 .. Len(t)
            /\ m + (i + 1) = (m + i) + 1
            /\ m + i # Len(s)
        BY <3>2, <2>1, <1>14
      <4>2. t[i + 1] = s[(m + i) + 1]
        BY <4>1, <1>9
      <4> QED
        BY <3>2, <4>1, <4>2, <2>2, <2>5
    <3> QED
      BY <3>1, <3>2
  <2>6. t[i] = b
    BY <2>1
  <2> HIDE DEF b
  <2> QED
    BY <2>2, <2>4, <2>5, <2>6 DEF InPlace
<1>12. IF t = <<>> THEN first + 1 = Len(sizes) + 1 ELSE t[1].frame = first + 1 /\ t[1].at = 1
  <2>1. CASE t = <<>>
    <3>1. Len(t) = 0
      BY <2>1, EmptySeq
    <3>2. m = Len(s)
      BY <3>1, <1>14
    <3> QED
      BY <2>1, <3>2, <1>10
  <2>2. CASE t # <<>>
    <3>1. 1 \in 1 .. Len(t)
      BY <2>2, <1>9, EmptySeq
    <3>2. m # Len(s) /\ t[1] = s[m + 1]
      BY <3>1, <1>14, <1>9
    <3> QED
      BY <2>2, <3>2, <1>10
  <2> QED
    BY <2>1, <2>2
<1>13. Aligned(t, first + 1, sizes)
  BY <1>11, <1>12 DEF Aligned
<1> QED
  BY <1>3, <1>4, <1>7, <1>8, <1>13 DEF t, m, size

(***************************************************************************)
(* The invariant.                                                          *)
(***************************************************************************)

IInv == TypeOK /\ WritingWithOutput /\ WholeFrames /\ StreamInv

LEMMA InitInvariant == Init => IInv
<1> SUFFICES ASSUME Init PROVE IInv
  OBVIOUS
<1>1. \A S : <<>> \in Seq(S)
  BY EmptySeq
<1>2. TypeOK
  BY <1>1 DEF Init, TypeOK
<1>3. Stream = <<>>
  <2>1. <<>> \o <<>> = <<>>
    BY ConcatEmptySeq, EmptySeq
  <2> QED
    BY <2>1 DEF Init, Stream
<1>4. Len(got) = 0 /\ Len(sent) = 0
  BY DEF Init
<1>5. Aligned(Stream, Len(got) + 1, sent)
  <2>1. DOMAIN Stream = {}
    BY <1>3
  <2> QED
    BY <2>1, <1>3, <1>4 DEF Aligned
<1>6. Complete(in) = {}
  BY StreamAssumption DEF Init, Complete
<1>7. WritingWithOutput /\ WholeFrames
  BY <1>4 DEF Init, WritingWithOutput, WholeFrames
<1>8. StreamInv
  BY <1>5, <1>6 DEF Init, StreamInv
<1> QED
  BY <1>2, <1>7, <1>8 DEF IInv

(* send: the frame goes to the socket, to the output buffer, or in part to each. *)
LEMMA SendInvariant ==
  ASSUME IInv, NEW size \in Sizes, Send(size)
  PROVE  IInv'
<1> DEFINE n == Len(sent) + 1
           b == Bytes(n, size)
<1>1. /\ sent \in Seq(Sizes) /\ Len(sent) \in Nat /\ n \in Nat /\ Len(got) \in Nat
      /\ out \in Seq(AllBytes) /\ net \in Seq(AllBytes) /\ in \in Seq(AllBytes)
  BY LenProperties DEF IInv, TypeOK
<1>2. /\ b \in Seq(AllBytes) /\ Len(b) = Header + size /\ Header + size \in Nat \ {0}
      /\ b # <<>>
  BY <1>1, FrameBytes, EmptySeq
<1> HIDE DEF n, b
<1>3. /\ sent' = Append(sent, size)
      /\ SendInLoop(b)
      /\ UNCHANGED <<state, shut, gone, in, parsing, ended, got>>
      /\ state = "kConnected"
  BY DEF Send, n, b
<1>4. sent' \in Seq(Sizes) /\ Len(sent') = n /\ \A i \in 1 .. Len(sent) : sent'[i] = sent[i]
  BY <1>1, <1>3, AppendProperties DEF n
<1>5. /\ out' \in Seq(AllBytes) /\ net' \in Seq(AllBytes) /\ writing' \in BOOLEAN
      /\ writing' <=> out' # <<>>
      /\ ~gone => net' \o out' = (net \o out) \o b
  <2>1. CASE /\ ~writing /\ out = <<>> /\ ~gone
             /\ \E m \in Takes(b) :
                  /\ net' = net \o First(b, m)
                  /\ out' = Rest(b, m)
                  /\ writing' = (m < Len(b))
    <3>1. PICK m \in 0 .. Len(b) : /\ net' = net \o First(b, m)
                                   /\ out' = Rest(b, m)
                                   /\ writing' = (m < Len(b))
      BY <2>1 DEF Takes
    <3>2. /\ First(b, m) \in Seq(AllBytes)
          /\ Rest(b, m) \in Seq(AllBytes) /\ Len(Rest(b, m)) = Len(b) - m
      BY <1>2, Pieces
    <3>3. net' \in Seq(AllBytes)
      BY <1>1, <3>1, <3>2, ConcatProperties
    <3>4. m < Len(b) <=> Rest(b, m) # <<>>
      BY <1>2, <3>2, EmptySeq
    <3>5. net' \o out' = net \o b
      BY <1>1, <1>2, <3>1, MoveFirst
    <3>6. net \o out = net
      BY <1>1, <2>1, ConcatEmptySeq
    <3>7. writing' <=> out' # <<>>
      BY <3>1, <3>4
    <3>8. net' \o out' = (net \o out) \o b
      BY <3>5, <3>6
    <3>9. out' \in Seq(AllBytes) /\ writing' \in BOOLEAN
      BY <3>1, <3>2
    <3> QED
      BY <3>3, <3>7, <3>8, <3>9
  <2>2. CASE /\ writing \/ out # <<>>
             /\ out' = out \o b
             /\ writing' = TRUE
             /\ UNCHANGED net
    <3>1. out' \in Seq(AllBytes) /\ out' # <<>>
      BY <1>1, <1>2, <2>2, ConcatProperties, ConcatEqualIffEmpty
    <3>2. net \o (out \o b) = (net \o out) \o b
      BY <1>1, <1>2, Associative, Zenon
    <3> QED
      BY <1>1, <2>2, <3>1, <3>2
  <2>3. CASE /\ ~writing /\ out = <<>> /\ gone
             /\ UNCHANGED <<out, writing, net>>
    BY <2>3, <1>1 DEF IInv, TypeOK, WritingWithOutput
  <2> QED
    BY <1>3, <2>1, <2>2, <2>3 DEF SendInLoop
<1>6. TypeOK'
  BY <1>3, <1>4, <1>5 DEF IInv, TypeOK
<1>7. WritingWithOutput'
  BY <1>5 DEF WritingWithOutput
<1>8. WholeFrames'
  BY <1>1, <1>3, <1>4, LenProperties DEF IInv, TypeOK, WholeFrames, n
<1>9. ~gone' => Aligned(Stream', Len(got') + 1, sent')
  <2> SUFFICES ASSUME ~gone PROVE Aligned(Stream', Len(got) + 1, sent')
    BY <1>3
  <2>1. net \o out \in Seq(AllBytes) /\ Stream \in Seq(AllBytes)
    BY <1>1, Associative, Zenon DEF Stream
  <2>2. Stream' = Stream \o b
    <3>1. Stream = in \o (net \o out)
      BY <1>1, Associative, Zenon DEF Stream
    <3>3. Stream' = in \o (net' \o out')
      BY <1>1, <1>3, <1>5, Associative, Zenon DEF Stream
    <3>2. in \o ((net \o out) \o b) = (in \o (net \o out)) \o b
      BY <1>1, <1>2, <2>1, Associative, Zenon
    <3> QED
      BY <3>1, <3>3, <3>2, <1>5
  <2>3. Aligned(Stream, Len(got) + 1, sent) /\ Len(got) + 1 \in Nat
    BY <1>1 DEF IInv, StreamInv
  <2> HIDE DEF Stream
  <2>4. Aligned(Stream \o Bytes(Len(sent) + 1, size), Len(got) + 1, Append(sent, size))
    BY <1>1, <2>1, <2>3, SendAligned
  <2> QED
    BY <2>2, <2>4, <1>3 DEF b, n
<1>10. StreamInv'
  BY <1>3, <1>9 DEF IInv, TypeOK, StreamInv, Complete, Announced
<1> QED
  BY <1>6, <1>7, <1>8, <1>10 DEF IInv

(* shutdown: what waits to be written stays where it is. *)
LEMMA ShutdownInvariant == ASSUME IInv, Shutdown PROVE IInv'
<1>1. /\ state' = "kDisconnecting" /\ shut' = (shut \/ ~writing)
      /\ UNCHANGED <<writing, out, net, gone, in, parsing, ended, sent, got>>
  BY DEF Shutdown, ShutdownInLoop
<1>2. writing \in BOOLEAN /\ shut \in BOOLEAN
  BY DEF IInv, TypeOK
<1>3. shut' \in BOOLEAN /\ (shut' => ~writing) /\ (shut => shut')
  BY <1>1, <1>2 DEF IInv, StreamInv
<1>4. TypeOK'
  BY <1>1, <1>3 DEF IInv, TypeOK
<1>5. WritingWithOutput' /\ WholeFrames'
  BY <1>1 DEF IInv, WritingWithOutput, WholeFrames
<1>6. Stream' = Stream
  BY <1>1 DEF Stream
<1>7. StreamInv'
  BY <1>1, <1>3, <1>6 DEF IInv, StreamInv, Complete, Announced
<1> QED
  BY <1>4, <1>5, <1>7 DEF IInv

(* handleWrite: bytes move from the output buffer to the socket. *)
LEMMA HandleWriteInvariant == ASSUME IInv, HandleWrite PROVE IInv'
<1>1. PICK n \in 1 .. Len(out) :
        /\ Writes(n)
        /\ writing' = (n < Len(out))
        /\ IF n = Len(out) /\ state = "kDisconnecting" THEN ShutdownInLoop(FALSE) ELSE UNCHANGED shut
  BY DEF HandleWrite
<1>2. /\ writing /\ ~gone /\ ~shut
      /\ net' = net \o First(out, n) /\ out' = Rest(out, n)
      /\ UNCHANGED <<state, gone, in, parsing, ended, sent, got>>
  BY <1>1 DEF Writes
<1>3. /\ out \in Seq(AllBytes) /\ net \in Seq(AllBytes) /\ in \in Seq(AllBytes)
      /\ Len(out) \in Nat /\ n \in 0 .. Len(out) /\ n \in Nat
  BY <1>1, LenProperties DEF IInv, TypeOK
<1>4. /\ First(out, n) \in Seq(AllBytes)
      /\ Rest(out, n) \in Seq(AllBytes) /\ Len(Rest(out, n)) = Len(out) - n
  BY <1>3, Pieces
<1>5. net' \in Seq(AllBytes) /\ out' \in Seq(AllBytes)
  BY <1>2, <1>3, <1>4, ConcatProperties
<1>6. n < Len(out) <=> Rest(out, n) # <<>>
  BY <1>1, <1>3, <1>4, EmptySeq
<1>7. WritingWithOutput'
  BY <1>1, <1>2, <1>6 DEF WritingWithOutput
<1>8. shut' \in BOOLEAN /\ (shut' => state = "kDisconnecting") /\ (shut' => n = Len(out))
  BY <1>1, <1>2 DEF IInv, TypeOK, ShutdownInLoop
<1>9. writing' \in BOOLEAN /\ (shut' => ~writing')
  <2>1. (n < Len(out)) \in BOOLEAN
    BY <1>3
  <2>2. n = Len(out) => ~(n < Len(out))
    BY <1>3
  <2> QED
    BY <2>1, <2>2, <1>1, <1>8
<1>10. TypeOK'
  BY <1>2, <1>5, <1>8, <1>9 DEF IInv, TypeOK
<1>11. WholeFrames'
  BY <1>2 DEF IInv, WholeFrames
<1>12. Stream' = Stream
  <2>1. net' \o out' = net \o out
    BY <1>2, <1>3, MoveFirst
  <2>2. Stream = in \o (net \o out)
    BY <1>3, Associative, Zenon DEF Stream
  <2>3. Stream' = in' \o (net' \o out')
    BY <1>2, <1>3, <1>5, Associative, Zenon DEF Stream
  <2> QED
    BY <2>1, <2>2, <2>3, <1>2
<1>13. ~ended
  BY <1>2 DEF IInv, StreamInv
<1>14. StreamInv'
  BY <1>2, <1>9, <1>12, <1>13 DEF IInv, StreamInv, Complete, Announced
<1> QED
  BY <1>7, <1>10, <1>11, <1>14 DEF IInv

(* What every step of the receiver leaves alone. *)
LEMMA ReceiverLeaves ==
  ASSUME IInv, Receiving
  PROVE  /\ UNCHANGED <<state, writing, out, shut, gone, sent>> /\ ~gone /\ ~ended
         /\ out \in Seq(AllBytes) /\ net \in Seq(AllBytes) /\ in \in Seq(AllBytes)
         /\ Aligned(Stream, Len(got) + 1, sent)
         /\ WritingWithOutput'
         /\ shut' => ~writing'
BY DEF IInv, TypeOK, StreamInv, WritingWithOutput, Receiving

(* A read: bytes move from the socket to the input buffer. *)
LEMMA ReadFdInvariant == ASSUME IInv, ReadFd PROVE IInv'
<1>1. PICK n \in 1 .. Len(net) : in' = in \o First(net, n) /\ net' = Rest(net, n)
  BY DEF ReadFd
<1>2. parsing' = TRUE /\ UNCHANGED <<ended, got>> /\ Receiving
  BY DEF ReadFd
<1>3. /\ UNCHANGED <<state, writing, out, shut, gone, sent>> /\ ~gone /\ ~ended
      /\ out \in Seq(AllBytes) /\ net \in Seq(AllBytes) /\ in \in Seq(AllBytes)
      /\ Aligned(Stream, Len(got) + 1, sent)
      /\ WritingWithOutput'
      /\ shut' => ~writing'
  BY <1>2, ReceiverLeaves
<1>4. n \in 0 .. Len(net)
  BY <1>1, <1>3, LenProperties
<1>5. in' \in Seq(AllBytes) /\ net' \in Seq(AllBytes)
  BY <1>1, <1>3, <1>4, Pieces, ConcatProperties
<1>6. TypeOK'
  BY <1>2, <1>3, <1>5 DEF IInv, TypeOK
<1>7. WholeFrames'
  BY <1>2, <1>3 DEF IInv, WholeFrames
<1>8. Stream' = Stream
  <2>1. in' \o net' = in \o net
    BY <1>1, <1>3, <1>4, MoveFirst
  <2> QED
    BY <2>1, <1>3 DEF Stream
<1>9. StreamInv'
  BY <1>2, <1>3, <1>8 DEF IInv, StreamInv
<1> QED
  BY <1>3, <1>6, <1>7, <1>9 DEF IInv

(* The frames that handleRead may cut out of aligned bytes: none but the next. *)
LEMMA NextIsNext ==
  ASSUME IInv, ~gone, NEW size \in Complete(in)
  PROVE  LET k == Len(got) + 1 IN
         /\ k \in DOMAIN sent /\ size = sent[k] /\ size \in Nat
         /\ Header + size \in 1 .. Len(in)
         /\ SubSeq(in, Header + 1, Header + size) = Payload(k, size)
         /\ Payload(k, size) \in Seq(AllBytes)
         /\ Aligned(Rest(in, Header + size) \o net \o out, k + 1, sent)
<1> DEFINE k == Len(got) + 1
           c == in \o net
           m == Header + size
<1>1. /\ out \in Seq(AllBytes) /\ net \in Seq(AllBytes) /\ in \in Seq(AllBytes)
      /\ sent \in Seq(Sizes) /\ k \in Nat /\ Len(in) \in Nat /\ Header \in Nat \ {0}
  BY LenProperties, StreamAssumption DEF IInv, TypeOK
<1>2. Len(in) >= Header /\ size \in Announced(in) /\ Len(in) >= m
  BY <1>1 DEF Complete
<1>3. /\ c \in Seq(AllBytes) /\ Len(c) = Len(in) + Len(net)
      /\ \A i \in 1 .. Len(in) : c[i] = in[i]
  BY <1>1, LenProperties, ConcatProperties
<1> HIDE DEF c
<1>4. /\ Stream = c \o out /\ Stream \in Seq(AllBytes) /\ Stream # <<>>
      /\ \A i \in 1 .. Len(in) : Stream[i] = in[i]
  <2>1. /\ c \o out \in Seq(AllBytes) /\ Len(c \o out) = Len(c) + Len(out)
        /\ \A i \in 1 .. Len(c) + Len(out) : (c \o out)[i] = IF i <= Len(c) THEN c[i] ELSE out[i - Len(c)]
    BY <1>1, <1>3, ConcatProperties
  <2>2. Len(net) \in Nat /\ Len(out) \in Nat
    BY <1>1, LenProperties
  <2>3. \A i \in 1 .. Len(in) : (c \o out)[i] = in[i]
    BY <2>1, <2>2, <1>1, <1>3
  <2>4. c \o out # <<>>
    BY <2>1, <2>2, <1>1, <1>2, <1>3, EmptySeq
  <2>5. Stream = c \o out
    BY DEF Stream, c
  <2> QED
    BY <2>1, <2>3, <2>4, <2>5
<1>5. Aligned(Stream, k, sent)
  BY DEF IInv, StreamInv
<1> HIDE DEF k
<1>6. /\ k \in DOMAIN sent /\ Stream[1].size = sent[k] /\ Stream[1].at = 1
      /\ \A j \in 1 .. Header + Stream[1].size : Stream[j] = Byte(k, Stream[1].size, j)
      /\ Aligned(Rest(Stream, Header + Stream[1].size), k + 1, sent)
  <2> HIDE DEF Stream
  <2> QED
    BY <1>1, <1>4, <1>5, CutAligned
<1>7. 1 \in 1 .. Len(in) /\ Head(in) = in[1]
  BY <1>1, <1>2, EmptySeq, HeadTailProperties
<1>8. size = sent[k] /\ Stream[1].size = size
  BY <1>2, <1>4, <1>6, <1>7 DEF Announced
<1>9. size \in Nat /\ m \in 1 .. Len(in)
  <2>1. sent[k] \in Sizes
    BY <1>1, <1>6, ElementOfSeq, LenProperties
  <2>2. size \in Nat
    BY <2>1, <1>8, StreamAssumption
  <2> QED
    BY <2>2, <1>1, <1>2
<1>10. \A j \in 1 .. m : in[j] = Byte(k, size, j)
  <2>1. \A j \in 1 .. m : Stream[j] = Byte(k, size, j)
    BY <1>6, <1>8
  <2>2. \A j \in 1 .. m : j \in 1 .. Len(in)
    BY <1>1, <1>9
  <2>3. \A j \in 1 .. Len(in) : Stream[j] = in[j]
    BY <1>4
  <2> HIDE DEF m
  <2> QED
    BY <2>1, <2>2, <2>3, Zenon
<1>11. /\ SubSeq(in, Header + 1, m) = Payload(k, size)
       /\ Payload(k, size) \in Seq(AllBytes)
  <2> DEFINE p == Payload(k, size)
             q == SubSeq(in, Header + 1, m)
  <2>1. \A i \in 1 .. size : Byte(k, size, Header + i) \in AllBytes
    BY <1>1, <1>9, k \in Nat DEF Byte, AllBytes
  <2>2. p \in [1 .. size -> AllBytes]
    BY <2>1 DEF Payload
  <2>3. p \in Seq(AllBytes) /\ Len(p) = size /\ \A i \in 1 .. size : p[i] = Byte(k, size, Header + i)
    BY <2>2, <1>9, SeqDef, LenProperties DEF Payload
  <2>4. \A i \in Header + 1 .. m : in[i] \in AllBytes
    BY <1>1, <1>9, ElementOfSeq
  <2>5. /\ q \in Seq(AllBytes)
        /\ Len(q) = IF Header + 1 <= m THEN m - (Header + 1) + 1 ELSE 0
        /\ \A i \in 1 .. m - (Header + 1) + 1 : q[i] = in[(Header + 1) + i - 1]
    BY <2>4, <1>1, <1>9, SubSeqProperties
  <2>6. Len(q) = size /\ \A i \in 1 .. size : q[i] = in[Header + i]
    BY <2>5, <1>1, <1>9
  <2>7. \A i \in 1 .. size : q[i] = p[i]
    <3>1. \A i \in 1 .. size : Header + i \in 1 .. m
      BY <1>1, <1>9
    <3>2. \A i \in 1 .. size : in[Header + i] = Byte(k, size, Header + i)
      BY <3>1, <1>10
    <3> HIDE DEF p, q
    <3> QED
      BY <3>2, <2>3, <2>6
  <2> HIDE DEF p, q
  <2>8. q = p
    BY <2>3, <2>5, <2>6, <2>7, SeqEqual
  <2> QED
    BY <2>3, <2>8 DEF p, q
<1>12. Rest(Stream, m) = Rest(in, m) \o net \o out
  <2>1. m \in 0 .. Len(in) /\ m \in 0 .. Len(c)
    BY <1>1, <1>3, <1>9, LenProperties
  <2>2. Rest(c, m) = Rest(in, m) \o net
    BY <2>1, <1>1, RestOfConcat DEF c
  <2>3. Rest(c \o out, m) = Rest(c, m) \o out
    BY <2>1, <1>1, <1>3, RestOfConcat
  <2> QED
    BY <2>2, <2>3, <1>4
<1>13. Aligned(Rest(in, m) \o net \o out, k + 1, sent)
  BY <1>6, <1>8, <1>12
<1> QED
  BY <1>6, <1>8, <1>9, <1>11, <1>13 DEF k

(* The loop of handleRead: one frame is handed out. *)
LEMMA NextFrameInvariant == ASSUME IInv, NextFrame PROVE IInv'
<1> DEFINE k == Len(got) + 1
<1>1. PICK size \in Complete(in) :
        /\ got' = Append(got, SubSeq(in, Header + 1, Header + size))
        /\ in' = Rest(in, Header + size)
  BY DEF NextFrame
<1>2. parsing /\ Receiving /\ UNCHANGED <<net, parsing, ended>>
  BY DEF NextFrame
<1>3. /\ UNCHANGED <<state, writing, out, shut, gone, sent>> /\ ~gone /\ ~ended
      /\ out \in Seq(AllBytes) /\ net \in Seq(AllBytes) /\ in \in Seq(AllBytes)
      /\ WritingWithOutput'
      /\ shut' => ~writing'
  BY <1>2, ReceiverLeaves
<1>4. /\ k \in DOMAIN sent /\ size = sent[k] /\ size \in Nat
      /\ Header + size \in 1 .. Len(in)
      /\ SubSeq(in, Header + 1, Header + size) = Payload(k, size)
      /\ Payload(k, size) \in Seq(AllBytes)
      /\ Aligned(Rest(in, Header + size) \o net \o out, k + 1, sent)
  BY <1>3, NextIsNext
<1>5. got' = Append(got, Payload(k, sent[k]))
  BY <1>1, <1>4
<1>6. /\ got \in Seq(Seq(AllBytes)) /\ Len(got) \in Nat /\ DOMAIN got = 1 .. Len(got)
      /\ sent \in Seq(Sizes) /\ Len(sent) \in Nat /\ DOMAIN sent = 1 .. Len(sent)
  BY LenProperties DEF IInv, TypeOK
<1> HIDE DEF k
<1>7. /\ got' \in Seq(Seq(AllBytes)) /\ Len(got') = k /\ DOMAIN got' = 1 .. k
      /\ \A i \in 1 .. Len(got) : got'[i] = got[i]
      /\ got'[k] = Payload(k, sent[k])
  <2> DEFINE p == Payload(k, sent[k])
  <2>1. p \in Seq(AllBytes)
    BY <1>4
  <2> HIDE DEF p
  <2>2. /\ Append(got, p) \in Seq(Seq(AllBytes)) /\ Len(Append(got, p)) = Len(got) + 1
        /\ \A i \in 1 .. Len(got) : Append(got, p)[i] = got[i]
        /\ Append(got, p)[Len(got) + 1] = p
    BY <2>1, <1>6, AppendProperties
  <2>3. got' = Append(got, p)
    BY <1>5 DEF p
  <2>4. DOMAIN got' = 1 .. Len(got')
    BY <2>2, <2>3, LenProperties
  <2> QED
    BY <2>2, <2>3, <2>4 DEF k, p
<1>8. in' \in Seq(AllBytes)
  <2>1. Header + size \in 0 .. Len(in)
    BY <1>4
  <2> QED
    BY <2>1, <1>1, <1>3, Pieces
<1>9. TypeOK'
  BY <1>2, <1>3, <1>7, <1>8 DEF IInv, TypeOK
<1>10. WholeFrames'
  <2>1. \A n \in 1 .. Len(got) : got[n] = Payload(n, sent[n])
    BY <1>6 DEF IInv, WholeFrames
  <2>2. \A n \in 1 .. k : n \in 1 .. Len(got) \/ n = k
    BY <1>6 DEF k
  <2>3. \A n \in 1 .. k : got'[n] = Payload(n, sent[n])
    BY <2>1, <2>2, <1>7
  <2> QED
    BY <2>3, <1>3, <1>4, <1>6, <1>7 DEF WholeFrames, Payload
<1>11. Aligned(Stream', Len(got') + 1, sent')
  BY <1>1, <1>2, <1>3, <1>4, <1>7 DEF Stream
<1>12. StreamInv'
  BY <1>2, <1>3, <1>11 DEF IInv, StreamInv
<1> QED
  BY <1>3, <1>9, <1>10, <1>12 DEF IInv

(* handleRead returns: what is left in the buffer is less than a frame. *)
LEMMA NoMoreFramesInvariant == ASSUME IInv, NoMoreFrames PROVE IInv'
<1>1. /\ parsing /\ Complete(in) = {} /\ parsing' = FALSE
      /\ Receiving /\ UNCHANGED <<net, in, ended, got>>
  BY DEF NoMoreFrames
<1>2. /\ UNCHANGED <<state, writing, out, shut, gone, sent>> /\ ~gone /\ ~ended
      /\ Aligned(Stream, Len(got) + 1, sent)
      /\ WritingWithOutput'
      /\ shut' => ~writing'
  BY <1>1, ReceiverLeaves
<1>3. Stream' = Stream /\ Complete(in)' = {}
  BY <1>1, <1>2 DEF Stream, Complete, Announced
<1>4. TypeOK' /\ WholeFrames'
  BY <1>1, <1>2 DEF IInv, TypeOK, WholeFrames
<1>5. StreamInv'
  BY <1>1, <1>2, <1>3 DEF StreamInv
<1> QED
  BY <1>2, <1>4, <1>5 DEF IInv

(* The end of the stream is read, when nothing is before it. *)
LEMMA HandleCloseInvariant == ASSUME IInv, HandleClose PROVE IInv'
<1>1. /\ ~parsing /\ net = <<>> /\ shut /\ ended' = TRUE
      /\ Receiving /\ UNCHANGED <<net, in, parsing, got>>
  BY DEF HandleClose
<1>2. /\ UNCHANGED <<state, writing, out, shut, gone, sent>> /\ ~gone /\ ~ended
      /\ Aligned(Stream, Len(got) + 1, sent)
      /\ WritingWithOutput'
      /\ shut' => ~writing'
  BY <1>1, ReceiverLeaves
<1>3. Stream' = Stream /\ Complete(in)' = Complete(in)
  BY <1>1, <1>2 DEF Stream, Complete, Announced
<1>4. TypeOK' /\ WholeFrames'
  BY <1>1, <1>2 DEF IInv, TypeOK, WholeFrames
<1>5. StreamInv'
  BY <1>1, <1>2, <1>3 DEF IInv, StreamInv
<1> QED
  BY <1>2, <1>4, <1>5 DEF IInv

(* The receiver goes: what is on its way is lost, what was handed out stays. *)
LEMMA ReceiverGoesInvariant == ASSUME IInv, ReceiverGoes PROVE IInv'
<1>1. /\ gone' = TRUE /\ net' = <<>> /\ ~ended
      /\ UNCHANGED <<state, writing, out, shut, in, parsing, ended, sent, got>>
  BY DEF ReceiverGoes
<1>2. net' \in Seq(AllBytes)
  BY <1>1, EmptySeq
<1>3. TypeOK' /\ WritingWithOutput' /\ WholeFrames'
  BY <1>1, <1>2 DEF IInv, TypeOK, WritingWithOutput, WholeFrames
<1>4. StreamInv'
  BY <1>1 DEF IInv, StreamInv, Complete, Announced
<1> QED
  BY <1>3, <1>4 DEF IInv

LEMMA Invariance == Spec => []IInv
<1>1. IInv /\ UNCHANGED vars => IInv'
  BY DEF vars, IInv, TypeOK, WritingWithOutput, WholeFrames, StreamInv, Stream, Complete, Announced
<1>2. IInv /\ Next => IInv'
  BY SendInvariant, ShutdownInvariant, HandleWriteInvariant, ReadFdInvariant, NextFrameInvariant,
     NoMoreFramesInvariant, HandleCloseInvariant, ReceiverGoesInvariant DEF Next, Receiver
<1> QED
  BY <1>1, <1>2, InitInvariant, PTL DEF Spec

(* When the end has been read, everything that was sent has been handed out: the
   bytes left in the buffer would begin with a whole frame. *)
LEMMA NothingLeft == IInv => AllBeforeEnd
<1> SUFFICES ASSUME IInv, ended PROVE Len(got) = Len(sent)
  BY DEF AllBeforeEnd
<1>1. /\ shut /\ ~gone /\ net = <<>> /\ ~writing /\ ~parsing
      /\ Complete(in) = {} /\ Aligned(Stream, Len(got) + 1, sent)
  BY DEF IInv, StreamInv
<1>2. /\ out = <<>> /\ in \in Seq(AllBytes)
      /\ sent \in Seq(Sizes) /\ Len(got) \in Nat /\ Len(sent) \in Nat
  BY <1>1, LenProperties DEF IInv, TypeOK, WritingWithOutput
<1>3. Stream = in
  BY <1>1, <1>2, ConcatEmptySeq DEF Stream
<1>4. CASE in = <<>>
  <2>1. Len(got) + 1 = Len(sent) + 1
    BY <1>1, <1>3, <1>4 DEF Aligned
  <2> QED
    BY <2>1, <1>2
<1>5. CASE in # <<>>
  <2>1. Aligned(in, Len(got) + 1, sent) /\ Len(got) + 1 \in Nat
    BY <1>1, <1>2, <1>3
  <2>2. /\ in[1].at = 1 /\ Header + in[1].size \in 1 .. Len(in)
        /\ Len(got) + 1 \in DOMAIN sent /\ in[1].size = sent[Len(got) + 1]
    BY <2>1, <1>2, <1>5, CutAligned
  <2>3. in[1].size \in Nat /\ Len(in) \in Nat
    BY <2>2, <1>2, ElementOfSeq, LenProperties, StreamAssumption
  <2>4. Len(in) >= Header
    BY <2>2, <2>3, StreamAssumption
  <2>5. Head(in) = in[1]
    BY <1>2, <1>5, HeadTailProperties
  <2>6. in[1].size \in Complete(in)
    BY <2>2, <2>3, <2>4, <2>5, StreamAssumption DEF Complete, Announced
  <2> QED
    BY <2>6, <1>1
<1> QED
  BY <1>4, <1>5

(***************************************************************************)
(* The theorems.                                                           *)
(***************************************************************************)

(* The types, for every header, payload, room and number of frames. *)
THEOREM TypeCorrect == Spec => []TypeOK
BY Invariance, PTL DEF IInv

(* The sender's channel watches for room to write exactly as long as output
   waits in its buffer. *)
THEOREM WatchesForOutput == Spec => []WritingWithOutput
BY Invariance, PTL DEF IInv

(* handleRead gives the callback the frames that were handed to send(), whole
   and in order, however the bytes were cut. *)
THEOREM FramesArriveWhole == Spec => []WholeFrames
BY Invariance, PTL DEF IInv

(* A shutdown cuts off no frame: the end of the stream is read after the last
   frame has been handed out. *)
THEOREM EndComesLast == Spec => []AllBeforeEnd
BY Invariance, NothingLeft, PTL
=============================================================================
