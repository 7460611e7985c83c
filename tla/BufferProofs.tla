---------------------------- MODULE BufferProofs ----------------------------
(***************************************************************************)
(* Proofs about Buffer, for any bytes, any room in front, any initial size *)
(* and any size of the extra buffer: the indices stay in order, and each   *)
(* operation changes the content as the queue of bytes it stands for.      *)
(***************************************************************************)
EXTENDS Buffer, SequenceTheorems, TLAPS

(***************************************************************************)
(* Lemmas: what each operation makes of a sound buffer.                    *)
(***************************************************************************)

(* The numbers of a sound buffer. *)
LEMMA Numbers ==
  ASSUME NEW b, Sound(b)
  PROVE  /\ b.cells \in Seq(Byte) /\ Len(b.cells) \in Nat
         /\ b.reader \in Nat /\ b.writer \in Nat
         /\ b.reader <= b.writer /\ b.writer <= Len(b.cells)
         /\ Readable(b) \in Nat /\ Readable(b) = b.writer - b.reader
         /\ Writable(b) \in Nat /\ Writable(b) = Len(b.cells) - b.writer
         /\ CheapPrepend \in Nat /\ CheapPrepend <= Len(b.cells)
BY LenProperties, BufferAssumption DEF Sound, Buffers, Readable, Writable

(* The content is the cells between the indices. *)
LEMMA ContentCells ==
  ASSUME NEW b, Sound(b)
  PROVE  /\ Content(b) \in Seq(Byte) /\ Len(Content(b)) = Readable(b)
         /\ \A i \in 1 .. Readable(b) : Content(b)[i] = b.cells[b.reader + i]
<1>1. /\ b.cells \in Seq(Byte) /\ Len(b.cells) \in Nat
      /\ b.reader \in Nat /\ b.writer \in Nat
      /\ b.reader <= b.writer /\ b.writer <= Len(b.cells)
      /\ Readable(b) = b.writer - b.reader
  BY Numbers
<1>2. \A i \in b.reader + 1 .. b.writer : b.cells[i] \in Byte
  BY <1>1, ElementOfSeq
<1>3. /\ Content(b) \in Seq(Byte)
      /\ Len(Content(b)) = IF b.reader + 1 <= b.writer THEN b.writer - (b.reader + 1) + 1 ELSE 0
      /\ \A i \in 1 .. b.writer - (b.reader + 1) + 1 :
           Content(b)[i] = b.cells[(b.reader + 1) + i - 1]
  BY <1>1, <1>2, SubSeqProperties DEF Content
<1> QED
  BY <1>1, <1>3

(* Two buffers have the same content if the cells between the indices are. *)
LEMMA SameContent ==
  ASSUME NEW b, Sound(b), NEW c, Sound(c), Readable(c) = Readable(b),
         \A i \in 1 .. Readable(b) : c.cells[c.reader + i] = b.cells[b.reader + i]
  PROVE  Content(c) = Content(b)
<1>1. /\ Content(b) \in Seq(Byte) /\ Len(Content(b)) = Readable(b)
      /\ \A i \in 1 .. Readable(b) : Content(b)[i] = b.cells[b.reader + i]
  BY ContentCells
<1>2. /\ Content(c) \in Seq(Byte) /\ Len(Content(c)) = Readable(b)
      /\ \A i \in 1 .. Readable(b) : Content(c)[i] = c.cells[c.reader + i]
  BY ContentCells
<1>3. Len(Content(c)) = Len(Content(b))
      /\ \A i \in 1 .. Len(Content(c)) : Content(c)[i] = Content(b)[i]
  BY <1>1, <1>2
<1> QED
  BY <1>1, <1>2, <1>3, SeqEqual

(* Bytes copied into a vector, within it. *)
LEMMA CopiedCells ==
  ASSUME NEW cells \in Seq(Byte), NEW at \in Nat, NEW data \in Seq(Byte),
         at + Len(data) <= Len(cells)
  PROVE  /\ Copied(cells, at, data) \in Seq(Byte)
         /\ Len(Copied(cells, at, data)) = Len(cells)
         /\ \A i \in 1 .. Len(cells) :
              Copied(cells, at, data)[i] =
                IF i \in at + 1 .. at + Len(data) THEN data[i - at] ELSE cells[i]
<1> DEFINE c == Copied(cells, at, data)
<1>1. /\ Len(cells) \in Nat /\ DOMAIN cells = 1 .. Len(cells) /\ Len(data) \in Nat
      /\ \A i \in 1 .. Len(cells) : cells[i] \in Byte
      /\ \A i \in 1 .. Len(data) : data[i] \in Byte
  BY LenProperties, ElementOfSeq
<1>2. \A i \in 1 .. Len(cells) :
        c[i] = IF i \in at + 1 .. at + Len(data) THEN data[i - at] ELSE cells[i]
  BY <1>1 DEF Copied
<1>3. \A i \in 1 .. Len(cells) : i \in at + 1 .. at + Len(data) => i - at \in 1 .. Len(data)
  BY <1>1
<1>4. \A i \in 1 .. Len(cells) : c[i] \in Byte
  BY <1>1, <1>2, <1>3
<1>5. c \in [1 .. Len(cells) -> Byte]
  BY <1>1, <1>4 DEF Copied
<1>6. c \in Seq(Byte) /\ Len(c) = Len(cells)
  BY <1>1, <1>5, SeqDef, LenProperties
<1> QED
  BY <1>2, <1>6

(* resize to more bytes keeps the ones that are there. *)
LEMMA ResizedCells ==
  ASSUME NEW s \in Seq(Byte), NEW n \in Nat, Len(s) <= n
  PROVE  /\ Resized(s, n) \in Seq(Byte) /\ Len(Resized(s, n)) = n
         /\ \A i \in 1 .. Len(s) : Resized(s, n)[i] = s[i]
<1>1. Len(s) \in Nat
  BY LenProperties
<1>2. \A i \in 1 .. n : Resized(s, n)[i] = IF i <= Len(s) THEN s[i] ELSE Zero
  BY DEF Resized
<1>3. ASSUME NEW i \in 1 .. n PROVE (IF i <= Len(s) THEN s[i] ELSE Zero) \in Byte
  <2>1. CASE i <= Len(s)
    <3>1. i \in 1 .. Len(s)
      BY <1>1, <2>1
    <3>2. s[i] \in Byte
      BY <3>1, ElementOfSeq
    <3> QED
      BY <2>1, <3>2
  <2>2. CASE ~(i <= Len(s))
    BY <2>2, BufferAssumption
  <2> QED
    BY <2>1, <2>2
<1>4. Resized(s, n) \in [1 .. n -> Byte]
  BY <1>3 DEF Resized
<1>5. Resized(s, n) \in Seq(Byte) /\ Len(Resized(s, n)) = n
  BY <1>4, SeqDef, LenProperties
<1>6. \A i \in 1 .. Len(s) : i \in 1 .. n /\ i <= Len(s)
  BY <1>1
<1>7. \A i \in 1 .. Len(s) : Resized(s, n)[i] = s[i]
  BY <1>2, <1>6
<1> QED
  BY <1>5, <1>7

(* Growing makes room for len bytes and changes no content. *)
LEMMA GrowRight ==
  ASSUME NEW b, Sound(b), NEW len \in Nat, Writable(b) < len
  PROVE  /\ Sound(Grow(b, len)) /\ Writable(Grow(b, len)) = len
         /\ Grow(b, len).reader = b.reader /\ Grow(b, len).writer = b.writer
         /\ Content(Grow(b, len)) = Content(b)
<1> DEFINE c == Resized(b.cells, b.writer + len)
           g == Grow(b, len)
<1>1. /\ b.cells \in Seq(Byte) /\ Len(b.cells) \in Nat
      /\ b.reader \in Nat /\ b.writer \in Nat
      /\ b.reader <= b.writer /\ b.writer <= Len(b.cells)
      /\ Readable(b) = b.writer - b.reader /\ Writable(b) = Len(b.cells) - b.writer
      /\ CheapPrepend \in Nat /\ CheapPrepend <= Len(b.cells)
  BY Numbers
<1>2. /\ c \in Seq(Byte) /\ Len(c) = b.writer + len
      /\ \A i \in 1 .. Len(b.cells) : c[i] = b.cells[i]
  <2>1. b.writer + len \in Nat /\ Len(b.cells) <= b.writer + len
    <3>1. Len(b.cells) - b.writer < len
      BY <1>1
    <3>2. \A x, y \in Nat : x - y < len => y + len \in Nat /\ x <= y + len
      OBVIOUS
    <3>3. Len(b.cells) \in Nat /\ b.writer \in Nat
      BY <1>1
    <3> QED
      BY <3>1, <3>2, <3>3, Zenon
  <2> QED
    BY <1>1, <2>1, ResizedCells
<1> HIDE DEF c
<1>3. g = [cells |-> c, reader |-> b.reader, writer |-> b.writer]
  BY DEF Sound, Buffers, Grow, c
<1>4. g.cells = c /\ g.reader = b.reader /\ g.writer = b.writer
  BY <1>3
<1>5. Sound(g)
  BY <1>1, <1>2, <1>3, <1>4 DEF Sound, Buffers
<1>6. Readable(g) = Readable(b) /\ Writable(g) = len
  BY <1>1, <1>2, <1>4 DEF Readable, Writable
<1>7. \A i \in 1 .. Readable(b) : g.cells[g.reader + i] = b.cells[b.reader + i]
  <2>1. \A i \in 1 .. Readable(b) : b.reader + i \in 1 .. Len(b.cells)
    BY <1>1
  <2> QED
    BY <2>1, <1>2, <1>4
<1> HIDE DEF g
<1>8. Content(g) = Content(b)
  BY <1>5, <1>6, <1>7, SameContent
<1> QED
  BY <1>4, <1>5, <1>6, <1>8 DEF g

(* Moving the content to a place before it changes nothing in it. *)
LEMMA MoveRight ==
  ASSUME NEW b, Sound(b), NEW front \in Nat, front <= b.reader
  PROVE  /\ Sound(MoveTo(b, front)) /\ MoveTo(b, front).reader = front
         /\ Len(MoveTo(b, front).cells) = Len(b.cells)
         /\ Writable(MoveTo(b, front)) = Writable(b) + (b.reader - front)
         /\ Content(MoveTo(b, front)) = Content(b)
<1> DEFINE d == Content(b)
           c == Copied(b.cells, front, d)
           g == MoveTo(b, front)
<1>1. /\ b.cells \in Seq(Byte) /\ Len(b.cells) \in Nat
      /\ b.reader \in Nat /\ b.writer \in Nat
      /\ b.reader <= b.writer /\ b.writer <= Len(b.cells) /\ Readable(b) \in Nat
      /\ Readable(b) = b.writer - b.reader /\ Writable(b) = Len(b.cells) - b.writer
      /\ CheapPrepend \in Nat /\ CheapPrepend <= Len(b.cells)
  BY Numbers
<1>2. /\ d \in Seq(Byte) /\ Len(d) = Readable(b)
      /\ \A i \in 1 .. Readable(b) : d[i] = b.cells[b.reader + i]
  BY ContentCells
<1> HIDE DEF d
<1>3. front + Len(d) <= Len(b.cells)
  BY <1>1, <1>2
<1>4. /\ c \in Seq(Byte) /\ Len(c) = Len(b.cells)
      /\ \A i \in 1 .. Len(b.cells) :
           c[i] = IF i \in front + 1 .. front + Len(d) THEN d[i - front] ELSE b.cells[i]
  <2>1. b.cells \in Seq(Byte) /\ d \in Seq(Byte)
    BY <1>1, <1>2
  <2> HIDE DEF g
  <2> QED
    BY <2>1, <1>3, CopiedCells
<1> HIDE DEF c
<1>5. g = [cells |-> c, reader |-> front, writer |-> front + Readable(b)]
  BY DEF MoveTo, c, d
<1>6. g.cells = c /\ g.reader = front /\ g.writer = front + Readable(b)
  BY <1>5
<1>7. Sound(g)
  BY <1>1, <1>2, <1>3, <1>4, <1>5, <1>6 DEF Sound, Buffers
<1>8. Readable(g) = Readable(b) /\ Writable(g) = Writable(b) + (b.reader - front)
  BY <1>1, <1>4, <1>6 DEF Readable, Writable
<1>9. \A i \in 1 .. Readable(b) : g.cells[g.reader + i] = b.cells[b.reader + i]
  <2>1. ASSUME NEW i \in 1 .. Readable(b)
        PROVE  c[front + i] = b.cells[b.reader + i]
    <3>1. /\ front + i \in 1 .. Len(b.cells) /\ front + i \in front + 1 .. front + Len(d)
          /\ (front + i) - front = i
      BY <1>1, <1>2, <1>3
    <3> QED
      BY <3>1, <1>2, <1>4
  <2> QED
    BY <2>1, <1>6
<1> HIDE DEF g
<1>10. Content(g) = Content(b)
  BY <1>7, <1>8, <1>9, SameContent
<1> QED
  BY <1>4, <1>6, <1>7, <1>8, <1>10 DEF g

(* ensureWritableBytes: there is room for len bytes, the content is the same, and
   the room in front is no less than it was, or than a header needs.  In
   particular the assertions of makeSpace and ensureWritableBytes hold. *)
LEMMA EnsureRight ==
  ASSUME NEW b, Sound(b), NEW len \in Nat
  PROVE  LET e == EnsureWritable(b, len) IN
         /\ Sound(e) /\ Writable(e) >= len /\ Content(e) = Content(b)
         /\ e.reader >= b.reader \/ e.reader >= CheapPrepend
<1>1. /\ b.reader \in Nat /\ Writable(b) \in Nat /\ CheapPrepend \in Nat
  BY Numbers, BufferAssumption
<1>2. CASE Writable(b) >= len
  BY <1>1, <1>2 DEF EnsureWritable
<1>3. CASE Writable(b) < len /\ Writable(b) + b.reader < len + CheapPrepend
  <2>1. EnsureWritable(b, len) = Grow(b, len)
    BY <1>3 DEF EnsureWritable, MakeSpace
  <2>2. /\ Sound(Grow(b, len)) /\ Writable(Grow(b, len)) = len
        /\ Grow(b, len).reader = b.reader
        /\ Content(Grow(b, len)) = Content(b)
    BY <1>3, GrowRight
  <2> QED
    BY <2>1, <2>2, <1>1
<1>4. CASE Writable(b) < len /\ ~(Writable(b) + b.reader < len + CheapPrepend)
  <2>1. EnsureWritable(b, len) = MoveTo(b, CheapPrepend)
    BY <1>4 DEF EnsureWritable, MakeSpace
  <2>2. CheapPrepend < b.reader /\ Writable(b) + (b.reader - CheapPrepend) >= len
    BY <1>1, <1>4
  <2>3. /\ Sound(MoveTo(b, CheapPrepend)) /\ MoveTo(b, CheapPrepend).reader = CheapPrepend
        /\ Writable(MoveTo(b, CheapPrepend)) = Writable(b) + (b.reader - CheapPrepend)
        /\ Content(MoveTo(b, CheapPrepend)) = Content(b)
    BY <2>2, <1>1, MoveRight
  <2> QED
    BY <2>1, <2>2, <2>3, <1>1
<1> QED
  BY <1>1, <1>2, <1>3, <1>4

(* Bytes written behind the content are added to it. *)
LEMMA WrittenRight ==
  ASSUME NEW b, Sound(b), NEW data \in Seq(Byte), Len(data) <= Writable(b)
  PROVE  LET w == Written(b, data) IN
         /\ Sound(w) /\ Content(w) = Content(b) \o data
         /\ w.reader = b.reader /\ Writable(w) = Writable(b) - Len(data)
<1> DEFINE c == Copied(b.cells, b.writer, data)
           g == Written(b, data)
           k == Content(b)
<1>1. /\ b.cells \in Seq(Byte) /\ Len(b.cells) \in Nat /\ Len(data) \in Nat
      /\ b.reader \in Nat /\ b.writer \in Nat
      /\ b.reader <= b.writer /\ b.writer <= Len(b.cells) /\ Readable(b) \in Nat
      /\ Readable(b) = b.writer - b.reader /\ Writable(b) = Len(b.cells) - b.writer
      /\ CheapPrepend \in Nat /\ CheapPrepend <= Len(b.cells)
  BY Numbers, LenProperties
<1>2. b.writer + Len(data) <= Len(b.cells)
  BY <1>1
<1>3. /\ c \in Seq(Byte) /\ Len(c) = Len(b.cells)
      /\ \A i \in 1 .. Len(b.cells) :
           c[i] = IF i \in b.writer + 1 .. b.writer + Len(data) THEN data[i - b.writer] ELSE b.cells[i]
  BY <1>1, <1>2, CopiedCells
<1> HIDE DEF c
<1>4. g = [cells |-> c, reader |-> b.reader, writer |-> b.writer + Len(data)]
  BY DEF Written, c
<1>5. g.cells = c /\ g.reader = b.reader /\ g.writer = b.writer + Len(data)
  BY <1>4
<1>6. Sound(g)
  BY <1>1, <1>2, <1>3, <1>4, <1>5 DEF Sound, Buffers
<1>7. Readable(g) = Readable(b) + Len(data) /\ Writable(g) = Writable(b) - Len(data)
  BY <1>1, <1>3, <1>5 DEF Readable, Writable
<1> HIDE DEF g
<1>8. /\ Content(g) \in Seq(Byte) /\ Len(Content(g)) = Readable(b) + Len(data)
      /\ \A i \in 1 .. Readable(b) + Len(data) : Content(g)[i] = c[b.reader + i]
  BY <1>5, <1>6, <1>7, ContentCells
<1>9. /\ k \in Seq(Byte) /\ Len(k) = Readable(b)
      /\ \A i \in 1 .. Readable(b) : k[i] = b.cells[b.reader + i]
  BY ContentCells
<1> HIDE DEF k
<1>10. /\ k \o data \in Seq(Byte) /\ Len(k \o data) = Readable(b) + Len(data)
       /\ \A i \in 1 .. Readable(b) + Len(data) :
            (k \o data)[i] = IF i <= Readable(b) THEN k[i] ELSE data[i - Readable(b)]
  <2>1. /\ k \o data \in Seq(Byte) /\ Len(k \o data) = Len(k) + Len(data)
        /\ \A i \in 1 .. Len(k) + Len(data) :
             (k \o data)[i] = IF i <= Len(k) THEN k[i] ELSE data[i - Len(k)]
    BY <1>9, ConcatProperties
  <2> QED
    BY <2>1, <1>9
<1>11. ASSUME NEW i \in 1 .. Readable(b) + Len(data)
       PROVE  Content(g)[i] = (k \o data)[i]
  <2>1. b.reader + i \in 1 .. Len(b.cells)
    BY <1>1, <1>2
  <2>2. CASE i <= Readable(b)
    <3>1. b.reader + i \notin b.writer + 1 .. b.writer + Len(data) /\ i \in 1 .. Readable(b)
      BY <2>2, <1>1
    <3>2. c[b.reader + i] = b.cells[b.reader + i]
      BY <3>1, <2>1, <1>3
    <3> QED
      BY <3>1, <3>2, <2>2, <1>8, <1>9, <1>10
  <2>3. CASE i > Readable(b)
    <3>1. /\ b.reader + i \in b.writer + 1 .. b.writer + Len(data)
          /\ (b.reader + i) - b.writer = i - Readable(b) /\ ~(i <= Readable(b))
      BY <2>3, <1>1
    <3>2. c[b.reader + i] = data[i - Readable(b)]
      BY <3>1, <2>1, <1>3
    <3> QED
      BY <3>1, <3>2, <1>8, <1>10
  <2>4. i <= Readable(b) \/ i > Readable(b)
    BY <1>1
  <2> QED
    BY <2>2, <2>3, <2>4
<1>12. Content(g) = k \o data
  BY <1>8, <1>10, <1>11, SeqEqual
<1> QED
  BY <1>5, <1>6, <1>7, <1>12 DEF g, k

(* append: room is made and the bytes are added. *)
LEMMA AppendedRight ==
  ASSUME NEW b, Sound(b), NEW data \in Seq(Byte)
  PROVE  LET a == Appended(b, data) IN
         /\ Sound(a) /\ Content(a) = Content(b) \o data
         /\ a.reader >= b.reader \/ a.reader >= CheapPrepend
<1> DEFINE e == EnsureWritable(b, Len(data))
<1>1. Len(data) \in Nat
  BY LenProperties
<1>2. /\ Sound(e) /\ Writable(e) >= Len(data) /\ Content(e) = Content(b)
      /\ e.reader >= b.reader \/ e.reader >= CheapPrepend
  BY <1>1, EnsureRight
<1> HIDE DEF e
<1>3. Len(data) <= Writable(e)
  BY <1>1, <1>2, Numbers
<1>4. /\ Sound(Written(e, data)) /\ Content(Written(e, data)) = Content(e) \o data
      /\ Written(e, data).reader = e.reader
  BY <1>2, <1>3, WrittenRight
<1>5. Appended(b, data) = Written(e, data)
  BY DEF Appended, e
<1> QED
  BY <1>2, <1>4, <1>5

(* A buffer as it is constructed. *)
LEMMA FreshRight == Sound(Fresh) /\ Content(Fresh) = <<>> /\ Fresh.reader = CheapPrepend
<1>1. CheapPrepend \in Nat /\ InitialSize \in Nat /\ Zero \in Byte
  BY BufferAssumption
<1>2. /\ Fresh.cells \in [1 .. CheapPrepend + InitialSize -> Byte]
      /\ Fresh.reader = CheapPrepend /\ Fresh.writer = CheapPrepend
  BY <1>1 DEF Fresh
<1>3. CheapPrepend + InitialSize \in Nat
  BY <1>1
<1>4. Fresh.cells \in Seq(Byte) /\ Len(Fresh.cells) = CheapPrepend + InitialSize
  BY <1>2, <1>3, SeqDef, LenProperties
<1>5. Fresh \in Buffers
  BY <1>1, <1>4 DEF Fresh, Buffers
<1>6. Sound(Fresh)
  BY <1>1, <1>2, <1>4, <1>5 DEF Sound
<1>7. Readable(Fresh) = 0
  BY <1>1, <1>2 DEF Readable
<1>8. Content(Fresh) \in Seq(Byte) /\ Len(Content(Fresh)) = 0
  BY <1>6, <1>7, ContentCells
<1> QED
  BY <1>2, <1>6, <1>8, EmptySeq

(* prepend: the bytes come before the content. *)
LEMMA PrependRight ==
  ASSUME TypeOK, NEW data \in Seq(Byte), PrependData(data)
  PROVE  TypeOK' /\ Queue!Front(data)
<1> DEFINE b == buf
           at == b.reader - Len(data)
           c == Copied(b.cells, at, data)
           g == [cells |-> c, reader |-> at, writer |-> b.writer]
           k == Content(b)
<1>1. Sound(b) /\ Len(data) <= b.reader /\ buf' = g
  BY DEF TypeOK, PrependData
<1>2. /\ b.cells \in Seq(Byte) /\ Len(b.cells) \in Nat /\ Len(data) \in Nat
      /\ b.reader \in Nat /\ b.writer \in Nat
      /\ b.reader <= b.writer /\ b.writer <= Len(b.cells) /\ Readable(b) \in Nat
      /\ Readable(b) = b.writer - b.reader /\ CheapPrepend <= Len(b.cells)
  BY <1>1, Numbers, LenProperties
<1>3. /\ g.cells = c /\ g.reader = at /\ g.writer = b.writer
      /\ g = [cells |-> c, reader |-> at, writer |-> b.writer]
  BY <1>1 DEF Sound, Buffers
<1>4. /\ k \in Seq(Byte) /\ Len(k) = Readable(b)
      /\ \A i \in 1 .. Readable(b) : k[i] = b.cells[b.reader + i]
  BY <1>1, ContentCells
<1> HIDE DEF g, k, b
<1>5. at \in Nat /\ at + Len(data) = b.reader /\ at + Len(data) <= Len(b.cells)
  BY <1>1, <1>2
<1> HIDE DEF at
<1>6. /\ c \in Seq(Byte) /\ Len(c) = Len(b.cells)
      /\ \A i \in 1 .. Len(b.cells) :
           c[i] = IF i \in at + 1 .. at + Len(data) THEN data[i - at] ELSE b.cells[i]
  BY <1>2, <1>5, CopiedCells
<1> HIDE DEF c
<1>7. Sound(g)
  BY <1>2, <1>3, <1>5, <1>6 DEF Sound, Buffers
<1>8. Readable(g) = Len(data) + Readable(b)
  BY <1>2, <1>3, <1>5 DEF Readable
<1>9. /\ Content(g) \in Seq(Byte) /\ Len(Content(g)) = Len(data) + Readable(b)
      /\ \A i \in 1 .. Len(data) + Readable(b) : Content(g)[i] = c[at + i]
  BY <1>3, <1>7, <1>8, ContentCells
<1>10. /\ data \o k \in Seq(Byte) /\ Len(data \o k) = Len(data) + Readable(b)
       /\ \A i \in 1 .. Len(data) + Readable(b) :
            (data \o k)[i] = IF i <= Len(data) THEN data[i] ELSE k[i - Len(data)]
  <2>1. /\ data \o k \in Seq(Byte) /\ Len(data \o k) = Len(data) + Len(k)
        /\ \A i \in 1 .. Len(data) + Len(k) :
             (data \o k)[i] = IF i <= Len(data) THEN data[i] ELSE k[i - Len(data)]
    BY <1>4, ConcatProperties
  <2> QED
    BY <2>1, <1>4
<1>11. ASSUME NEW i \in 1 .. Len(data) + Readable(b)
       PROVE  Content(g)[i] = (data \o k)[i]
  <2>1. at + i \in 1 .. Len(b.cells)
    BY <1>2, <1>5
  <2>2. CASE i <= Len(data)
    <3>1. at + i \in at + 1 .. at + Len(data) /\ (at + i) - at = i
      BY <2>2, <1>2, <1>5
    <3>2. c[at + i] = data[i]
      BY <3>1, <2>1, <1>6
    <3> QED
      BY <3>2, <2>2, <1>9, <1>10
  <2>3. CASE i > Len(data)
    <3>1. /\ at + i \notin at + 1 .. at + Len(data) /\ ~(i <= Len(data))
          /\ i - Len(data) \in 1 .. Readable(b)
          /\ b.reader + (i - Len(data)) = at + i
      BY <2>3, <1>2, <1>5
    <3>2. c[at + i] = b.cells[at + i] /\ k[i - Len(data)] = b.cells[at + i]
      BY <3>1, <2>1, <1>4, <1>6
    <3> QED
      BY <3>1, <3>2, <1>9, <1>10
  <2>4. i <= Len(data) \/ i > Len(data)
    BY <1>2
  <2> QED
    BY <2>2, <2>3, <2>4
<1>12. Content(g) = data \o k
  BY <1>9, <1>10, <1>11, SeqEqual
<1> QED
  BY <1>1, <1>7, <1>12 DEF TypeOK, Queue!Front, b, k

(* append. *)
LEMMA AppendRight ==
  ASSUME TypeOK, NEW data \in Seq(Byte), AppendData(data)
  PROVE  /\ TypeOK' /\ Queue!Extend(data)
         /\ buf'.reader >= buf.reader \/ buf'.reader >= CheapPrepend
<1>1. buf' = Appended(buf, data) /\ Sound(buf)
  BY DEF AppendData, TypeOK
<1>2. /\ Sound(Appended(buf, data)) /\ Content(Appended(buf, data)) = Content(buf) \o data
      /\ Appended(buf, data).reader >= buf.reader \/ Appended(buf, data).reader >= CheapPrepend
  BY <1>1, AppendedRight
<1> QED
  BY <1>1, <1>2 DEF TypeOK, Queue!Extend

(* readFd: the two parts of what was read are added one after the other. *)
LEMMA ReadFdRight ==
  ASSUME TypeOK, NEW data \in Seq(Byte), ReadFd(data)
  PROVE  /\ TypeOK' /\ Queue!Extend(data)
         /\ buf'.reader >= buf.reader \/ buf'.reader >= CheapPrepend
<1> DEFINE w == Writable(buf)
           k == Content(buf)
<1>1. Sound(buf)
  BY DEF TypeOK
<1>2. w \in Nat /\ Len(data) \in Nat /\ buf.reader \in Nat
  BY <1>1, Numbers, LenProperties
<1>3. k \in Seq(Byte)
  BY <1>1, ContentCells
<1>4. CASE Len(data) <= w
  <2>1. buf' = Written(buf, data)
    BY <1>4 DEF ReadFd
  <2>2. /\ Sound(Written(buf, data)) /\ Content(Written(buf, data)) = k \o data
        /\ Written(buf, data).reader = buf.reader
    BY <1>1, <1>4, WrittenRight
  <2> QED
    BY <2>1, <2>2, <1>2 DEF TypeOK, Queue!Extend
<1>5. CASE ~(Len(data) <= w)
  <2> DEFINE head == SubSeq(data, 1, w)
             tail == SubSeq(data, w + 1, Len(data))
             b == Written(buf, head)
  <2>1. buf' = Appended(b, tail)
    BY <1>5 DEF ReadFd
  <2>2. /\ head \in Seq(Byte) /\ Len(head) = w /\ tail \in Seq(Byte)
        /\ head \o tail = data
    <3>1. \A i \in 1 .. Len(data) : data[i] \in Byte
      BY <1>2, ElementOfSeq
    <3>2. head \in Seq(Byte) /\ Len(head) = w
      BY <3>1, <1>2, <1>5, SubSeqProperties
    <3>3. \A i \in w + 1 .. Len(data) : data[i] \in Byte
      BY <3>1, <1>2
    <3>4. tail \in Seq(Byte)
      BY <3>3, <1>2, <1>5, SubSeqProperties
    <3>5. 1 \in 1 .. Len(data) + 1 /\ w \in 1 - 1 .. Len(data) /\ Len(data) \in w .. Len(data)
      BY <1>2, <1>5
    <3>6. SubSeq(data, 1, w) \o SubSeq(data, w + 1, Len(data)) = SubSeq(data, 1, Len(data))
      BY <3>5, ConcatAdjacentSubSeq
    <3> QED
      BY <3>2, <3>4, <3>6, SubSeqFull
  <2> HIDE DEF head, tail, w
  <2>3. w = Writable(buf) /\ Len(head) <= Writable(buf)
    BY <2>2, <1>2 DEF w
  <2>4. Sound(b) /\ Content(b) = k \o head /\ b.reader = buf.reader
    BY <2>2, <2>3, <1>1, WrittenRight
  <2> HIDE DEF b
  <2>5. /\ Sound(Appended(b, tail)) /\ Content(Appended(b, tail)) = Content(b) \o tail
        /\ Appended(b, tail).reader >= b.reader \/ Appended(b, tail).reader >= CheapPrepend
    BY <2>2, <2>4, AppendedRight
  <2> HIDE DEF k
  <2>6. (k \o head) \o tail = k \o (head \o tail)
    <3>1. \A r, s, t \in Seq(Byte) : (r \o s) \o t = r \o (s \o t)
      BY ConcatAssociative
    <3> QED
      BY <3>1, <2>2, <1>3, Zenon
  <2>7. Content(Appended(b, tail)) = k \o data
    BY <2>2, <2>4, <2>5, <2>6
  <2> QED
    BY <2>1, <2>4, <2>5, <2>7 DEF TypeOK, Queue!Extend, k
<1> QED
  BY <1>4, <1>5

(* retrieve: the front of the content goes; with the last of it the indices go
   back to where they began. *)
LEMMA RetrieveRight ==
  ASSUME TypeOK, NEW n \in 0 .. Readable(buf), Retrieve(n)
  PROVE  /\ TypeOK' /\ Queue!Retrieve(n)
         /\ buf'.reader >= buf.reader \/ buf'.reader >= CheapPrepend
<1> DEFINE b == buf
           k == Content(b)
           rest == SubSeq(k, n + 1, Len(k))
<1>1. Sound(b)
  BY DEF TypeOK
<1>2. /\ b.cells \in Seq(Byte) /\ Len(b.cells) \in Nat
      /\ b.reader \in Nat /\ b.writer \in Nat
      /\ b.reader <= b.writer /\ b.writer <= Len(b.cells) /\ Readable(b) \in Nat
      /\ Readable(b) = b.writer - b.reader
      /\ CheapPrepend \in Nat /\ CheapPrepend <= Len(b.cells)
  BY <1>1, Numbers
<1>3. /\ k \in Seq(Byte) /\ Len(k) = Readable(b)
      /\ \A i \in 1 .. Readable(b) : k[i] = b.cells[b.reader + i]
  BY <1>1, ContentCells
<1> HIDE DEF k
<1>4. /\ rest \in Seq(Byte) /\ Len(rest) = Readable(b) - n
      /\ \A i \in 1 .. Readable(b) - n : rest[i] = b.cells[b.reader + (n + i)]
  <2>1. \A i \in n + 1 .. Len(k) : k[i] \in Byte
    BY <1>2, <1>3, ElementOfSeq
  <2>2. /\ rest \in Seq(Byte)
        /\ Len(rest) = IF n + 1 <= Len(k) THEN Len(k) - (n + 1) + 1 ELSE 0
        /\ \A i \in 1 .. Len(k) - (n + 1) + 1 : rest[i] = k[(n + 1) + i - 1]
    BY <2>1, <1>2, <1>3, SubSeqProperties
  <2>3. \A i \in 1 .. Readable(b) - n :
          n + i \in 1 .. Readable(b) /\ (n + 1) + i - 1 = n + i
    BY <1>2
  <2>4. Len(k) - (n + 1) + 1 = Readable(b) - n /\ Len(rest) = Readable(b) - n
    BY <2>2, <1>2, <1>3
  <2>5. \A i \in 1 .. Readable(b) - n : rest[i] = k[n + i]
    BY <2>2, <2>3, <2>4
  <2> QED
    BY <2>2, <2>3, <2>4, <2>5, <1>3
<1> HIDE DEF rest
<1>5. CASE n < Readable(b)
  <2> DEFINE g == [b EXCEPT !.reader = b.reader + n]
  <2>1. buf' = g
    BY <1>5 DEF Retrieve
  <2>2. /\ g.cells = b.cells /\ g.reader = b.reader + n /\ g.writer = b.writer
        /\ g = [cells |-> b.cells, reader |-> b.reader + n, writer |-> b.writer]
    BY <1>1 DEF Sound, Buffers
  <2> HIDE DEF g
  <2>3. Sound(g)
    BY <2>2, <1>2, <1>5 DEF Sound, Buffers
  <2>4. Readable(g) = Readable(b) - n
    BY <2>2, <1>2, <1>5 DEF Readable
  <2>5. /\ Content(g) \in Seq(Byte) /\ Len(Content(g)) = Readable(b) - n
        /\ \A i \in 1 .. Readable(b) - n : Content(g)[i] = b.cells[(b.reader + n) + i]
    BY <2>2, <2>3, <2>4, ContentCells
  <2>6. \A i \in 1 .. Readable(b) - n : (b.reader + n) + i = b.reader + (n + i)
    BY <1>2
  <2>7. Content(g) = rest
    <3>1. \A i \in 1 .. Len(Content(g)) : Content(g)[i] = rest[i]
      BY <2>5, <2>6, <1>4
    <3> QED
      BY <3>1, <2>5, <1>4, SeqEqual
  <2> QED
    BY <2>1, <2>2, <2>3, <2>7, <1>2 DEF TypeOK, Queue!Retrieve, rest, k
<1>6. CASE ~(n < Readable(b))
  <2> DEFINE g == Emptied(b)
  <2>1. buf' = g
    BY <1>6 DEF Retrieve
  <2>2. /\ g.cells = b.cells /\ g.reader = CheapPrepend /\ g.writer = CheapPrepend
        /\ g = [cells |-> b.cells, reader |-> CheapPrepend, writer |-> CheapPrepend]
    BY <1>1 DEF Sound, Buffers, Emptied
  <2> HIDE DEF g
  <2>3. Sound(g)
    BY <2>2, <1>2 DEF Sound, Buffers
  <2>4. Readable(g) = 0 /\ Readable(b) - n = 0
    BY <2>2, <1>2, <1>6 DEF Readable
  <2>5. Content(g) \in Seq(Byte) /\ Len(Content(g)) = 0
    BY <2>3, <2>4, ContentCells
  <2>6. Content(g) = rest
    BY <2>4, <2>5, <1>4, EmptySeq
  <2> QED
    BY <2>1, <2>2, <2>3, <2>6, <1>2 DEF TypeOK, Queue!Retrieve, rest, k
<1> QED
  BY <1>5, <1>6

(* unwrite: the end of the content goes. *)
LEMMA UnwriteRight ==
  ASSUME TypeOK, NEW n \in 0 .. Readable(buf), Unwrite(n)
  PROVE  /\ TypeOK' /\ Queue!Unwrite(n)
         /\ buf'.reader >= buf.reader
<1> DEFINE b == buf
           k == Content(b)
           rest == SubSeq(k, 1, Len(k) - n)
           g == [b EXCEPT !.writer = b.writer - n]
<1>1. Sound(b) /\ buf' = g
  BY DEF TypeOK, Unwrite
<1>2. /\ b.cells \in Seq(Byte) /\ Len(b.cells) \in Nat
      /\ b.reader \in Nat /\ b.writer \in Nat
      /\ b.reader <= b.writer /\ b.writer <= Len(b.cells) /\ Readable(b) \in Nat
      /\ Readable(b) = b.writer - b.reader
      /\ CheapPrepend \in Nat /\ CheapPrepend <= Len(b.cells)
  BY <1>1, Numbers
<1>3. /\ k \in Seq(Byte) /\ Len(k) = Readable(b)
      /\ \A i \in 1 .. Readable(b) : k[i] = b.cells[b.reader + i]
  BY <1>1, ContentCells
<1>4. /\ g.cells = b.cells /\ g.reader = b.reader /\ g.writer = b.writer - n
      /\ g = [cells |-> b.cells, reader |-> b.reader, writer |-> b.writer - n]
  BY <1>1 DEF Sound, Buffers
<1> HIDE DEF k, g
<1>5. /\ rest \in Seq(Byte) /\ Len(rest) = Readable(b) - n
      /\ \A i \in 1 .. Readable(b) - n : rest[i] = b.cells[b.reader + i]
  <2>1. Len(k) - n \in Nat /\ Len(k) - n <= Len(k)
    BY <1>2, <1>3
  <2>2. \A i \in 1 .. Len(k) - n : i \in 1 .. Len(k)
    BY <2>1, <1>2, <1>3
  <2>3. \A i \in 1 .. Len(k) - n : k[i] \in Byte
    BY <2>2, <1>3, ElementOfSeq
  <2>4. /\ rest \in Seq(Byte)
        /\ Len(rest) = IF 1 <= Len(k) - n THEN (Len(k) - n) - 1 + 1 ELSE 0
        /\ \A i \in 1 .. (Len(k) - n) - 1 + 1 : rest[i] = k[1 + i - 1]
    BY <2>1, <2>3, <1>3, SubSeqProperties
  <2>5. Len(rest) = Readable(b) - n /\ (Len(k) - n) - 1 + 1 = Readable(b) - n
    BY <2>1, <2>4, <1>2, <1>3
  <2>6. \A i \in 1 .. Readable(b) - n : 1 + i - 1 = i /\ i \in 1 .. Readable(b)
    BY <1>2
  <2>7. \A i \in 1 .. Readable(b) - n : rest[i] = k[i]
    BY <2>4, <2>5, <2>6
  <2> QED
    BY <2>4, <2>5, <2>6, <2>7, <1>3
<1> HIDE DEF rest
<1>6. Sound(g)
  BY <1>2, <1>4 DEF Sound, Buffers
<1>7. Readable(g) = Readable(b) - n
  BY <1>2, <1>4 DEF Readable
<1>8. /\ Content(g) \in Seq(Byte) /\ Len(Content(g)) = Readable(b) - n
      /\ \A i \in 1 .. Readable(b) - n : Content(g)[i] = b.cells[b.reader + i]
  BY <1>4, <1>6, <1>7, ContentCells
<1>9. Content(g) = rest
  <2>1. \A i \in 1 .. Len(Content(g)) : Content(g)[i] = rest[i]
    BY <1>5, <1>8
  <2> QED
    BY <2>1, <1>5, <1>8, SeqEqual
<1> QED
  BY <1>1, <1>2, <1>4, <1>6, <1>9 DEF TypeOK, Queue!Unwrite, rest, k

(* ensureWritableBytes and shrink leave the content as it is. *)
LEMMA RoomRight ==
  ASSUME TypeOK, NEW n \in Nat, EnsureWritableBytes(n) \/ Shrink(n)
  PROVE  /\ TypeOK' /\ Content(buf)' = Content(buf)
         /\ buf'.reader >= buf.reader \/ buf'.reader >= CheapPrepend
<1>1. Sound(buf)
  BY DEF TypeOK
<1>2. CASE EnsureWritableBytes(n)
  <2>1. buf' = EnsureWritable(buf, n)
    BY <1>2 DEF EnsureWritableBytes
  <2> QED
    BY <2>1, <1>1, EnsureRight DEF TypeOK
<1>3. CASE Shrink(n)
  <2> DEFINE len == Readable(buf) + n
             e == EnsureWritable(Fresh, len)
             k == Content(buf)
  <2>1. buf' = Appended(e, k)
    BY <1>3 DEF Shrink
  <2>2. len \in Nat /\ CheapPrepend \in Nat
    BY <1>1, Numbers
  <2>3. k \in Seq(Byte)
    BY <1>1, ContentCells
  <2> HIDE DEF k, len
  <2>4. Sound(e) /\ Content(e) = <<>> /\ e.reader >= CheapPrepend
    BY <2>2, FreshRight, EnsureRight
  <2> HIDE DEF e
  <2>5. e.reader \in Nat
    BY <2>4, Numbers
  <2>6. /\ Sound(Appended(e, k)) /\ Content(Appended(e, k)) = Content(e) \o k
        /\ Appended(e, k).reader >= e.reader \/ Appended(e, k).reader >= CheapPrepend
    BY <2>3, <2>4, AppendedRight
  <2>7. <<>> \o k = k
    BY <2>3, ConcatEmptySeq
  <2>8. Appended(e, k).reader \in Nat
    BY <2>6, Numbers
  <2>9. Content(Appended(e, k)) = k /\ Appended(e, k).reader >= CheapPrepend
    BY <2>2, <2>4, <2>5, <2>6, <2>7, <2>8
  <2> QED
    BY <2>1, <2>6, <2>9 DEF TypeOK, k
<1> QED
  BY <1>2, <1>3

(***************************************************************************)
(* The theorems.                                                           *)
(***************************************************************************)

(* What is added at a time are sequences of bytes. *)
LEMMA PiecesAreBytes == Pieces \subseteq Seq(Byte)
<1> SUFFICES ASSUME NEW n \in 0 .. MaxPiece, NEW s \in [1 .. n -> Byte]
             PROVE  s \in Seq(Byte)
  BY DEF Pieces
<1> QED
  BY BufferAssumption, SeqDef

LEMMA InitSound == Init => TypeOK
BY FreshRight DEF Init, TypeOK

(* Every step keeps the indices in order and is a step of the queue of bytes, or
   none; and only prepending takes from the room in front. *)
LEMMA StepRight ==
  ASSUME TypeOK, Next
  PROVE  /\ TypeOK' /\ (Queue!Next \/ Content(buf)' = Content(buf))
         /\ \/ buf'.reader >= buf.reader \/ buf'.reader >= CheapPrepend
            \/ \E data \in Pieces : PrependData(data)
<1>1. \A n \in 0 .. MaxPiece : n \in Nat
  BY BufferAssumption
<1>2. Len(Content(buf)) = Readable(buf)
  BY ContentCells DEF TypeOK
<1>3. CASE \E data \in Pieces : AppendData(data)
  BY <1>3, PiecesAreBytes, AppendRight DEF Queue!Next
<1>4. CASE \E data \in Pieces : PrependData(data)
  BY <1>4, PiecesAreBytes, PrependRight DEF Queue!Next
<1>5. CASE \E data \in Readv(buf) : ReadFd(data)
  BY <1>5, PiecesAreBytes, ReadFdRight DEF Queue!Next, Readv
<1>6. CASE \E n \in 0 .. Readable(buf) : Retrieve(n)
  BY <1>2, <1>6, RetrieveRight DEF Queue!Next
<1>7. CASE \E n \in 0 .. Readable(buf) : Unwrite(n)
  BY <1>2, <1>7, UnwriteRight DEF Queue!Next
<1>8. CASE \E n \in 0 .. MaxPiece : EnsureWritableBytes(n) \/ Shrink(n)
  BY <1>1, <1>8, RoomRight
<1> QED
  BY <1>3, <1>4, <1>5, <1>6, <1>7, <1>8 DEF Next

(* The indices stay in order and within the vector. *)
THEOREM TypeCorrect == Spec => []TypeOK
<1>1. TypeOK /\ UNCHANGED vars => TypeOK'
  BY DEF TypeOK, vars
<1>2. TypeOK /\ Next => TypeOK'
  BY StepRight
<1> QED
  BY <1>1, <1>2, InitSound, PTL DEF Spec

(* A header that was room for is never squeezed out by appending or reading. *)
THEOREM HeaderRoom == Spec => HeaderRoomKept
<1>1. TypeOK /\ [Next]_vars =>
        [buf'.reader >= buf.reader \/ buf'.reader >= CheapPrepend
           \/ \E data \in Pieces : PrependData(data)]_vars
  BY StepRight
<1> QED
  BY <1>1, TypeCorrect, PTL DEF Spec, HeaderRoomKept

(* Each operation adds, or takes away, the bytes it was called for. *)
THEOREM OperationsRight == Spec => EachOperation
<1> DEFINE Step ==
      /\ \A data \in Pieces :
           /\ AppendData(data) \/ (data \in Readv(buf) /\ ReadFd(data)) => Queue!Extend(data)
           /\ PrependData(data) => Queue!Front(data)
      /\ \A n \in 0 .. Readable(buf) :
           /\ Retrieve(n) => Queue!Retrieve(n)
           /\ Unwrite(n) => Queue!Unwrite(n)
      /\ \A n \in 0 .. MaxPiece :
           EnsureWritableBytes(n) \/ Shrink(n) => UNCHANGED Content(buf)
<1>1. ASSUME TypeOK PROVE Step
  <2>1. ASSUME NEW data \in Pieces
        PROVE  /\ AppendData(data) \/ (data \in Readv(buf) /\ ReadFd(data)) => Queue!Extend(data)
               /\ PrependData(data) => Queue!Front(data)
    BY <1>1, PiecesAreBytes, AppendRight, ReadFdRight, PrependRight
  <2>2. ASSUME NEW n \in 0 .. Readable(buf)
        PROVE  /\ Retrieve(n) => Queue!Retrieve(n)
               /\ Unwrite(n) => Queue!Unwrite(n)
    BY <1>1, RetrieveRight, UnwriteRight
  <2>3. ASSUME NEW n \in 0 .. MaxPiece
        PROVE  EnsureWritableBytes(n) \/ Shrink(n) => UNCHANGED Content(buf)
    <3>1. n \in Nat
      BY BufferAssumption
    <3> QED
      BY <3>1, <1>1, RoomRight
  <2> QED
    BY <2>1, <2>2, <2>3
<1> HIDE DEF Step
<1>2. TypeOK => [Step]_vars
  BY <1>1
<1>3. Spec => [][Step]_vars
  BY <1>2, TypeCorrect, PTL DEF Spec
<1> QED
  BY <1>3 DEF EachOperation, Step

(* Writing behind the content leaves the vector as long as it is. *)
LEMMA WrittenLength ==
  ASSUME NEW b, Sound(b), NEW data \in Seq(Byte), Len(data) <= Writable(b)
  PROVE  /\ Len(Written(b, data).cells) = Len(b.cells)
         /\ Readable(Written(b, data)) = Readable(b) + Len(data)
<1>1. /\ b.cells \in Seq(Byte) /\ Len(b.cells) \in Nat /\ b.writer \in Nat /\ b.reader \in Nat
      /\ Len(data) \in Nat /\ Writable(b) = Len(b.cells) - b.writer
  BY Numbers, LenProperties
<1>2. b.writer + Len(data) <= Len(b.cells)
  BY <1>1
<1>3. Len(Copied(b.cells, b.writer, data)) = Len(b.cells)
  BY <1>1, <1>2, CopiedCells
<1> QED
  BY <1>1, <1>3 DEF Written, Readable

(* The vector grows only when len bytes, the content and a header's room do not fit. *)
LEMMA EnsureLength ==
  ASSUME NEW b, Sound(b), NEW len \in Nat, Len(EnsureWritable(b, len).cells) > Len(b.cells)
  PROVE  Readable(b) + len + CheapPrepend > Len(b.cells)
<1>1. /\ b.cells \in Seq(Byte) /\ Len(b.cells) \in Nat /\ b.writer \in Nat /\ b.reader \in Nat
      /\ b.reader <= b.writer /\ b.writer <= Len(b.cells)
      /\ Writable(b) = Len(b.cells) - b.writer /\ Readable(b) = b.writer - b.reader
      /\ CheapPrepend \in Nat
  BY Numbers, BufferAssumption
<1>2. CASE Writable(b) + b.reader < len + CheapPrepend
  BY <1>1, <1>2
<1>3. CASE ~(Writable(b) + b.reader < len + CheapPrepend)
  <2>1. EnsureWritable(b, len) = b \/ EnsureWritable(b, len) = MoveTo(b, CheapPrepend)
    BY <1>3 DEF EnsureWritable, MakeSpace
  <2>2. CASE Writable(b) >= len
    BY <1>1, <2>2 DEF EnsureWritable
  <2>3. CASE Writable(b) < len
    <3>1. CheapPrepend <= b.reader
      BY <1>1, <1>3, <2>3
    <3>2. Len(MoveTo(b, CheapPrepend).cells) = Len(b.cells)
      BY <1>1, <3>1, MoveRight
    <3> QED
      BY <1>1, <2>1, <3>2
  <2> QED
    BY <1>1, <2>2, <2>3
<1> QED
  BY <1>2, <1>3

LEMMA AppendedLength ==
  ASSUME NEW b, Sound(b), NEW data \in Seq(Byte), Len(Appended(b, data).cells) > Len(b.cells)
  PROVE  Readable(b) + Len(data) + CheapPrepend > Len(b.cells)
<1> DEFINE e == EnsureWritable(b, Len(data))
<1>1. Len(data) \in Nat
  BY LenProperties
<1>2. Sound(e) /\ Len(data) <= Writable(e)
  <2>1. Sound(e) /\ Writable(e) >= Len(data)
    BY <1>1, EnsureRight
  <2> HIDE DEF e
  <2>2. Writable(e) \in Nat
    BY <2>1, Numbers
  <2> QED
    BY <1>1, <2>1, <2>2
<1>3. Appended(b, data) = Written(e, data)
  BY DEF Appended
<1> HIDE DEF e
<1>4. Len(Appended(b, data).cells) = Len(e.cells)
  BY <1>2, <1>3, WrittenLength
<1> QED
  BY <1>1, <1>4, EnsureLength DEF e

(* A connection's buffers grow only for content that does not fit, however often
   they are filled and emptied. *)
THEOREM NoNeedlessGrowth == Spec => GrowsWhenFull
<1> DEFINE Full == \/ Readable(buf) + MaxPiece + CheapPrepend > Len(buf.cells)
                   \/ \E n \in 0 .. MaxPiece : Shrink(n)
           Grows == Len(buf'.cells) > Len(buf.cells)
<1>1. ASSUME TypeOK, Next, Grows PROVE Full
  <2>1. /\ buf.cells \in Seq(Byte) /\ Len(buf.cells) \in Nat
        /\ buf.reader \in Nat /\ buf.writer \in Nat
        /\ Readable(buf) \in Nat /\ Writable(buf) \in Nat
        /\ MaxPiece \in Nat /\ CheapPrepend \in Nat /\ buf \in Buffers
    BY <1>1, Numbers, BufferAssumption DEF TypeOK, Sound
  <2>2. ASSUME NEW data \in Pieces
        PROVE  data \in Seq(Byte) /\ Len(data) \in 0 .. MaxPiece
    BY PiecesAreBytes, <2>1 DEF Pieces
  <2>3. ASSUME NEW data \in Pieces, AppendData(data) PROVE Full
    BY <1>1, <2>1, <2>2, <2>3, AppendedLength DEF AppendData, TypeOK
  <2>4. ASSUME NEW data \in Pieces, PrependData(data) PROVE FALSE
    <3>1. buf.reader - Len(data) \in Nat /\ buf.reader - Len(data) + Len(data) <= Len(buf.cells)
      BY <1>1, <2>1, <2>2, <2>4 DEF PrependData, TypeOK, Sound
    <3>2. Len(Copied(buf.cells, buf.reader - Len(data), data)) = Len(buf.cells)
      BY <2>1, <2>2, <3>1, CopiedCells
    <3> QED
      BY <1>1, <2>1, <2>4, <3>2 DEF PrependData
  <2>5. ASSUME NEW data \in Readv(buf), ReadFd(data) PROVE Full
    <3>1. data \in Pieces
      BY DEF Readv
    <3>2. CASE Len(data) <= Writable(buf)
      BY <1>1, <2>1, <2>2, <2>5, <3>1, <3>2, WrittenLength DEF ReadFd, TypeOK
    <3>3. CASE ~(Len(data) <= Writable(buf))
      <4> DEFINE first == SubSeq(data, 1, Writable(buf))
                 rest == SubSeq(data, Writable(buf) + 1, Len(data))
                 w == Written(buf, first)
      <4>1. /\ first \in Seq(Byte) /\ Len(first) = Writable(buf)
            /\ rest \in Seq(Byte) /\ Len(rest) = Len(data) - Writable(buf)
        <5>1. data \in Seq(Byte) /\ Len(data) \in Nat /\ Writable(buf) \in Nat /\ Writable(buf) < Len(data)
          BY <2>1, <2>2, <3>1, <3>3
        <5> QED
          BY <5>1, SubSeqProperties
      <4>2. buf' = Appended(w, rest)
        BY <2>5, <3>3 DEF ReadFd
      <4> HIDE DEF first, rest
      <4>3. Sound(w) /\ Len(w.cells) = Len(buf.cells) /\ Readable(w) = Readable(buf) + Writable(buf)
        BY <1>1, <2>1, <4>1, WrittenRight, WrittenLength DEF TypeOK
      <4> HIDE DEF w
      <4>4. Readable(w) + Len(rest) + CheapPrepend > Len(w.cells)
        BY <1>1, <4>1, <4>2, <4>3, AppendedLength
      <4>5. Len(data) \in 0 .. MaxPiece
        BY <2>2, <3>1
      <4> QED
        BY <2>1, <4>1, <4>3, <4>4, <4>5
    <3> QED
      BY <3>2, <3>3
  <2>6. ASSUME NEW n \in 0 .. Readable(buf), Retrieve(n) \/ Unwrite(n) PROVE FALSE
    <3>1. buf'.cells = buf.cells
      BY <2>1, <2>6 DEF Retrieve, Unwrite, Emptied, Buffers
    <3> QED
      BY <1>1, <2>1, <3>1
  <2>7. ASSUME NEW n \in 0 .. MaxPiece, EnsureWritableBytes(n) PROVE Full
    BY <1>1, <2>1, <2>7, EnsureLength DEF EnsureWritableBytes, TypeOK
  <2>8. ASSUME NEW n \in 0 .. MaxPiece, Shrink(n) PROVE Full
    BY <2>8
  <2> QED
    BY <1>1, <2>3, <2>4, <2>5, <2>6, <2>7, <2>8 DEF Next
<1>2. TypeOK /\ [Next]_vars => [Grows => Full]_vars
  BY <1>1
<1>3. Spec => [][Grows => Full]_vars
  BY <1>2, TypeCorrect, PTL DEF Spec
<1> QED
  BY <1>3 DEF GrowsWhenFull

(* A Buffer is a queue of bytes. *)
THEOREM ImplementsByteQueue == Spec => QueueSpec
<1>1. Init => Queue!Init
  BY FreshRight DEF Init, Queue!Init
<1>2. TypeOK /\ [Next]_vars => [Queue!Next]_(Content(buf))
  BY StepRight DEF vars
<1> QED
  BY <1>1, <1>2, TypeCorrect, PTL DEF Spec, QueueSpec, Queue!Spec
=============================================================================
