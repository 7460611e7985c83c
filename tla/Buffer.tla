------------------------------- MODULE Buffer -------------------------------
(***************************************************************************)
(* The Buffer of a connection: a vector of bytes and two indices.          *)
(*                                                                         *)
(*   0 .. reader: room to prepend    reader .. writer: the content         *)
(*                                   writer .. size: room to append        *)
(*                                                                         *)
(* A buffer is a record, an operation a function from buffers to buffers,  *)
(* as the member functions are composed of each other.  Bytes are counted  *)
(* from 1 here: the byte at index i of the code is cells[i + 1].           *)
(***************************************************************************)
EXTENDS Naturals, Sequences

CONSTANTS
  Byte,          \* values of a byte
  Zero,          \* the byte resize() fills with
  CheapPrepend,  \* kCheapPrepend (8 in the code)
  InitialSize,   \* kInitialSize (1024)
  ExtraSize,     \* bytes of extrabuf in readFd (65536)
  MaxContent,    \* bound: bytes in the buffer
  MaxPiece       \* bound: bytes appended or read at a time

ASSUME BufferAssumption ==
  /\ Zero \in Byte
  /\ {CheapPrepend, InitialSize, ExtraSize, MaxContent, MaxPiece} \subseteq Nat

VARIABLE buf

vars == buf

Readable(b) == b.writer - b.reader

Writable(b) == Len(b.cells) - b.writer

Content(b) == SubSeq(b.cells, b.reader + 1, b.writer)

Fresh == [cells |-> [i \in 1 .. CheapPrepend + InitialSize |-> Zero],
          reader |-> CheapPrepend, writer |-> CheapPrepend]

Pieces == UNION {[1 .. n -> Byte] : n \in 0 .. MaxPiece}

(* std::copy of data to index at, which the caller knows to have room. *)
Copied(cells, at, data) ==
  [i \in DOMAIN cells |-> IF i \in at + 1 .. at + Len(data) THEN data[i - at] ELSE cells[i]]

(* vector::resize to more bytes. *)
Resized(cells, size) ==
  [i \in 1 .. size |-> IF i <= Len(cells) THEN cells[i] ELSE Zero]
-----------------------------------------------------------------------------
(* Room *)

Grow(b, len) == [b EXCEPT !.cells = Resized(b.cells, b.writer + len)]

(* Moves the content to the front. *)
MoveTo(b, front) ==
  [cells |-> Copied(b.cells, front, Content(b)),
   reader |-> front, writer |-> front + Readable(b)]

(* Faults of makeSpace: forgets the room for headers when it looks for space;
   never moves; moves the reader before it copies. *)
MakeSpaceTooSoon(b, len) ==
  IF Writable(b) + b.reader < len THEN Grow(b, len) ELSE MoveTo(b, CheapPrepend)

MakeSpaceAlwaysGrows(b, len) == Grow(b, len)

MakeSpaceSwapped(b, len) ==
  IF Writable(b) + b.reader < len + CheapPrepend THEN Grow(b, len)
  ELSE [b EXCEPT !.reader = CheapPrepend, !.writer = CheapPrepend + Readable(b)]

MakeSpace(b, len) ==
  IF Writable(b) + b.reader < len + CheapPrepend THEN Grow(b, len) ELSE MoveTo(b, CheapPrepend)

EnsureWritable(b, len) == IF Writable(b) < len THEN MakeSpace(b, len) ELSE b

(* Bytes copied behind the content, and hasWritten. *)
Written(b, data) ==
  [cells |-> Copied(b.cells, b.writer, data),
   reader |-> b.reader, writer |-> b.writer + Len(data)]

Appended(b, data) == Written(EnsureWritable(b, Len(data)), data)

Emptied(b) == [cells |-> b.cells, reader |-> CheapPrepend, writer |-> CheapPrepend]

(* What readFd may be given by one readv: what is writable and, unless that is
   plenty, the extra buffer. *)
Readv(b) ==
  {data \in Pieces :
     Len(data) <= (IF Writable(b) < ExtraSize THEN Writable(b) + ExtraSize ELSE Writable(b))}
-----------------------------------------------------------------------------
Init == buf = Fresh

AppendData(data) ==
  /\ Readable(buf) + Len(data) <= MaxContent
  /\ buf' = Appended(buf, data)

PrependData(data) ==
  /\ Readable(buf) + Len(data) <= MaxContent
  /\ Len(data) <= buf.reader
  /\ buf' = [cells |-> Copied(buf.cells, buf.reader - Len(data), data),
             reader |-> buf.reader - Len(data), writer |-> buf.writer]

(* retrieve, and with all that is there retrieveAll. *)
Retrieve(n) ==
  buf' = IF n < Readable(buf) THEN [buf EXCEPT !.reader = buf.reader + n] ELSE Emptied(buf)

Unwrite(n) == buf' = [buf EXCEPT !.writer = buf.writer - n]

EnsureWritableBytes(n) == buf' = EnsureWritable(buf, n)

(* The content in a buffer of its own, with room to append reserve bytes. *)
Shrink(reserve) ==
  buf' = Appended(EnsureWritable(Fresh, Readable(buf) + reserve), Content(buf))

(* Fault: the part that extrabuf took is appended, the part before it forgotten. *)
ReadFdForgets(data) ==
  /\ Readable(buf) + Len(data) <= MaxContent
  /\ buf' = IF Len(data) <= Writable(buf) THEN Written(buf, data)
            ELSE Appended(buf, SubSeq(data, Writable(buf) + 1, Len(data)))

(* readv fills the room behind the content, and extrabuf with the rest, which is
   appended. *)
ReadFd(data) ==
  /\ Readable(buf) + Len(data) <= MaxContent
  /\ buf' = IF Len(data) <= Writable(buf) THEN Written(buf, data)
            ELSE Appended(Written(buf, SubSeq(data, 1, Writable(buf))),
                          SubSeq(data, Writable(buf) + 1, Len(data)))

Next ==
  \/ \E data \in Pieces : AppendData(data) \/ PrependData(data)
  \/ \E data \in Readv(buf) : ReadFd(data)
  \/ \E n \in 0 .. Readable(buf) : Retrieve(n) \/ Unwrite(n)
  \/ \E n \in 0 .. MaxPiece : EnsureWritableBytes(n) \/ Shrink(n)

Spec == Init /\ [][Next]_vars
-----------------------------------------------------------------------------
(* Properties *)

Buffers == [cells : Seq(Byte), reader : Nat, writer : Nat]

(* The indices are in order and within the vector, also those of an empty buffer. *)
Sound(b) ==
  /\ b \in Buffers
  /\ b.reader <= b.writer /\ b.writer <= Len(b.cells)
  /\ CheapPrepend <= Len(b.cells)

(* No operation takes an index out of the vector, or one past the other. *)
TypeOK == Sound(buf)

(* Whatever is moved, no byte is lost, changed or made up. *)
Queue == INSTANCE ByteQueue WITH content <- Content(buf)

QueueSpec == Queue!Spec

(* Each operation adds, or takes away, the bytes it was called for, and those that
   only make room change nothing. *)
EachOperation ==
  [][/\ \A data \in Pieces :
          /\ AppendData(data) \/ (data \in Readv(buf) /\ ReadFd(data)) => Queue!Extend(data)
          /\ PrependData(data) => Queue!Front(data)
     /\ \A n \in 0 .. Readable(buf) :
          /\ Retrieve(n) => Queue!Retrieve(n)
          /\ Unwrite(n) => Queue!Unwrite(n)
     /\ \A n \in 0 .. MaxPiece :
          EnsureWritableBytes(n) \/ Shrink(n) => UNCHANGED Content(buf)]_vars

(* Only prepending takes from the room in front that is kept for a header, which
   send() prepends after the message was appended. *)
HeaderRoomKept ==
  [][buf'.reader >= buf.reader \/ buf'.reader >= CheapPrepend
     \/ \E data \in Pieces : PrependData(data)]_vars

(* A vector grows only when the content, what is added and the room in front do
   not fit, so a connection's buffers stay within the most they ever held. *)
GrowsWhenFull ==
  [][Len(buf'.cells) > Len(buf.cells) =>
       \/ Readable(buf) + MaxPiece + CheapPrepend > Len(buf.cells)
       \/ \E n \in 0 .. MaxPiece : Shrink(n)]_vars
=============================================================================
