---------------------------- MODULE FrameStream ----------------------------
(***************************************************************************)
(* One direction of a connection, from send() at one end to the message    *)
(* callback at the other: frames are written as bytes, in pieces of any    *)
(* size, and are cut out of the bytes again.  Both ends run the same code, *)
(* so this is the way up and the way down.                                 *)
(*                                                                         *)
(* A byte knows the frame it is part of, the frame's payload size and its  *)
(* own place in it, so that a byte out of place is seen.  A Buffer is the  *)
(* bytes that are readable in it; module Buffer is about the rest.         *)
(***************************************************************************)
EXTENDS Naturals, Sequences

CONSTANTS
  Header,     \* bytes of the header, which holds the payload's size (4 in the code)
  Sizes,      \* payload sizes that are sent
  MaxFrames,  \* bound: frames sent
  Room        \* bytes the kernel holds between the two ends

ASSUME StreamAssumption ==
  Header \in Nat \ {0} /\ Sizes \subseteq Nat /\ MaxFrames \in Nat /\ Room \in Nat \ {0}

VARIABLES
  state,    \* state_ of the sender: kConnected, kDisconnecting
  writing,  \* whether the sender's channel watches for room to write
  out,      \* outputBuffer_ of the sender
  net,      \* bytes written and not yet read
  shut,     \* the sender's write side is shut down
  gone,     \* the receiver is gone: writing fails with EPIPE
  in,       \* inputBuffer_ of the receiver
  parsing,  \* the receiver is in the loop of handleRead
  ended,    \* the receiver read the end of the stream
  sent,     \* history: the payload size of each frame handed to send()
  got       \* history: what the message callback was given

vars == <<state, writing, out, net, shut, gone, in, parsing, ended, sent, got>>

Byte(n, size, i) == [frame |-> n, size |-> size, at |-> i]

(* The n-th frame, with a payload of that size, as bytes. *)
Bytes(n, size) == [i \in 1 .. Header + size |-> Byte(n, size, i)]

Payload(n, size) == [i \in 1 .. size |-> Byte(n, size, Header + i)]

First(s, n) == SubSeq(s, 1, n)

Rest(s, n) == SubSeq(s, n + 1, Len(s))

Init ==
  /\ state = "kConnected"
  /\ writing = FALSE
  /\ out = <<>>
  /\ net = <<>>
  /\ shut = FALSE
  /\ gone = FALSE
  /\ in = <<>>
  /\ parsing = FALSE
  /\ ended = FALSE
  /\ sent = <<>>
  /\ got = <<>>
-----------------------------------------------------------------------------
(* The sender *)

(* What write() may take of s, which may be nothing. *)
Takes(s) == {n \in 0 .. Len(s) : Len(net) + n <= Room}

(* Fault: writes at once although output is waiting. *)
SendInLoopAtOnce(bytes) ==
  \E n \in Takes(bytes) :
    /\ net' = net \o First(bytes, n)
    /\ out' = out \o Rest(bytes, n)
    /\ writing' = (writing \/ n < Len(bytes))

(* Writes what the socket takes, if nothing waits before it, and keeps the rest
   for handleWrite.  On EPIPE everything is dropped. *)
SendInLoop(bytes) ==
  \/ /\ ~writing /\ out = <<>> /\ ~gone
     /\ \E n \in Takes(bytes) :
          /\ net' = net \o First(bytes, n)
          /\ out' = Rest(bytes, n)
          /\ writing' = (n < Len(bytes))
  \/ /\ writing \/ out # <<>>
     /\ out' = out \o bytes
     /\ writing' = TRUE
     /\ UNCHANGED net
  \/ /\ ~writing /\ out = <<>> /\ gone
     /\ UNCHANGED <<out, writing, net>>

(* send, on the connection's own thread, which is where the program calls it. *)
Send(size) ==
  /\ state = "kConnected" /\ Len(sent) < MaxFrames
  /\ sent' = Append(sent, size)
  /\ SendInLoop(Bytes(Len(sent) + 1, size))
  /\ UNCHANGED <<state, shut, gone, in, parsing, ended, got>>

(* Fault: half-closes whatever waits to be written. *)
ShutdownInLoopAtOnce(busy) == shut' = TRUE

(* Half-closes, unless the channel watches for room to write. *)
ShutdownInLoop(busy) == shut' = (shut \/ ~busy)

Shutdown ==
  /\ state = "kConnected"
  /\ state' = "kDisconnecting"
  /\ ShutdownInLoop(writing)
  /\ UNCHANGED <<writing, out, net, gone, in, parsing, ended, sent, got>>

Writes(n) ==
  /\ writing /\ ~gone /\ ~shut
  /\ n \in Takes(out) \ {0}
  /\ net' = net \o First(out, n)
  /\ out' = Rest(out, n)
  /\ UNCHANGED <<state, gone, in, parsing, ended, sent, got>>

(* Fault: the channel goes on watching when nothing is left to write. *)
HandleWriteWatches ==
  \E n \in 1 .. Len(out) : Writes(n) /\ UNCHANGED <<writing, shut>>

(* Fault: a shutdown that waited for the output is forgotten. *)
HandleWriteForgets ==
  \E n \in 1 .. Len(out) : Writes(n) /\ writing' = (n < Len(out)) /\ UNCHANGED shut

(* Fault: half-closes when nothing is left to write, wanted or not. *)
HandleWriteShuts ==
  \E n \in 1 .. Len(out) :
    /\ Writes(n)
    /\ writing' = (n < Len(out))
    /\ shut' = (shut \/ n = Len(out))

(* There is room: writes some of the output and, with the last of it, does the
   half-close that waited for it.  A write that fails changes nothing. *)
HandleWrite ==
  \E n \in 1 .. Len(out) :
    /\ Writes(n)
    /\ writing' = (n < Len(out))
    /\ IF n = Len(out) /\ state = "kDisconnecting" THEN ShutdownInLoop(FALSE) ELSE UNCHANGED shut
-----------------------------------------------------------------------------
(* The receiver *)

ReceiverGoes ==
  /\ ~gone /\ ~ended
  /\ gone' = TRUE
  /\ net' = <<>>
  /\ UNCHANGED <<state, writing, out, shut, in, parsing, ended, sent, got>>

Receiving == ~gone /\ ~ended /\ UNCHANGED <<state, writing, out, shut, gone, sent>>

(* handleRead takes some of what has arrived and enters its loop. *)
ReadFd ==
  /\ ~parsing /\ net # <<>>
  /\ \E n \in 1 .. Len(net) : in' = in \o First(net, n) /\ net' = Rest(net, n)
  /\ parsing' = TRUE
  /\ Receiving /\ UNCHANGED <<ended, got>>

(* The size a header announces: right if the bytes begin with one. *)
Announced(bytes) == IF Head(bytes).at = 1 THEN {Head(bytes).size} ELSE Sizes

(* Sizes of the frames that could be cut out of bytes: none if it holds no more
   than a part of one. *)
Complete(bytes) ==
  IF Len(bytes) < Header THEN {}
  ELSE {size \in Announced(bytes) : Len(bytes) >= Header + size}

(* Fault: handleRead handles one frame and returns. *)
NextFrameOnly ==
  /\ parsing
  /\ \E size \in Complete(in) :
       /\ got' = Append(got, SubSeq(in, Header + 1, Header + size))
       /\ in' = Rest(in, Header + size)
  /\ parsing' = FALSE
  /\ Receiving /\ UNCHANGED <<net, ended>>

(* The loop of handleRead: a whole frame is handed to the message callback. *)
NextFrame ==
  /\ parsing
  /\ \E size \in Complete(in) :
       /\ got' = Append(got, SubSeq(in, Header + 1, Header + size))
       /\ in' = Rest(in, Header + size)
  /\ Receiving /\ UNCHANGED <<net, parsing, ended>>

NoMoreFrames ==
  /\ parsing /\ Complete(in) = {}
  /\ parsing' = FALSE
  /\ Receiving /\ UNCHANGED <<net, in, ended, got>>

(* readFd returns 0. *)
HandleClose ==
  /\ ~parsing /\ net = <<>> /\ shut
  /\ ended' = TRUE
  /\ Receiving /\ UNCHANGED <<net, in, parsing, got>>
-----------------------------------------------------------------------------
Receiver == ReadFd \/ NextFrame \/ NoMoreFrames \/ HandleClose

Next ==
  \/ \E size \in Sizes : Send(size)
  \/ Shutdown
  \/ HandleWrite
  \/ Receiver
  \/ ReceiverGoes

Spec == Init /\ [][Next]_vars

(* Both loops go on; epoll reports room to write and bytes to read until they
   are used. *)
Fairness == WF_vars(HandleWrite) /\ WF_vars(Receiver)

FairSpec == Spec /\ Fairness
-----------------------------------------------------------------------------
(* Properties *)

AllBytes == [frame : Nat, size : Nat, at : Nat]

(* The types, and that the write side is shut down only when it was asked for. *)
TypeOK ==
  /\ state \in {"kConnected", "kDisconnecting"}
  /\ writing \in BOOLEAN
  /\ out \in Seq(AllBytes) /\ net \in Seq(AllBytes) /\ in \in Seq(AllBytes)
  /\ shut \in BOOLEAN /\ gone \in BOOLEAN /\ parsing \in BOOLEAN /\ ended \in BOOLEAN
  /\ sent \in Seq(Sizes)
  /\ got \in Seq(Seq(AllBytes))
  /\ shut => state = "kDisconnecting"

(* The channel watches for room to write exactly as long as output waits: less
   and the output would wait forever, more and the loop would spin. *)
WritingWithOutput == writing <=> out # <<>>

(* Whatever the pieces in which the bytes were written and read, the callback is
   given the frames as they were sent: whole, unmixed, none left out, in order. *)
WholeFrames ==
  /\ Len(got) <= Len(sent)
  /\ \A n \in DOMAIN got : got[n] = Payload(n, sent[n])

(* The end of the stream comes after its last frame: no frame is cut off. *)
AllBeforeEnd == ended => Len(got) = Len(sent)

(* What WholeFrames and AllBeforeEnd rest on.  The bytes on their way, in the
   three places they can be, are whole frames one after the other: the first is
   the next to be handed out, the last is the last that was sent. *)
Stream == in \o net \o out

(* The byte at place i is followed by the rest of its frame, and its frame by
   the next one. *)
InPlace(s, i, sizes) ==
  /\ s[i].frame \in DOMAIN sizes
  /\ s[i].size = sizes[s[i].frame]
  /\ s[i].at \in 1 .. Header + s[i].size
  /\ \A j \in s[i].at .. Header + s[i].size :
       LET k == i + (j - s[i].at) IN k \in DOMAIN s /\ s[k] = Byte(s[i].frame, s[i].size, j)
  /\ s[i].at = Header + s[i].size =>
       IF i = Len(s) THEN s[i].frame = Len(sizes)
       ELSE s[i + 1].frame = s[i].frame + 1 /\ s[i + 1].at = 1

Aligned(s, first, sizes) ==
  /\ \A i \in DOMAIN s : InPlace(s, i, sizes)
  /\ IF s = <<>> THEN first = Len(sizes) + 1 ELSE s[1].frame = first /\ s[1].at = 1

(* The end is read when nothing is on its way any more but what is left in the
   receiver's buffer, and the loop of handleRead left no whole frame there. *)
StreamInv ==
  /\ ~gone => Aligned(Stream, Len(got) + 1, sent)
  /\ shut => ~writing
  /\ ended => shut /\ ~gone /\ net = <<>>
  /\ ~parsing => Complete(in) = {}
  /\ ended => ~parsing

(* Every frame arrives, unless the receiver goes away. *)
EveryFrameArrives == \A n \in 1 .. MaxFrames : Len(sent) >= n ~> (Len(got) >= n \/ gone)

(* A shutdown gets to the receiver, after the output it had to wait for. *)
ShutdownArrives == state = "kDisconnecting" ~> (ended \/ gone)
=============================================================================
