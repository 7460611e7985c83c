----------------------------- MODULE ByteQueue -----------------------------
(***************************************************************************)
(* What a Buffer promises: a sequence of bytes that grows at the back, and *)
(* at the front for headers, and is consumed from the front.  No byte is   *)
(* lost, changed or made up, whatever moves inside.                        *)
(***************************************************************************)
EXTENDS Naturals, Sequences

CONSTANT Pieces  \* what is added at a time: a set of sequences

VARIABLE content

Init == content = <<>>

Extend(data) == content' = content \o data

Front(data) == content' = data \o content

Retrieve(n) == content' = SubSeq(content, n + 1, Len(content))

Unwrite(n) == content' = SubSeq(content, 1, Len(content) - n)

Next ==
  \/ \E data \in Pieces : Extend(data) \/ Front(data)
  \/ \E n \in 0 .. Len(content) : Retrieve(n) \/ Unwrite(n)

Spec == Init /\ [][Next]_content
=============================================================================
