------------------------------ MODULE MCBuffer ------------------------------
(***************************************************************************)
(* Buffer with room for one byte in front and a few behind it, so that     *)
(* moving, growing and the extra buffer of readFd are all met.             *)
(***************************************************************************)
EXTENDS Buffer

MCByte == {0, 1}
=============================================================================
