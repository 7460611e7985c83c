---------------------------- MODULE MCTcpServer ----------------------------
(* TcpServer for TLC: without threads, and with one; with descriptors for two
   connections, or for one whose session opens what it finds. *)
EXTENDS TcpServer

CONSTANTS base, io1

NoneOrOne == {<<>>, <<io1>>}

OneOfTwo == <<0, 1, 0>>
=============================================================================
