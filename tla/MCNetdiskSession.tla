-------------------------- MODULE MCNetdiskSession --------------------------
(* NetdiskSession for TLC: the parameters the users type, and the local files
   the runs start from. *)
EXTENDS NetdiskSession, TLC

CONSTANTS c1, c2, u1, u2, f, g

Up(n, down) == [up |-> n, down |-> down]

(* f and g, "..", and g beside the working directory. *)
FileParams == {Up(0, <<f>>), Up(0, <<g>>), Up(1, <<g>>)}

(* f, "..", f beside the working directory and two levels down. *)
TreeParams == {Up(0, <<f>>), Up(1, <<>>), Up(1, <<f>>), Up(0, <<f, f>>), Up(2, <<>>), Up(1, <<u1>>)}

OneParam == {Up(0, <<f>>)}

(* Each client has the files of its own in Files, and a directory "..". *)
Locals(files) ==
  [c \in Clients |-> [a \in Params |->
     IF a.down = <<>> THEN <<"u">>
     ELSE IF a \in DOMAIN files[c] THEN files[c][a] ELSE NoFile]]

(* With two bytes to a read, f and g take two reads, the last one short.  f is on
   the client, g on the server. *)
TextLocal == Locals([c \in Clients |-> Up(0, <<f>>) :> <<"t", "t", "t">>])

TextStored == <<[path |-> <<u1, g>>, content |-> <<"t", "t", "t">>]>>

(* Both clients have a file f, of different lengths and bytes. *)
TwoLocals ==
  Locals([c \in Clients |-> Up(0, <<f>>) :> IF c = c1 THEN <<"t", "t", "t">> ELSE <<"u", "u">>])

(* A client with a file of one byte, and a server without files. *)
SmallLocal == Locals([c \in Clients |-> Up(0, <<f>>) :> <<"t">>])

NoStored == <<>>

NoLocal == [c \in Clients |-> [a \in Params |-> NoFile]]

(* A file string(buf) cannot carry. *)
BinaryStored == <<[path |-> <<u1, f>>, content |-> <<"t", "z">>]>>
=============================================================================
