--------------------------- MODULE ConnectionLife ---------------------------
(***************************************************************************)
(* What a TcpServer promises about each connection it accepts: the user    *)
(* hears UP once, then DOWN once, then the connection is freed, and the    *)
(* descriptor belongs to it alone until then.  Nothing is said of loops,   *)
(* of functors or of who holds a reference.                                *)
(***************************************************************************)
CONSTANTS Conns, Fds, NoFd

VARIABLES
  life,   \* per connection: none, accepted, up, down, freed
  fd      \* per connection: its descriptor, or NoFd

vars == <<life, fd>>

Init ==
  /\ life = [k \in Conns |-> "none"]
  /\ fd = [k \in Conns |-> NoFd]

(* A connection gets a descriptor nobody has; it may be UP in the same step. *)
Accept(k, d) ==
  /\ life[k] = "none"
  /\ \A j \in Conns : fd[j] # d
  /\ fd' = [fd EXCEPT ![k] = d]
  /\ \E l \in {"accepted", "up"} : life' = [life EXCEPT ![k] = l]

Up(k) ==
  /\ life[k] = "accepted"
  /\ life' = [life EXCEPT ![k] = "up"]
  /\ UNCHANGED fd

Down(k) ==
  /\ life[k] = "up"
  /\ life' = [life EXCEPT ![k] = "down"]
  /\ UNCHANGED fd

Free(S) ==
  /\ \A k \in S : life[k] = "down"
  /\ life' = [k \in Conns |-> IF k \in S THEN "freed" ELSE life[k]]
  /\ fd' = [k \in Conns |-> IF k \in S THEN NoFd ELSE fd[k]]

Next ==
  \/ \E k \in Conns : Up(k) \/ Down(k) \/ \E d \in Fds : Accept(k, d)
  \/ \E S \in SUBSET Conns : Free(S)

Spec == Init /\ [][Next]_vars
=============================================================================
