--------------------------- MODULE NetdiskSession ---------------------------
(***************************************************************************)
(* The netdisk protocol: clients and sessions together, and what the       *)
(* netdisk must guarantee.  The protocol works only as long as the states  *)
(* of a client and of its session agree on what the next frame is.         *)
(***************************************************************************)
EXTENDS NetdiskClient, NetdiskServer

Next == \E c \in Clients : UserTypes(c) \/ ClientOnMessage(c) \/ ServerLoop(c) \/ ClientDies(c)

Spec == Init /\ [][Next]_vars

(* The network delivers and both processes run; nobody has to type anything. *)
Fairness == \A c \in Clients : WF_vars(ClientOnMessage(c)) /\ WF_vars(ServerLoop(c))

FairSpec == Spec /\ Fairness
-----------------------------------------------------------------------------
(* Properties *)

ClientStates == {"Init", "Registering", "Logining_Step1", "Logining_Step2", "Login_Success",
  "Print", "Mkdir", "Remove", "Cd", "Begin_Puts", "Puts", "Endless", "Begin_Gets", "Gets", "dead"}

ServerStates == {"Init", "Registering", "Logining_Step1", "Logining_Step2", "Login_Success",
  "Begin_Puts", "Puts", "Gets"}

LoggedIn(c) == srv[c].state \in {"Login_Success", "Begin_Puts", "Puts", "Gets"}

(* The types of what the two ends and the server's files hold, and that a
   connection that was freed has left nothing behind. *)
TypeOK ==
  /\ \A c \in Clients :
       /\ cli[c].state \in ClientStates
       /\ cli[c].file \in Params \cup {NoFile}
       /\ cli[c].size \in Nat /\ cli[c].cur \in Nat
       /\ srv[c].state \in ServerStates
       /\ srv[c].user \in Users \cup {NoFile}
       /\ srv[c].size \in Int /\ srv[c].pos \in Nat
       /\ srv[c].file \in Inodes \cup {0}
       /\ srv[c].gets \in {"none", "added", "removed", "unwatched"}
       /\ srv[c].conn \in {"connected", "disconnected", "destroyed", "released"}
       /\ srv[c].call \in {"none", "mkdir", "stat", "open", "access", "statFile", "openFile"}
       /\ srv[c].call # "none" => srv[c].in # <<>>
       /\ srv[c].names \subseteq Paths
       /\ srv[c].cwd \in Seq(Paths)
       /\ Len(srv[c].active) <= 2
       /\ srv[c].conn = "released" => srv[c].file = 0 /\ srv[c].gets = "none" /\ srv[c].active = <<>>
  /\ users \subseteq Users
  /\ dirs \subseteq Paths
  /\ file \in [Paths -> Inodes \cup {0}]
  /\ writers \in [Inodes -> SUBSET (Clients \X Params)]
  /\ aborted \in BOOLEAN

(* The kind of frame each end can make sense of in each of its states. *)
ServerExpects ==
  [Init |-> "menu", Registering |-> "account", Logining_Step1 |-> "user",
   Logining_Step2 |-> "secret", Login_Success |-> "command",
   Begin_Puts |-> "size", Puts |-> "data", Gets |-> "ack"]

ClientExpects ==
  {<<"Registering", "ret">>, <<"Logining_Step1", "salt">>, <<"Logining_Step2", "ret">>,
   <<"Print", "text">>, <<"Mkdir", "ret">>, <<"Remove", "ret">>, <<"Cd", "ret">>,
   <<"Begin_Puts", "ret">>, <<"Puts", "ret">>, <<"Begin_Gets", "long">>, <<"Gets", "data">>}

(* The two ends agree on what the next frame is: neither ever takes a frame for
   something its sender did not mean, and nothing arrives at a client that
   waits for its user. *)
InStep ==
  \A c \in Clients :
    /\ srv[c].in # <<>> /\ srv[c].call = "none" => Msg(c).kind = ServerExpects[srv[c].state]
    /\ s2c[c] # <<>> => <<cli[c].state, Head(s2c[c]).kind>> \in ClientExpects

(* The server dies only of a working directory that is not there any more.  A
   session whose directories are all there can list them, and gets_channel_ is
   unregistered by the time the client's acknowledgement destroys it. *)
ServerSurvives == aborted => \E c \in Clients : LoggedIn(c) /\ ~Stands(c)

(* The path of the working directory goes straight down, without "..". *)
Straight(c) == \A i \in DOMAIN srv[c].cwd : Len(srv[c].cwd[i]) = i + 1

(* Session d has a command to remove something on the path of c's working
   directory.  When that path goes straight down only its end may be empty, and c
   itself names that only by a parameter that goes up. *)
MayRemove(d, c) ==
  /\ srv[d].in # <<>> /\ Msg(d).kind = "command" /\ Msg(d).val.cmd = "remove"
  /\ Straight(c) => /\ Target(d) = Here(c)
                    /\ d # c \/ Arg(d).up > 0

(* Every directory on the path of a session's working directory stays there, and
   cd leads only to such a directory.  Only a remove takes one away, and of a path
   that goes straight down only the end: remove refuses a directory that is not
   empty.  A session does that to itself only through "..". *)
WorkingDirStays ==
  [][\A c \in Clients : LoggedIn(c) /\ Stands(c) => Stands(c)' \/ \E d \in Clients : MayRemove(d, c)]_vars

(* A transfer the server cannot carry out and tells nobody: what open or eventfd
   returned is not checked, or the file was gone between access and open. *)
Unserved(c) ==
  srv[c].state = "Gets" /\ srv[c].call = "none" /\ (srv[c].file = 0 \/ srv[c].gets = "unwatched")

(* A command is answered: a client that waits for the server comes back to its
   user, whatever it asked for, unless it could not read the file it puts, or the
   server not the file it asked for.  The client may die instead, or the server. *)
CommandsAnswered ==
  \A c \in Clients :
    cli[c].state \notin {"Init", "Login_Success", "dead"}
      ~> cli[c].state \in {"Init", "Login_Success", "dead", "Endless"} \/ Unserved(c) \/ aborted

(* The server comes back to its user as well: a transfer it started ends, or
   the connection does, but for the same two cases. *)
TransfersEnd ==
  \A c \in Clients :
    srv[c].state \in {"Begin_Puts", "Puts", "Gets"}
      ~> \/ srv[c].state = "Login_Success" \/ srv[c].conn # "connected"
         \/ cli[c].state = "Endless" \/ Unserved(c)

(* A connection whose client is gone is freed, and its descriptors with it. *)
ConnectionsReleased == \A c \in Clients : ~Alive(c) ~> srv[c].conn = "released"

(* The files, as NetDisk sees them: a file in transfer is not there yet. *)
BeingPut(i) ==
  \E c \in Clients : /\ srv[c].file = i
                     /\ srv[c].state \in {"Begin_Puts", "Puts"}
                     /\ srv[c].conn = "connected"

(* A parameter leads to p, unless a directory its path passes is gone while p is
   there. *)
LeadsTo(c, p) == Target(c) = p /\ (Exists(p) => Found(c))

(* Those whose puts of p have passed fileExist, each with its parameter. *)
Putting(p) ==
  {<<c, Arg(c)>> : c \in {d \in Clients : srv[d].call = "open" /\ LeadsTo(d, p)}}
    \cup IF file[p] = 0 THEN {} ELSE writers[file[p]]

Disk == INSTANCE NetDisk WITH
  by    <- [p \in Paths |-> Putting(p)],
  Disk0 <- [p \in Paths |-> IF \E i \in DOMAIN Stored0 : Stored0[i].path = p
                            THEN Stored0[CHOOSE i \in DOMAIN Stored0 : Stored0[i].path = p].content
                            ELSE NoFile],
  who   <- [c \in Clients |-> IF LoggedIn(c) THEN srv[c].user ELSE NoFile],
  disk  <- [p \in Paths |-> IF file[p] = 0 \/ BeingPut(file[p]) THEN NoFile ELSE inode[file[p]]],
  local <- [c \in Clients |-> [a \in Params |->
              IF cli[c].state = "Gets" /\ cli[c].file = a THEN NoFile ELSE local[c][a]]],
  dead  <- {c \in Clients : ~Alive(c)}

(* The session implements NetDisk: files arrive whole or, after a lost
   connection, as a prefix, and only what several put at once is mixed. *)
DiskSpec == Disk!Spec
=============================================================================
