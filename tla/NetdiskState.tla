---------------------------- MODULE NetdiskState ----------------------------
(***************************************************************************)
(* The state of a netdisk: client processes with one connection each, the  *)
(* server's session for each connection, and what the sessions share, the  *)
(* user table and the files.                                               *)
(*                                                                         *)
(* The two ends share no message types.  Each end has a state (StateC) and *)
(* reads the next frame as that state says.  A frame here carries the kind *)
(* its sender meant; which action handles it is chosen by the receiver's   *)
(* state, as in the code.                                                  *)
(*                                                                         *)
(* A file is a sequence of bytes, "t" and "u" for text and "z" for NUL,    *)
(* because both ends send a chunk as string(buf), which stops at NUL.      *)
(* Names, users and paths are values; formatting is left out.              *)
(*                                                                         *)
(* A parameter of a command goes up some directories and then down by      *)
(* names: up = 0 and no names is ".", up = 1 and no names "..", and up = 1  *)
(* with <<f>> is "../f".  The server appends it to the path of the working  *)
(* directory as it was typed, and the system resolves the whole path.      *)
(***************************************************************************)
EXTENDS Integers, Sequences, FiniteSets

CONSTANTS
  Clients,     \* client processes
  Users,       \* user names
  Names,       \* names of files and directories
  Params,      \* the parameters the users type
  Commands,    \* the command lines the users type
  MaxDepth,    \* bound: length of the paths below a user's directory
  MaxWay,      \* bound: directories that the path of a working directory passes
  NumInodes,   \* bound: enough for every path and every open file
  BufLen,      \* bytes one read() of a file returns (8191 in the code)
  PollOrders,  \* orders in which epoll_wait may report a session's two channels
  FdsRunOut,   \* whether the server may run out of descriptors
  Local0,      \* [Clients -> [Params -> content or NoFile]]: the local files
  Users0,      \* users registered before, with an empty directory each but for
  Stored0,     \* the files [path, content] stored there, a sequence
  NoFile

Inodes == 1 .. NumInodes

Subpaths == UNION {[1 .. k -> Names] : k \in 0 .. MaxDepth}

(* Absolute paths: <<>> is WORK_DIR. *)
Paths == {<<>>} \cup UNION {{<<u>> \o r : r \in Subpaths} : u \in Users}

Text == {"t", "u"}

Bytes == Text \cup {"z"}

ASSUME NetdiskAssumption ==
  /\ MaxDepth \in Nat /\ MaxWay \in Nat /\ NumInodes \in Nat /\ BufLen \in Nat \ {0}
  /\ Params \subseteq [up : Nat, down : Seq(Names \cup Users)] /\ NoFile \notin Params
  /\ FdsRunOut \in BOOLEAN
  /\ PollOrders \subseteq {"getsFirst", "tcpFirst"}
  /\ Local0 \in [Clients -> [Params -> Seq(Bytes) \cup {NoFile}]]
  /\ Users0 \subseteq Users
  /\ Stored0 \in Seq([path : Paths, content : Seq(Bytes)]) /\ Len(Stored0) <= NumInodes
  /\ \A i \in DOMAIN Stored0 : Len(Stored0[i].path) = 2 /\ Head(Stored0[i].path) \in Users0

VARIABLES
  cli,      \* per client: state (statec_), file, size, cur (file_size, cur_size)
  local,    \* per client: its local files
  c2s,      \* per client: frames on their way to the server
  s2c,      \* per client: frames on their way to the client
  srv,      \* per client: the server's TcpConnection, see SessionStart
  users,    \* the names in table UserInfo
  dirs,     \* directories: WORK_DIR and below
  file,     \* [Paths -> inode number, or 0]
  inode,    \* contents of the inodes
  writers,  \* history, per inode: the clients that put it, each with its parameter
  aborted   \* the server process died

fileSystem == <<dirs, file, inode, writers>>
clientSide == <<cli, local>>
serverSide == <<srv, users, fileSystem, aborted>>
vars == <<clientSide, c2s, s2c, serverSide>>

Parent(p) == SubSeq(p, 1, Len(p) - 1)

Exists(p) == p \in dirs \/ file[p] # 0

(* The working directory of session c. *)
Here(c) == IF srv[c].cwd = <<>> THEN <<srv[c].user>> ELSE srv[c].cwd[Len(srv[c].cwd)]

(* Where a parameter leads from directory h, and what its path passes after h. *)
TargetOf(h, a) == SubSeq(h, 1, Len(h) - a.up) \o a.down

Way(h, a) ==
  [i \in 1 .. a.up + Len(a.down) |->
     IF i <= a.up THEN SubSeq(h, 1, Len(h) - i)
     ELSE SubSeq(h, 1, Len(h) - a.up) \o SubSeq(a.down, 1, i - a.up)]

EmptyDir(p) == \A q \in Paths : Len(q) = Len(p) + 1 /\ Parent(q) = p => ~Exists(q)

Frame(kind, val) == [kind |-> kind, val |-> val]

(* What string(buf) keeps of the bytes read into buf. *)
CString(s) ==
  LET nul == {i \in DOMAIN s : s[i] = "z"}
  IN  IF nul = {} THEN s
      ELSE SubSeq(s, 1, (CHOOSE i \in nul : \A j \in nul : i <= j) - 1)

(* A file after a write at offset pos, which is never past its end. *)
WriteAt(s, pos, data) == SubSeq(s, 1, pos) \o data \o SubSeq(s, pos + Len(data) + 1, Len(s))

(* What read() returns at offset pos. *)
ReadAt(s, pos) == SubSeq(s, pos + 1, IF pos + BufLen < Len(s) THEN pos + BufLen ELSE Len(s))

(* The parameter of a command without one. *)
NoArg == NoFile

Alive(c) == cli[c].state # "dead"

SessionStart ==
  [state  |-> "Init",      \* statec_
   user   |-> NoFile,      \* username_
   cwd    |-> <<>>,        \* relativePath_: the directories it passes, the last one is where it leads
   size   |-> 0,           \* file_size
   file   |-> 0,           \* so_file: the open inode, 0 when there is none
   pos    |-> 0,           \* the offset of so_file
   gets   |-> "none",      \* gets_channel_: none, added to the poller, removed from it, or unwatched
   active |-> <<>>,        \* channels of this connection the loop still has to handle
   in     |-> <<>>,        \* inputBuffer_: frames read and not handled
   call   |-> "none",      \* the system call onMessage stands before, in the midst of a frame
   names  |-> {},          \* the paths readdir found, in ls
   conn   |-> "connected"] \* connected, disconnected, destroyed, released

Init ==
  /\ cli = [c \in Clients |-> [state |-> "Init", file |-> NoFile, size |-> 0, cur |-> 0]]
  /\ local = Local0
  /\ c2s = [c \in Clients |-> <<>>]
  /\ s2c = [c \in Clients |-> <<>>]
  /\ srv = [c \in Clients |-> SessionStart]
  /\ users = Users0
  /\ dirs = {<<>>} \cup {<<u>> : u \in Users0}
  /\ file = [p \in Paths |-> IF \E i \in DOMAIN Stored0 : Stored0[i].path = p
                             THEN CHOOSE i \in DOMAIN Stored0 : Stored0[i].path = p
                             ELSE 0]
  /\ inode = [i \in Inodes |-> IF i \in DOMAIN Stored0 THEN Stored0[i].content ELSE <<>>]
  /\ writers = [i \in Inodes |-> {}]
  /\ aborted = FALSE
=============================================================================
