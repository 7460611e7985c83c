--------------------------- MODULE NetdiskServer ---------------------------
(***************************************************************************)
(* The server: the loop that handles the channels of each connection, and  *)
(* the session on it, which handles a frame by its state                   *)
(* (EchoServer::onMessage).  Every connection is given a loop of its own;  *)
(* connections that share one have fewer interleavings.                    *)
(*                                                                         *)
(* The loops run at once, and the sessions share the user table and the    *)
(* files.  A handler is therefore cut between its calls that look at them  *)
(* or change them: another session may come in between.                    *)
(***************************************************************************)
EXTENDS NetdiskState

(* send: nothing leaves once the connection is down or the peer is gone. *)
Reply(c, m) ==
  s2c' = IF srv[c].conn = "connected" /\ Alive(c) THEN [s2c EXCEPT ![c] = Append(@, m)] ELSE s2c
-----------------------------------------------------------------------------
(* The channels *)

SocketReady(c) == srv[c].conn = "connected" /\ (c2s[c] # <<>> \/ ~Alive(c))

(* gets_channel_ is ready as long as it is registered: nobody reads its eventfd. *)
GetsReady(c) == srv[c].gets = "added"

ReadyOrders(c) ==
  CASE SocketReady(c) /\ GetsReady(c) ->
         {IF order = "getsFirst" THEN <<"gets", "tcp">> ELSE <<"tcp", "gets">> : order \in PollOrders}
    [] SocketReady(c) /\ ~GetsReady(c) -> {<<"tcp">>}
    [] ~SocketReady(c) /\ GetsReady(c) -> {<<"gets">>}
    [] OTHER -> {}

Poll(c) ==
  /\ ~aborted
  /\ srv[c].active = <<>> /\ srv[c].in = <<>>
  /\ \E ready \in ReadyOrders(c) : srv' = [srv EXCEPT ![c].active = ready]
  /\ UNCHANGED <<clientSide, c2s, s2c, users, fileSystem, aborted>>

(* The loop calls the handler of the next ready channel. *)
Handles(c, channel) ==
  /\ ~aborted
  /\ srv[c].in = <<>>
  /\ srv[c].active # <<>> /\ Head(srv[c].active) = channel
  /\ UNCHANGED <<clientSide, users, fileSystem, aborted>>

(* readFd takes what has arrived; its frames are then handled one after the
   other before the next channel is. *)
HandleRead(c) ==
  /\ Handles(c, "tcp")
  /\ \E n \in 1 .. Len(c2s[c]) :
       /\ srv' = [srv EXCEPT ![c].active = Tail(@), ![c].in = SubSeq(c2s[c], 1, n)]
       /\ c2s' = [c2s EXCEPT ![c] = SubSeq(@, n + 1, Len(@))]
  /\ UNCHANGED s2c

(* readFd returns 0. *)
HandleClose(c) ==
  /\ Handles(c, "tcp")
  /\ c2s[c] = <<>> /\ ~Alive(c)
  /\ srv' = [srv EXCEPT ![c].active = Tail(@), ![c].conn = "disconnected"]
  /\ UNCHANGED <<c2s, s2c>>

(* read() on what open() returned when it failed finds nothing and returns -1. *)
NextChunk(s) == IF s.file = 0 THEN <<>> ELSE ReadAt(inode[s.file], s.pos)

ReadLen(s) == IF s.file = 0 THEN -1 ELSE Len(NextChunk(s))

(* Bound: file_size, which a failing read increases, is counted up to here. *)
MaxSize == 2 * BufLen

SizeLeft(s) == IF s.file = 0 /\ s.size >= MaxSize THEN s.size ELSE s.size - ReadLen(s)

(* Bound: a frame with nothing in it waits until the client has taken the last. *)
Flooded(c) == srv[c].size # 0 /\ NextChunk(srv[c]) = <<>> /\ s2c[c] # <<>>

(* Fault: the end of the file is noticed one call early. *)
HandleGetsShort(c) ==
  /\ Handles(c, "gets")
  /\ LET s    == srv[c]
         data == NextChunk(s)
     IN  IF s.size <= BufLen
         THEN /\ srv' = [srv EXCEPT ![c].active = Tail(@), ![c].gets = "removed"]
              /\ UNCHANGED s2c
         ELSE /\ srv' = [srv EXCEPT ![c].active = Tail(@), ![c].size = @ - Len(data),
                                    ![c].pos = @ + Len(data)]
              /\ Reply(c, Frame("data", CString(data)))
  /\ UNCHANGED c2s

(* Fault: at the end of the file the channel stays registered. *)
HandleGetsKeeps(c) ==
  /\ Handles(c, "gets")
  /\ LET s    == srv[c]
         data == NextChunk(s)
     IN  /\ srv' = [srv EXCEPT ![c].active = Tail(@), ![c].size = @ - Len(data),
                               ![c].pos = @ + Len(data)]
         /\ IF s.size = 0 THEN UNCHANGED s2c ELSE Reply(c, Frame("data", CString(data)))
  /\ UNCHANGED c2s

HandleGets(c) ==
  /\ Handles(c, "gets") /\ ~Flooded(c)
  /\ LET s    == srv[c]
         data == NextChunk(s)
     IN  IF s.size = 0
         THEN /\ srv' = [srv EXCEPT ![c].active = Tail(@), ![c].gets = "removed"]
              /\ UNCHANGED s2c
         ELSE /\ srv' = [srv EXCEPT ![c].active = Tail(@), ![c].size = SizeLeft(s),
                                    ![c].pos = @ + Len(data)]
              /\ Reply(c, Frame("data", CString(data)))
  /\ UNCHANGED c2s

(* Fault: whoever holds the connection is forgotten. *)
ConnectDestroyedAlways(c) ==
  /\ ~aborted
  /\ srv[c].conn = "disconnected" /\ srv[c].active = <<>>
  /\ srv' = [srv EXCEPT ![c].conn = "released"]
  /\ UNCHANGED <<clientSide, c2s, s2c, users, fileSystem, aborted>>

(* connectDestroyed has run and the functors that held the connection are gone.
   The callback of gets_channel_ holds it too: only a connection without that
   channel is freed, and only then are its socket and so_file closed. *)
ConnectDestroyed(c) ==
  /\ ~aborted
  /\ srv[c].conn = "disconnected" /\ srv[c].active = <<>>
  /\ srv' = [srv EXCEPT ![c].conn = IF srv[c].gets = "none" THEN "released" ELSE "destroyed",
                        ![c].file = IF srv[c].gets = "none" THEN 0 ELSE @]
  /\ UNCHANGED <<clientSide, c2s, s2c, users, fileSystem, aborted>>
-----------------------------------------------------------------------------
(* A frame: registering and logging in *)

ServerTakes(c, state) ==
  /\ ~aborted
  /\ srv[c].in # <<>> /\ srv[c].call = "none"
  /\ srv[c].state = state
  /\ UNCHANGED <<clientSide, c2s>>

Msg(c) == Head(srv[c].in)

(* The frame is done with, and the session is as in new but for that. *)
Becomes(c, new) == srv' = [srv EXCEPT ![c] = [new EXCEPT !.in = Tail(@), !.call = "none"]]

(* The handler has come to its next call; another session may come before it. *)
GoesOn(c, new, call) == srv' = [srv EXCEPT ![c] = [new EXCEPT !.call = call]]

Calls(c, call) ==
  /\ ~aborted
  /\ srv[c].call = call
  /\ UNCHANGED <<clientSide, c2s>>

(* 0 or -1, as the handlers return it. *)
Ret(ok) == Frame("ret", IF ok THEN 0 ELSE -1)

(* Only a menu frame has the text "0" or "1"; any other is passed over. *)
MenuChoice(c) ==
  /\ ServerTakes(c, "Init")
  /\ Becomes(c, [srv[c] EXCEPT !.state =
                  CASE Msg(c).kind # "menu" -> @
                    [] Msg(c).kind = "menu" /\ Msg(c).val = "0" -> "Registering"
                    [] OTHER -> "Logining_Step1"])
  /\ UNCHANGED <<s2c, users, fileSystem, aborted>>

(* Whether sqlTableChange inserts u: never when the name is taken or the
   database cannot be reached. *)
Inserts(u) == {FALSE, (u \notin users)}

(* Whether sqlSingleSelect finds u: never when the database cannot be reached. *)
Selects(u) == {FALSE, (u \in users)}

HandleRegister(c) ==
  /\ ServerTakes(c, "Registering")
  /\ LET u == Msg(c).val IN
     \E ok \in Inserts(u) :
       \/ /\ ok
          /\ users' = users \cup {u}
          /\ GoesOn(c, [srv[c] EXCEPT !.state = "Init"], "mkdir")
          /\ UNCHANGED s2c
       \/ /\ ~ok
          /\ Becomes(c, [srv[c] EXCEPT !.state = "Init"])
          /\ Reply(c, Ret(FALSE))
          /\ UNCHANGED users
  /\ UNCHANGED <<fileSystem, aborted>>

(* What mkdir returns is not checked: it fails where there is something of that
   name already, or for reasons of its own. *)
RegisterMkdir(c) ==
  /\ Calls(c, "mkdir")
  /\ Becomes(c, srv[c])
  /\ \E made \in {FALSE, ~Exists(<<Msg(c).val>>)} :
       dirs' = IF made THEN dirs \cup {<<Msg(c).val>>} ELSE dirs
  /\ Reply(c, Ret(TRUE))
  /\ UNCHANGED <<users, file, inode, writers, aborted>>

LoginStep1(c) ==
  /\ ServerTakes(c, "Logining_Step1")
  /\ LET u == Msg(c).val IN
     \E found \in Selects(u) :
       /\ Becomes(c, [srv[c] EXCEPT !.user = u,
                                    !.state = IF found THEN "Logining_Step2" ELSE "Init"])
       /\ Reply(c, Frame("salt", found))
  /\ UNCHANGED <<users, fileSystem, aborted>>

(* Fault: after a wrong password the session goes on waiting for one. *)
LoginStep2Stays(c) ==
  /\ ServerTakes(c, "Logining_Step2")
  /\ \E found \in Selects(srv[c].user) :
       LET ok == found /\ Msg(c).val
       IN  /\ Becomes(c, IF ok THEN [srv[c] EXCEPT !.state = "Login_Success", !.cwd = <<>>] ELSE srv[c])
           /\ Reply(c, Ret(ok))
  /\ UNCHANGED <<users, fileSystem, aborted>>

LoginStep2(c) ==
  /\ ServerTakes(c, "Logining_Step2")
  /\ \E found \in Selects(srv[c].user) :
       LET ok == found /\ Msg(c).val
       IN  /\ Becomes(c, IF ok THEN [srv[c] EXCEPT !.state = "Login_Success", !.cwd = <<>>]
                         ELSE [srv[c] EXCEPT !.state = "Init"])
           /\ Reply(c, Ret(ok))
  /\ UNCHANGED <<users, fileSystem, aborted>>
-----------------------------------------------------------------------------
(* A frame: the commands *)

Arg(c) == Msg(c).val.arg

Target(c) == TargetOf(Here(c), Arg(c))

(* The system resolves absolutePath_ + relativePath_ + parm from the start: every
   directory that the path passes has to be there, also one it leaves by "..". *)
Stands(c) == <<srv[c].user>> \in dirs /\ \A i \in DOMAIN srv[c].cwd : srv[c].cwd[i] \in dirs

Found(c) ==
  Stands(c) /\ LET way == Way(Here(c), Arg(c)) IN \A i \in 1 .. Len(way) - 1 : way[i] \in dirs

IsThere(c) == Found(c) /\ Exists(Target(c))

IsDir(c) == Found(c) /\ Target(c) \in dirs

(* What a call that needs a descriptor may meet. *)
NoFds == {FALSE, FdsRunOut}

Commanded(c, cmd) ==
  ServerTakes(c, "Login_Success") /\ Msg(c).kind = "command" /\ Msg(c).val.cmd = cmd

(* A line that is no command is passed over without an answer. *)
Pwd(c) ==
  /\ ServerTakes(c, "Login_Success")
  /\ Becomes(c, srv[c])
  /\ IF Msg(c).kind # "command" THEN UNCHANGED s2c
     ELSE Msg(c).val.cmd = "pwd" /\ Reply(c, Frame("text", srv[c].cwd))
  /\ UNCHANGED <<users, fileSystem, aborted>>

(* myls does not look at what opendir returns: readdir(NULL) ends the process. *)
Ls(c) ==
  /\ Commanded(c, "ls")
  /\ GoesOn(c, [srv[c] EXCEPT !.names = {p \in Paths : p # <<>> /\ Parent(p) = Here(c) /\ Exists(p)}],
            "stat")
  /\ \E full \in NoFds : aborted' = (full \/ ~Stands(c))
  /\ UNCHANGED <<s2c, users, fileSystem>>

(* Nor at what stat returns: of a name that has gone since, ctime is given what
   happened to be on the stack, and may return NULL to a function that reads it. *)
LsStat(c) ==
  /\ Calls(c, "stat")
  /\ \E dies \in BOOLEAN :
       /\ dies => \E p \in srv[c].names : ~(Stands(c) /\ Exists(p))
       /\ aborted' = dies
       /\ IF dies THEN UNCHANGED <<srv, s2c>>
          ELSE Becomes(c, [srv[c] EXCEPT !.names = {}]) /\ Reply(c, Frame("text", Here(c)))
  /\ UNCHANGED <<users, fileSystem>>

Mkdir(c) ==
  /\ Commanded(c, "mkdir")
  /\ Becomes(c, srv[c])
  /\ LET ok == Found(c) /\ ~Exists(Target(c))
     IN  /\ dirs' = IF ok THEN dirs \cup {Target(c)} ELSE dirs
         /\ Reply(c, Ret(ok))
  /\ UNCHANGED <<users, file, inode, writers, aborted>>

(* Fault: a directory goes whatever is in it. *)
RemoveFull(c) ==
  /\ Commanded(c, "remove")
  /\ Becomes(c, srv[c])
  /\ dirs' = dirs \ {Target(c)}
  /\ file' = [file EXCEPT ![Target(c)] = 0]
  /\ Reply(c, Ret(Exists(Target(c))))
  /\ UNCHANGED <<users, inode, writers, aborted>>

(* remove(3): a file, or a directory that is empty and named, not "." or "..". *)
Remove(c) ==
  /\ Commanded(c, "remove")
  /\ Becomes(c, srv[c])
  /\ LET ok == IsThere(c) /\ EmptyDir(Target(c)) /\ Arg(c).down # <<>>
     IN  /\ dirs' = IF ok THEN dirs \ {Target(c)} ELSE dirs
         /\ file' = IF ok THEN [file EXCEPT ![Target(c)] = 0] ELSE file
         /\ Reply(c, Ret(ok))
  /\ UNCHANGED <<users, inode, writers, aborted>>

(* No parameter, "." and ".." need no directory; ".." takes the last name away,
   and any other parameter is appended. *)
Untested(a) == a = NoArg \/ (a.down = <<>> /\ a.up < 2)

CdTo(c, a) ==
  IF a = NoArg THEN <<>>
  ELSE IF Untested(a) THEN SubSeq(srv[c].cwd, 1, Len(srv[c].cwd) - a.up)
  ELSE srv[c].cwd \o Way(Here(c), a)

(* Fault: the directory is not tested. *)
CdUntested(c) ==
  /\ Commanded(c, "cd")
  /\ Becomes(c, [srv[c] EXCEPT !.cwd = CdTo(c, Arg(c))])
  /\ Reply(c, Ret(TRUE))
  /\ UNCHANGED <<users, fileSystem, aborted>>

Cd(c) ==
  /\ Commanded(c, "cd")
  /\ \E full \in NoFds :
       LET ok == Untested(Arg(c)) \/ (IsDir(c) /\ ~full)
       IN  /\ Becomes(c, IF ok THEN [srv[c] EXCEPT !.cwd = CdTo(c, Arg(c))] ELSE srv[c])
           /\ Reply(c, Ret(ok))
  /\ UNCHANGED <<users, fileSystem, aborted>>

(* The inodes that no path and no open file refers to. *)
FreeInodes ==
  {i \in Inodes : (\A p \in Paths : file[p] # i) /\ (\A c \in Clients : srv[c].file # i)}

LowestInode == {i \in FreeInodes : \A j \in FreeInodes : i <= j}

(* fileExist. *)
Puts(c) ==
  /\ Commanded(c, "puts")
  /\ \/ /\ IsThere(c)
        /\ Becomes(c, srv[c])
        /\ Reply(c, Ret(FALSE))
     \/ /\ ~IsThere(c)
        /\ GoesOn(c, [srv[c] EXCEPT !.state = "Begin_Puts"], "open")
        /\ UNCHANGED s2c
  /\ UNCHANGED <<users, fileSystem, aborted>>

(* Fault: puts opens whatever is there by now, and forgets where it was put. *)
PutsOpenTruncates(c) ==
  /\ Calls(c, "open")
  /\ \E i \in IF file[Target(c)] = 0 THEN LowestInode ELSE {file[Target(c)]} :
         /\ Becomes(c, [srv[c] EXCEPT !.file = i, !.pos = 0])
         /\ file' = [file EXCEPT ![Target(c)] = i]
         /\ inode' = [inode EXCEPT ![i] = <<>>]
         /\ writers' = [writers EXCEPT ![i] = {<<c, Arg(c)>>}]
  /\ Reply(c, Ret(TRUE))
  /\ UNCHANGED <<users, dirs, aborted>>

(* The inode that open finds or makes for p, or 0: it may fail at any time. *)
Opened(c, p) ==
  {0} \cup IF ~Found(c) \/ p \in dirs THEN {}
          ELSE IF file[p] # 0 THEN {file[p]} ELSE LowestInode

(* open, with O_CREAT and neither O_EXCL nor O_TRUNC: a file another session has
   made since is opened and written over from its start.  What open returns is
   not checked: when it fails, as without the directory or where a directory has
   been made, the client sends the file all the same. *)
PutsOpen(c) ==
  /\ Calls(c, "open")
  /\ LET p == Target(c) IN
     \E i \in Opened(c, p) :
       /\ Becomes(c, [srv[c] EXCEPT !.file = i, !.pos = 0])
       /\ IF i = 0 THEN UNCHANGED <<file, inode, writers>>
          ELSE /\ file' = [file EXCEPT ![p] = i]
               /\ inode' = IF file[p] = 0 THEN [inode EXCEPT ![i] = <<>>] ELSE inode
               /\ writers' = [writers EXCEPT ![i] = {<<c, Arg(c)>>} \cup IF file[p] = 0 THEN {} ELSE @]
  /\ Reply(c, Ret(TRUE))
  /\ UNCHANGED <<users, dirs, aborted>>

(* testOpenDir. *)
Gets(c) ==
  /\ Commanded(c, "gets")
  /\ \/ /\ IsDir(c)
        /\ Becomes(c, srv[c])
        /\ Reply(c, Frame("long", -1))
     \/ /\ ~IsDir(c) \/ FdsRunOut
        /\ GoesOn(c, srv[c], "access")
        /\ UNCHANGED s2c
  /\ UNCHANGED <<users, fileSystem, aborted>>

(* fileExist. *)
GetsAccess(c) ==
  /\ Calls(c, "access")
  /\ \/ /\ ~IsThere(c)
        /\ Becomes(c, srv[c])
        /\ Reply(c, Frame("long", -1))
     \/ /\ IsThere(c)
        /\ GoesOn(c, srv[c], "statFile")
        /\ UNCHANGED s2c
  /\ UNCHANGED <<users, fileSystem, aborted>>

(* What st_size may be: the size of the file, some size of a directory, or
   whatever an uninitialized statbuf holds. *)
StatSizes(c) ==
  IF Found(c) /\ file[Target(c)] # 0 THEN {Len(inode[file[Target(c)]])}
  ELSE {0, 1, 2 * BufLen} \cup IF IsDir(c) THEN {} ELSE {-1}

GetsStat(c) ==
  /\ Calls(c, "statFile")
  /\ \E size \in StatSizes(c) :
       GoesOn(c, [srv[c] EXCEPT !.state = "Gets", !.size = size], "openFile")
  /\ UNCHANGED <<s2c, users, fileSystem, aborted>>

(* open and eventfd, neither of them checked.  A directory opens but cannot be
   read.  A channel without an eventfd is in the poller's map, but epoll refuses
   it, and its handler is never called. *)
GetsOpen(c) ==
  /\ Calls(c, "openFile")
  /\ \E noFile, noEvent \in NoFds :
       Becomes(c, [srv[c] EXCEPT !.file = IF noFile \/ ~Found(c) THEN 0 ELSE file[Target(c)],
                                 !.pos = 0, !.gets = IF noEvent THEN "unwatched" ELSE "added"])
  /\ Reply(c, Frame("long", srv[c].size))
  /\ UNCHANGED <<users, fileSystem, aborted>>
-----------------------------------------------------------------------------
(* A frame: the transfers *)

BeginPuts(c) ==
  /\ ServerTakes(c, "Begin_Puts")
  /\ Becomes(c, [srv[c] EXCEPT !.state = "Puts", !.size = Msg(c).val])
  /\ Reply(c, Ret(TRUE))
  /\ UNCHANGED <<users, fileSystem, aborted>>

(* The bytes of a frame that is taken for file data; a command line that
   arrives there has at least two. *)
DataBytes(m) == IF m.kind = "data" THEN m.val ELSE <<"t", "t">>

(* Fault: every frame is written at the start of the file. *)
PutsDataRewrites(c) ==
  /\ ServerTakes(c, "Puts")
  /\ LET s    == srv[c]
         left == s.size - Len(DataBytes(Msg(c)))
     IN  /\ inode' = IF s.file = 0 THEN inode ELSE [inode EXCEPT ![s.file] = DataBytes(Msg(c))]
         /\ Becomes(c, IF left = 0 THEN [s EXCEPT !.size = 0, !.file = 0, !.state = "Login_Success"]
                       ELSE [s EXCEPT !.size = left])
  /\ UNCHANGED <<s2c, users, dirs, file, writers, aborted>>

PutsData(c) ==
  /\ ServerTakes(c, "Puts")
  /\ LET s    == srv[c]
         left == s.size - Len(DataBytes(Msg(c)))
         pos  == s.pos + Len(DataBytes(Msg(c)))
     IN  /\ inode' = IF s.file = 0 THEN inode
                     ELSE [inode EXCEPT ![s.file] = WriteAt(@, s.pos, DataBytes(Msg(c)))]
         /\ Becomes(c, IF left = 0 THEN [s EXCEPT !.size = 0, !.file = 0, !.pos = 0, !.state = "Login_Success"]
                       ELSE [s EXCEPT !.size = left, !.pos = pos])
  /\ UNCHANGED <<s2c, users, dirs, file, writers, aborted>>

(* Whether a frame starts with an int that is 0.  An empty string has one byte of
   it, the others are what is left of an earlier one. *)
StartsWithZero(m) ==
  CASE m.kind = "ack"  -> {TRUE}
    [] m.kind = "size" -> {m.val = 0}
    [] m.kind = "data" -> {FALSE, m.val = <<>>}
    [] OTHER           -> {FALSE}

(* gets_channel_.reset(): ~Channel asserts that the channel is not in the poller
   any more, and a failed assertion ends the process. *)
GetsAck(c) ==
  /\ ServerTakes(c, "Gets")
  /\ \E acked \in StartsWithZero(Msg(c)) :
       /\ aborted' = (acked /\ srv[c].gets \in {"added", "unwatched"})
       /\ Becomes(c, IF acked THEN [srv[c] EXCEPT !.state = "Login_Success", !.file = 0, !.gets = "none"]
                     ELSE srv[c])
  /\ UNCHANGED <<s2c, users, fileSystem>>

ServerOnMessage(c) ==
  \/ MenuChoice(c)
  \/ HandleRegister(c) \/ RegisterMkdir(c)
  \/ LoginStep1(c)
  \/ LoginStep2(c)
  \/ Pwd(c)
  \/ Ls(c) \/ LsStat(c)
  \/ Mkdir(c)
  \/ Remove(c)
  \/ Cd(c)
  \/ Puts(c) \/ PutsOpen(c)
  \/ Gets(c) \/ GetsAccess(c) \/ GetsStat(c) \/ GetsOpen(c)
  \/ BeginPuts(c)
  \/ PutsData(c)
  \/ GetsAck(c)

ServerLoop(c) ==
  \/ Poll(c)
  \/ HandleRead(c)
  \/ ServerOnMessage(c)
  \/ HandleGets(c)
  \/ HandleClose(c)
  \/ ConnectDestroyed(c)
=============================================================================
