--------------------------- MODULE NetdiskClient ---------------------------
(***************************************************************************)
(* The client process: lines its user types (handleKeyboardInput) and      *)
(* frames from the server (EchoClient::onMessage), each by the state the   *)
(* client is in.                                                           *)
(***************************************************************************)
EXTENDS NetdiskState

ClientSends(c, frames) == c2s' = [c2s EXCEPT ![c] = @ \o frames]
-----------------------------------------------------------------------------
(* The user types a line *)

(* The client goes to state and sends what it makes of the line. *)
Types(c, state, frames) ==
  /\ cli' = [cli EXCEPT ![c].state = state]
  /\ ClientSends(c, frames)
  /\ UNCHANGED <<local, s2c, serverSide>>

TypeRegister(c, u) ==
  /\ cli[c].state = "Init"
  /\ Types(c, "Registering", <<Frame("menu", "0"), Frame("account", u)>>)

TypeLogin(c, u) ==
  /\ cli[c].state = "Init"
  /\ Types(c, "Logining_Step1", <<Frame("menu", "1"), Frame("user", u)>>)

Line(cmd, arg) == <<Frame("command", [cmd |-> cmd, arg |-> arg])>>

(* Commands that change nothing at the client: what they may be given, and the
   state in which it waits for the answer. *)
Arguments ==
  [pwd |-> {NoArg}, ls |-> {NoArg}, mkdir |-> Params, remove |-> Params, cd |-> Params \cup {NoArg}]

WaitState == [pwd |-> "Print", ls |-> "Print", mkdir |-> "Mkdir", remove |-> "Remove", cd |-> "Cd"]

(* The bounds on the paths: a parameter is typed only where what it leads to is
   in Paths, and with cd only where the path of the working directory stays
   short enough. *)
Fits(c, cmd, a) ==
  /\ a.up <= Len(Here(c))
  /\ TargetOf(Here(c), a) \in Paths
  /\ cmd = "cd" => Len(srv[c].cwd) + a.up + Len(a.down) <= MaxWay

TypeCommand(c, cmd, arg) ==
  /\ cli[c].state = "Login_Success"
  /\ arg # NoArg => Fits(c, cmd, arg)
  /\ Types(c, WaitState[cmd], Line(cmd, arg))

(* access() only asks whether there is something of that name, which may be a
   directory, or a file that cannot be read. *)
TypePuts(c, a) ==
  /\ cli[c].state = "Login_Success"
  /\ Fits(c, "puts", a)
  /\ local[c][a] # NoFile
  /\ cli' = [cli EXCEPT ![c].state = "Begin_Puts", ![c].file = a]
  /\ ClientSends(c, Line("puts", a))
  /\ UNCHANGED <<local, s2c, serverSide>>

TypeGets(c, a) ==
  /\ cli[c].state = "Login_Success"
  /\ Fits(c, "gets", a)
  /\ local[c][a] = NoFile
  /\ cli' = [cli EXCEPT ![c].state = "Begin_Gets", ![c].file = a]
  /\ ClientSends(c, Line("gets", a))
  /\ UNCHANGED <<local, s2c, serverSide>>

UserTypes(c) ==
  \/ \E u \in Users : TypeRegister(c, u) \/ TypeLogin(c, u)
  \/ \E cmd \in Commands \cap DOMAIN Arguments : \E arg \in Arguments[cmd] : TypeCommand(c, cmd, arg)
  \/ "puts" \in Commands /\ \E a \in Params : TypePuts(c, a)
  \/ "gets" \in Commands /\ \E a \in Params : TypeGets(c, a)

(* The client process ends, at any moment: what it had not yet handed to the
   network is lost, and so is what the server sends from then on. *)
ClientDies(c) ==
  /\ Alive(c)
  /\ cli' = [cli EXCEPT ![c].state = "dead"]
  /\ \E n \in 0 .. Len(c2s[c]) : c2s' = [c2s EXCEPT ![c] = SubSeq(@, 1, n)]
  /\ s2c' = [s2c EXCEPT ![c] = <<>>]
  /\ UNCHANGED <<local, serverSide>>
-----------------------------------------------------------------------------
(* The client handles a frame *)

ClientTakes(c, state) ==
  /\ cli[c].state = state
  /\ s2c[c] # <<>>
  /\ s2c' = [s2c EXCEPT ![c] = Tail(@)]
  /\ UNCHANGED serverSide

Received(c) == Head(s2c[c]).val

(* The client goes back to its user, who is told how it went. *)
BackToUser(c, state) ==
  /\ cli' = [cli EXCEPT ![c].state = state]
  /\ UNCHANGED <<local, c2s>>

ClientRegistered(c) == ClientTakes(c, "Registering") /\ BackToUser(c, "Init")

(* An empty salt means there is no such user; else the user types a password,
   the right one or not. *)
ClientSalt(c) ==
  /\ ClientTakes(c, "Logining_Step1")
  /\ \/ ~Received(c) /\ BackToUser(c, "Init")
     \/ /\ Received(c)
        /\ cli' = [cli EXCEPT ![c].state = "Logining_Step2"]
        /\ \E right \in BOOLEAN : ClientSends(c, <<Frame("secret", right)>>)
        /\ UNCHANGED local

ClientLogin(c) ==
  /\ ClientTakes(c, "Logining_Step2")
  /\ BackToUser(c, IF Received(c) = 0 THEN "Login_Success" ELSE "Init")

ClientAnswered(c) ==
  \E cmd \in DOMAIN WaitState : ClientTakes(c, WaitState[cmd]) /\ BackToUser(c, "Login_Success")

ClientBeginPuts(c) ==
  /\ ClientTakes(c, "Begin_Puts")
  /\ LET size == Len(local[c][cli[c].file])
     IN  \/ Received(c) # 0 /\ BackToUser(c, "Login_Success")
         \/ /\ Received(c) = 0
            /\ cli' = [cli EXCEPT ![c].state = "Puts", ![c].size = size]
            /\ ClientSends(c, <<Frame("size", size)>>)
            /\ UNCHANGED local

(* Fault: the upload loop leaves out a last, short read. *)
ChunksWholeReads(s) ==
  [i \in 1 .. (Len(s) \div BufLen) |-> Frame("data", CString(ReadAt(s, (i - 1) * BufLen)))]

(* The frames of the upload loop: one per read, until a read returns 0. *)
Chunks(s) ==
  [i \in 1 .. ((Len(s) + BufLen - 1) \div BufLen)
     |-> Frame("data", CString(ReadAt(s, (i - 1) * BufLen)))]

(* The whole file is handed to send() before the loop goes on, and the client
   waits for no answer to it.  What open and read return is not checked: when
   they fail, the loop, which waits for read to return 0, never ends. *)
ClientPuts(c) ==
  /\ ClientTakes(c, "Puts")
  /\ Received(c) = 0
  /\ \E reads \in BOOLEAN :
       /\ cli' = [cli EXCEPT ![c].state = IF reads THEN "Login_Success" ELSE "Endless"]
       /\ ClientSends(c, IF reads THEN Chunks(local[c][cli[c].file]) ELSE <<>>)
  /\ UNCHANGED local

(* A failing read leaves the buffer as it is, with nothing in it, and that is
   sent.  Bound: the client waits until the server has taken the last frame. *)
ClientEndless(c) ==
  /\ cli[c].state = "Endless"
  /\ c2s[c] = <<>>
  /\ ClientSends(c, <<Frame("data", <<>>)>>)
  /\ UNCHANGED <<cli, local, s2c, serverSide>>

(* What open returns is not checked: when it fails, the file is received and
   goes nowhere. *)
ClientBeginGets(c) ==
  /\ ClientTakes(c, "Begin_Gets")
  /\ \/ Received(c) < 0 /\ BackToUser(c, "Login_Success")
     \/ /\ Received(c) >= 0
        /\ cli' = [cli EXCEPT ![c].state = "Gets", ![c].size = Received(c), ![c].cur = 0]
        /\ \E made \in {<<>>, NoFile} : local' = [local EXCEPT ![c][cli[c].file] = made]
        /\ UNCHANGED c2s

ClientGets(c) ==
  /\ ClientTakes(c, "Gets")
  /\ local' = [local EXCEPT ![c][cli[c].file] = IF @ = NoFile THEN @ ELSE @ \o Received(c)]
  /\ LET cur  == cli[c].cur + Len(Received(c))
         done == cur = cli[c].size
     IN  /\ cli' = [cli EXCEPT ![c].cur = cur, ![c].state = IF done THEN "Login_Success" ELSE @]
         /\ ClientSends(c, IF done THEN <<Frame("ack", 0)>> ELSE <<>>)

ClientOnMessage(c) ==
  \/ ClientRegistered(c)
  \/ ClientSalt(c)
  \/ ClientLogin(c)
  \/ ClientAnswered(c)
  \/ ClientBeginPuts(c)
  \/ ClientPuts(c) \/ ClientEndless(c)
  \/ ClientBeginGets(c)
  \/ ClientGets(c)
=============================================================================
