------------------------ MODULE NetdiskSessionProofs ------------------------
(***************************************************************************)
(* Proofs about NetdiskSession, for any clients, users, names and files,   *)
(* any depth and any size of a read: that both ends of a session agree on  *)
(* what each frame is, whatever the reads and the other sessions do; that  *)
(* a session's working directory goes only by a remove of another session  *)
(* or through ".."; and what the server dies of.                           *)
(***************************************************************************)
EXTENDS NetdiskSession, SequenceTheorems, TLAPS

(* Files whose bytes string(buf) can carry, and none of them empty at a client. *)
SoundFiles ==
  /\ Local0 \in [Clients -> [Params -> (Seq(Text) \ {<<>>}) \cup {NoFile}]]
  /\ \A i \in DOMAIN Stored0 : Stored0[i].content \in Seq(Text)

(* While a file is fetched, nobody else removes it. *)
Undisturbed ==
  "gets" \in Commands => (\A c, d \in Clients : c = d) \/ "remove" \notin Commands
-----------------------------------------------------------------------------
(* Types *)

Lines ==
  {line \in [cmd : Commands \cap {"pwd", "ls", "mkdir", "remove", "cd", "puts", "gets"},
             arg : Params \cup {NoArg}] :
     line.cmd \in {"mkdir", "remove", "puts", "gets"} => line.arg \in Params}

ToServer ==
  [kind : {"menu"}, val : {"0", "1"}] \cup [kind : {"account", "user"}, val : Users]
    \cup [kind : {"secret"}, val : BOOLEAN] \cup [kind : {"command"}, val : Lines]
    \cup [kind : {"size"}, val : Nat \ {0}] \cup [kind : {"data"}, val : Seq(Text)]
    \cup [kind : {"ack"}, val : {0}]

ToClient ==
  [kind : {"ret"}, val : {0, -1}] \cup [kind : {"salt"}, val : BOOLEAN]
    \cup [kind : {"text"}, val : Seq(Paths) \cup Paths] \cup [kind : {"long"}, val : Int]
    \cup [kind : {"data"}, val : Seq(Text)]

Sessions ==
  [state : ServerStates, user : Users \cup {NoFile}, cwd : Seq(Paths), size : Int,
   file : Inodes \cup {0}, pos : Nat, gets : {"none", "added", "removed", "unwatched"},
   active : {<<>>, <<"tcp">>, <<"gets">>, <<"tcp", "gets">>, <<"gets", "tcp">>},
   in : Seq(ToServer),
   call : {"none", "mkdir", "stat", "open", "access", "statFile", "openFile"},
   names : SUBSET Paths, conn : {"connected", "disconnected", "destroyed", "released"}]

ClientProcesses == [state : ClientStates, file : Params \cup {NoFile}, size : Nat, cur : Nat]

LocalFiles == [Params -> Seq(Text) \cup {NoFile}]

Typed ==
  /\ cli \in [Clients -> ClientProcesses]
  /\ local \in [Clients -> LocalFiles]
  /\ c2s \in [Clients -> Seq(ToServer)]
  /\ s2c \in [Clients -> Seq(ToClient)]
  /\ srv \in [Clients -> Sessions]
  /\ users \subseteq Users
  /\ dirs \subseteq Paths
  /\ file \in [Paths -> Inodes \cup {0}]
  /\ inode \in [Inodes -> Seq(Text)]
  /\ writers \in [Inodes -> SUBSET (Clients \X Params)]
  /\ aborted \in BOOLEAN
-----------------------------------------------------------------------------
(* One session: its client k with the local files l, the session s, the frames q
   that the session has still to begin, and the frames r on their way back. *)

(* q is a part of an upload, with a command behind it perhaps: n bytes are missing
   before it, and m behind it.  "left" has what is missing after each frame. *)
Upload(q, n, m) ==
  \E left \in [0 .. Len(q) -> Int] :
    /\ left[0] = n
    /\ left[Len(q)] = m
    /\ \A i \in 1 .. Len(q) :
         \/ q[i].kind = "data" /\ left[i - 1] # 0 /\ left[i] = left[i - 1] - Len(q[i].val)
         \/ q[i].kind = "command" /\ left[i - 1] = 0 /\ left[i] = 0 /\ i = Len(q)

(* The rest of an upload of which n bytes are missing, or what a client sent of it
   that died. *)
Uploading(q, n) == \E m \in Int : Upload(q, n, m)

(* r is a part of a file: n bytes are missing before it, and m behind it. *)
Download(r, n, m) ==
  \E left \in [0 .. Len(r) -> Int] :
    /\ left[0] = n
    /\ left[Len(r)] = m
    /\ \A i \in 1 .. Len(r) :
         r[i].kind = "data" /\ left[i - 1] # 0 /\ left[i] = left[i - 1] - Len(r[i].val)

(* r is what the client still gets when n bytes are missing.  A file that did not
   open has no bytes, and its size only grows. *)
Fed(r, n, s) ==
  \E m \in Int : /\ Download(r, n, m)
                 /\ IF s.file = 0 THEN s.size >= 0 /\ (m = 0 <=> s.size = 0) ELSE m = s.size

(* What the session has still to begin is what it expects, to the last frame. *)
Script(q, s) ==
  /\ s.call # "none" => q = <<>>
  /\ s.state = "Init" =>
       /\ Len(q) <= 2
       /\ q # <<>> => q[1].kind = "menu"
       /\ Len(q) = 2 => q[2].kind = IF q[1].val = "0" THEN "account" ELSE "user"
  /\ s.state \in ServerStates \ {"Init", "Puts", "Gets"} =>
       /\ Len(q) <= 1
       /\ q # <<>> => q[1].kind = ServerExpects[s.state]
  /\ s.state = "Puts" => s.size # 0 /\ Uploading(q, s.size)
  /\ s.state = "Gets" =>
       /\ Len(q) <= 2
       /\ q # <<>> => q[1].kind = "ack"
       /\ Len(q) = 2 => q[2].kind = "command"

At(q, s, state) == q = <<>> /\ s.call = "none" /\ s.state = state

(* When it has taken what comes before a command, the session will wait for one. *)
Settled(q, s) ==
  /\ s.call = "none"
  /\ \/ s.state = "Login_Success"
     \/ s.state = "Puts" /\ Upload(q, s.size, 0)
     \/ s.state = "Gets" /\ s.size = 0 /\ q # <<>>

Asked(q, s, cmds) ==
  /\ Settled(q, s)
  /\ q # <<>> /\ q[Len(q)].kind = "command" /\ q[Len(q)].val.cmd \in cmds

Answer(r, kind) == Len(r) = 1 /\ r[1].kind = kind

(* A command that is answered by one frame. *)
Waits(q, r, s, cmds, kind) ==
  \/ r = <<>> /\ Asked(q, s, cmds)
  \/ Answer(r, kind) /\ At(q, s, "Login_Success")

(* What the client waits for is what the session will send. *)
Agree(k, q, r, s) ==
  /\ s.conn = "connected"
  /\ k.state = "Init" => r = <<>> /\ At(q, s, "Init")
  /\ k.state = "Registering" =>
       \/ r = <<>> /\ s.call = "none" /\ s.state = "Init" /\ Len(q) = 2 /\ q[1].val = "0"
       \/ r = <<>> /\ s.call = "none" /\ s.state = "Registering" /\ Len(q) = 1
       \/ r = <<>> /\ s.call = "mkdir" /\ s.state = "Init"
       \/ Answer(r, "ret") /\ At(q, s, "Init")
  /\ k.state = "Logining_Step1" =>
       \/ r = <<>> /\ s.call = "none" /\ s.state = "Init" /\ Len(q) = 2 /\ q[1].val # "0"
       \/ r = <<>> /\ s.call = "none" /\ s.state = "Logining_Step1" /\ Len(q) = 1
       \/ Answer(r, "salt") /\ At(q, s, IF r[1].val THEN "Logining_Step2" ELSE "Init")
  /\ k.state = "Logining_Step2" =>
       \/ r = <<>> /\ s.call = "none" /\ s.state = "Logining_Step2" /\ Len(q) = 1
       \/ Answer(r, "ret") /\ At(q, s, IF r[1].val = 0 THEN "Login_Success" ELSE "Init")
  /\ k.state = "Login_Success" =>
       r = <<>> /\ Settled(q, s) /\ \A i \in 1 .. Len(q) : q[i].kind # "command"
  /\ k.state = "Print" =>
       \/ Waits(q, r, s, {"pwd", "ls"}, "text")
       \/ r = <<>> /\ s.call = "stat" /\ s.state = "Login_Success"
  /\ k.state = "Mkdir" => Waits(q, r, s, {"mkdir"}, "ret")
  /\ k.state = "Remove" => Waits(q, r, s, {"remove"}, "ret")
  /\ k.state = "Cd" => Waits(q, r, s, {"cd"}, "ret")
  /\ k.state = "Begin_Puts" =>
       \/ r = <<>> /\ Asked(q, s, {"puts"})
       \/ r = <<>> /\ s.call = "open" /\ s.state = "Begin_Puts"
       \/ Answer(r, "ret") /\ At(q, s, IF r[1].val = 0 THEN "Begin_Puts" ELSE "Login_Success")
  /\ k.state = "Puts" =>
       \/ /\ r = <<>> /\ s.call = "none" /\ s.state = "Begin_Puts"
          /\ Len(q) = 1 /\ q[1].val = k.size
       \/ Answer(r, "ret") /\ At(q, s, "Puts") /\ s.size = k.size
  /\ k.state = "Endless" =>
       r = <<>> /\ s.call = "none" /\ s.state = "Puts" /\ \E m \in Int \ {0} : Upload(q, s.size, m)
  /\ k.state = "Begin_Gets" =>
       \/ r = <<>> /\ Asked(q, s, {"gets"})
       \/ r = <<>> /\ s.call \in {"access", "statFile"} /\ s.state = "Login_Success"
       \/ r = <<>> /\ s.call = "openFile" /\ s.state = "Gets"
       \/ Answer(r, "long") /\ r[1].val < 0 /\ At(q, s, "Login_Success")
       \/ /\ r # <<>> /\ r[1].kind = "long" /\ r[1].val >= 0
          /\ At(q, s, "Gets") /\ Fed(Tail(r), r[1].val, s)
  /\ k.state = "Gets" => At(q, s, "Gets") /\ Fed(r, k.size - k.cur, s)

(* The client's own: its files are whole but for the one it fetches. *)
LocalOK(k, l) ==
  /\ \A a \in Params : \/ l[a] = NoFile \/ l[a] # <<>>
                       \/ k.state = "Gets" /\ a = k.file
  /\ k.state \in {"Begin_Puts", "Puts", "Begin_Gets", "Gets"} => k.file \in Params
  /\ k.state \in {"Begin_Puts", "Puts"} => l[k.file] \in Seq(Text) \ {<<>>}
  /\ k.state = "Puts" => k.size = Len(l[k.file])

(* The working directory, and what leads from there to a path. *)
HereOf(s) == IF s.cwd = <<>> THEN <<s.user>> ELSE s.cwd[Len(s.cwd)]

Leads(s, a) == a \in Params /\ a.up <= Len(HereOf(s)) /\ TargetOf(HereOf(s), a) \in Paths

(* The call a handler has come to says what frame it is in the midst of. *)
CallOK(s) ==
  /\ s.call # "none" => s.in # <<>>
  /\ s.call = "mkdir" => s.in[1].kind = "account"
  /\ s.call = "stat" => s.state = "Login_Success"
  /\ s.call = "open" => s.state = "Begin_Puts"
  /\ s.call \in {"open", "access", "statFile", "openFile"} =>
       s.in[1].kind = "command" /\ Leads(s, s.in[1].val.arg)
  /\ s.call \in {"access", "statFile", "openFile"} => s.in[1].val.cmd = "gets"
  /\ s.call \in {"access", "statFile"} => s.state = "Login_Success"
  /\ s.call = "openFile" => s.state = "Gets" /\ s.size >= 0

(* Parameters are given where they lead to a path. *)
Leading(q, s) ==
  \A i \in 1 .. Len(q) : q[i].kind = "command" /\ q[i].val.arg \in Params => Leads(s, q[i].val.arg)

(* gets_channel_ lives as long as the session is in gets, whoever gave a password
   has given a name, and a connection that was freed has left nothing behind. *)
SessionOK(s) ==
  /\ s.conn = "released" => s.file = 0 /\ s.gets = "none" /\ s.active = <<>>
  /\ s.gets # "none" => s.state = "Gets" /\ s.call = "none"
  /\ s.state \in ServerStates \ {"Init", "Registering", "Logining_Step1"} => s.user \in Users

(* A connection goes down when its client is gone and everything has been read. *)
Gone(k, q, s) == s.conn # "connected" => k.state = "dead" /\ q = <<>> /\ s.in = <<>>

Rest(s) == IF s.call = "none" THEN s.in ELSE Tail(s.in)

Talk(k, l, q, r, s) ==
  /\ Script(q, s)
  /\ k.state = "dead" => r = <<>>
  /\ k.state # "dead" => Agree(k, q, r, s) /\ LocalOK(k, l)
  /\ CallOK(s)
  /\ Leading(q, s)
  /\ SessionOK(s) /\ Gone(k, q, s)

Session(c) == Talk(cli[c], local[c], Rest(srv[c]) \o c2s[c], s2c[c], srv[c])

(* What the frame in hand leads to is there. *)
Reached(s, theDirs, theFile) ==
  LET way    == Way(HereOf(s), s.in[1].val.arg)
      target == TargetOf(HereOf(s), s.in[1].val.arg)
  IN  /\ <<s.user>> \in theDirs
      /\ \A i \in DOMAIN s.cwd : s.cwd[i] \in theDirs
      /\ \A i \in 1 .. Len(way) - 1 : way[i] \in theDirs
      /\ target \in theDirs \/ theFile[target] # 0

(* An offset is never past the end of the file, and what is about to be sent is
   still there. *)
Files(s, theDirs, theFile, theInode) ==
  /\ s.file # 0 => s.pos <= Len(theInode[s.file])
  /\ s.call \in {"statFile", "openFile"} => Reached(s, theDirs, theFile)

(* gets_channel_ is registered when its turn comes, unless the process has died of
   destroying it. *)
Registered(s) == (\E i \in DOMAIN s.active : s.active[i] = "gets") => s.gets = "added"

IInv ==
  /\ Typed
  /\ \A c \in Clients : Session(c) /\ Files(srv[c], dirs, file, inode) /\ (aborted \/ Registered(srv[c]))
-----------------------------------------------------------------------------
(* Uploads and downloads *)

(* An upload whose first frame has been taken. *)
LEMMA UploadTail ==
  ASSUME NEW q \in Seq(ToServer), NEW n \in Int, NEW m \in Int, Upload(q, n, m),
         q # <<>>, q[1].kind = "data", Len(q[1].val) \in Nat
  PROVE  /\ n # 0
         /\ Upload(Tail(q), n - Len(q[1].val), m)
<1>1. PICK left \in [0 .. Len(q) -> Int] :
        /\ left[0] = n
        /\ left[Len(q)] = m
        /\ \A i \in 1 .. Len(q) :
             \/ q[i].kind = "data" /\ left[i - 1] # 0 /\ left[i] = left[i - 1] - Len(q[i].val)
             \/ q[i].kind = "command" /\ left[i - 1] = 0 /\ left[i] = 0 /\ i = Len(q)
  BY DEF Upload
<1> DEFINE t == Tail(q)
           rest == [i \in 0 .. Len(t) |-> left[i + 1]]
<1>2. /\ Len(q) \in Nat \ {0} /\ Len(t) \in Nat /\ Len(t) = Len(q) - 1
      /\ \A i \in 1 .. Len(t) : t[i] = q[i + 1]
  BY EmptySeq, HeadTailProperties
<1> HIDE DEF t
<1>3. n # 0 /\ left[1] = n - Len(q[1].val)
  BY <1>1, <1>2
<1>4. rest \in [0 .. Len(t) -> Int] /\ \A i \in 0 .. Len(t) : rest[i] = left[i + 1]
  BY <1>2
<1> HIDE DEF rest
<1>5. rest[0] = n - Len(q[1].val) /\ rest[Len(t)] = m
  BY <1>1, <1>2, <1>3, <1>4
<1>6. ASSUME NEW i \in 1 .. Len(t)
      PROVE  \/ t[i].kind = "data" /\ rest[i - 1] # 0 /\ rest[i] = rest[i - 1] - Len(t[i].val)
             \/ t[i].kind = "command" /\ rest[i - 1] = 0 /\ rest[i] = 0 /\ i = Len(t)
  <2>1. /\ i + 1 \in 1 .. Len(q) /\ t[i] = q[i + 1] /\ rest[i] = left[i + 1]
        /\ rest[i - 1] = left[(i + 1) - 1] /\ (i + 1 = Len(q) => i = Len(t))
    BY <1>2, <1>4
  <2> QED
    BY <1>1, <2>1
<1> QED
  BY <1>3, <1>4, <1>5, <1>6 DEF Upload, t

(* While bytes are missing, what comes is data; when none is missing any more,
   nothing comes but a command. *)
LEMMA UploadHead ==
  ASSUME NEW q \in Seq(ToServer), NEW n \in Int, NEW m \in Int, Upload(q, n, m)
  PROVE  /\ n # 0 /\ q # <<>> => q[1].kind = "data"
         /\ n # 0 /\ m = 0 => q # <<>>
         /\ n = 0 => Len(q) <= 1 /\ (q # <<>> => q[1].kind = "command")
<1>1. PICK left \in [0 .. Len(q) -> Int] :
        /\ left[0] = n
        /\ left[Len(q)] = m
        /\ \A i \in 1 .. Len(q) :
             \/ q[i].kind = "data" /\ left[i - 1] # 0 /\ left[i] = left[i - 1] - Len(q[i].val)
             \/ q[i].kind = "command" /\ left[i - 1] = 0 /\ left[i] = 0 /\ i = Len(q)
  BY DEF Upload
<1>2. Len(q) \in Nat /\ (q # <<>> => 1 \in 1 .. Len(q)) /\ (q = <<>> => Len(q) = 0)
  BY EmptySeq
<1>3. ASSUME q # <<>>
      PROVE  \/ q[1].kind = "data" /\ n # 0
             \/ q[1].kind = "command" /\ n = 0 /\ Len(q) = 1
  <2>1. 1 \in 1 .. Len(q) /\ left[1 - 1] = n
    BY <1>1, <1>2, <1>3
  <2> QED
    BY <1>1, <2>1
<1>4. n # 0 /\ m = 0 => q # <<>>
  BY <1>1, <1>2
<1>5. n = 0 => Len(q) <= 1 /\ (q # <<>> => q[1].kind = "command")
  BY <1>2, <1>3
<1> QED
  BY <1>3, <1>4, <1>5

(* What is left of an upload when the client died. *)
LEMMA UploadPrefix ==
  ASSUME NEW q \in Seq(ToServer), NEW n \in Int, Uploading(q, n),
         NEW p \in Seq(ToServer), Len(p) <= Len(q), \A i \in 1 .. Len(p) : p[i] = q[i]
  PROVE  Uploading(p, n)
<1>1. PICK m \in Int : Upload(q, n, m)
  BY DEF Uploading
<1>2. PICK left \in [0 .. Len(q) -> Int] :
        /\ left[0] = n
        /\ \A i \in 1 .. Len(q) :
             \/ q[i].kind = "data" /\ left[i - 1] # 0 /\ left[i] = left[i - 1] - Len(q[i].val)
             \/ q[i].kind = "command" /\ left[i - 1] = 0 /\ left[i] = 0 /\ i = Len(q)
  BY <1>1 DEF Upload
<1> DEFINE part == [i \in 0 .. Len(p) |-> left[i]]
<1>3. Len(q) \in Nat /\ Len(p) \in Nat
  BY LenProperties
<1>4. part \in [0 .. Len(p) -> Int] /\ \A i \in 0 .. Len(p) : part[i] = left[i]
  BY <1>3
<1> HIDE DEF part
<1>5. ASSUME NEW i \in 1 .. Len(p)
      PROVE  \/ p[i].kind = "data" /\ part[i - 1] # 0 /\ part[i] = part[i - 1] - Len(p[i].val)
             \/ p[i].kind = "command" /\ part[i - 1] = 0 /\ part[i] = 0 /\ i = Len(p)
  <2>1. i \in 1 .. Len(q) /\ part[i] = left[i] /\ part[i - 1] = left[i - 1] /\ (i = Len(q) => i = Len(p))
    BY <1>3, <1>4
  <2> QED
    BY <1>2, <2>1
<1>6. part[0] = n /\ part[Len(p)] \in Int
  BY <1>2, <1>3, <1>4
<1>7. Upload(p, n, part[Len(p)])
  BY <1>4, <1>5, <1>6 DEF Upload
<1> QED
  BY <1>6, <1>7 DEF Uploading

(* Where no byte is missing, none is missing behind what comes. *)
LEMMA UploadDone ==
  ASSUME NEW q \in Seq(ToServer), NEW m \in Int, Upload(q, 0, m)
  PROVE  m = 0
<1>1. PICK left \in [0 .. Len(q) -> Int] :
        /\ left[0] = 0
        /\ left[Len(q)] = m
        /\ \A i \in 1 .. Len(q) :
             \/ q[i].kind = "data" /\ left[i - 1] # 0 /\ left[i] = left[i - 1] - Len(q[i].val)
             \/ q[i].kind = "command" /\ left[i - 1] = 0 /\ left[i] = 0 /\ i = Len(q)
  BY DEF Upload
<1>2. Len(q) \in Nat /\ Len(q) <= 1
  BY UploadHead, LenProperties
<1>3. CASE Len(q) = 0
  BY <1>1, <1>3
<1>4. CASE Len(q) = 1
  <2>1. 1 \in 1 .. Len(q) /\ 1 - 1 = 0
    BY <1>4
  <2> QED
    BY <1>1, <1>4, <2>1
<1> QED
  BY <1>2, <1>3, <1>4

(* A command may follow a whole upload. *)
LEMMA UploadCommand ==
  ASSUME NEW q \in Seq(ToServer), NEW n \in Int, Upload(q, n, 0),
         \A i \in 1 .. Len(q) : q[i].kind # "command", NEW f \in ToServer, f.kind = "command"
  PROVE  Upload(Append(q, f), n, 0)
<1>1. PICK left \in [0 .. Len(q) -> Int] :
        /\ left[0] = n
        /\ left[Len(q)] = 0
        /\ \A i \in 1 .. Len(q) :
             q[i].kind = "data" /\ left[i - 1] # 0 /\ left[i] = left[i - 1] - Len(q[i].val)
  BY DEF Upload
<1> DEFINE a == Append(q, f)
           more == [i \in 0 .. Len(a) |-> IF i = Len(a) THEN 0 ELSE left[i]]
<1>2. /\ Len(q) \in Nat /\ Len(a) = Len(q) + 1 /\ a[Len(a)] = f
      /\ \A i \in 1 .. Len(q) : a[i] = q[i]
  BY AppendProperties, LenProperties
<1> HIDE DEF a
<1>3. /\ more \in [0 .. Len(a) -> Int] /\ more[Len(a)] = 0
      /\ \A i \in 0 .. Len(q) : more[i] = left[i]
  BY <1>2
<1> HIDE DEF more
<1>4. ASSUME NEW i \in 1 .. Len(a)
      PROVE  \/ a[i].kind = "data" /\ more[i - 1] # 0 /\ more[i] = more[i - 1] - Len(a[i].val)
             \/ a[i].kind = "command" /\ more[i - 1] = 0 /\ more[i] = 0 /\ i = Len(a)
  <2>1. CASE i = Len(a)
    BY <1>1, <1>2, <1>3, <2>1
  <2>2. CASE i # Len(a)
    <3>1. i \in 1 .. Len(q) /\ a[i] = q[i] /\ more[i] = left[i] /\ more[i - 1] = left[i - 1]
      BY <1>2, <1>3, <2>2
    <3> QED
      BY <1>1, <3>1
  <2> QED
    BY <2>1, <2>2
<1>5. more[0] = n
  BY <1>1, <1>2, <1>3
<1> QED
  BY <1>3, <1>4, <1>5 DEF Upload, a

(* More of an upload may follow while bytes are missing. *)
LEMMA UploadMore ==
  ASSUME NEW q \in Seq(ToServer), NEW n \in Int, NEW m \in Int, Upload(q, n, m), m # 0,
         NEW f \in ToServer, f.kind = "data", Len(f.val) \in Nat
  PROVE  Upload(Append(q, f), n, m - Len(f.val))
<1>1. PICK left \in [0 .. Len(q) -> Int] :
        /\ left[0] = n
        /\ left[Len(q)] = m
        /\ \A i \in 1 .. Len(q) :
             \/ q[i].kind = "data" /\ left[i - 1] # 0 /\ left[i] = left[i - 1] - Len(q[i].val)
             \/ q[i].kind = "command" /\ left[i - 1] = 0 /\ left[i] = 0 /\ i = Len(q)
  BY DEF Upload
<1> DEFINE a == Append(q, f)
           more == [i \in 0 .. Len(a) |-> IF i = Len(a) THEN m - Len(f.val) ELSE left[i]]
<1>2. /\ Len(q) \in Nat /\ Len(a) = Len(q) + 1 /\ a[Len(a)] = f
      /\ \A i \in 1 .. Len(q) : a[i] = q[i]
  BY AppendProperties, LenProperties
<1> HIDE DEF a
<1>3. /\ more \in [0 .. Len(a) -> Int] /\ more[Len(a)] = m - Len(f.val)
      /\ \A i \in 0 .. Len(q) : more[i] = left[i]
  BY <1>2
<1> HIDE DEF more
<1>4. ASSUME NEW i \in 1 .. Len(a)
      PROVE  a[i].kind = "data" /\ more[i - 1] # 0 /\ more[i] = more[i - 1] - Len(a[i].val)
  <2>1. CASE i = Len(a)
    BY <1>1, <1>2, <1>3, <2>1
  <2>2. CASE i # Len(a)
    <3>1. i \in 1 .. Len(q) /\ a[i] = q[i] /\ more[i] = left[i] /\ more[i - 1] = left[i - 1]
      BY <1>2, <1>3, <2>2
    <3>2. left[i] # 0 \/ q[i].kind # "command"
      <4>1. CASE i = Len(q)
        BY <1>1, <4>1
      <4>2. CASE i # Len(q)
        BY <1>1, <1>2, <3>1, <4>2
      <4> QED
        BY <4>1, <4>2
    <3> QED
      BY <1>1, <3>1, <3>2
  <2> QED
    BY <2>1, <2>2
<1>5. more[0] = n
  BY <1>1, <1>2, <1>3
<1> QED
  BY <1>3, <1>4, <1>5 DEF Upload, a

(* Nothing is under way yet. *)
LEMMA DownloadNew == ASSUME NEW n \in Int PROVE Download(<<>>, n, n)
<1> DEFINE left == [i \in 0 .. 0 |-> n]
<1>1. left \in [0 .. Len(<<>>) -> Int] /\ left[0] = n /\ Len(<<>>) = 0
  BY EmptySeq
<1> HIDE DEF left
<1> QED
  BY <1>1 DEF Download

(* One more frame is sent. *)
LEMMA DownloadAppend ==
  ASSUME NEW r \in Seq(ToClient), NEW n \in Int, NEW m \in Int, Download(r, n, m), m # 0,
         NEW f \in ToClient, f.kind = "data", Len(f.val) \in Nat
  PROVE  Download(Append(r, f), n, m - Len(f.val))
<1>1. PICK left \in [0 .. Len(r) -> Int] :
        /\ left[0] = n
        /\ left[Len(r)] = m
        /\ \A i \in 1 .. Len(r) :
             r[i].kind = "data" /\ left[i - 1] # 0 /\ left[i] = left[i - 1] - Len(r[i].val)
  BY DEF Download
<1> DEFINE a == Append(r, f)
           more == [i \in 0 .. Len(a) |-> IF i = Len(a) THEN m - Len(f.val) ELSE left[i]]
<1>2. /\ Len(r) \in Nat /\ Len(a) = Len(r) + 1 /\ a[Len(a)] = f
      /\ \A i \in 1 .. Len(r) : a[i] = r[i]
  BY AppendProperties, LenProperties
<1> HIDE DEF a
<1>3. /\ more \in [0 .. Len(a) -> Int] /\ more[Len(a)] = m - Len(f.val)
      /\ \A i \in 0 .. Len(r) : more[i] = left[i]
  BY <1>2
<1> HIDE DEF more
<1>4. ASSUME NEW i \in 1 .. Len(a)
      PROVE  a[i].kind = "data" /\ more[i - 1] # 0 /\ more[i] = more[i - 1] - Len(a[i].val)
  <2>1. CASE i = Len(a)
    BY <1>1, <1>2, <1>3, <2>1
  <2>2. CASE i # Len(a)
    <3>1. i \in 1 .. Len(r) /\ i \in 0 .. Len(r) /\ i - 1 \in 0 .. Len(r)
      BY <1>2, <2>2
    <3>2. a[i] = r[i] /\ more[i] = left[i] /\ more[i - 1] = left[i - 1]
      BY <1>2, <1>3, <3>1
    <3> QED
      BY <1>1, <3>1, <3>2
  <2> QED
    BY <2>1, <2>2
<1>5. more[0] = n
  BY <1>1, <1>2, <1>3
<1> QED
  BY <1>3, <1>4, <1>5 DEF Download, a

(* The first frame under way is taken. *)
LEMMA DownloadTail ==
  ASSUME NEW r \in Seq(ToClient), NEW n \in Int, NEW m \in Int, Download(r, n, m), r # <<>>
  PROVE  /\ r[1].kind = "data" /\ n # 0
         /\ Len(r[1].val) \in Nat => Download(Tail(r), n - Len(r[1].val), m)
<1>1. PICK left \in [0 .. Len(r) -> Int] :
        /\ left[0] = n
        /\ left[Len(r)] = m
        /\ \A i \in 1 .. Len(r) :
             r[i].kind = "data" /\ left[i - 1] # 0 /\ left[i] = left[i - 1] - Len(r[i].val)
  BY DEF Download
<1> DEFINE t == Tail(r)
           rest == [i \in 0 .. Len(t) |-> left[i + 1]]
<1>2. /\ Len(r) \in Nat \ {0} /\ Len(t) \in Nat /\ Len(t) = Len(r) - 1
      /\ \A i \in 1 .. Len(t) : t[i] = r[i + 1]
  BY EmptySeq, HeadTailProperties
<1> HIDE DEF t
<1>3. r[1].kind = "data" /\ n # 0 /\ left[1] = n - Len(r[1].val)
  BY <1>1, <1>2
<1>4. rest \in [0 .. Len(t) -> Int] /\ \A i \in 0 .. Len(t) : rest[i] = left[i + 1]
  BY <1>2
<1> HIDE DEF rest
<1>5. rest[0] = n - Len(r[1].val) /\ rest[Len(t)] = m
  BY <1>1, <1>2, <1>3, <1>4
<1>6. ASSUME NEW i \in 1 .. Len(t)
      PROVE  t[i].kind = "data" /\ rest[i - 1] # 0 /\ rest[i] = rest[i - 1] - Len(t[i].val)
  <2>1. /\ i + 1 \in 1 .. Len(r) /\ t[i] = r[i + 1] /\ rest[i] = left[i + 1]
        /\ rest[i - 1] = left[(i + 1) - 1]
    BY <1>2, <1>4
  <2> QED
    BY <1>1, <2>1
<1> QED
  BY <1>3, <1>4, <1>5, <1>6 DEF Download, t

(* Where no byte is missing, nothing is under way. *)
LEMMA DownloadDone ==
  ASSUME NEW r \in Seq(ToClient), NEW m \in Int, Download(r, 0, m)
  PROVE  r = <<>> /\ m = 0
<1>1. r = <<>>
  BY DownloadTail
<1> QED
  BY <1>1, EmptySeq DEF Download
-----------------------------------------------------------------------------
(* Sequences, and the bytes of files *)

(* The first frame of two queues, one before the other. *)
LEMMA ConcatTail ==
  ASSUME NEW S, NEW a \in Seq(S), NEW b \in Seq(S), a # <<>>
  PROVE  /\ a \o b \in Seq(S) /\ a \o b # <<>>
         /\ (a \o b)[1] = a[1] /\ Head(a) = a[1] /\ a[1] \in S
         /\ Tail(a) \in Seq(S) /\ Tail(a \o b) = Tail(a) \o b
<1> DEFINE c == a \o b
           t == Tail(a)
           d == t \o b
           e == Tail(c)
<1>1. Len(a) \in Nat \ {0} /\ Len(b) \in Nat
  BY EmptySeq, LenProperties
<1>2. /\ c \in Seq(S) /\ Len(c) = Len(a) + Len(b)
      /\ \A i \in 1 .. Len(a) + Len(b) : c[i] = IF i <= Len(a) THEN a[i] ELSE b[i - Len(a)]
  BY ConcatProperties
<1>3. t \in Seq(S) /\ Len(t) = Len(a) - 1 /\ \A i \in 1 .. Len(t) : t[i] = a[i + 1]
  BY HeadTailProperties
<1>4. c # <<>>
  BY <1>1, <1>2, EmptySeq
<1> HIDE DEF c, t
<1>5. e \in Seq(S) /\ Len(e) = Len(c) - 1 /\ \A i \in 1 .. Len(e) : e[i] = c[i + 1]
  BY <1>2, <1>4, HeadTailProperties
<1>6. /\ d \in Seq(S) /\ Len(d) = Len(t) + Len(b)
      /\ \A i \in 1 .. Len(t) + Len(b) : d[i] = IF i <= Len(t) THEN t[i] ELSE b[i - Len(t)]
  BY <1>3, ConcatProperties
<1> HIDE DEF d, e
<1>7. Len(e) = Len(d)
  BY <1>1, <1>2, <1>3, <1>5, <1>6
<1>8. ASSUME NEW i \in 1 .. Len(e)
      PROVE  e[i] = d[i]
  <2>1. /\ i + 1 \in 1 .. Len(a) + Len(b) /\ i \in 1 .. Len(t) + Len(b)
        /\ e[i] = c[i + 1]
    BY <1>1, <1>2, <1>3, <1>5, <1>7
  <2>2. CASE i <= Len(t)
    <3>1. i \in 1 .. Len(t) /\ i + 1 <= Len(a)
      BY <2>1, <2>2, <1>1, <1>3
    <3> QED
      BY <2>1, <2>2, <3>1, <1>2, <1>3, <1>6
  <2>3. CASE i > Len(t)
    <3>1. ~(i <= Len(t)) /\ ~(i + 1 <= Len(a)) /\ (i + 1) - Len(a) = i - Len(t)
      BY <2>1, <2>3, <1>1, <1>3
    <3> QED
      BY <2>1, <3>1, <1>2, <1>6
  <2> QED
    BY <2>1, <2>2, <2>3, <1>1, <1>3
<1>9. e = d
  BY <1>5, <1>6, <1>7, <1>8, SeqEqual
<1>10. c[1] = a[1] /\ a[1] \in S /\ Head(a) = a[1]
  BY <1>1, <1>2, ElementOfSeq
<1> QED
  BY <1>2, <1>3, <1>4, <1>9, <1>10 DEF c, d, e, t

(* A queue that is cut in two: what a read takes, and what it leaves. *)
LEMMA Cut ==
  ASSUME NEW S, NEW s \in Seq(S), NEW n \in 0 .. Len(s)
  PROVE  /\ SubSeq(s, 1, n) \in Seq(S) /\ Len(SubSeq(s, 1, n)) = n
         /\ \A i \in 1 .. n : SubSeq(s, 1, n)[i] = s[i]
         /\ SubSeq(s, n + 1, Len(s)) \in Seq(S)
         /\ SubSeq(s, 1, n) \o SubSeq(s, n + 1, Len(s)) = s
<1>1. Len(s) \in Nat /\ \A i \in 1 .. Len(s) : s[i] \in S
  BY LenProperties, ElementOfSeq
<1>2. /\ SubSeq(s, 1, n) \in Seq(S)
      /\ Len(SubSeq(s, 1, n)) = IF 1 <= n THEN n - 1 + 1 ELSE 0
      /\ \A i \in 1 .. n - 1 + 1 : SubSeq(s, 1, n)[i] = s[1 + i - 1]
  <2>1. \A i \in 1 .. n : s[i] \in S
    BY <1>1
  <2> QED
    BY <2>1, <1>1, SubSeqProperties
<1>3. Len(SubSeq(s, 1, n)) = n /\ \A i \in 1 .. n : SubSeq(s, 1, n)[i] = s[i]
  BY <1>1, <1>2
<1>4. SubSeq(s, n + 1, Len(s)) \in Seq(S)
  <2>1. \A i \in n + 1 .. Len(s) : s[i] \in S
    BY <1>1
  <2> QED
    BY <2>1, <1>1, SubSeqProperties
<1>5. SubSeq(s, 1, n) \o SubSeq(s, n + 1, Len(s)) = s
  <2>1. 1 \in 1 .. Len(s) + 1 /\ n \in 1 - 1 .. Len(s) /\ Len(s) \in n .. Len(s)
    BY <1>1
  <2>2. SubSeq(s, 1, n) \o SubSeq(s, n + 1, Len(s)) = SubSeq(s, 1, Len(s))
    BY <2>1, ConcatAdjacentSubSeq
  <2> QED
    BY <2>2, SubSeqFull
<1> QED
  BY <1>2, <1>3, <1>4, <1>5

(* string(buf) carries text. *)
LEMMA TextCarried == ASSUME NEW s \in Seq(Text) PROVE CString(s) = s
<1>1. \A i \in DOMAIN s : s[i] # "z"
  BY LenProperties, ElementOfSeq DEF Text
<1> QED
  BY <1>1 DEF CString

(* What a read of a file returns. *)
LEMMA ReadReturns ==
  ASSUME NEW s \in Seq(Text), NEW pos \in Nat, pos <= Len(s)
  PROVE  /\ ReadAt(s, pos) \in Seq(Text)
         /\ Len(ReadAt(s, pos)) \in Nat
         /\ Len(ReadAt(s, pos)) = IF pos + BufLen < Len(s) THEN BufLen ELSE Len(s) - pos
<1> DEFINE last == IF pos + BufLen < Len(s) THEN pos + BufLen ELSE Len(s)
<1>1. Len(s) \in Nat /\ \A i \in 1 .. Len(s) : s[i] \in Text
  BY LenProperties, ElementOfSeq
<1>2. BufLen \in Nat \ {0}
  BY NetdiskAssumption
<1>3. last \in Nat /\ pos <= last /\ last <= Len(s)
  BY <1>1, <1>2
<1>4. /\ SubSeq(s, pos + 1, last) \in Seq(Text)
      /\ Len(SubSeq(s, pos + 1, last)) = IF pos + 1 <= last THEN last - (pos + 1) + 1 ELSE 0
  <2>1. \A i \in pos + 1 .. last : s[i] \in Text
    BY <1>1, <1>3
  <2> HIDE DEF last
  <2> QED
    BY <2>1, <1>3, SubSeqProperties
<1>5. Len(SubSeq(s, pos + 1, last)) = last - pos
  <2> HIDE DEF last
  <2> QED
    BY <1>3, <1>4
<1> QED
  BY <1>1, <1>2, <1>3, <1>4, <1>5 DEF ReadAt

(* A write never makes a file shorter, and ends within it. *)
LEMMA WriteGrows ==
  ASSUME NEW s \in Seq(Text), NEW pos \in Nat, pos <= Len(s), NEW data \in Seq(Text)
  PROVE  /\ WriteAt(s, pos, data) \in Seq(Text)
         /\ Len(s) <= Len(WriteAt(s, pos, data))
         /\ pos + Len(data) \in Nat /\ pos + Len(data) <= Len(WriteAt(s, pos, data))
<1> DEFINE n == pos + Len(data)
           front == SubSeq(s, 1, pos)
           back == SubSeq(s, n + 1, Len(s))
<1>1. Len(s) \in Nat /\ Len(data) \in Nat /\ n \in Nat /\ \A i \in 1 .. Len(s) : s[i] \in Text
  BY LenProperties, ElementOfSeq
<1>2. front \in Seq(Text) /\ Len(front) = pos
  BY <1>1, Cut
<1>3. back \in Seq(Text) /\ Len(back) = IF n + 1 <= Len(s) THEN Len(s) - (n + 1) + 1 ELSE 0
  <2>1. \A i \in n + 1 .. Len(s) : s[i] \in Text
    BY <1>1
  <2> QED
    BY <2>1, <1>1, SubSeqProperties
<1> HIDE DEF front, back
<1>4. front \o data \in Seq(Text) /\ Len(front \o data) = n
  BY <1>2, ConcatProperties
<1>5. /\ (front \o data) \o back \in Seq(Text)
      /\ Len((front \o data) \o back) = n + Len(back)
  BY <1>3, <1>4, ConcatProperties
<1>6. Len(s) <= n + Len(back) /\ n <= n + Len(back)
  <2> HIDE DEF n
  <2> QED
    BY <1>1, <1>3
<1>7. WriteAt(s, pos, data) = (front \o data) \o back
  BY DEF WriteAt, front, back
<1> QED
  BY <1>1, <1>5, <1>6, <1>7
(* As many reads as it takes to come to the end of a file of n bytes. *)
LEMMA Reads ==
  ASSUME NEW n \in Nat \ {0}, NEW B \in Nat \ {0}
  PROVE  LET K == (n + B - 1) \div B
         IN  /\ K \in Nat \ {0} /\ n <= K * B
             /\ \A i \in 1 .. K : (i - 1) * B \in Nat /\ (i - 1) * B < n /\ i * B = (i - 1) * B + B
<1> DEFINE m == n + B - 1
           K == m \div B
<1>1. m \in Nat /\ m >= B
  OBVIOUS
<1> HIDE DEF m
<1>2. K \in Int /\ K * B <= m /\ m < K * B + B
  BY <1>1
<1> HIDE DEF K
<1>3. K >= 1
  BY <1>1, <1>2
<1>4. n <= K * B /\ K * B - B < n
  BY <1>2 DEF m
<1>5. ASSUME NEW i \in 1 .. K
      PROVE  (i - 1) * B \in Nat /\ (i - 1) * B < n /\ i * B = (i - 1) * B + B
  <2>1. i \in Int /\ 1 <= i /\ i <= K
    BY <1>2
  <2>2. i * B = (i - 1) * B + B
    BY <2>1
  <2>3. (i - 1) * B \in Nat
    BY <2>1
  <2>4. (K - i) * B >= 0
    BY <2>1, <1>2
  <2>5. (K - i) * B = K * B - i * B
    BY <2>1, <1>2
  <2>6. i * B \in Int /\ K * B \in Int /\ (K - i) * B \in Int /\ (i - 1) * B \in Int
    BY <2>1, <1>2
  <2> QED
    BY <2>2, <2>3, <2>4, <2>5, <2>6, <1>4
<1> QED
  BY <1>2, <1>3, <1>4, <1>5 DEF K, m

(* What the upload loop sends is the whole file. *)
LEMMA UploadNew ==
  ASSUME NEW s \in Seq(Text), s # <<>>
  PROVE  /\ Chunks(s) \in Seq(ToServer) /\ Chunks(s) # <<>>
         /\ Upload(Chunks(s), Len(s), 0)
         /\ \A i \in 1 .. Len(Chunks(s)) : Chunks(s)[i].kind = "data"
<1> DEFINE n == Len(s)
           B == BufLen
           K == (n + B - 1) \div B
           chunks == Chunks(s)
           left == [i \in 0 .. K |-> IF i * B < n THEN n - i * B ELSE 0]
<1>1. n \in Nat \ {0} /\ B \in Nat \ {0}
  BY EmptySeq, NetdiskAssumption
<1>2. /\ K \in Nat \ {0} /\ n <= K * B
      /\ \A i \in 1 .. K : (i - 1) * B \in Nat /\ (i - 1) * B < n /\ i * B = (i - 1) * B + B
  BY <1>1, Reads
<1>3. ASSUME NEW i \in 1 .. K
      PROVE  /\ ReadAt(s, (i - 1) * B) \in Seq(Text)
             /\ CString(ReadAt(s, (i - 1) * B)) = ReadAt(s, (i - 1) * B)
             /\ Len(ReadAt(s, (i - 1) * B)) = IF i * B < n THEN B ELSE n - (i - 1) * B
  <2>1. (i - 1) * B \in Nat /\ (i - 1) * B <= n /\ i * B = (i - 1) * B + B
    BY <1>1, <1>2
  <2>2. /\ ReadAt(s, (i - 1) * B) \in Seq(Text)
        /\ Len(ReadAt(s, (i - 1) * B)) = IF (i - 1) * B + B < n THEN B ELSE n - (i - 1) * B
    BY <2>1, ReadReturns
  <2> QED
    BY <2>1, <2>2, TextCarried
<1>4. chunks = [i \in 1 .. K |-> Frame("data", CString(ReadAt(s, (i - 1) * B)))]
  BY DEF Chunks
<1> HIDE DEF K, chunks
<1>5. \A i \in 1 .. K : chunks[i] = [kind |-> "data", val |-> ReadAt(s, (i - 1) * B)]
  BY <1>3, <1>4 DEF Frame
<1>6. ASSUME NEW i \in 1 .. K
      PROVE  chunks[i] \in ToServer
  <2> DEFINE data == ReadAt(s, (i - 1) * B)
  <2>1. data \in Seq(Text) /\ chunks[i] = [kind |-> "data", val |-> data]
    BY <1>3, <1>5
  <2> HIDE DEF data
  <2> QED
    BY <2>1 DEF ToServer
<1>7. chunks \in Seq(ToServer) /\ Len(chunks) = K
  <2>1. chunks \in [1 .. K -> ToServer]
    BY <1>4, <1>6
  <2>2. chunks \in Seq(ToServer)
    BY <2>1, <1>2, SeqDef
  <2> QED
    BY <2>1, <2>2, <1>2, LenProperties
<1>8. chunks # <<>>
  BY <1>2, <1>7, EmptySeq
<1>9. /\ left \in [0 .. K -> Int]
      /\ \A i \in 0 .. K : left[i] = IF i * B < n THEN n - i * B ELSE 0
  BY <1>1, <1>2
<1> HIDE DEF left
<1>10. left[0] = n
  BY <1>1, <1>2, <1>9
<1>11. left[K] = 0
  BY <1>1, <1>2, <1>9
<1>12. ASSUME NEW i \in 1 .. K
       PROVE  /\ chunks[i].kind = "data" /\ left[i - 1] # 0
              /\ left[i] = left[i - 1] - Len(chunks[i].val)
  <2>1. /\ i - 1 \in 0 .. K /\ i \in 0 .. K
        /\ (i - 1) * B \in Nat /\ (i - 1) * B < n /\ i * B = (i - 1) * B + B
    BY <1>2
  <2>2. left[i - 1] = n - (i - 1) * B /\ left[i] = IF i * B < n THEN n - i * B ELSE 0
    BY <2>1, <1>9
  <2>3. chunks[i].kind = "data" /\ Len(chunks[i].val) = IF i * B < n THEN B ELSE n - (i - 1) * B
    <3> DEFINE data == ReadAt(s, (i - 1) * B)
    <3>1. Len(data) = (IF i * B < n THEN B ELSE n - (i - 1) * B) /\ chunks[i] = [kind |-> "data", val |-> data]
      BY <1>3, <1>5
    <3> HIDE DEF data
    <3> QED
      BY <3>1
  <2> QED
    <3> DEFINE x == (i - 1) * B
               y == i * B
    <3>1. x \in Nat /\ x < n /\ y = x + B /\ left[i - 1] = n - x
          /\ left[i] = (IF y < n THEN n - y ELSE 0)
          /\ Len(chunks[i].val) = IF y < n THEN B ELSE n - x
      BY <2>1, <2>2, <2>3
    <3> HIDE DEF x, y, n, B
    <3> QED
      BY <3>1, <2>3, <1>1
<1>13. Upload(chunks, n, 0)
  BY <1>7, <1>9, <1>10, <1>11, <1>12 DEF Upload
<1> QED
  BY <1>7, <1>8, <1>12, <1>13 DEF chunks
-----------------------------------------------------------------------------
(* What the parts of Talk say where they are needed *)

(* A session, its client and the frames between them, of the right types. *)
Ends(k, l, q, r, s) ==
  /\ k \in ClientProcesses /\ l \in LocalFiles
  /\ q \in Seq(ToServer) /\ r \in Seq(ToClient) /\ s \in Sessions

(* Whoever expects a frame gets the one it expects. *)
LEMMA Expected ==
  ASSUME NEW k, NEW l, NEW q, NEW r, NEW s, Ends(k, l, q, r, s), Talk(k, l, q, r, s),
         s.call = "none", q # <<>>
  PROVE  q[1].kind = ServerExpects[s.state]
<1>1. s.state \in ServerStates /\ q \in Seq(ToServer) /\ s.size \in Int
  BY DEF Ends, Sessions
<1>2. CASE s.state = "Puts"
  <2>1. PICK m \in Int : s.size # 0 /\ Upload(q, s.size, m)
    BY <1>2 DEF Talk, Script, Uploading
  <2>2. q[1].kind = "data"
    BY <1>1, <2>1, UploadHead
  <2> QED
    BY <1>2, <2>2 DEF ServerExpects
<1>3. CASE s.state \in {"Init", "Gets"}
  BY <1>3 DEF Talk, Script, ServerExpects
<1>4. CASE s.state \in ServerStates \ {"Init", "Puts", "Gets"}
  BY <1>4 DEF Talk, Script
<1> QED
  BY <1>1, <1>2, <1>3, <1>4 DEF ServerStates

(* And the client. *)
LEMMA ExpectedBack ==
  ASSUME NEW k, NEW l, NEW q, NEW r, NEW s, Ends(k, l, q, r, s), Talk(k, l, q, r, s),
         r # <<>>
  PROVE  <<k.state, Head(r).kind>> \in ClientExpects
<1>1. /\ k.state \in ClientStates \ {"dead"} /\ Agree(k, q, r, s)
      /\ k.size \in Int /\ k.cur \in Int /\ s.size \in Int /\ r \in Seq(ToClient)
  BY DEF Ends, ClientProcesses, Sessions, Talk
<1>2. Head(r) = r[1]
  OBVIOUS
<1>3. CASE k.state = "Gets"
  <2>1. PICK m \in Int : Download(r, k.size - k.cur, m)
    BY <1>1, <1>3 DEF Agree, Fed
  <2>2. k.size - k.cur \in Int /\ m \in Int
    BY <1>1, <2>1
  <2>3. r[1].kind = "data"
    BY <1>1, <2>1, <2>2, DownloadTail
  <2> QED
    BY <1>2, <1>3, <2>3 DEF ClientExpects
<1>4. CASE k.state \in ClientStates \ {"dead", "Gets"}
  BY <1>1, <1>2, <1>4 DEF Agree, Waits, Answer, ClientExpects, ClientStates
<1> QED
  BY <1>1, <1>3, <1>4

(* Talk looks at no more of a session than this. *)
LEMMA Quiet ==
  ASSUME NEW k, NEW l, NEW q, NEW r, NEW s, NEW t, Talk(k, l, q, r, s),
         t.state = s.state, t.call = s.call, t.size = s.size, t.file = s.file,
         t.user = s.user, t.cwd = s.cwd, t.conn = s.conn,
         CallOK(t), SessionOK(t), Gone(k, q, t)
  PROVE  Talk(k, l, q, r, t)
<1>1. Script(q, t) /\ Leading(q, t)
  BY DEF Talk, Script, Leading, Leads, HereOf
<1>2. Agree(k, q, r, s) => Agree(k, q, r, t)
  BY DEF Agree, At, Settled, Asked, Waits, Answer, Fed
<1> QED
  BY <1>1, <1>2 DEF Talk

(* A queue of one frame is that frame and nothing behind it. *)
LEMMA OneFrame ==
  ASSUME NEW S, NEW q \in Seq(S), q # <<>>, Len(q) <= 1
  PROVE  Len(q) = 1 /\ Tail(q) = <<>> /\ q[1] \in S
<1>1. Len(q) \in Nat \ {0}
  BY EmptySeq
<1>2. Len(q) = 1
  BY <1>1
<1>3. Tail(q) \in Seq(S) /\ Len(Tail(q)) = 0
  BY <1>2, HeadTailProperties
<1> QED
  BY <1>2, <1>3, EmptySeq, ElementOfSeq

(* The same of a queue of answers. *)
LEMMA OneAnswer ==
  ASSUME NEW r \in Seq(ToClient), Len(r) = 1
  PROVE  Tail(r) = <<>> /\ r # <<>> /\ r[1] \in ToClient
<1>1. r # <<>> /\ Len(r) <= 1
  BY EmptySeq
<1> QED
  BY <1>1, OneFrame

(* The session has not begun what its client sent to register or to log in. *)
LEMMA AtMenu ==
  ASSUME NEW k, NEW l, NEW q, NEW r, NEW s, Ends(k, l, q, r, s), Talk(k, l, q, r, s),
         s.call = "none", q # <<>>, s.state = "Init"
  PROVE  /\ q[1].kind = "menu" /\ Len(q) <= 2
         /\ Len(q) = 2 => q[2].kind = IF q[1].val = "0" THEN "account" ELSE "user"
         /\ k.state # "dead" =>
              /\ Len(q) = 2
              /\ k.state = IF q[1].val = "0" THEN "Registering" ELSE "Logining_Step1"
              /\ s.conn = "connected" /\ LocalOK(k, l)
         /\ r = <<>>
<1>1. k.state \in ClientStates /\ q \in Seq(ToServer) /\ Len(q) \in Nat \ {0}
  BY EmptySeq DEF Ends, ClientProcesses
<1>2. /\ q[1].kind = "menu" /\ Len(q) <= 2
      /\ Len(q) = 2 => q[2].kind = IF q[1].val = "0" THEN "account" ELSE "user"
  BY DEF Talk, Script
<1>3. CASE k.state = "dead"
  BY <1>2, <1>3 DEF Talk
<1>4. CASE k.state # "dead"
  <2>1. Agree(k, q, r, s) /\ LocalOK(k, l)
    BY <1>4 DEF Talk
  <2> QED
    BY <1>1, <1>2, <1>4, <2>1 DEF Agree, At, Settled, Asked, Waits, ClientStates
<1> QED
  BY <1>3, <1>4

(* The session expects a name or a password. *)
LEMMA AtLogin ==
  ASSUME NEW k, NEW l, NEW q, NEW r, NEW s, Ends(k, l, q, r, s), Talk(k, l, q, r, s),
         s.call = "none", q # <<>>,
         s.state \in {"Registering", "Logining_Step1", "Logining_Step2"}
  PROVE  /\ Len(q) = 1 /\ Tail(q) = <<>> /\ q[1].kind = ServerExpects[s.state]
         /\ k.state # "dead" => k.state = s.state /\ s.conn = "connected" /\ LocalOK(k, l)
         /\ r = <<>>
<1>1. k.state \in ClientStates /\ q \in Seq(ToServer) /\ Len(q) \in Nat \ {0}
  BY EmptySeq DEF Ends, ClientProcesses
<1>2. q[1].kind = ServerExpects[s.state]
  BY Expected
<1>3. Len(q) <= 1
  BY DEF Talk, Script, ServerStates
<1>4. Len(q) = 1 /\ Tail(q) = <<>> /\ q[1] \in ToServer
  BY <1>1, <1>3, OneFrame
<1>5. CASE k.state = "dead"
  BY <1>2, <1>4, <1>5 DEF Talk
<1>6. CASE k.state # "dead"
  <2>1. Agree(k, q, r, s) /\ LocalOK(k, l)
    BY <1>6 DEF Talk
  <2>2. r = <<>> /\ k.state = s.state /\ s.conn = "connected"
    BY <1>1, <1>4, <1>6, <2>1 DEF Agree, At, Settled, Asked, Waits, ClientStates
  <2> QED
    BY <1>2, <1>4, <2>1, <2>2
<1> QED
  BY <1>5, <1>6

(* The state in which a client waits for the answer to a command. *)
Waiting ==
  [pwd |-> "Print", ls |-> "Print", mkdir |-> "Mkdir", remove |-> "Remove", cd |-> "Cd",
   puts |-> "Begin_Puts", gets |-> "Begin_Gets"]

(* The session expects a command. *)
LEMMA AtCommand ==
  ASSUME NEW k, NEW l, NEW q, NEW r, NEW s, Ends(k, l, q, r, s), Talk(k, l, q, r, s),
         s.call = "none", q # <<>>, s.state = "Login_Success"
  PROVE  /\ Len(q) = 1 /\ Tail(q) = <<>> /\ q[1].kind = "command" /\ q[1].val \in Lines
         /\ q[1].val.arg \in Params => Leads(s, q[1].val.arg)
         /\ k.state # "dead" => /\ k.state = Waiting[q[1].val.cmd]
                                /\ s.conn = "connected" /\ LocalOK(k, l)
         /\ r = <<>>
<1>1. k.state \in ClientStates /\ q \in Seq(ToServer) /\ Len(q) \in Nat \ {0}
  BY EmptySeq DEF Ends, ClientProcesses
<1>2. q[1].kind = "command"
  BY Expected DEF ServerExpects
<1>3. Len(q) <= 1
  BY DEF Talk, Script, ServerStates
<1>4. Len(q) = 1 /\ Tail(q) = <<>> /\ q[1] \in ToServer
  BY <1>1, <1>3, OneFrame
<1>5. q[1].val \in Lines
  BY <1>2, <1>4 DEF ToServer
<1>6. q[1].val.arg \in Params => Leads(s, q[1].val.arg)
  BY <1>2, <1>4 DEF Talk, Leading
<1>7. CASE k.state = "dead"
  BY <1>2, <1>4, <1>5, <1>6, <1>7 DEF Talk
<1>8. CASE k.state # "dead"
  <2>1. Agree(k, q, r, s) /\ LocalOK(k, l)
    BY <1>8 DEF Talk
  <2>2. r = <<>> /\ s.conn = "connected" /\ k.state = Waiting[q[1].val.cmd]
    <3>1. \A cmds : Asked(q, s, cmds) => q[1].val.cmd \in cmds
      BY <1>4 DEF Asked
    <3>2. k.state \notin {"Init", "Registering", "Logining_Step1", "Logining_Step2", "Puts", "Gets"}
      BY <1>1, <1>2, <1>4, <2>1 DEF Agree, At
    <3>3. k.state # "Login_Success"
      BY <1>2, <1>4, <2>1 DEF Agree
    <3> QED
      BY <1>1, <1>4, <1>8, <2>1, <3>1, <3>2, <3>3 DEF Agree, At, Waits, ClientStates, Waiting
  <2> QED
    BY <1>2, <1>4, <1>5, <1>6, <2>1, <2>2
<1> QED
  BY <1>7, <1>8
-----------------------------------------------------------------------------
(* What an action does to a session and its client: the server *)

(* The frames under way once the session has sent f. *)
Sent(k, s, r, f) == IF s.conn = "connected" /\ k.state # "dead" THEN Append(r, f) ELSE r

(* The first answer. *)
LEMMA SentFirst ==
  ASSUME NEW k, NEW s, NEW r, NEW f, s.conn = "connected", k.state # "dead", r = <<>>
  PROVE  /\ Answer(Sent(k, s, r, f), f.kind)
         /\ Sent(k, s, r, f)[1] = f /\ Sent(k, s, r, f) # <<>> /\ Tail(Sent(k, s, r, f)) = <<>>
<1>1. Sent(k, s, r, f) = <<f>>
  BY DEF Sent
<1>2. Len(<<f>>) = 1 /\ <<f>>[1] = f /\ <<f>> # <<>> /\ <<f>> \in Seq({f})
  OBVIOUS
<1>3. Tail(<<f>>) = <<>>
  BY <1>2, OneFrame
<1> QED
  BY <1>1, <1>2, <1>3 DEF Answer

(* Nothing is added to the queue of a dead client. *)
LEMMA SentNone ==
  ASSUME NEW k, NEW s, NEW r, NEW f, k.state = "dead"
  PROVE  Sent(k, s, r, f) = r
BY DEF Sent

(* Whoever takes a frame is connected. *)
LEMMA TakerConnected ==
  ASSUME NEW k, NEW l, NEW q, NEW r, NEW s, Talk(k, l, q, r, s), q # <<>>
  PROVE  s.conn = "connected"
BY DEF Talk, Gone

(* The session takes the menu choice and waits for what the user types next. *)
LEMMA TalkMenu ==
  ASSUME NEW k, NEW l, NEW q, NEW r, NEW s, Ends(k, l, q, r, s), Talk(k, l, q, r, s),
         s.call = "none", q # <<>>, s.state = "Init",
         NEW t, t.state = IF q[1].val = "0" THEN "Registering" ELSE "Logining_Step1",
         t.call = "none", t.gets = s.gets, t.conn = s.conn, t.user = s.user
  PROVE  Talk(k, l, Tail(q), r, t)
<1> DEFINE p == Tail(q)
<1>1. /\ q[1].kind = "menu" /\ Len(q) <= 2 /\ r = <<>> /\ s.conn = "connected"
      /\ Len(q) = 2 => q[2].kind = IF q[1].val = "0" THEN "account" ELSE "user"
      /\ k.state # "dead" => /\ Len(q) = 2
                             /\ k.state = IF q[1].val = "0" THEN "Registering" ELSE "Logining_Step1"
                             /\ LocalOK(k, l)
  BY AtMenu, TakerConnected
<1>2. q \in Seq(ToServer) /\ Len(q) \in Nat \ {0}
  BY EmptySeq DEF Ends
<1>3. p \in Seq(ToServer) /\ Len(p) = Len(q) - 1 /\ \A i \in 1 .. Len(p) : p[i] = q[i + 1]
  BY <1>2, HeadTailProperties
<1>4. Len(p) <= 1 /\ (Len(p) = 1 => Len(q) = 2 /\ p[1] = q[2])
  BY <1>1, <1>2, <1>3
<1>5. p # <<>> => p[1].kind = ServerExpects[t.state]
  <2>1. p # <<>> => Len(p) = 1
    BY <1>3, <1>4, OneFrame
  <2> QED
    BY <2>1, <1>1, <1>4 DEF ServerExpects
<1> HIDE DEF p
<1>6. Script(p, t) /\ Leading(p, t)
  <2>1. Script(p, t)
    BY <1>4, <1>5 DEF Script
  <2>2. ASSUME NEW i \in 1 .. Len(p)
        PROVE  p[i].kind # "command"
    <3>1. i = 1 /\ p # <<>>
      BY <1>3, <1>4, EmptySeq
    <3> QED
      BY <3>1, <1>5 DEF ServerExpects
  <2> QED
    BY <2>1, <2>2 DEF Leading
<1>7. CallOK(t) /\ SessionOK(t) /\ Gone(k, p, t)
  BY <1>1 DEF Talk, CallOK, SessionOK, Gone
<1>8. CASE k.state = "dead"
  BY <1>1, <1>6, <1>7, <1>8 DEF Talk, p
<1>9. CASE k.state # "dead"
  <2>1. Len(p) = 1 /\ k.state = t.state /\ k.state \in {"Registering", "Logining_Step1"}
    BY <1>1, <1>3, <1>9
  <2>2. Agree(k, p, r, t)
    BY <2>1, <1>1 DEF Agree
  <2> QED
    BY <2>2, <1>1, <1>6, <1>7, <1>9 DEF Talk, p
<1> QED
  BY <1>8, <1>9 DEF p

(* The session has taken the last frame; nothing follows it. *)
LEMMA TalkEmpty ==
  ASSUME NEW k, NEW l, NEW r, NEW t, t.state \in ServerStates, t.conn = "connected",
         t.state # "Puts" \/ t.size \in Int \ {0},
         k.state = "dead" => r = <<>>,
         k.state # "dead" => Agree(k, <<>>, r, t) /\ LocalOK(k, l),
         CallOK(t), SessionOK(t)
  PROVE  Talk(k, l, <<>>, r, t)
<1>1. Len(<<>>) = 0 /\ 1 .. 0 = {}
  BY EmptySeq
<1>2. t.state = "Puts" => Uploading(<<>>, t.size)
  <2>1. ASSUME NEW n \in Int
        PROVE  Upload(<<>>, n, n)
    <3> DEFINE left == [i \in 0 .. 0 |-> n]
    <3>1. left \in [0 .. 0 -> Int] /\ left[0] = n
      OBVIOUS
    <3> HIDE DEF left
    <3> QED
      BY <1>1, <3>1 DEF Upload
  <2> QED
    BY <2>1 DEF Uploading
<1>3. Script(<<>>, t)
  <2>1. ASSUME NEW q, q = <<>>, Len(q) = 0
        PROVE  Script(q, t)
    BY <1>2, <2>1 DEF Script
  <2> QED
    BY <1>1, <2>1
<1>4. Leading(<<>>, t)
  BY <1>1 DEF Leading
<1>5. Gone(k, <<>>, t)
  BY DEF Gone
<1> QED
  BY <1>3, <1>4, <1>5 DEF Talk

(* A registration is answered at once, or its home is made first. *)
LEMMA TalkRegister ==
  ASSUME NEW k, NEW l, NEW q, NEW r, NEW s, Ends(k, l, q, r, s), Talk(k, l, q, r, s),
         s.call = "none", q # <<>>, s.in # <<>>, s.in[1] = q[1], s.state = "Registering",
         NEW t, t.state = "Init", t.gets = s.gets, t.conn = s.conn, t.user = s.user,
         NEW f, f.kind = "ret", NEW r2,
         \/ t.call = "mkdir" /\ t.in = s.in /\ r2 = r
         \/ t.call = "none" /\ r2 = Sent(k, s, r, f)
  PROVE  Talk(k, l, Tail(q), r2, t)
<1>1. /\ Tail(q) = <<>> /\ q[1].kind = "account" /\ r = <<>> /\ s.conn = "connected"
      /\ k.state # "dead" => k.state = "Registering" /\ LocalOK(k, l)
  BY AtLogin, TakerConnected DEF ServerExpects
<1>2. CallOK(t) /\ SessionOK(t)
  BY <1>1 DEF Talk, CallOK, SessionOK
<1>3. k.state = "dead" => r2 = <<>>
  BY <1>1, SentNone
<1>4. ASSUME k.state # "dead"
      PROVE  Agree(k, <<>>, r2, t) /\ LocalOK(k, l)
  <2>1. t.call = "none" => Answer(r2, "ret")
    BY <1>1, <1>4, SentFirst
  <2> QED
    BY <2>1, <1>1, <1>4 DEF Agree, At
<1>5. t.state \in ServerStates /\ t.state # "Puts" /\ t.conn = "connected"
  BY <1>1 DEF ServerStates
<1> QED
  BY <1>1, <1>2, <1>3, <1>4, <1>5, TalkEmpty

(* A registration that made its directory is answered after mkdir. *)
LEMMA TalkRegisterMkdir ==
  ASSUME NEW k, NEW l, NEW q, NEW r, NEW s, Ends(k, l, q, r, s), Talk(k, l, q, r, s),
         s.call = "mkdir",
         NEW t, t.state = s.state, t.call = "none", t.gets = s.gets, t.conn = s.conn,
         t.user = s.user, t.size = s.size, t.cwd = s.cwd, t.file = s.file, t.active = s.active,
         NEW f, f.kind = "ret"
  PROVE  Talk(k, l, q, Sent(k, s, r, f), t)
<1>1. q = <<>> /\ s.in # <<>> /\ s.conn = "connected"
  BY DEF Talk, Script, CallOK, Gone
<1>2. Script(q, t) /\ Leading(q, t)
  BY <1>1 DEF Talk, Script, Leading, Leads, HereOf
<1>3. CallOK(t) /\ SessionOK(t) /\ Gone(k, q, t)
  BY <1>1 DEF Talk, CallOK, SessionOK, Gone
<1>4. CASE k.state = "dead"
  BY <1>2, <1>3, <1>4, SentNone DEF Talk
<1>5. CASE k.state # "dead"
  <2>1. Agree(k, q, r, s) /\ LocalOK(k, l) /\ k.state \in ClientStates
    BY <1>5 DEF Talk, Ends, ClientProcesses
  <2>2. k.state = "Registering" /\ r = <<>> /\ s.state = "Init"
    BY <1>1, <1>5, <2>1 DEF Agree, At, Settled, Asked, Waits, ClientStates
  <2>3. Answer(Sent(k, s, r, f), "ret")
    BY <1>1, <1>5, <2>2, SentFirst
  <2>4. Agree(k, q, Sent(k, s, r, f), t)
    BY <1>1, <2>2, <2>3 DEF Agree, At
  <2> QED
    BY <1>2, <1>3, <1>5, <2>1, <2>4 DEF Talk
<1> QED
  BY <1>4, <1>5

(* The name of a login is answered with its salt, or with a refusal. *)
LEMMA TalkLogin1 ==
  ASSUME NEW k, NEW l, NEW q, NEW r, NEW s, Ends(k, l, q, r, s), Talk(k, l, q, r, s),
         s.call = "none", q # <<>>, s.state = "Logining_Step1",
         NEW found \in BOOLEAN,
         NEW t, t.state = IF found THEN "Logining_Step2" ELSE "Init", t.call = "none",
         t.gets = s.gets, t.conn = s.conn, t.user \in Users,
         NEW f, f.kind = "salt", f.val = found
  PROVE  Talk(k, l, Tail(q), Sent(k, s, r, f), t)
<1>1. /\ Tail(q) = <<>> /\ r = <<>> /\ s.conn = "connected"
      /\ k.state # "dead" => k.state = "Logining_Step1" /\ LocalOK(k, l)
  BY AtLogin, TakerConnected
<1>2. CallOK(t) /\ SessionOK(t) /\ t.state \in ServerStates \ {"Puts"}
  BY <1>1 DEF Talk, CallOK, SessionOK, ServerStates
<1>3. k.state = "dead" => Sent(k, s, r, f) = <<>>
  BY <1>1, SentNone
<1>4. ASSUME k.state # "dead"
      PROVE  Agree(k, <<>>, Sent(k, s, r, f), t) /\ LocalOK(k, l)
  <2>1. Answer(Sent(k, s, r, f), "salt") /\ Sent(k, s, r, f)[1].val = found
    BY <1>1, <1>4, SentFirst
  <2> QED
    BY <2>1, <1>1, <1>4 DEF Agree, At
<1> QED
  BY <1>1, <1>2, <1>3, <1>4, TalkEmpty

(* The password of a login is answered with the result. *)
LEMMA TalkLogin2 ==
  ASSUME NEW k, NEW l, NEW q, NEW r, NEW s, Ends(k, l, q, r, s), Talk(k, l, q, r, s),
         s.call = "none", q # <<>>, s.state = "Logining_Step2",
         NEW ok \in BOOLEAN,
         NEW t, t.state = IF ok THEN "Login_Success" ELSE "Init", t.call = "none",
         t.gets = s.gets, t.conn = s.conn, t.user = s.user,
         NEW f, f.kind = "ret", f.val = IF ok THEN 0 ELSE -1
  PROVE  Talk(k, l, Tail(q), Sent(k, s, r, f), t)
<1>1. /\ Tail(q) = <<>> /\ r = <<>> /\ s.conn = "connected"
      /\ k.state # "dead" => k.state = "Logining_Step2" /\ LocalOK(k, l)
  BY AtLogin, TakerConnected
<1>2. CallOK(t) /\ SessionOK(t) /\ t.state \in ServerStates \ {"Puts"}
  BY <1>1 DEF Talk, CallOK, SessionOK, ServerStates, Ends, Sessions
<1>3. k.state = "dead" => Sent(k, s, r, f) = <<>>
  BY <1>1, SentNone
<1>4. ASSUME k.state # "dead"
      PROVE  Agree(k, <<>>, Sent(k, s, r, f), t) /\ LocalOK(k, l)
  <2>1. Answer(Sent(k, s, r, f), "ret") /\ Sent(k, s, r, f)[1].val = IF ok THEN 0 ELSE -1
    BY <1>1, <1>4, SentFirst
  <2> QED
    BY <2>1, <1>1, <1>4 DEF Agree, At
<1> QED
  BY <1>1, <1>2, <1>3, <1>4, TalkEmpty

(* A command that is answered at once. *)
LEMMA TalkAnswers ==
  ASSUME NEW k, NEW l, NEW q, NEW r, NEW s, Ends(k, l, q, r, s), Talk(k, l, q, r, s),
         s.call = "none", q # <<>>, s.state = "Login_Success",
         NEW t, t.state = "Login_Success", t.call = "none", t.gets = s.gets, t.conn = s.conn,
         t.user = s.user,
         NEW f, \/ q[1].val.cmd = "pwd" /\ f.kind = "text"
                \/ q[1].val.cmd \in {"mkdir", "remove", "cd"} /\ f.kind = "ret"
                \/ q[1].val.cmd = "puts" /\ f.kind = "ret" /\ f.val = -1
                \/ q[1].val.cmd = "gets" /\ f.kind = "long" /\ f.val = -1
  PROVE  Talk(k, l, Tail(q), Sent(k, s, r, f), t)
<1>1. /\ Tail(q) = <<>> /\ r = <<>> /\ s.conn = "connected"
      /\ k.state # "dead" => k.state = Waiting[q[1].val.cmd] /\ LocalOK(k, l)
  BY AtCommand, TakerConnected
<1>2. CallOK(t) /\ SessionOK(t) /\ t.state \in ServerStates \ {"Puts"}
  BY <1>1 DEF Talk, CallOK, SessionOK, ServerStates, Ends, Sessions
<1>3. k.state = "dead" => Sent(k, s, r, f) = <<>>
  BY <1>1, SentNone
<1>4. ASSUME k.state # "dead"
      PROVE  Agree(k, <<>>, Sent(k, s, r, f), t) /\ LocalOK(k, l)
  <2> DEFINE a == Sent(k, s, r, f)
  <2>1. Answer(a, f.kind) /\ a[1] = f /\ At(<<>>, t, "Login_Success") /\ t.conn = "connected"
    BY <1>1, <1>4, SentFirst DEF At
  <2> SUFFICES Agree(k, <<>>, a, t)
    BY <1>1, <1>4
  <2> HIDE DEF a
  <2>2. CASE q[1].val.cmd = "pwd" /\ f.kind = "text"
    <3>1. k.state = "Print" /\ Waits(<<>>, a, t, {"pwd", "ls"}, "text")
      BY <1>1, <1>4, <2>1, <2>2 DEF Waits, Waiting
    <3> QED
      BY <2>1, <3>1 DEF Agree
  <2>3. CASE q[1].val.cmd \in {"mkdir", "remove", "cd"} /\ f.kind = "ret"
    <3>1. k.state \in {"Mkdir", "Remove", "Cd"} /\ \A cmds : Waits(<<>>, a, t, cmds, "ret")
      BY <1>1, <1>4, <2>1, <2>3 DEF Waits, Waiting
    <3> QED
      BY <2>1, <3>1 DEF Agree
  <2>4. CASE q[1].val.cmd = "puts" /\ f.kind = "ret" /\ f.val = -1
    <3>1. k.state = "Begin_Puts"
      BY <1>1, <1>4, <2>4 DEF Waiting
    <3> QED
      BY <2>1, <2>4, <3>1 DEF Agree
  <2>5. CASE q[1].val.cmd = "gets" /\ f.kind = "long" /\ f.val = -1
    <3>1. k.state = "Begin_Gets"
      BY <1>1, <1>4, <2>5 DEF Waiting
    <3> QED
      BY <2>1, <2>5, <3>1 DEF Agree
  <2> QED
    BY <2>2, <2>3, <2>4, <2>5
<1> QED
  BY <1>1, <1>2, <1>3, <1>4, TalkEmpty

(* A command that makes a call first. *)
LEMMA TalkCalls ==
  ASSUME NEW k, NEW l, NEW q, NEW r, NEW s, Ends(k, l, q, r, s), Talk(k, l, q, r, s),
         s.call = "none", q # <<>>, s.in # <<>>, s.in[1] = q[1], s.state = "Login_Success",
         NEW t, t.in = s.in, t.gets = s.gets, t.conn = s.conn, t.user = s.user, t.cwd = s.cwd,
         \/ q[1].val.cmd = "ls" /\ t.state = "Login_Success" /\ t.call = "stat"
         \/ q[1].val.cmd = "puts" /\ t.state = "Begin_Puts" /\ t.call = "open"
         \/ q[1].val.cmd = "gets" /\ t.state = "Login_Success" /\ t.call = "access"
  PROVE  Talk(k, l, Tail(q), r, t)
<1>1. /\ Tail(q) = <<>> /\ r = <<>> /\ s.conn = "connected"
      /\ q[1].kind = "command" /\ q[1].val \in Lines
      /\ q[1].val.arg \in Params => Leads(s, q[1].val.arg)
      /\ k.state # "dead" => k.state = Waiting[q[1].val.cmd] /\ LocalOK(k, l)
  BY AtCommand, TakerConnected
<1>2. q[1].val.cmd \in {"puts", "gets"} => q[1].val.arg \in Params
  BY <1>1 DEF Lines
<1>3. CallOK(t)
  BY <1>1, <1>2 DEF CallOK, Leads, HereOf
<1>4. SessionOK(t) /\ t.state \in ServerStates \ {"Puts"}
  BY <1>1 DEF Talk, SessionOK, ServerStates, Ends, Sessions
<1>5. ASSUME k.state # "dead"
      PROVE  Agree(k, <<>>, r, t) /\ LocalOK(k, l)
  BY <1>1, <1>5 DEF Agree, Waiting
<1> QED
  BY <1>1, <1>3, <1>4, <1>5, TalkEmpty

(* The session has come to a call. *)
LEMMA AtCall ==
  ASSUME NEW k, NEW l, NEW q, NEW r, NEW s, Ends(k, l, q, r, s), Talk(k, l, q, r, s),
         s.call \in {"stat", "open", "access", "statFile", "openFile"}
  PROVE  /\ q = <<>> /\ r = <<>> /\ s.in # <<>> /\ s.conn = "connected"
         /\ s.user \in Users /\ s.gets = "none"
         /\ s.call # "stat" => /\ s.in[1].kind = "command" /\ Leads(s, s.in[1].val.arg)
         /\ s.state = CASE s.call = "open" -> "Begin_Puts"
                        [] s.call = "openFile" -> "Gets"
                        [] OTHER -> "Login_Success"
         /\ s.call = "openFile" => s.size >= 0
         /\ s.call \in {"access", "statFile", "openFile"} => s.in[1].val.cmd = "gets"
         /\ k.state # "dead" => /\ k.state = CASE s.call = "stat" -> "Print"
                                               [] s.call = "open" -> "Begin_Puts"
                                               [] OTHER -> "Begin_Gets"
                                /\ LocalOK(k, l)
<1>1. q = <<>> /\ s.in # <<>> /\ s.conn = "connected" /\ s.gets = "none"
  BY DEF Talk, Script, CallOK, Gone, SessionOK, Ends, Sessions
<1>2. /\ s.call # "stat" => /\ s.in[1].kind = "command" /\ Leads(s, s.in[1].val.arg)
      /\ s.state = CASE s.call = "open" -> "Begin_Puts"
                     [] s.call = "openFile" -> "Gets"
                     [] OTHER -> "Login_Success"
      /\ s.call = "openFile" => s.size >= 0
      /\ s.call \in {"access", "statFile", "openFile"} => s.in[1].val.cmd = "gets"
  BY DEF Talk, CallOK
<1>3. s.user \in Users
  BY <1>2 DEF Talk, SessionOK, Ends, Sessions
<1>4. CASE k.state = "dead"
  BY <1>1, <1>2, <1>3, <1>4 DEF Talk
<1>5. CASE k.state # "dead"
  <2>1. Agree(k, q, r, s) /\ LocalOK(k, l) /\ k.state \in ClientStates
    BY <1>5 DEF Talk, Ends, ClientProcesses
  <2>2. /\ r = <<>>
        /\ k.state = CASE s.call = "stat" -> "Print"
                       [] s.call = "open" -> "Begin_Puts"
                       [] OTHER -> "Begin_Gets"
    BY <1>1, <1>5, <2>1 DEF Agree, At, Settled, Asked, Waits, ClientStates
  <2> QED
    BY <1>1, <1>2, <1>3, <2>1, <2>2
<1> QED
  BY <1>4, <1>5

(* The call is made, and the frame is answered. *)
LEMMA TalkReturns ==
  ASSUME NEW k, NEW l, NEW q, NEW r, NEW s, Ends(k, l, q, r, s), Talk(k, l, q, r, s),
         s.call \in {"stat", "open", "access", "openFile"},
         NEW t, t.state = s.state, t.call = "none", t.conn = s.conn, t.user = s.user,
         t.size = s.size,
         NEW f, \/ s.call = "stat" /\ t.gets = s.gets /\ f.kind = "text"
                \/ s.call = "open" /\ t.gets = s.gets /\ f.kind = "ret" /\ f.val = 0
                \/ s.call = "access" /\ t.gets = s.gets /\ f.kind = "long" /\ f.val = -1
                \/ /\ s.call = "openFile" /\ t.gets \in {"added", "unwatched"}
                   /\ f.kind = "long" /\ f.val = s.size
  PROVE  Talk(k, l, q, Sent(k, s, r, f), t)
<1>1. /\ q = <<>> /\ r = <<>> /\ s.conn = "connected" /\ s.user \in Users /\ s.gets = "none"
      /\ s.state = CASE s.call = "open" -> "Begin_Puts"
                     [] s.call = "openFile" -> "Gets"
                     [] OTHER -> "Login_Success"
      /\ s.call = "openFile" => s.size >= 0
      /\ k.state # "dead" => /\ k.state = CASE s.call = "stat" -> "Print"
                                            [] s.call = "open" -> "Begin_Puts"
                                            [] OTHER -> "Begin_Gets"
                             /\ LocalOK(k, l)
  BY AtCall
<1>2. CallOK(t) /\ t.conn = "connected"
  BY <1>1 DEF CallOK
<1>3. SessionOK(t) /\ t.state \in ServerStates /\ t.state # "Puts"
  BY <1>1 DEF SessionOK, ServerStates
<1>4. k.state = "dead" => Sent(k, s, r, f) = <<>>
  BY <1>1, SentNone
<1>5. ASSUME k.state # "dead"
      PROVE  Agree(k, <<>>, Sent(k, s, r, f), t) /\ LocalOK(k, l)
  <2> DEFINE a == Sent(k, s, r, f)
  <2>1. /\ Answer(a, f.kind) /\ a[1] = f /\ a # <<>> /\ Tail(a) = <<>>
        /\ At(<<>>, t, t.state) /\ t.conn = "connected"
    BY <1>1, <1>5, SentFirst DEF At
  <2> SUFFICES Agree(k, <<>>, a, t)
    BY <1>1, <1>5
  <2> HIDE DEF a
  <2>2. CASE s.call = "stat" /\ f.kind = "text"
    <3>1. k.state = "Print" /\ t.state = "Login_Success"
      BY <1>1, <1>5, <2>2
    <3> QED
      BY <2>1, <2>2, <3>1 DEF Agree, Waits
  <2>3. CASE s.call = "open" /\ f.kind = "ret" /\ f.val = 0
    <3>1. k.state = "Begin_Puts" /\ t.state = "Begin_Puts"
      BY <1>1, <1>5, <2>3
    <3> QED
      BY <2>1, <2>3, <3>1 DEF Agree
  <2>4. CASE s.call = "access" /\ f.kind = "long" /\ f.val = -1
    <3>1. k.state = "Begin_Gets" /\ t.state = "Login_Success"
      BY <1>1, <1>5, <2>4
    <3> QED
      BY <2>1, <2>4, <3>1 DEF Agree
  <2>5. CASE s.call = "openFile" /\ f.kind = "long" /\ f.val = s.size
    <3>1. k.state = "Begin_Gets" /\ t.state = "Gets" /\ s.size >= 0
      BY <1>1, <1>5, <2>5
    <3>2. Fed(Tail(a), a[1].val, t)
      <4>1. s.size \in Int
        BY DEF Ends, Sessions
      <4>2. Download(Tail(a), a[1].val, s.size)
        BY <2>1, <2>5, <4>1, DownloadNew
      <4> QED
        BY <3>1, <4>1, <4>2 DEF Fed
    <3> QED
      BY <2>1, <2>5, <3>1, <3>2 DEF Agree
  <2> QED
    BY <2>2, <2>3, <2>4, <2>5
<1> QED
  BY <1>1, <1>2, <1>3, <1>4, <1>5, TalkEmpty

(* The call is made, and the handler comes to its next. *)
LEMMA TalkGoesOn ==
  ASSUME NEW k, NEW l, NEW q, NEW r, NEW s, Ends(k, l, q, r, s), Talk(k, l, q, r, s),
         NEW t, t.in = s.in, t.gets = s.gets, t.conn = s.conn, t.user = s.user, t.cwd = s.cwd,
         \/ s.call = "access" /\ t.call = "statFile" /\ t.state = s.state
         \/ s.call = "statFile" /\ t.call = "openFile" /\ t.state = "Gets" /\ t.size >= 0
  PROVE  Talk(k, l, q, r, t)
<1>1. /\ q = <<>> /\ r = <<>> /\ s.conn = "connected" /\ s.user \in Users /\ s.gets = "none"
      /\ s.in # <<>> /\ s.in[1].kind = "command" /\ Leads(s, s.in[1].val.arg)
      /\ s.in[1].val.cmd = "gets"
      /\ s.state = "Login_Success"
      /\ k.state # "dead" => k.state = "Begin_Gets" /\ LocalOK(k, l)
  BY AtCall
<1>2. CallOK(t) /\ t.conn = "connected"
  BY <1>1 DEF CallOK, Leads, HereOf
<1>3. SessionOK(t) /\ t.state \in ServerStates /\ t.state # "Puts"
  BY <1>1 DEF SessionOK, ServerStates
<1>4. ASSUME k.state # "dead"
      PROVE  Agree(k, <<>>, r, t) /\ LocalOK(k, l)
  BY <1>1, <1>4 DEF Agree
<1> QED
  BY <1>1, <1>2, <1>3, <1>4, TalkEmpty

(* The size of an upload. *)
LEMMA TalkBeginPuts ==
  ASSUME NEW k, NEW l, NEW q, NEW r, NEW s, Ends(k, l, q, r, s), Talk(k, l, q, r, s),
         s.call = "none", q # <<>>, s.state = "Begin_Puts",
         NEW t, t.state = "Puts", t.call = "none", t.gets = s.gets, t.conn = s.conn,
         t.user = s.user, t.size = q[1].val,
         NEW f, f.kind = "ret"
  PROVE  Talk(k, l, Tail(q), Sent(k, s, r, f), t)
<1>1. q \in Seq(ToServer) /\ k.state \in ClientStates /\ s.conn = "connected"
  BY TakerConnected DEF Ends, ClientProcesses
<1>2. q[1].kind = "size"
  BY Expected DEF ServerExpects
<1>3. Len(q) <= 1
  BY DEF Talk, Script, ServerStates
<1>4. Len(q) = 1 /\ Tail(q) = <<>> /\ q[1] \in ToServer
  BY <1>1, <1>3, OneFrame
<1>5. t.size \in Int \ {0}
  BY <1>2, <1>4 DEF ToServer
<1>6. CallOK(t) /\ SessionOK(t) /\ t.state \in ServerStates /\ t.conn = "connected"
  BY <1>1 DEF Talk, CallOK, SessionOK, ServerStates, Ends, Sessions
<1>7. k.state = "dead" => Sent(k, s, r, f) = <<>>
  BY SentNone DEF Talk
<1>8. ASSUME k.state # "dead"
      PROVE  Agree(k, <<>>, Sent(k, s, r, f), t) /\ LocalOK(k, l)
  <2>1. Agree(k, q, r, s) /\ LocalOK(k, l)
    BY <1>8 DEF Talk
  <2>2. k.state = "Puts" /\ r = <<>> /\ q[1].val = k.size
    BY <1>1, <1>4, <1>8, <2>1 DEF Agree, At, Settled, Asked, Waits, ClientStates
  <2>3. Answer(Sent(k, s, r, f), "ret")
    BY <1>1, <1>8, <2>2, SentFirst
  <2>4. Agree(k, <<>>, Sent(k, s, r, f), t)
    BY <1>6, <2>2, <2>3 DEF Agree, At
  <2> QED
    BY <2>1, <2>4
<1> QED
  BY <1>4, <1>5, <1>6, <1>7, <1>8, TalkEmpty

(* A session that still has to take what comes before a command takes a frame of it. *)
LEMMA TalkSettles ==
  ASSUME NEW k, NEW l, NEW q, NEW r, NEW s, Ends(k, l, q, r, s), Talk(k, l, q, r, s),
         s.call = "none", q # <<>>, q[1].kind # "command", s.state \in {"Puts", "Gets"},
         NEW t, t.call = "none", t.conn = s.conn, t.user = s.user, t.cwd = s.cwd,
         t.gets = "none", t.state \in ServerStates, Script(Tail(q), t),
         Settled(q, s) => Settled(Tail(q), t),
         s.state = "Puts" =>
           \A m \in Int \ {0} : Upload(q, s.size, m) => t.state = "Puts" /\ Upload(Tail(q), t.size, m)
  PROVE  Talk(k, l, Tail(q), r, t)
<1> DEFINE p == Tail(q)
<1>1. q \in Seq(ToServer) /\ k.state \in ClientStates /\ s.conn = "connected" /\ Len(q) \in Nat \ {0}
  BY TakerConnected, EmptySeq DEF Ends, ClientProcesses
<1>2. p \in Seq(ToServer) /\ Len(p) = Len(q) - 1 /\ \A i \in 1 .. Len(p) : p[i] = q[i + 1]
  BY <1>1, HeadTailProperties
<1> HIDE DEF p
<1>3. Leading(p, t)
  <2>1. \A i \in 1 .. Len(p) : i + 1 \in 1 .. Len(q) /\ p[i] = q[i + 1]
    BY <1>1, <1>2
  <2> QED
    BY <2>1 DEF Talk, Leading, Leads, HereOf
<1>4. CallOK(t) /\ SessionOK(t) /\ Gone(k, p, t)
  BY <1>1 DEF Talk, CallOK, SessionOK, Gone, Ends, Sessions
<1>5. CASE k.state = "dead"
  BY <1>3, <1>4, <1>5 DEF Talk, p
<1>6. CASE k.state # "dead"
  <2>1. Agree(k, q, r, s) /\ LocalOK(k, l)
    BY <1>6 DEF Talk
  <2> SUFFICES Agree(k, p, r, t)
    BY <1>3, <1>4, <1>6, <2>1 DEF Talk, p
  <2>0. CASE k.state = "Endless"
    <3>1. r = <<>> /\ s.state = "Puts" /\ \E m \in Int \ {0} : Upload(q, s.size, m)
      BY <2>0, <2>1 DEF Agree
    <3>2. t.state = "Puts" /\ \E m \in Int \ {0} : Upload(p, t.size, m)
      BY <3>1 DEF p
    <3> QED
      BY <1>1, <2>0, <3>1, <3>2 DEF Agree
  <2> SUFFICES ASSUME k.state # "Endless" PROVE Agree(k, p, r, t)
    BY <2>0
  <2>2. /\ k.state \in {"Login_Success", "Print", "Mkdir", "Remove", "Cd", "Begin_Puts", "Begin_Gets"}
        /\ r = <<>> /\ Settled(q, s)
    BY <1>1, <1>6, <2>1 DEF Agree, At, Asked, Waits, ClientStates
  <2>3. Settled(p, t)
    BY <2>2 DEF p
  <2>4. ASSUME NEW cmds, Asked(q, s, cmds)
        PROVE  Asked(p, t, cmds)
    <3>1. Len(q) # 1
      BY <2>4 DEF Asked
    <3>2. Len(p) \in Nat \ {0} /\ Len(p) \in 1 .. Len(p) /\ p[Len(p)] = q[Len(q)] /\ p # <<>>
      BY <1>1, <1>2, <3>1, EmptySeq
    <3> QED
      BY <2>3, <2>4, <3>2 DEF Asked
  <2>5. (\A i \in 1 .. Len(q) : q[i].kind # "command") => \A i \in 1 .. Len(p) : p[i].kind # "command"
    <3>1. \A i \in 1 .. Len(p) : i + 1 \in 1 .. Len(q) /\ p[i] = q[i + 1]
      BY <1>1, <1>2
    <3> QED
      BY <3>1
  <2>6. t.conn = "connected" /\ r = <<>>
    BY <1>1, <2>2
  <2> QED
    <3>1. t.conn = "connected" /\ r = <<>>
      BY <2>6
    <3>2. CASE k.state = "Login_Success"
      BY <2>1, <2>3, <2>5, <3>1, <3>2 DEF Agree
    <3>3. CASE k.state \in {"Print", "Mkdir", "Remove", "Cd"}
      <4>1. \A cmds, kind : Waits(q, r, s, cmds, kind) => Waits(p, r, t, cmds, kind)
        BY <1>1, <2>2, <2>4 DEF Waits, At, Answer, Settled
      <4>2. k.state = "Print" => Waits(q, r, s, {"pwd", "ls"}, "text")
        BY <2>1 DEF Agree
      <4> QED
        BY <2>1, <3>1, <3>3, <4>1, <4>2 DEF Agree
    <3>4. CASE k.state = "Begin_Puts"
      <4>1. Asked(q, s, {"puts"})
        BY <2>1, <2>2, <3>4 DEF Agree, Answer, At
      <4> QED
        BY <2>4, <3>1, <3>4, <4>1 DEF Agree
    <3>5. CASE k.state = "Begin_Gets"
      <4>1. Asked(q, s, {"gets"})
        BY <2>1, <2>2, <3>5 DEF Agree, Answer, At
      <4> QED
        BY <2>4, <3>1, <3>5, <4>1 DEF Agree
    <3> QED
      BY <2>2, <3>2, <3>3, <3>4, <3>5
<1> QED
  BY <1>5, <1>6

(* A frame of an upload is taken: the rest of the announced size is awaited. *)
LEMMA TalkPutsData ==
  ASSUME NEW k, NEW l, NEW q, NEW r, NEW s, Ends(k, l, q, r, s), Talk(k, l, q, r, s),
         s.call = "none", q # <<>>, s.state = "Puts",
         NEW n, n = s.size - Len(q[1].val),
         NEW t, t.call = "none", t.gets = s.gets, t.conn = s.conn, t.user = s.user,
         t.cwd = s.cwd, t.size = n, t.state = IF n = 0 THEN "Login_Success" ELSE "Puts"
  PROVE  Talk(k, l, Tail(q), r, t)
<1> DEFINE p == Tail(q)
<1>1. PICK m \in Int : Upload(q, s.size, m)
  BY DEF Talk, Script, Uploading
<1>2. q \in Seq(ToServer) /\ s.size \in Int /\ q[1] \in ToServer /\ p \in Seq(ToServer)
  BY EmptySeq, HeadTailProperties, ElementOfSeq DEF Ends, Sessions
<1>3. q[1].kind = "data" /\ Len(q[1].val) \in Nat
  <2>1. q[1].kind = "data"
    BY Expected DEF ServerExpects
  <2>2. q[1].val \in Seq(Text)
    BY <1>2, <2>1 DEF ToServer
  <2> QED
    BY <2>1, <2>2, LenProperties
<1>4. \A b \in Int : Upload(q, s.size, b) => Upload(p, n, b)
  BY <1>2, <1>3, UploadTail
<1>5. n \in Int /\ Upload(p, n, m)
  BY <1>1, <1>2, <1>3, <1>4
<1>6. n = 0 => Len(p) <= 1 /\ (p # <<>> => p[1].kind = "command")
  BY <1>2, <1>5, UploadHead
<1> HIDE DEF p
<1>7. Script(p, t)
  <2>1. Uploading(p, n)
    BY <1>5 DEF Uploading
  <2>2. CASE n = 0
    BY <1>6, <2>2 DEF Script, ServerExpects
  <2>3. CASE n # 0
    BY <2>1, <2>3 DEF Script
  <2> QED
    BY <2>2, <2>3
<1>8. Settled(q, s) => Settled(p, t)
  <2>1. Settled(q, s) => Upload(p, n, 0)
    BY <1>4 DEF Settled
  <2> QED
    BY <2>1 DEF Settled
<1>9. t.gets = "none" /\ t.state \in ServerStates /\ q[1].kind # "command"
  BY <1>3 DEF Talk, SessionOK, Ends, Sessions, ServerStates
<1>10. ASSUME NEW b \in Int \ {0}, Upload(q, s.size, b)
       PROVE  t.state = "Puts" /\ Upload(p, t.size, b)
  <2>1. Upload(p, n, b)
    BY <1>4, <1>10 DEF p
  <2>2. n # 0
    BY <1>2, <1>10, <2>1, UploadDone DEF p
  <2> QED
    BY <2>1, <2>2
<1> QED
  BY <1>7, <1>8, <1>9, <1>10, TalkSettles DEF p

(* The frame that follows a download ends it: the session takes commands again. *)
LEMMA TalkGetsAck ==
  ASSUME NEW k, NEW l, NEW q, NEW r, NEW s, Ends(k, l, q, r, s), Talk(k, l, q, r, s),
         s.call = "none", q # <<>>, s.state = "Gets",
         NEW t, t.call = "none", t.gets = "none", t.conn = s.conn, t.user = s.user,
         t.cwd = s.cwd, t.state = "Login_Success"
  PROVE  Talk(k, l, Tail(q), r, t)
<1> DEFINE p == Tail(q)
<1>1. q \in Seq(ToServer) /\ Len(q) \in Nat \ {0}
  BY EmptySeq DEF Ends
<1>2. p \in Seq(ToServer) /\ Len(p) = Len(q) - 1 /\ \A i \in 1 .. Len(p) : p[i] = q[i + 1]
  BY <1>1, HeadTailProperties
<1>3. Len(q) <= 2 /\ q[1].kind = "ack" /\ (Len(q) = 2 => q[2].kind = "command")
  BY DEF Talk, Script
<1> HIDE DEF p
<1>4. Len(p) <= 1 /\ (p # <<>> => p[1].kind = "command")
  <2>1. p # <<>> => Len(p) \in Nat \ {0}
    BY <1>2, EmptySeq
  <2>2. p # <<>> => Len(q) = 2 /\ p[1] = q[1 + 1]
    BY <1>1, <1>2, <1>3, <2>1
  <2> QED
    BY <1>1, <1>2, <1>3, <2>2
<1>5. Script(p, t) /\ Settled(p, t)
  BY <1>4 DEF Script, Settled, ServerStates, ServerExpects
<1>6. t.state \in ServerStates /\ q[1].kind # "command"
  BY <1>3 DEF ServerStates
<1> QED
  BY <1>5, <1>6, TalkSettles DEF p

(* The client is sent one more frame of the file. *)
LEMMA FedAppend ==
  ASSUME NEW r \in Seq(ToClient), NEW n \in Int, NEW s, Fed(r, n, s), s.size \in Int \ {0},
         NEW f \in ToClient, f.kind = "data", Len(f.val) \in Nat,
         NEW t, t.file = s.file, t.size \in Int,
         IF s.file = 0 THEN Len(f.val) = 0 /\ (s.size > 0 => t.size > 0)
                       ELSE t.size = s.size - Len(f.val)
  PROVE  Fed(Append(r, f), n, t)
<1>1. PICK m \in Int : /\ Download(r, n, m)
                       /\ IF s.file = 0 THEN s.size >= 0 /\ (m = 0 <=> s.size = 0) ELSE m = s.size
  BY DEF Fed
<1>2. m # 0
  BY <1>1
<1>3. Download(Append(r, f), n, m - Len(f.val)) /\ m - Len(f.val) \in Int
  BY <1>1, <1>2, DownloadAppend
<1>4. IF t.file = 0 THEN t.size >= 0 /\ (m - Len(f.val) = 0 <=> t.size = 0) ELSE m - Len(f.val) = t.size
  <2>1. CASE s.file = 0
    <3>1. t.size > 0 /\ Len(f.val) = 0
      BY <1>1, <2>1
    <3>2. t.size >= 0 /\ t.size # 0 /\ m - Len(f.val) # 0
      BY <1>2, <3>1
    <3> QED
      BY <2>1, <3>2
  <2>2. CASE s.file # 0
    BY <1>1, <2>2
  <2> QED
    BY <2>1, <2>2
<1> QED
  BY <1>3, <1>4 DEF Fed

(* A part of the file is sent, or nothing of one that did not open. *)
LEMMA TalkGetsData ==
  ASSUME NEW k, NEW l, NEW q, NEW r, NEW s, Ends(k, l, q, r, s), Talk(k, l, q, r, s),
         s.call = "none", s.state = "Gets", s.size # 0, s.gets = "added",
         NEW f \in ToClient, f.kind = "data", Len(f.val) \in Nat,
         NEW t, t.call = "none", t.gets = s.gets, t.conn = s.conn, t.user = s.user,
         t.cwd = s.cwd, t.state = s.state, t.in = s.in, t.file = s.file,
         t.size \in Int,
         IF s.file = 0 THEN Len(f.val) = 0 /\ (s.size > 0 => t.size > 0)
                       ELSE t.size = s.size - Len(f.val)
  PROVE  Talk(k, l, q, Sent(k, s, r, f), t)
<1>1. /\ k.state \in ClientStates /\ r \in Seq(ToClient) /\ s.size \in Int
      /\ k.size \in Int /\ k.cur \in Int
  BY DEF Ends, ClientProcesses, Sessions
<1>2. Script(q, t) /\ Leading(q, t) /\ CallOK(t) /\ SessionOK(t) /\ Gone(k, q, t)
  BY DEF Talk, Script, Leading, Leads, HereOf, CallOK, SessionOK, Gone
<1>3. CASE k.state = "dead"
  BY <1>2, <1>3, SentNone DEF Talk
<1>4. CASE k.state # "dead"
  <2>1. Agree(k, q, r, s) /\ LocalOK(k, l) /\ s.conn = "connected"
    BY <1>4 DEF Talk, Agree
  <2>2. q = <<>>
        /\ \/ /\ k.state = "Begin_Gets" /\ r # <<>> /\ r[1].kind = "long" /\ r[1].val >= 0
              /\ Fed(Tail(r), r[1].val, s)
           \/ k.state = "Gets" /\ Fed(r, k.size - k.cur, s)
    BY <1>1, <1>4, <2>1 DEF Agree, At, Settled, Asked, Waits, ClientStates
  <2>3. Sent(k, s, r, f) = Append(r, f) /\ At(q, t, "Gets") /\ t.conn = "connected"
    BY <1>4, <2>1, <2>2 DEF Sent, At
  <2>4. CASE k.state = "Gets"
    <3>0. k.size - k.cur \in Int /\ Fed(r, k.size - k.cur, s)
      BY <1>1, <2>2, <2>4
    <3>1. Fed(Append(r, f), k.size - k.cur, t)
      BY <1>1, <3>0, FedAppend
    <3> QED
      BY <1>2, <2>1, <2>3, <2>4, <3>1 DEF Talk, Agree
  <2>5. CASE k.state = "Begin_Gets"
    <3>1. r # <<>> /\ r[1].kind = "long" /\ r[1].val >= 0 /\ Fed(Tail(r), r[1].val, s)
      BY <2>2, <2>5
    <3>2. Tail(r) \in Seq(ToClient) /\ r[1] \in ToClient /\ Len(r) \in Nat \ {0}
      BY <1>1, <3>1, HeadTailProperties, EmptySeq, ElementOfSeq
    <3>3. r[1].val \in Int
      BY <3>1, <3>2 DEF ToClient
    <3>4. Fed(Append(Tail(r), f), r[1].val, t)
      BY <1>1, <3>1, <3>2, <3>3, FedAppend
    <3>5. /\ Append(r, f) # <<>> /\ Append(r, f)[1] = r[1]
          /\ Tail(Append(r, f)) = Append(Tail(r), f)
      BY <1>1, <3>1, <3>2, AppendProperties, HeadTailAppend
    <3>6. Agree(k, q, Append(r, f), t)
      BY <2>3, <2>5, <3>1, <3>4, <3>5 DEF Agree
    <3> QED
      BY <1>2, <1>4, <2>1, <2>3, <3>6 DEF Talk
  <2> QED
    BY <2>2, <2>4, <2>5
<1> QED
  BY <1>3, <1>4
-----------------------------------------------------------------------------
(* What an action does to a session and its client: the client *)

(* A step of a living client leaves the server's end of the session alone. *)
LEMMA TalkClient ==
  ASSUME NEW k, NEW l, NEW q, NEW r, NEW s, Talk(k, l, q, r, s),
         NEW k2, NEW l2, NEW q2, NEW r2, k2.state # "dead",
         Script(q2, s), Leading(q2, s), Agree(k2, q2, r2, s), LocalOK(k2, l2)
  PROVE  Talk(k2, l2, q2, r2, s)
<1>1. Gone(k2, q2, s)
  BY DEF Agree, Gone
<1> QED
  BY <1>1 DEF Talk

(* A client that has nothing to do with its files. *)
LEMMA LocalRests ==
  ASSUME NEW k, NEW l, LocalOK(k, l), k.state # "Gets",
         NEW k2, k2.state \notin {"Begin_Puts", "Puts", "Begin_Gets", "Gets"}
  PROVE  LocalOK(k2, l)
BY DEF LocalOK

(* The session has nothing to begin, and its client sends one frame. *)
LEMMA QueueOne ==
  ASSUME NEW q, q = <<>>, NEW f \in ToServer
  PROVE  q \o <<f>> = <<f>> /\ Len(<<f>>) = 1 /\ <<f>>[1] = f /\ <<f>> # <<>>
<1>1. <<f>> \in Seq(ToServer) /\ Len(<<f>>) = 1 /\ <<f>>[1] = f /\ <<f>> # <<>>
  OBVIOUS
<1> QED
  BY <1>1, ConcatEmptySeq

(* The user types a menu choice and what goes with it. *)
LEMMA TalkTypesMenu ==
  ASSUME NEW k, NEW l, NEW q, NEW r, NEW s, Ends(k, l, q, r, s), Talk(k, l, q, r, s),
         k.state = "Init",
         NEW f \in ToServer, f.kind = "menu",
         NEW g \in ToServer, g.kind = IF f.val = "0" THEN "account" ELSE "user",
         NEW k2, k2.state = IF f.val = "0" THEN "Registering" ELSE "Logining_Step1"
  PROVE  Talk(k2, l, q \o <<f, g>>, r, s)
<1>1. /\ Agree(k, q, r, s) /\ LocalOK(k, l)
      /\ q = <<>> /\ r = <<>> /\ s.call = "none" /\ s.state = "Init" /\ s.conn = "connected"
  BY DEF Talk, Agree, At
<1> DEFINE p == <<f, g>>
<1>2. p \in Seq(ToServer) /\ Len(p) = 2 /\ p[1] = f /\ p[2] = g /\ p # <<>>
  OBVIOUS
<1>3. q \o p = p
  BY <1>1, <1>2, ConcatEmptySeq
<1> HIDE DEF p
<1>4. Script(p, s)
  BY <1>1, <1>2 DEF Script
<1>5. Leading(p, s)
  <2>1. \A i \in 1 .. Len(p) : i = 1 \/ i = 2
    BY <1>2
  <2>2. p[1].kind # "command" /\ p[2].kind # "command"
    BY <1>2
  <2> QED
    BY <2>1, <2>2 DEF Leading
<1>6. Agree(k2, p, r, s)
  BY <1>1, <1>2 DEF Agree
<1>7. LocalOK(k2, l)
  BY <1>1, LocalRests
<1>8. k2.state # "dead"
  OBVIOUS
<1> QED
  BY <1>3, <1>4, <1>5, <1>6, <1>7, <1>8, TalkClient DEF p

(* The user types a command, whichever it is. *)
LEMMA TalkTypesCommand ==
  ASSUME NEW k, NEW l, NEW q, NEW r, NEW s, Ends(k, l, q, r, s), Talk(k, l, q, r, s),
         k.state = "Login_Success",
         NEW f \in ToServer, f.kind = "command", f.val.arg \in Params => Leads(s, f.val.arg),
         NEW k2, k2.state = Waiting[f.val.cmd], LocalOK(k2, l)
  PROVE  Talk(k2, l, q \o <<f>>, r, s)
<1> DEFINE p == Append(q, f)
<1>1. /\ Agree(k, q, r, s) /\ r = <<>> /\ s.conn = "connected"
      /\ Settled(q, s) /\ \A i \in 1 .. Len(q) : q[i].kind # "command"
  BY DEF Talk, Agree
<1>2. q \in Seq(ToServer) /\ Len(q) \in Nat /\ s.size \in Int /\ f.val \in Lines
  BY LenProperties DEF Ends, Sessions, ToServer
<1>3. p = q \o <<f>>
  BY <1>2, AppendIsConcat
<1>4. /\ p \in Seq(ToServer) /\ p # <<>> /\ Len(p) = Len(q) + 1 /\ p[Len(p)] = f
      /\ \A i \in 1 .. Len(q) : p[i] = q[i]
  BY <1>2, AppendProperties
<1> HIDE DEF p
<1>5. Script(p, s) /\ Settled(p, s)
  <2>1. CASE s.state = "Login_Success"
    <3>1. q = <<>>
      <4>1. q # <<>> => Len(q) = 1 /\ q[1].kind = "command"
        BY <1>2, <2>1, OneFrame DEF Talk, Script, ServerStates, ServerExpects
      <4> QED
        BY <1>1, <4>1
    <3>2. Len(p) = 1 /\ p[1] = f
      BY <1>4, <3>1, EmptySeq
    <3> QED
      BY <1>1, <2>1, <3>2 DEF Script, Settled, ServerExpects
  <2>2. CASE s.state = "Puts"
    <3>1. Upload(q, s.size, 0) /\ s.size # 0
      BY <1>1, <2>2 DEF Settled, Talk, Script
    <3>2. Upload(p, s.size, 0)
      BY <1>1, <1>2, <3>1, UploadCommand DEF p
    <3>3. Uploading(p, s.size)
      BY <3>2 DEF Uploading
    <3> QED
      BY <1>1, <2>2, <3>1, <3>2, <3>3 DEF Script, Settled
  <2>3. CASE s.state = "Gets"
    <3>1. q # <<>> /\ s.size = 0 /\ Len(q) <= 2 /\ q[1].kind = "ack" /\ (Len(q) = 2 => q[2].kind = "command")
      BY <1>1, <2>3 DEF Settled, Talk, Script
    <3>2. Len(q) \in Nat \ {0}
      BY <1>2, <3>1, EmptySeq
    <3>3. Len(q) # 2
      BY <1>1, <3>1
    <3>4. Len(q) = 1
      <4>1. \A n \in Nat \ {0} : n <= 2 /\ n # 2 => n = 1
        OBVIOUS
      <4> QED
        BY <3>1, <3>2, <3>3, <4>1
    <3>5. Len(p) = 2 /\ p[1] = q[1] /\ p[2] = f
      BY <1>4, <3>4
    <3> QED
      BY <1>1, <1>4, <2>3, <3>1, <3>5 DEF Script, Settled
  <2> QED
    BY <1>1, <2>1, <2>2, <2>3 DEF Settled
<1>6. Leading(p, s)
  <2>1. ASSUME NEW i \in 1 .. Len(p), p[i].kind = "command"
        PROVE  p[i] = f
    <3>1. i \in 1 .. Len(q) \/ i = Len(p)
      BY <1>2, <1>4
    <3> QED
      BY <1>1, <1>4, <2>1, <3>1
  <2> QED
    BY <2>1 DEF Leading
<1>7. Asked(p, s, {f.val.cmd})
  BY <1>4, <1>5 DEF Asked
<1>8. f.val.cmd \in {"pwd", "ls", "mkdir", "remove", "cd", "puts", "gets"}
  BY <1>2 DEF Lines
<1>9. Agree(k2, p, r, s) /\ k2.state # "dead"
  <2>1. \A cmds, kind : f.val.cmd \in cmds => Waits(p, r, s, cmds, kind) /\ Asked(p, s, cmds)
    BY <1>1, <1>7 DEF Waits, Asked
  <2>2. CASE f.val.cmd \in {"pwd", "ls"}
    <3>1. k2.state = "Print" /\ Waits(p, r, s, {"pwd", "ls"}, "text")
      BY <2>1, <2>2 DEF Waiting
    <3> QED
      BY <1>1, <3>1 DEF Agree
  <2>3. CASE f.val.cmd \in {"mkdir", "remove", "cd"}
    <3>1. /\ k2.state \in {"Mkdir", "Remove", "Cd"}
          /\ k2.state = "Mkdir" => f.val.cmd = "mkdir"
          /\ k2.state = "Remove" => f.val.cmd = "remove"
          /\ k2.state = "Cd" => f.val.cmd = "cd"
      BY <2>3 DEF Waiting
    <3> QED
      BY <1>1, <2>1, <3>1 DEF Agree
  <2>4. CASE f.val.cmd = "puts"
    <3>1. k2.state = "Begin_Puts" /\ Asked(p, s, {"puts"})
      BY <2>1, <2>4 DEF Waiting
    <3> QED
      BY <1>1, <3>1 DEF Agree
  <2>5. CASE f.val.cmd = "gets"
    <3>1. k2.state = "Begin_Gets" /\ Asked(p, s, {"gets"})
      BY <2>1, <2>5 DEF Waiting
    <3> QED
      BY <1>1, <3>1 DEF Agree
  <2> QED
    BY <1>8, <2>2, <2>3, <2>4, <2>5
<1> QED
  BY <1>3, <1>5, <1>6, <1>9, TalkClient

(* An answer, and the client goes back to its user. *)
LEMMA TalkToUser ==
  ASSUME NEW k, NEW l, NEW q, NEW r, NEW s, Ends(k, l, q, r, s), Talk(k, l, q, r, s), r # <<>>,
         NEW k2,
         \/ k.state = "Registering" /\ k2.state = "Init"
         \/ k.state = "Logining_Step1" /\ ~r[1].val /\ k2.state = "Init"
         \/ k.state = "Logining_Step2" /\ k2.state = IF r[1].val = 0 THEN "Login_Success" ELSE "Init"
         \/ k.state \in {"Print", "Mkdir", "Remove", "Cd"} /\ k2.state = "Login_Success"
         \/ k.state = "Begin_Puts" /\ r[1].val # 0 /\ k2.state = "Login_Success"
         \/ k.state = "Begin_Gets" /\ r[1].val < 0 /\ k2.state = "Login_Success"
  PROVE  Talk(k2, l, q, Tail(r), s)
<1>1. Agree(k, q, r, s) /\ LocalOK(k, l) /\ s.conn = "connected" /\ Script(q, s) /\ Leading(q, s)
  BY DEF Talk, Agree
<1>2. r \in Seq(ToClient)
  BY DEF Ends
<1>3. Len(r) = 1 => Tail(r) = <<>>
  BY <1>2, OneAnswer
<1>4. Len(r) = 1 /\ At(q, s, k2.state) /\ k2.state \in {"Init", "Login_Success"}
  <2>1. CASE k.state = "Registering" /\ k2.state = "Init"
    BY <1>1, <2>1 DEF Agree, Answer
  <2>2. CASE k.state = "Logining_Step1" /\ ~r[1].val /\ k2.state = "Init"
    BY <1>1, <2>2 DEF Agree, Answer
  <2>3. CASE k.state = "Logining_Step2" /\ k2.state = IF r[1].val = 0 THEN "Login_Success" ELSE "Init"
    BY <1>1, <2>3 DEF Agree, Answer
  <2>4. CASE k.state \in {"Print", "Mkdir", "Remove", "Cd"} /\ k2.state = "Login_Success"
    BY <1>1, <2>4 DEF Agree, Waits, Answer
  <2>5. CASE k.state = "Begin_Puts" /\ r[1].val # 0 /\ k2.state = "Login_Success"
    BY <1>1, <2>5 DEF Agree, Answer
  <2>6. CASE k.state = "Begin_Gets" /\ r[1].val < 0 /\ k2.state = "Login_Success"
    <3>1. r[1].kind = "long" => ~(r[1].val >= 0)
      <4>1. r[1] \in ToClient
        BY <1>2, EmptySeq, ElementOfSeq
      <4>2. r[1].kind = "long" => r[1].val \in Int
        BY <4>1 DEF ToClient
      <4> QED
        BY <2>6, <4>2
    <3> QED
      BY <1>1, <2>6, <3>1 DEF Agree, Answer
  <2> QED
    BY <2>1, <2>2, <2>3, <2>4, <2>5, <2>6
<1>5. Agree(k2, q, <<>>, s)
  <2>1. CASE k2.state = "Init"
    BY <1>1, <1>4, <2>1 DEF Agree
  <2>2. CASE k2.state = "Login_Success"
    <3>1. Settled(q, s) /\ \A i \in 1 .. Len(q) : q[i].kind # "command"
      BY <1>4, <2>2, EmptySeq DEF At, Settled
    <3> QED
      BY <1>1, <2>2, <3>1 DEF Agree
  <2> QED
    BY <1>4, <2>1, <2>2
<1>6. LocalOK(k2, l) /\ k2.state # "dead"
  <2>1. k.state # "Gets"
    OBVIOUS
  <2> QED
    BY <1>1, <1>4, <2>1, LocalRests
<1> QED
  BY <1>1, <1>3, <1>4, <1>5, <1>6, TalkClient

(* An answer, and the client sends one frame more: a password, or the size of a file. *)
LEMMA TalkSendsOne ==
  ASSUME NEW k, NEW l, NEW q, NEW r, NEW s, Ends(k, l, q, r, s), Talk(k, l, q, r, s), r # <<>>,
         NEW k2, k2.file = k.file, NEW f \in ToServer,
         \/ k.state = "Logining_Step1" /\ r[1].val /\ k2.state = "Logining_Step2" /\ f.kind = "secret"
         \/ /\ k.state = "Begin_Puts" /\ r[1].val = 0 /\ k2.state = "Puts"
            /\ k2.size = Len(l[k.file]) /\ f.kind = "size" /\ f.val = k2.size
  PROVE  Talk(k2, l, q \o <<f>>, Tail(r), s)
<1>1. Agree(k, q, r, s) /\ LocalOK(k, l) /\ s.conn = "connected"
  BY DEF Talk, Agree
<1>2. r \in Seq(ToClient)
  BY DEF Ends
<1>3. Len(r) = 1 => Tail(r) = <<>>
  BY <1>2, OneAnswer
<1>4. /\ Len(r) = 1 /\ q = <<>> /\ s.call = "none"
      /\ s.state = IF k2.state = "Puts" THEN "Begin_Puts" ELSE "Logining_Step2"
  <2>1. CASE k.state = "Logining_Step1" /\ r[1].val /\ k2.state = "Logining_Step2"
    BY <1>1, <2>1 DEF Agree, Answer, At
  <2>2. CASE k.state = "Begin_Puts" /\ r[1].val = 0 /\ k2.state = "Puts"
    BY <1>1, <2>2 DEF Agree, Answer, At
  <2> QED
    BY <2>1, <2>2
<1> DEFINE p == <<f>>
<1>5. q \o p = p /\ Len(p) = 1 /\ p[1] = f /\ p # <<>>
  BY <1>4, QueueOne
<1> HIDE DEF p
<1>6. Script(p, s)
  BY <1>4, <1>5 DEF Script, ServerStates, ServerExpects
<1>7. Leading(p, s)
  <2>1. \A i \in 1 .. Len(p) : i = 1
    BY <1>5
  <2> QED
    BY <1>5, <2>1 DEF Leading
<1>8. Agree(k2, p, <<>>, s) /\ k2.state # "dead"
  BY <1>1, <1>4, <1>5 DEF Agree
<1>9. LocalOK(k2, l)
  BY <1>1 DEF LocalOK
<1> QED
  BY <1>3, <1>4, <1>5, <1>6, <1>7, <1>8, <1>9, TalkClient DEF p

(* The file is sent. *)
LEMMA TalkPuts ==
  ASSUME NEW k, NEW l, NEW q, NEW r, NEW s, Ends(k, l, q, r, s), Talk(k, l, q, r, s), r # <<>>,
         k.state = "Puts", NEW k2, k2.state = "Login_Success"
  PROVE  /\ Talk(k2, l, q \o Chunks(l[k.file]), Tail(r), s)
         /\ Chunks(l[k.file]) \in Seq(ToServer)
<1>1. /\ Agree(k, q, r, s) /\ LocalOK(k, l) /\ s.conn = "connected"
      /\ Len(r) = 1 /\ q = <<>> /\ s.call = "none" /\ s.state = "Puts" /\ s.size = k.size
  BY DEF Talk, Agree, Answer, At
<1>2. Tail(r) = <<>>
  BY <1>1, OneAnswer DEF Ends
<1> DEFINE a == l[k.file]
           p == Chunks(a)
<1>3. a \in Seq(Text) /\ a # <<>> /\ s.size = Len(a)
  BY <1>1 DEF LocalOK
<1> HIDE DEF a
<1>4. /\ p \in Seq(ToServer) /\ Upload(p, s.size, 0)
      /\ \A i \in 1 .. Len(p) : p[i].kind = "data"
  BY <1>3, UploadNew
<1>5. q \o p = p
  BY <1>1, <1>4, ConcatEmptySeq
<1> HIDE DEF p
<1>6. Script(p, s) /\ Leading(p, s)
  <2>1. s.size # 0
    BY <1>1 DEF Talk, Script
  <2>2. Uploading(p, s.size)
    BY <1>4 DEF Uploading
  <2> QED
    BY <1>1, <1>4, <2>1, <2>2 DEF Script, Leading
<1>7. Agree(k2, p, <<>>, s)
  <2>1. Settled(p, s) /\ \A i \in 1 .. Len(p) : p[i].kind # "command"
    BY <1>1, <1>4 DEF Settled
  <2> QED
    BY <1>1, <2>1 DEF Agree
<1>8. LocalOK(k2, l) /\ k2.state # "dead"
  BY <1>1, LocalRests
<1> QED
  BY <1>2, <1>4, <1>5, <1>6, <1>7, <1>8, TalkClient DEF p, a

(* The file cannot be read, and the client never comes to its end. *)
LEMMA TalkPutsFails ==
  ASSUME NEW k, NEW l, NEW q, NEW r, NEW s, Ends(k, l, q, r, s), Talk(k, l, q, r, s), r # <<>>,
         k.state = "Puts", NEW k2, k2.state = "Endless"
  PROVE  Talk(k2, l, q, Tail(r), s)
<1>1. /\ Agree(k, q, r, s) /\ LocalOK(k, l) /\ s.conn = "connected"
      /\ Len(r) = 1 /\ q = <<>> /\ s.call = "none" /\ s.state = "Puts"
  BY DEF Talk, Agree, Answer, At
<1>2. Tail(r) = <<>>
  BY <1>1, OneAnswer DEF Ends
<1>3. Script(q, s) /\ Leading(q, s) /\ s.size \in Int \ {0}
  BY <1>1 DEF Talk, Script, Ends, Sessions
<1>4. Upload(q, s.size, s.size)
  <2> DEFINE left == [i \in 0 .. 0 |-> s.size]
  <2>1. left \in [0 .. 0 -> Int] /\ left[0] = s.size /\ Len(q) = 0
    BY <1>1, <1>3, EmptySeq
  <2> HIDE DEF left
  <2> QED
    BY <2>1 DEF Upload
<1>5. Agree(k2, q, <<>>, s) /\ k2.state # "dead"
  BY <1>1, <1>3, <1>4 DEF Agree
<1>6. LocalOK(k2, l)
  BY <1>1, LocalRests
<1> QED
  BY <1>2, <1>3, <1>5, <1>6, TalkClient

(* It sends frames without end, and nothing in them. *)
LEMMA TalkEndless ==
  ASSUME NEW k, NEW l, NEW q, NEW r, NEW s, Ends(k, l, q, r, s), Talk(k, l, q, r, s),
         k.state = "Endless", NEW f \in ToServer, f.kind = "data", Len(f.val) = 0
  PROVE  Talk(k, l, q \o <<f>>, r, s)
<1> DEFINE p == Append(q, f)
<1>1. /\ Agree(k, q, r, s) /\ LocalOK(k, l) /\ s.conn = "connected" /\ r = <<>>
      /\ s.call = "none" /\ s.state = "Puts" /\ Leading(q, s)
  BY DEF Talk, Agree
<1>2. q \in Seq(ToServer) /\ s.size \in Int /\ s.size # 0 /\ Len(q) \in Nat
  BY <1>1, LenProperties DEF Talk, Script, Ends, Sessions
<1>3. p = q \o <<f>>
  BY <1>2, AppendIsConcat
<1>4. PICK m \in Int \ {0} : Upload(q, s.size, m)
  BY <1>1 DEF Agree
<1>5. Upload(p, s.size, m)
  <2>0. m \in Int /\ m # 0 /\ Len(f.val) \in Nat
    BY <1>4
  <2>1. Upload(p, s.size, m - Len(f.val))
    BY <1>2, <1>4, <2>0, UploadMore
  <2>2. m - Len(f.val) = m
    BY <2>0
  <2> QED
    BY <2>1, <2>2
<1>6. Len(p) = Len(q) + 1 /\ p[Len(p)] = f /\ \A i \in 1 .. Len(q) : p[i] = q[i]
  BY <1>2, AppendProperties
<1> HIDE DEF p
<1>7. Script(p, s)
  BY <1>1, <1>2, <1>4, <1>5 DEF Script, Uploading
<1>8. Leading(p, s)
  <2>1. ASSUME NEW i \in 1 .. Len(p), p[i].kind = "command"
        PROVE  i \in 1 .. Len(q) /\ p[i] = q[i]
    BY <1>2, <1>6, <2>1
  <2> QED
    BY <1>1, <2>1 DEF Leading
<1>9. Agree(k, p, r, s) /\ k.state # "dead"
  BY <1>1, <1>4, <1>5 DEF Agree
<1> QED
  BY <1>1, <1>3, <1>7, <1>8, <1>9, TalkClient

(* The size of a file that comes. *)
LEMMA TalkBeginGets ==
  ASSUME NEW k, NEW l, NEW q, NEW r, NEW s, Ends(k, l, q, r, s), Talk(k, l, q, r, s), r # <<>>,
         k.state = "Begin_Gets", r[1].val >= 0,
         NEW k2, k2.state = "Gets", k2.file = k.file, k2.size = r[1].val, k2.cur = 0,
         NEW made
  PROVE  /\ Talk(k2, [l EXCEPT ![k.file] = made], q, Tail(r), s)
         /\ r[1].val \in Nat /\ k.file \in Params
<1>1. Agree(k, q, r, s) /\ LocalOK(k, l) /\ s.conn = "connected" /\ Script(q, s) /\ Leading(q, s)
  BY DEF Talk, Agree
<1>2. r[1] \in ToClient
  BY EmptySeq, ElementOfSeq DEF Ends
<1>3. r[1].kind = "long"
  BY <1>1 DEF Agree, Answer
<1>4. r[1].val \in Nat
  <2>1. r[1].val \in Int
    BY <1>2, <1>3 DEF ToClient
  <2> QED
    BY <2>1
<1>5. At(q, s, "Gets") /\ Fed(Tail(r), r[1].val, s)
  <2>1. ~(r[1].val < 0)
    BY <1>4
  <2> QED
    BY <1>1, <2>1 DEF Agree
<1>6. k2.size - k2.cur = r[1].val
  BY <1>4
<1>7. Agree(k2, q, Tail(r), s)
  BY <1>1, <1>5, <1>6 DEF Agree
<1>8. k.file \in Params
  BY <1>1 DEF LocalOK
<1>9. LocalOK(k2, [l EXCEPT ![k.file] = made])
  <2> DEFINE m == [l EXCEPT ![k.file] = made]
  <2>1. \A n \in Params \ {k.file} : m[n] = l[n]
    BY <1>8 DEF Ends, LocalFiles
  <2> HIDE DEF m
  <2> QED
    BY <1>1, <1>8, <2>1 DEF LocalOK, m
<1> QED
  BY <1>1, <1>4, <1>7, <1>8, <1>9, TalkClient

(* The files of a client to whose file n data has been added, if it could be made. *)
Fetched(l, n, data) == [l EXCEPT ![n] = IF @ = NoFile THEN @ ELSE @ \o data]

(* A part of the file comes. *)
LEMMA TalkGets ==
  ASSUME NEW k, NEW l, NEW q, NEW r, NEW s, Ends(k, l, q, r, s), Talk(k, l, q, r, s), r # <<>>,
         k.state = "Gets",
         NEW cur, cur = k.cur + Len(r[1].val),
         NEW k2, k2.file = k.file, k2.size = k.size, k2.cur = cur,
         k2.state = IF cur = k.size THEN "Login_Success" ELSE "Gets",
         NEW m, m = Fetched(l, k.file, r[1].val)
  PROVE  /\ cur # k.size => Talk(k2, m, q, Tail(r), s)
         /\ cur = k.size => Talk(k2, m, q \o <<Frame("ack", 0)>>, Tail(r), s)
         /\ k.file \in Params /\ cur \in Nat /\ m \in LocalFiles
<1>1. Agree(k, q, r, s) /\ LocalOK(k, l) /\ s.conn = "connected" /\ Script(q, s) /\ Leading(q, s)
  BY DEF Talk, Agree
<1>2. /\ r \in Seq(ToClient) /\ s.size \in Int /\ k.size \in Nat /\ k.cur \in Nat
      /\ r[1] \in ToClient /\ Tail(r) \in Seq(ToClient)
  BY EmptySeq, ElementOfSeq, HeadTailProperties DEF Ends, Sessions, ClientProcesses
<1>3. At(q, s, "Gets") /\ Fed(r, k.size - k.cur, s) /\ k.size - k.cur \in Int
  BY <1>1, <1>2 DEF Agree
<1>4. r[1].kind = "data" /\ k.size - k.cur # 0
  <2>1. PICK n \in Int : Download(r, k.size - k.cur, n)
    BY <1>3 DEF Fed
  <2> QED
    BY <1>2, <1>3, <2>1, DownloadTail
<1> DEFINE data == r[1].val
           part == l[k.file]
           whole == IF part = NoFile THEN part ELSE part \o data
<1>5. data \in Seq(Text) /\ Len(data) \in Nat
  <2>1. data \in Seq(Text)
    BY <1>2, <1>4 DEF ToClient
  <2> QED
    BY <2>1, LenProperties
<1>6. k.file \in Params /\ part \in Seq(Text) \cup {NoFile}
  BY <1>1 DEF LocalOK, Ends, LocalFiles
<1>7. cur \in Nat /\ Fed(Tail(r), k.size - cur, s)
  <2>1. PICK n \in Int : /\ Download(r, k.size - k.cur, n)
                         /\ IF s.file = 0 THEN s.size >= 0 /\ (n = 0 <=> s.size = 0) ELSE n = s.size
    BY <1>3 DEF Fed
  <2>2. Download(Tail(r), (k.size - k.cur) - Len(data), n)
    BY <1>2, <1>3, <1>5, <2>1, DownloadTail
  <2>3. cur \in Nat /\ (k.size - k.cur) - Len(data) = k.size - cur
    BY <1>2, <1>5
  <2> QED
    BY <2>1, <2>2, <2>3 DEF Fed
<1>8. ASSUME part # NoFile
      PROVE  /\ part \o data \in Seq(Text)
             /\ cur = k.size => part \o data # <<>>
  <2>1. part \o data \in Seq(Text) /\ Len(part \o data) = Len(part) + Len(data) /\ Len(part) \in Nat
    BY <1>5, <1>6, <1>8, ConcatProperties, LenProperties
  <2>2. cur = k.size => Len(data) # 0
    BY <1>2, <1>4, <1>5
  <2> HIDE DEF data, part
  <2>3. cur = k.size => Len(part \o data) # 0
    BY <1>5, <2>1, <2>2
  <2> QED
    BY <2>1, <2>3, EmptySeq
<1>9. /\ m \in LocalFiles /\ m[k.file] = whole
      /\ \A n \in Params \ {k.file} : m[n] = l[n]
  <2>1. m = [l EXCEPT ![k.file] = whole] /\ whole \in Seq(Text) \cup {NoFile} /\ l \in LocalFiles
    BY <1>8 DEF Ends, Fetched
  <2> HIDE DEF whole
  <2>2. m \in LocalFiles /\ m[k.file] = whole /\ \A n \in Params \ {k.file} : m[n] = l[n]
    BY <1>6, <2>1 DEF LocalFiles
  <2> QED
    BY <2>2
<1>9a. cur = k.size => whole = NoFile \/ whole # <<>>
  BY <1>8
<1> HIDE DEF data, part, whole
<1>10. CASE cur # k.size
  <2>1. Agree(k2, q, Tail(r), s)
    BY <1>1, <1>3, <1>7, <1>10 DEF Agree
  <2>2. LocalOK(k2, m)
    BY <1>1, <1>6, <1>9, <1>10 DEF LocalOK
  <2> QED
    BY <1>1, <1>6, <1>7, <1>9, <1>10, <2>1, <2>2, TalkClient
<1>11. CASE cur = k.size
  <2>1. k.size - cur = 0
    BY <1>2, <1>7, <1>11
  <2>1a. PICK n \in Int : /\ Download(Tail(r), 0, n)
                          /\ IF s.file = 0 THEN s.size >= 0 /\ (n = 0 <=> s.size = 0) ELSE n = s.size
    BY <1>7, <2>1 DEF Fed
  <2>2. Tail(r) = <<>> /\ s.size = 0
    BY <1>2, <2>1a, DownloadDone
  <2> DEFINE f == Frame("ack", 0)
             p == <<f>>
  <2>3. q = <<>> /\ s.call = "none" /\ s.state = "Gets"
    BY <1>3 DEF At
  <2>4. f \in ToServer /\ f.kind = "ack"
    BY DEF Frame, ToServer
  <2> HIDE DEF f
  <2>5. q \o p = p /\ Len(p) = 1 /\ p[1] = f /\ p # <<>>
    BY <2>3, <2>4, QueueOne
  <2> HIDE DEF p
  <2>6. \A i \in 1 .. Len(p) : p[i].kind # "command"
    <3>1. \A i \in 1 .. Len(p) : i = 1
      BY <2>5
    <3> QED
      BY <2>4, <2>5, <3>1
  <2>7. Script(p, s) /\ Leading(p, s)
    BY <2>3, <2>4, <2>5, <2>6 DEF Script, Leading
  <2>8. Agree(k2, p, <<>>, s) /\ k2.state # "dead"
    <3>1. Settled(p, s)
      BY <2>2, <2>3, <2>5 DEF Settled
    <3> QED
      BY <1>1, <1>11, <2>6, <3>1 DEF Agree
  <2>9. LocalOK(k2, m)
    BY <1>1, <1>6, <1>9, <1>9a, <1>11 DEF LocalOK
  <2>10. Talk(k2, m, p, Tail(r), s)
    BY <2>2, <2>7, <2>8, <2>9, TalkClient
  <2> QED
    BY <1>6, <1>7, <1>9, <1>11, <2>5, <2>10 DEF p, f
<1> QED
  BY <1>10, <1>11

(* The client dies; what it had sent is cut off somewhere. *)
LEMMA TalkDies ==
  ASSUME NEW k, NEW l, NEW q, NEW r, NEW s, Ends(k, l, q, r, s), Talk(k, l, q, r, s),
         k.state # "dead", NEW k2, k2.state = "dead",
         NEW p \in Seq(ToServer), Len(p) <= Len(q), \A i \in 1 .. Len(p) : p[i] = q[i]
  PROVE  Talk(k2, l, p, <<>>, s)
<1>1. Script(q, s) /\ Leading(q, s) /\ s.conn = "connected"
  BY DEF Talk, Agree
<1>2. q \in Seq(ToServer) /\ Len(q) \in Nat /\ Len(p) \in Nat /\ s.size \in Int
  BY LenProperties DEF Ends, Sessions
<1>3. \A i \in 1 .. Len(p) : i \in 1 .. Len(q)
  BY <1>2
<1>4. /\ p # <<>> => 1 \in 1 .. Len(p) /\ q # <<>> /\ p[1] = q[1]
      /\ q = <<>> => p = <<>>
  <2>1. p # <<>> => 1 \in 1 .. Len(p)
    BY EmptySeq
  <2>2. q = <<>> => Len(q) = 0
    BY EmptySeq
  <2>3. Len(q) = 0 => Len(p) = 0
    BY <1>2
  <2>4. Len(p) = 0 => p = <<>>
    BY EmptySeq
  <2> QED
    BY <2>1, <2>2, <2>3, <2>4
<1>5. Len(q) <= 2 /\ Len(p) = 2 => Len(q) = 2 /\ p[1] = q[1] /\ p[2] = q[2]
  <2>1. ASSUME Len(q) <= 2, Len(p) = 2
        PROVE  Len(q) = 2 /\ 1 \in 1 .. Len(p) /\ 2 \in 1 .. Len(p)
    BY <1>2, <2>1
  <2> QED
    BY <2>1
<1>6. Script(p, s)
  <2>1. Len(q) <= 1 => Len(p) <= 1
    BY <1>2
  <2>2. Len(q) <= 2 => Len(p) <= 2
    BY <1>2
  <2>3. s.state = "Puts" => s.size # 0 /\ Uploading(p, s.size)
    <3>1. s.state = "Puts" => s.size # 0 /\ Uploading(q, s.size)
      BY <1>1 DEF Script
    <3>2. \A n \in Int : Uploading(q, n) => Uploading(p, n)
      BY <1>2, UploadPrefix
    <3> QED
      BY <1>2, <3>1, <3>2
  <2> QED
    BY <1>1, <1>4, <1>5, <2>1, <2>2, <2>3 DEF Script
<1>7. Leading(p, s)
  BY <1>1, <1>3 DEF Leading
<1> QED
  BY <1>1, <1>6, <1>7 DEF Talk, Gone
-----------------------------------------------------------------------------
(* Paths *)

(* The paths below a home are the short sequences of names. *)
LEMMA SubpathsAre ==
  ASSUME NEW r
  PROVE  r \in Subpaths <=> r \in Seq(Names) /\ Len(r) <= MaxDepth
<1>1. MaxDepth \in Nat
  BY NetdiskAssumption
<1>2. ASSUME r \in Subpaths
      PROVE  r \in Seq(Names) /\ Len(r) <= MaxDepth
  <2>1. PICK n \in 0 .. MaxDepth : r \in [1 .. n -> Names]
    BY <1>2 DEF Subpaths
  <2>2. n \in Nat /\ n <= MaxDepth
    BY <1>1, <2>1
  <2>3. r \in Seq(Names)
    BY <2>1, <2>2, SeqDef
  <2>4. Len(r) = n
    BY <2>1, <2>2, <2>3, LenProperties
  <2> QED
    BY <2>2, <2>3, <2>4
<1>3. ASSUME r \in Seq(Names), Len(r) <= MaxDepth
      PROVE  r \in Subpaths
  <2>1. Len(r) \in 0 .. MaxDepth /\ r \in [1 .. Len(r) -> Names]
    BY <1>1, <1>3, LenProperties
  <2> QED
    BY <2>1 DEF Subpaths
<1> QED
  BY <1>2, <1>3

PathNames == Users \cup Names

(* A path is a sequence of names. *)
LEMMA PathIs ==
  ASSUME NEW p \in Paths
  PROVE  p \in Seq(PathNames) /\ Len(p) \in Nat
<1>1. CASE p = <<>>
  BY <1>1, EmptySeq
<1>2. ASSUME NEW u \in Users, NEW r \in Subpaths, p = <<u>> \o r
      PROVE  p \in Seq(PathNames)
  <2> DEFINE a == <<u>>
  <2>1. r \in Seq(PathNames)
    BY SubpathsAre, SeqMonotonic DEF PathNames
  <2>2. a \in Seq(PathNames)
    BY DEF PathNames
  <2> HIDE DEF a
  <2>3. a \o r \in Seq(PathNames)
    BY <2>1, <2>2, ConcatProperties
  <2> QED
    BY <1>2, <2>3 DEF a
<1>3. p \in Seq(PathNames)
  BY <1>1, <1>2, EmptySeq DEF Paths
<1> QED
  BY <1>3, LenProperties

(* A user's home is a path. *)
LEMMA HomePath ==
  ASSUME NEW u \in Users
  PROVE  <<u>> \in Paths /\ Len(<<u>>) = 1
<1>1. <<>> \in Subpaths
  <2>1. <<>> \in Seq(Names) /\ Len(<<>>) <= MaxDepth
    BY EmptySeq, NetdiskAssumption
  <2> QED
    BY <2>1, SubpathsAre
<1>2. <<u>> \o <<>> = <<u>>
  <2>1. <<u>> \in Seq(Users)
    OBVIOUS
  <2> QED
    BY <2>1, ConcatEmptySeq
<1>3. \A r \in Subpaths : <<u>> \o r \in Paths
  BY DEF Paths
<1> QED
  BY <1>1, <1>2, <1>3

(* The first n elements of a sequence that ends in t. *)
LEMMA CutInFront ==
  ASSUME NEW S, NEW s \in Seq(S), NEW t \in Seq(S), NEW n \in 0 .. Len(t)
  PROVE  s \o SubSeq(t, 1, n) = SubSeq(s \o t, 1, Len(s) + n)
<1> DEFINE b == SubSeq(t, 1, n)
           st == s \o t
           x == s \o b
           y == SubSeq(st, 1, Len(s) + n)
<1>1. Len(s) \in Nat /\ Len(t) \in Nat /\ n \in Nat /\ n <= Len(t)
  BY LenProperties
<1>2. b \in Seq(S) /\ Len(b) = n /\ \A i \in 1 .. n : b[i] = t[i]
  BY Cut
<1>3. /\ st \in Seq(S) /\ Len(st) = Len(s) + Len(t)
      /\ \A i \in 1 .. Len(s) + Len(t) : st[i] = IF i <= Len(s) THEN s[i] ELSE t[i - Len(s)]
  BY ConcatProperties
<1> HIDE DEF b, st
<1>4. /\ x \in Seq(S) /\ Len(x) = Len(s) + n
      /\ \A i \in 1 .. Len(s) + n : x[i] = IF i <= Len(s) THEN s[i] ELSE b[i - Len(s)]
  BY <1>2, ConcatProperties
<1>5. Len(s) + n \in 0 .. Len(st)
  BY <1>1, <1>3
<1>6. /\ y \in Seq(S) /\ Len(y) = Len(s) + n
      /\ \A i \in 1 .. Len(s) + n : y[i] = st[i]
  BY <1>3, <1>5, Cut
<1> HIDE DEF x, y
<1>7. ASSUME NEW i \in 1 .. Len(s) + n
      PROVE  x[i] = y[i]
  <2>1. i \in 1 .. Len(s) + Len(t) /\ (~(i <= Len(s)) => i - Len(s) \in 1 .. n)
    BY <1>1
  <2> QED
    BY <1>2, <1>3, <1>4, <1>6, <2>1
<1>8. x = y
  BY <1>4, <1>6, <1>7, SeqEqual
<1> QED
  BY <1>8 DEF x, y, b, st

(* What a path passes on its way down is a path. *)
LEMMA PrefixPath ==
  ASSUME NEW p \in Paths, NEW n \in 0 .. Len(p)
  PROVE  SubSeq(p, 1, n) \in Paths /\ Len(SubSeq(p, 1, n)) = n
<1>1. p \in Seq(PathNames) /\ Len(p) \in Nat
  BY PathIs
<1>2. Len(SubSeq(p, 1, n)) = n
  BY <1>1, Cut
<1>3. CASE n = 0
  <2>1. SubSeq(p, 1, 0) = <<>>
    BY SubSeqEmpty
  <2> QED
    BY <1>2, <1>3, <2>1 DEF Paths
<1>4. CASE n # 0
  <2>1. p # <<>>
    BY <1>1, <1>4, EmptySeq
  <2>2. PICK u \in Users, r \in Subpaths : p = <<u>> \o r
    BY <2>1 DEF Paths
  <2>3. r \in Seq(Names) /\ Len(r) <= MaxDepth /\ Len(r) \in Nat /\ MaxDepth \in Nat
    BY SubpathsAre, LenProperties, NetdiskAssumption
  <2> DEFINE a == <<u>>
  <2>4. a \in Seq(PathNames) /\ Len(a) = 1 /\ r \in Seq(PathNames)
    BY <2>3, SeqMonotonic DEF PathNames
  <2>5. Len(a \o r) = 1 + Len(r)
    BY <2>4, ConcatProperties
  <2>6. n - 1 \in 0 .. Len(r)
    <3>1. Len(p) = 1 + Len(r)
      BY <2>2, <2>5
    <3> QED
      BY <1>1, <1>4, <2>3, <3>1
  <2>7. a \o SubSeq(r, 1, n - 1) = SubSeq(p, 1, n)
    <3> HIDE DEF a
    <3>1. a \o SubSeq(r, 1, n - 1) = SubSeq(a \o r, 1, Len(a) + (n - 1))
      BY <2>4, <2>6, CutInFront
    <3>2. Len(a) + (n - 1) = n
      BY <1>1, <2>4
    <3> QED
      BY <2>2, <3>1, <3>2 DEF a
  <2>8. SubSeq(r, 1, n - 1) \in Subpaths
    <3>1. SubSeq(r, 1, n - 1) \in Seq(Names) /\ Len(SubSeq(r, 1, n - 1)) = n - 1
      BY <2>3, <2>6, Cut
    <3>2. n - 1 <= MaxDepth
      BY <2>3, <2>6
    <3> QED
      BY <3>1, <3>2, SubpathsAre
  <2>9. a \o SubSeq(r, 1, n - 1) \in Paths
    <3>1. \A v \in Users : \A x \in Subpaths : <<v>> \o x \in Paths
      BY DEF Paths
    <3> QED
      BY <2>8, <3>1 DEF a
  <2> QED
    BY <1>2, <2>7, <2>9
<1> QED
  BY <1>3, <1>4

(* The parent of what a path passes is what it passes just before. *)
LEMMA PrefixParent ==
  ASSUME NEW S, NEW p \in Seq(S), NEW n \in 1 .. Len(p)
  PROVE  Parent(SubSeq(p, 1, n)) = SubSeq(p, 1, n - 1)
<1>1. Len(p) \in Nat /\ n \in 0 .. Len(p) /\ n - 1 \in 0 .. Len(p)
  BY LenProperties
<1> DEFINE a == SubSeq(p, 1, n)
           b == SubSeq(p, n + 1, Len(p))
           x == SubSeq(a, 1, n - 1)
           y == SubSeq(p, 1, n - 1)
<1>2. a \in Seq(S) /\ Len(a) = n /\ \A i \in 1 .. n : a[i] = p[i]
  BY <1>1, Cut
<1>3. y \in Seq(S) /\ Len(y) = n - 1 /\ \A i \in 1 .. n - 1 : y[i] = p[i]
  BY <1>1, Cut
<1> HIDE DEF a, y
<1>4. x \in Seq(S) /\ Len(x) = n - 1 /\ \A i \in 1 .. n - 1 : x[i] = a[i]
  <2>1. n - 1 \in 0 .. Len(a)
    BY <1>2
  <2> QED
    BY <1>2, <2>1, Cut
<1> HIDE DEF x
<1>5. x = y
  <2>1. \A i \in 1 .. n - 1 : i \in 1 .. n
    OBVIOUS
  <2> QED
    BY <1>2, <1>3, <1>4, <2>1, SeqEqual
<1> QED
  BY <1>2, <1>5 DEF Parent, a, x, y

(* One directory is the other's parent, or the other way round. *)
Near(p, q) == q = Parent(p) \/ (p = Parent(q) /\ Len(q) = Len(p) + 1)

(* What a parameter's path passes, one directory after the other. *)
LEMMA WayIs ==
  ASSUME NEW h \in Paths, NEW a \in Params, a.up <= Len(h), TargetOf(h, a) \in Paths
  PROVE  /\ a.up \in Nat /\ Len(a.down) \in Nat
         /\ Way(h, a) \in Seq(Paths) /\ Len(Way(h, a)) = a.up + Len(a.down)
         /\ \A i \in 1 .. Len(Way(h, a)) : Near(IF i = 1 THEN h ELSE Way(h, a)[i - 1], Way(h, a)[i])
         /\ Len(Way(h, a)) > 0 => Way(h, a)[Len(Way(h, a))] = TargetOf(h, a)
<1> DEFINE n == a.up
           d == a.down
           b == SubSeq(h, 1, Len(h) - n)
           t == b \o d
           w == Way(h, a)
<1>1. n \in Nat /\ d \in Seq(PathNames) /\ Len(d) \in Nat
  BY NetdiskAssumption, LenProperties DEF PathNames
<1>2. h \in Seq(PathNames) /\ Len(h) \in Nat /\ n <= Len(h) /\ t \in Paths
  BY PathIs DEF TargetOf
<1>3. b \in Seq(PathNames) /\ Len(b) = Len(h) - n /\ b \in Paths
  <2>1. Len(h) - n \in 0 .. Len(h)
    BY <1>1, <1>2
  <2> QED
    BY <1>2, <2>1, Cut, PrefixPath
<1> HIDE DEF d
<1>4. t \in Seq(PathNames) /\ Len(t) = Len(h) - n + Len(d)
  <2> HIDE DEF b
  <2> QED
    BY <1>1, <1>3, ConcatProperties
<1>5. ASSUME NEW j \in 0 .. Len(d)
      PROVE  b \o SubSeq(d, 1, j) = SubSeq(t, 1, Len(h) - n + j)
  <2>1. b \o SubSeq(d, 1, j) = SubSeq(b \o d, 1, Len(b) + j)
    <3> HIDE DEF b
    <3> QED
      BY <1>1, <1>3, CutInFront
  <2> QED
    BY <1>3, <2>1
<1>6. SubSeq(t, 1, Len(h) - n) = b
  <2>1. 0 \in 0 .. Len(d) /\ SubSeq(d, 1, 0) = <<>>
    BY <1>1, SubSeqEmpty
  <2>2. b \o <<>> = b
    <3> HIDE DEF b
    <3> QED
      BY <1>3, ConcatEmptySeq
  <2>3. b \o <<>> = SubSeq(t, 1, Len(h) - n + 0)
    BY <1>5, <2>1
  <2>4. Len(h) - n + 0 = Len(h) - n
    BY <1>1, <1>2
  <2> QED
    BY <2>2, <2>3, <2>4
<1>7. w = [i \in 1 .. n + Len(d) |-> IF i <= n THEN SubSeq(h, 1, Len(h) - i) ELSE b \o SubSeq(d, 1, i - n)]
  BY DEF Way, d
<1> HIDE DEF b, t, w, n
<1>8. ASSUME NEW i \in 1 .. n + Len(d)
      PROVE  /\ w[i] = IF i <= n THEN SubSeq(h, 1, Len(h) - i) ELSE SubSeq(t, 1, Len(h) - n + (i - n))
             /\ w[i] \in Paths
  <2>1. CASE i <= n
    <3>1. Len(h) - i \in 0 .. Len(h)
      BY <1>1, <1>2, <2>1
    <3>2. w[i] = SubSeq(h, 1, Len(h) - i)
      BY <1>7, <2>1
    <3> QED
      BY <2>1, <3>1, <3>2, PrefixPath
  <2>2. CASE ~(i <= n)
    <3>1. i - n \in 0 .. Len(d) /\ Len(h) - n + (i - n) \in 0 .. Len(t)
      BY <1>1, <1>2, <1>4, <2>2
    <3>2. w[i] = b \o SubSeq(d, 1, i - n)
      BY <1>7, <2>2
    <3>3. w[i] = SubSeq(t, 1, Len(h) - n + (i - n))
      BY <1>5, <3>1, <3>2
    <3> QED
      BY <1>2, <2>2, <3>1, <3>3, PrefixPath
  <2> QED
    BY <2>1, <2>2
<1>9. w \in Seq(Paths) /\ Len(w) = n + Len(d)
  <2>1. n + Len(d) \in Nat /\ w \in [1 .. n + Len(d) -> Paths]
    BY <1>1, <1>7, <1>8
  <2>2. w \in Seq(Paths)
    BY <2>1, SeqDef
  <2> QED
    BY <2>1, <2>2, LenProperties
<1>10. ASSUME NEW i \in 1 .. n + Len(d)
       PROVE  Near(IF i = 1 THEN h ELSE w[i - 1], w[i])
  <2> DEFINE prev == IF i = 1 THEN h ELSE w[i - 1]
  <2>1. CASE i <= n
    <3>1. prev = SubSeq(h, 1, Len(h) - (i - 1))
      <4>1. CASE i = 1
        BY <1>2, <4>1, SubSeqFull
      <4>2. CASE i # 1
        <5>1. i - 1 \in 1 .. n + Len(d) /\ i - 1 <= n
          BY <1>1, <2>1, <4>2
        <5> QED
          BY <1>8, <4>2, <5>1
      <4> QED
        BY <4>1, <4>2
    <3>2. Len(h) - (i - 1) \in 1 .. Len(h) /\ (Len(h) - (i - 1)) - 1 = Len(h) - i
      BY <1>1, <1>2, <2>1
    <3>3. Parent(prev) = SubSeq(h, 1, Len(h) - i)
      BY <1>2, <3>1, <3>2, PrefixParent
    <3> QED
      BY <1>8, <2>1, <3>3 DEF Near
  <2>2. CASE ~(i <= n)
    <3> DEFINE j == Len(h) - n + (i - n)
    <3>1. j \in 1 .. Len(t) /\ j - 1 \in 0 .. Len(t) /\ j \in 0 .. Len(t)
      BY <1>1, <1>2, <1>4, <2>2
    <3>2. prev = SubSeq(t, 1, j - 1)
      <4>1. CASE i - 1 > n
        <5>1. /\ i - 1 \in 1 .. n + Len(d) /\ ~(i - 1 <= n) /\ i # 1
              /\ Len(h) - n + ((i - 1) - n) = j - 1
          BY <1>1, <1>2, <4>1
        <5> QED
          BY <1>8, <5>1
      <4>2. CASE ~(i - 1 > n)
        <5>1. i - 1 = n /\ j - 1 = Len(h) - n
          BY <1>1, <1>2, <2>2, <4>2
        <5>2. CASE n = 0
          <6>1. prev = h /\ Len(h) - n = Len(h)
            BY <1>2, <5>1, <5>2
          <6>2. SubSeq(h, 1, Len(h)) = h
            BY <1>2, SubSeqFull
          <6> QED
            BY <1>6, <5>1, <6>1, <6>2 DEF b
        <5>3. CASE n # 0
          <6>1. i # 1 /\ i - 1 \in 1 .. n + Len(d) /\ i - 1 <= n /\ Len(h) - (i - 1) = Len(h) - n
            BY <1>1, <1>2, <5>1, <5>3
          <6>2. prev = SubSeq(h, 1, Len(h) - n)
            BY <1>8, <6>1
          <6> QED
            BY <1>6, <5>1, <6>2 DEF b
        <5> QED
          BY <5>2, <5>3
      <4> QED
        BY <4>1, <4>2
    <3>3. w[i] = SubSeq(t, 1, j)
      BY <1>8, <2>2
    <3> HIDE DEF j, prev
    <3>4. Parent(w[i]) = prev
      BY <1>4, <3>1, <3>2, <3>3, PrefixParent
    <3>5. Len(w[i]) = j /\ Len(prev) = j - 1
      BY <1>4, <3>1, <3>2, <3>3, Cut
    <3>6. Len(w[i]) = Len(prev) + 1
      BY <1>4, <3>1, <3>5, LenProperties
    <3> QED
      BY <3>4, <3>6 DEF Near, prev
  <2> QED
    BY <2>1, <2>2
<1>11. ASSUME n + Len(d) > 0
       PROVE  w[n + Len(d)] = t
  <2>0. n + Len(d) \in 1 .. n + Len(d)
    BY <1>1, <1>11
  <2>1. CASE Len(d) = 0
    <3>1. n + Len(d) = n /\ n <= n /\ d = <<>>
      BY <1>1, <2>1, EmptySeq
    <3>2. w[n + Len(d)] = b
      BY <1>8, <2>0, <3>1 DEF b
    <3>3. t = b
      BY <1>3, <3>1, ConcatEmptySeq DEF t
    <3> QED
      BY <3>2, <3>3
  <2>2. CASE Len(d) # 0
    <3>1. ~(n + Len(d) <= n) /\ Len(h) - n + ((n + Len(d)) - n) = Len(t)
      BY <1>1, <1>2, <1>4, <2>2
    <3>2. w[n + Len(d)] = SubSeq(t, 1, Len(t))
      BY <1>8, <2>0, <3>1
    <3> QED
      BY <1>4, <3>2, SubSeqFull
  <2> QED
    BY <2>1, <2>2
<1> QED
  BY <1>1, <1>9, <1>10, <1>11 DEF w, n, d, t, b, TargetOf

(* Where a session is. *)
LEMMA HereIs ==
  ASSUME NEW s \in Sessions, s.user \in Users
  PROVE  HereOf(s) \in Paths
<1>1. s.cwd \in Seq(Paths)
  BY DEF Sessions
<1>2. s.cwd # <<>> => s.cwd[Len(s.cwd)] \in Paths
  <2>1. s.cwd # <<>> => Len(s.cwd) \in 1 .. Len(s.cwd)
    BY <1>1, EmptySeq
  <2> QED
    BY <1>1, <2>1, ElementOfSeq
<1> QED
  BY <1>2, HomePath DEF HereOf
-----------------------------------------------------------------------------
(* The whole: a step is one session's, or its client's *)

(* What the invariant says of one session. *)
LEMMA Around ==
  ASSUME IInv, NEW c \in Clients
  PROVE  /\ Ends(cli[c], local[c], Rest(srv[c]) \o c2s[c], s2c[c], srv[c])
         /\ Talk(cli[c], local[c], Rest(srv[c]) \o c2s[c], s2c[c], srv[c])
         /\ Files(srv[c], dirs, file, inode)
         /\ c2s[c] \in Seq(ToServer) /\ s2c[c] \in Seq(ToClient)
         /\ srv[c] \in Sessions /\ srv[c].in \in Seq(ToServer) /\ Rest(srv[c]) \in Seq(ToServer)
         /\ cli[c] \in ClientProcesses /\ local[c] \in LocalFiles
<1>1. /\ c2s[c] \in Seq(ToServer) /\ s2c[c] \in Seq(ToClient) /\ srv[c] \in Sessions
      /\ cli[c] \in ClientProcesses /\ local[c] \in LocalFiles
  BY DEF IInv, Typed
<1>2. Session(c) /\ Files(srv[c], dirs, file, inode)
  BY DEF IInv
<1>3. srv[c].in \in Seq(ToServer)
  BY <1>1 DEF Sessions
<1>4. srv[c].call # "none" => srv[c].in # <<>>
  BY <1>2 DEF Session, Talk, CallOK
<1>5. Rest(srv[c]) \in Seq(ToServer)
  BY <1>3, <1>4, HeadTailProperties DEF Rest
<1>6. Rest(srv[c]) \o c2s[c] \in Seq(ToServer)
  BY <1>1, <1>5, ConcatProperties
<1> QED
  BY <1>1, <1>2, <1>3, <1>5, <1>6 DEF Ends, Session

(* A session takes its next frame. *)
LEMMA Taken ==
  ASSUME IInv, NEW c \in Clients, srv[c].in # <<>>, srv[c].call = "none"
  PROVE  LET s == srv[c]
             q == Rest(s) \o c2s[c]
         IN  /\ q # <<>> /\ q[1] = s.in[1] /\ Msg(c) = s.in[1] /\ Msg(c) \in ToServer
             /\ Tail(q) = Tail(s.in) \o c2s[c]
             /\ Tail(s.in) \in Seq(ToServer)
<1>1. c2s[c] \in Seq(ToServer) /\ srv[c].in \in Seq(ToServer) /\ Rest(srv[c]) = srv[c].in
  BY Around DEF Rest
<1> DEFINE a == srv[c].in
           b == c2s[c]
<1>2. /\ a \o b # <<>> /\ (a \o b)[1] = a[1] /\ Head(a) = a[1] /\ a[1] \in ToServer
      /\ Tail(a) \in Seq(ToServer) /\ Tail(a \o b) = Tail(a) \o b
  <2>1. a \in Seq(ToServer) /\ b \in Seq(ToServer) /\ a # <<>>
    BY <1>1
  <2> HIDE DEF a, b
  <2> QED
    BY <2>1, ConcatTail
<1> QED
  BY <1>1, <1>2 DEF Msg

(* What Becomes and GoesOn make of a session. *)
DoneWith(new) == [new EXCEPT !.in = Tail(@), !.call = "none"]

Midway(new, call) == [new EXCEPT !.call = call]

(* The frame is done with. *)
LEMMA Done ==
  ASSUME NEW s \in Sessions, s.in # <<>>, NEW new \in Sessions, new.in = s.in,
         NEW t, t = DoneWith(new)
  PROVE  /\ t \in Sessions /\ t.in = Tail(s.in) /\ t.call = "none" /\ Rest(t) = Tail(s.in)
         /\ t.state = new.state /\ t.user = new.user /\ t.cwd = new.cwd /\ t.size = new.size
         /\ t.file = new.file /\ t.pos = new.pos /\ t.gets = new.gets /\ t.active = new.active
         /\ t.names = new.names /\ t.conn = new.conn
<1>1. Tail(s.in) \in Seq(ToServer) /\ new.in \in Seq(ToServer)
  BY HeadTailProperties DEF Sessions
<1>2. /\ t.in = Tail(s.in) /\ t.call = "none"
      /\ t.state = new.state /\ t.user = new.user /\ t.cwd = new.cwd /\ t.size = new.size
      /\ t.file = new.file /\ t.pos = new.pos /\ t.gets = new.gets /\ t.active = new.active
      /\ t.names = new.names /\ t.conn = new.conn
  BY DEF Sessions, DoneWith
<1>3. t \in Sessions
  BY <1>1 DEF Sessions, DoneWith
<1> QED
  BY <1>2, <1>3 DEF Rest

ServerCalls == {"mkdir", "stat", "open", "access", "statFile", "openFile"}

(* The handler goes on, in the midst of the frame. *)
LEMMA Going ==
  ASSUME NEW new \in Sessions, NEW call \in ServerCalls,
         NEW t, t = Midway(new, call)
  PROVE  /\ t \in Sessions /\ t.in = new.in /\ t.call = call /\ Rest(t) = Tail(new.in)
         /\ t.state = new.state /\ t.user = new.user /\ t.cwd = new.cwd /\ t.size = new.size
         /\ t.file = new.file /\ t.pos = new.pos /\ t.gets = new.gets /\ t.active = new.active
         /\ t.names = new.names /\ t.conn = new.conn
<1>1. /\ t.in = new.in /\ t.call = call
      /\ t.state = new.state /\ t.user = new.user /\ t.cwd = new.cwd /\ t.size = new.size
      /\ t.file = new.file /\ t.pos = new.pos /\ t.gets = new.gets /\ t.active = new.active
      /\ t.names = new.names /\ t.conn = new.conn
  BY DEF Sessions, Midway, ServerCalls
<1>2. t \in Sessions
  BY DEF Sessions, Midway, ServerCalls
<1>3. t.call # "none"
  BY <1>1 DEF ServerCalls
<1> QED
  BY <1>1, <1>2, <1>3 DEF Rest

(* Reply adds one frame to the queue of its client and to no other. *)
LEMMA Replies ==
  ASSUME Typed, NEW c \in Clients, NEW m \in ToClient, Reply(c, m)
  PROVE  /\ s2c' \in [Clients -> Seq(ToClient)]
         /\ s2c'[c] = Sent(cli[c], srv[c], s2c[c], m)
         /\ \A d \in Clients \ {c} : s2c'[d] = s2c[d]
<1>1. s2c \in [Clients -> Seq(ToClient)] /\ Append(s2c[c], m) \in Seq(ToClient)
  BY AppendProperties DEF Typed
<1> QED
  BY <1>1 DEF Reply, Sent, Alive

(* A step of a session; t is what becomes of it. *)
LEMMA ServerMoves ==
  ASSUME IInv, NEW c \in Clients, NEW t \in Sessions, srv' = [srv EXCEPT ![c] = t],
         UNCHANGED <<cli, local>>,
         c2s' \in [Clients -> Seq(ToServer)], \A d \in Clients \ {c} : c2s'[d] = c2s[d],
         s2c' \in [Clients -> Seq(ToClient)], \A d \in Clients \ {c} : s2c'[d] = s2c[d],
         Talk(cli[c], local[c], Rest(t) \o c2s'[c], s2c'[c], t),
         users' \subseteq Users, dirs' \subseteq Paths,
         file' \in [Paths -> Inodes \cup {0}], inode' \in [Inodes -> Seq(Text)],
         writers' \in [Inodes -> SUBSET (Clients \X Params)],
         Files(t, dirs', file', inode'),
         \A d \in Clients \ {c} : Files(srv[d], dirs', file', inode'),
         ~aborted, aborted' \in BOOLEAN, aborted' \/ Registered(t)
  PROVE  IInv'
<1>1. srv' \in [Clients -> Sessions] /\ srv'[c] = t /\ \A d \in Clients \ {c} : srv'[d] = srv[d]
  BY DEF IInv, Typed
<1>2. Typed'
  BY <1>1 DEF IInv, Typed
<1>3. ASSUME NEW d \in Clients
      PROVE  /\ Session(d)' /\ Files(srv'[d], dirs', file', inode')
             /\ aborted' \/ Registered(srv'[d])
  <2>1. CASE d = c
    BY <1>1, <2>1 DEF Session
  <2>2. CASE d # c
    <3>1. /\ srv'[d] = srv[d] /\ c2s'[d] = c2s[d] /\ s2c'[d] = s2c[d]
          /\ cli'[d] = cli[d] /\ local'[d] = local[d]
      BY <1>1, <2>2
    <3>2. Session(d) /\ Registered(srv[d])
      BY DEF IInv
    <3>3. Session(d)'
      BY <3>1, <3>2 DEF Session
    <3> QED
      BY <2>2, <3>1, <3>2, <3>3
  <2> QED
    BY <2>1, <2>2
<1> QED
  BY <1>2, <1>3 DEF IInv

(* A step that touches no file. *)
LEMMA ServerMovesQuietly ==
  ASSUME IInv, NEW c \in Clients, NEW t \in Sessions, srv' = [srv EXCEPT ![c] = t],
         UNCHANGED <<cli, local, fileSystem>>,
         c2s' \in [Clients -> Seq(ToServer)], \A d \in Clients \ {c} : c2s'[d] = c2s[d],
         s2c' \in [Clients -> Seq(ToClient)], \A d \in Clients \ {c} : s2c'[d] = s2c[d],
         Talk(cli[c], local[c], Rest(t) \o c2s'[c], s2c'[c], t),
         users' \subseteq Users, Files(t, dirs, file, inode),
         ~aborted, aborted' \in BOOLEAN, aborted' \/ Registered(t)
  PROVE  IInv'
<1>1. dirs' = dirs /\ file' = file /\ inode' = inode /\ writers' = writers
  BY DEF fileSystem
<1>2. /\ dirs' \subseteq Paths /\ file' \in [Paths -> Inodes \cup {0}]
      /\ inode' \in [Inodes -> Seq(Text)] /\ writers' \in [Inodes -> SUBSET (Clients \X Params)]
  BY <1>1 DEF IInv, Typed
<1>3. \A d \in Clients \ {c} : Files(srv[d], dirs', file', inode')
  BY <1>1 DEF IInv
<1>4. Files(t, dirs', file', inode')
  BY <1>1
<1> QED
  BY <1>2, <1>3, <1>4, ServerMoves

(* A step of a client, to k and l. *)
LEMMA ClientMoves ==
  ASSUME IInv, NEW c \in Clients, UNCHANGED serverSide,
         NEW k \in ClientProcesses, cli' = [cli EXCEPT ![c] = k],
         NEW l \in LocalFiles, local' = [local EXCEPT ![c] = l],
         NEW p \in Seq(ToServer), c2s' = [c2s EXCEPT ![c] = p],
         NEW r \in Seq(ToClient), s2c' = [s2c EXCEPT ![c] = r],
         Talk(k, l, Rest(srv[c]) \o p, r, srv[c])
  PROVE  IInv'
<1>1. /\ srv' = srv /\ users' = users /\ dirs' = dirs /\ file' = file /\ inode' = inode
      /\ writers' = writers /\ aborted' = aborted
  BY DEF serverSide, fileSystem
<1>2. /\ cli' \in [Clients -> ClientProcesses] /\ local' \in [Clients -> LocalFiles]
      /\ c2s' \in [Clients -> Seq(ToServer)] /\ s2c' \in [Clients -> Seq(ToClient)]
      /\ cli'[c] = k /\ local'[c] = l /\ c2s'[c] = p /\ s2c'[c] = r
      /\ \A d \in Clients \ {c} : cli'[d] = cli[d] /\ local'[d] = local[d] /\ c2s'[d] = c2s[d] /\ s2c'[d] = s2c[d]
  BY DEF IInv, Typed
<1>3. Typed'
  BY <1>1, <1>2 DEF IInv, Typed
<1>4. ASSUME NEW d \in Clients
      PROVE  /\ Session(d)' /\ Files(srv'[d], dirs', file', inode')
             /\ aborted' \/ Registered(srv'[d])
  <2>1. Session(d) /\ Files(srv[d], dirs, file, inode) /\ (aborted \/ Registered(srv[d]))
    BY DEF IInv
  <2>2. Session(d)'
    BY <1>1, <1>2, <2>1 DEF Session
  <2> QED
    BY <1>1, <2>1, <2>2
<1> QED
  BY <1>3, <1>4 DEF IInv
-----------------------------------------------------------------------------
(* The steps of the server: its channels *)

Turns == {<<>>, <<"tcp">>, <<"gets">>, <<"tcp", "gets">>, <<"gets", "tcp">>}

(* The channels that are left when one has had its turn. *)
LEMMA TurnOver ==
  ASSUME NEW a \in Turns, a # <<>>
  PROVE  /\ Tail(a) \in Turns
         /\ (\E i \in DOMAIN Tail(a) : Tail(a)[i] = "gets") =>
              (\E i \in DOMAIN a : a[i] = "gets") /\ Head(a) # "gets"
<1>1. CASE a = <<"tcp">>
  BY <1>1 DEF Turns
<1>2. CASE a = <<"gets">>
  BY <1>2 DEF Turns
<1>3. CASE a = <<"tcp", "gets">>
  <2>1. Tail(a) = <<"gets">> /\ Head(a) = "tcp" /\ 2 \in DOMAIN a /\ a[2] = "gets"
    BY <1>3
  <2> QED
    BY <2>1 DEF Turns
<1>4. CASE a = <<"gets", "tcp">>
  <2>1. Tail(a) = <<"tcp">>
    BY <1>4
  <2> QED
    BY <2>1 DEF Turns
<1> QED
  BY <1>1, <1>2, <1>3, <1>4 DEF Turns

(* What Quiet needs of a step at which a channel has its turn or is found ready. *)
LEMMA TalkTurns ==
  ASSUME NEW k, NEW l, NEW q, NEW r, NEW s, Talk(k, l, q, r, s), s.in = <<>>,
         NEW t, t.state = s.state, t.call = s.call, t.size = s.size, t.cwd = s.cwd, t.conn = s.conn,
         t.file = s.file, t.user = s.user, t.gets \in {s.gets, "removed"},
         t.gets # s.gets => s.gets = "added",
         s.conn = "released" => t.active = <<>>,
         s.conn # "connected" => t.in = <<>>
  PROVE  Talk(k, l, q, r, t)
<1>1. s.call = "none"
  BY DEF Talk, CallOK
<1>2. CallOK(t) /\ Gone(k, q, t)
  BY <1>1 DEF Talk, CallOK, Gone
<1>3. SessionOK(t)
  BY <1>1 DEF Talk, SessionOK
<1> QED
  BY <1>1, <1>2, <1>3, Quiet

(* epoll_wait chooses the channels of the session and their order. *)
LEMMA PollStep == ASSUME IInv, NEW c \in Clients, Poll(c) PROVE IInv'
<1>1. /\ ~aborted /\ srv[c].active = <<>> /\ srv[c].in = <<>>
      /\ UNCHANGED <<cli, local, c2s, s2c, users, fileSystem, aborted>>
  BY DEF Poll, clientSide
<1>2. PICK ready \in ReadyOrders(c) : srv' = [srv EXCEPT ![c].active = ready]
  BY DEF Poll
<1>3. PollOrders \subseteq {"getsFirst", "tcpFirst"}
  BY NetdiskAssumption
<1>4. /\ ready \in Turns
      /\ (\E i \in DOMAIN ready : ready[i] = "gets") => srv[c].gets = "added"
      /\ srv[c].conn = "connected" \/ srv[c].gets = "added"
  <2>1. CASE SocketReady(c) /\ GetsReady(c)
    BY <1>2, <2>1 DEF ReadyOrders, Turns, GetsReady, SocketReady
  <2>2. CASE SocketReady(c) /\ ~GetsReady(c)
    <3>1. ready = <<"tcp">>
      BY <1>2, <2>2 DEF ReadyOrders
    <3> QED
      BY <2>2, <3>1 DEF Turns, SocketReady
  <2>3. CASE ~SocketReady(c) /\ GetsReady(c)
    BY <1>2, <2>3 DEF ReadyOrders, Turns, GetsReady
  <2>4. CASE ~SocketReady(c) /\ ~GetsReady(c)
    BY <1>2, <2>4 DEF ReadyOrders
  <2> QED
    BY <2>1, <2>2, <2>3, <2>4
<1> DEFINE s == srv[c]
           t == [s EXCEPT !.active = ready]
<1>5. s \in Sessions /\ Talk(cli[c], local[c], Rest(s) \o c2s[c], s2c[c], s) /\ Files(s, dirs, file, inode)
  BY Around
<1>6. srv' = [srv EXCEPT ![c] = t]
  BY <1>2
<1> HIDE DEF s
<1>7. /\ t \in Sessions /\ t.active = ready
      /\ t.state = s.state /\ t.user = s.user /\ t.cwd = s.cwd /\ t.size = s.size /\ t.file = s.file
      /\ t.pos = s.pos /\ t.gets = s.gets /\ t.in = s.in /\ t.call = s.call /\ t.conn = s.conn
  BY <1>4, <1>5 DEF Sessions, Turns
<1> HIDE DEF t
<1>8. s.conn # "released"
  BY <1>4, <1>5 DEF s, Talk, SessionOK
<1>9. Talk(cli[c], local[c], Rest(s) \o c2s[c], s2c[c], t)
  BY <1>1, <1>5, <1>7, <1>8, TalkTurns DEF s
<1>10. Rest(t) = Rest(s)
  BY <1>7 DEF Rest
<1>11. Files(t, dirs, file, inode) /\ Registered(t)
  <2>1. Registered(t)
    BY <1>4, <1>7 DEF Registered, s
  <2>2. Files(t, dirs, file, inode)
    BY <1>5, <1>7 DEF Files, Reached, HereOf
  <2> QED
    BY <2>1, <2>2
<1>12. /\ c2s' \in [Clients -> Seq(ToServer)] /\ s2c' \in [Clients -> Seq(ToClient)]
       /\ users' \subseteq Users /\ aborted' \in BOOLEAN
  BY <1>1 DEF IInv, Typed
<1>13. Talk(cli[c], local[c], Rest(t) \o c2s'[c], s2c'[c], t)
  BY <1>1, <1>9, <1>10
<1> QED
  BY <1>1, <1>6, <1>7, <1>11, <1>12, <1>13, ServerMovesQuietly

(* The loop reads what has arrived. *)
LEMMA HandleReadStep == ASSUME IInv, NEW c \in Clients, HandleRead(c) PROVE IInv'
<1>1. /\ ~aborted /\ srv[c].in = <<>> /\ srv[c].active # <<>>
      /\ UNCHANGED <<cli, local, s2c, users, fileSystem, aborted>>
  BY DEF HandleRead, Handles, clientSide
<1>2. PICK n \in 1 .. Len(c2s[c]) :
        /\ srv' = [srv EXCEPT ![c].active = Tail(@), ![c].in = SubSeq(c2s[c], 1, n)]
        /\ c2s' = [c2s EXCEPT ![c] = SubSeq(@, n + 1, Len(@))]
  BY DEF HandleRead
<1> DEFINE s == srv[c]
           a == c2s[c]
           front == SubSeq(a, 1, n)
           back == SubSeq(a, n + 1, Len(a))
           t == [s EXCEPT !.active = Tail(@), !.in = front]
<1>3. /\ s \in Sessions /\ Talk(cli[c], local[c], Rest(s) \o a, s2c[c], s) /\ Files(s, dirs, file, inode)
      /\ a \in Seq(ToServer) /\ Registered(s)
  BY <1>1, Around DEF IInv
<1>4. s.call = "none"
  BY <1>1, <1>3 DEF Talk, CallOK
<1>5. Rest(s) \o a = a
  BY <1>1, <1>3, <1>4, ConcatEmptySeq DEF Rest
<1>6. n \in 0 .. Len(a) /\ a # <<>>
  <2>1. Len(a) \in Nat /\ n \in 1 .. Len(a)
    BY <1>2, <1>3, LenProperties
  <2>2. n \in 0 .. Len(a) /\ Len(a) # 0
    BY <2>1
  <2> QED
    BY <2>2, EmptySeq
<1>7. front \in Seq(ToServer) /\ back \in Seq(ToServer) /\ front \o back = a
  BY <1>3, <1>6, Cut
<1>8. srv' = [srv EXCEPT ![c] = t] /\ c2s' = [c2s EXCEPT ![c] = back]
  BY <1>2
<1>9. s.conn = "connected"
  <2>1. Rest(s) \o a # <<>>
    BY <1>5, <1>6
  <2> QED
    BY <2>1, <1>3 DEF Talk, Gone
<1>10. /\ Tail(s.active) \in Turns
       /\ (\E i \in DOMAIN Tail(s.active) : Tail(s.active)[i] = "gets") =>
            \E i \in DOMAIN s.active : s.active[i] = "gets"
  <2>1. s.active \in Turns
    BY <1>3 DEF Sessions, Turns
  <2> QED
    BY <1>1, <2>1, TurnOver
<1>11. s.in = <<>>
  BY <1>1
<1> HIDE DEF s, a, front, back
<1>12. /\ t \in Sessions /\ t.active = Tail(s.active)
       /\ t.state = s.state /\ t.user = s.user /\ t.cwd = s.cwd /\ t.size = s.size /\ t.file = s.file
       /\ t.pos = s.pos /\ t.gets = s.gets /\ t.in = front /\ t.call = s.call /\ t.conn = s.conn
  BY <1>3, <1>7, <1>10 DEF Sessions, Turns
<1> HIDE DEF t
<1>13. Talk(cli[c], local[c], Rest(s) \o a, s2c[c], t)
  BY <1>3, <1>9, <1>11, <1>12, TalkTurns
<1>14. Rest(t) \o back = a
  BY <1>4, <1>7, <1>12 DEF Rest
<1>15. Files(t, dirs, file, inode) /\ Registered(t)
  <2>1. Registered(t)
    BY <1>3, <1>10, <1>12 DEF Registered
  <2>2. Files(t, dirs, file, inode)
    BY <1>3, <1>4, <1>12 DEF Files
  <2> QED
    BY <2>1, <2>2
<1>16. /\ c2s' \in [Clients -> Seq(ToServer)] /\ s2c' \in [Clients -> Seq(ToClient)]
       /\ c2s'[c] = back /\ \A d \in Clients \ {c} : c2s'[d] = c2s[d]
       /\ users' \subseteq Users /\ aborted' \in BOOLEAN
  BY <1>1, <1>7, <1>8 DEF IInv, Typed
<1>17. Talk(cli[c], local[c], Rest(t) \o c2s'[c], s2c'[c], t)
  BY <1>1, <1>5, <1>13, <1>14, <1>16
<1> QED
  BY <1>1, <1>8, <1>12, <1>15, <1>16, <1>17, ServerMovesQuietly

(* A connection without a client. *)
LEMMA TalkGone ==
  ASSUME NEW k, NEW l, NEW q, NEW r, NEW s, Talk(k, l, q, r, s), k.state = "dead",
         NEW t, t.state = s.state, t.call = s.call, t.size = s.size, t.cwd = s.cwd,
         t.user = s.user, CallOK(t), SessionOK(t), Gone(k, q, t)
  PROVE  Talk(k, l, q, r, t)
<1>1. Script(q, t) /\ Leading(q, t)
  BY DEF Talk, Script, Leading, Leads, HereOf
<1> QED
  BY <1>1 DEF Talk

(* The loop finds the connection closed. *)
LEMMA HandleCloseStep == ASSUME IInv, NEW c \in Clients, HandleClose(c) PROVE IInv'
<1>1. /\ ~aborted /\ srv[c].in = <<>> /\ srv[c].active # <<>> /\ c2s[c] = <<>>
      /\ cli[c].state = "dead"
      /\ UNCHANGED <<cli, local, c2s, s2c, users, fileSystem, aborted>>
  BY DEF HandleClose, Handles, clientSide, Alive
<1> DEFINE s == srv[c]
           t == [s EXCEPT !.active = Tail(@), !.conn = "disconnected"]
<1>2. srv' = [srv EXCEPT ![c] = t]
  BY DEF HandleClose
<1>3. /\ s \in Sessions /\ Talk(cli[c], local[c], Rest(s) \o c2s[c], s2c[c], s)
      /\ Files(s, dirs, file, inode) /\ Registered(s)
  BY <1>1, Around DEF IInv
<1>4. s.call = "none" /\ s.in = <<>> /\ s.active # <<>>
  BY <1>1, <1>3 DEF Talk, CallOK
<1>5. Rest(s) \o c2s[c] = <<>>
  <2>1. Rest(s) = <<>> /\ <<>> \in Seq(ToServer)
    BY <1>4, EmptySeq DEF Rest
  <2> QED
    BY <1>1, <2>1, ConcatEmptySeq
<1>6. /\ Tail(s.active) \in Turns
      /\ (\E i \in DOMAIN Tail(s.active) : Tail(s.active)[i] = "gets") =>
           \E i \in DOMAIN s.active : s.active[i] = "gets"
  <2>1. s.active \in Turns
    BY <1>3 DEF Sessions, Turns
  <2> QED
    BY <1>1, <2>1, TurnOver
<1> HIDE DEF s
<1>7. /\ t \in Sessions /\ t.active = Tail(s.active) /\ t.conn = "disconnected"
      /\ t.state = s.state /\ t.user = s.user /\ t.cwd = s.cwd /\ t.size = s.size /\ t.file = s.file
      /\ t.pos = s.pos /\ t.gets = s.gets /\ t.in = s.in /\ t.call = s.call
  BY <1>3, <1>6 DEF Sessions, Turns
<1> HIDE DEF t
<1>8. Talk(cli[c], local[c], Rest(s) \o c2s[c], s2c[c], t)
  <2>1. CallOK(t) /\ Gone(cli[c], <<>>, t)
    BY <1>1, <1>4, <1>7 DEF CallOK, Gone
  <2>2. SessionOK(t)
    BY <1>3, <1>7 DEF Talk, SessionOK
  <2> QED
    BY <1>1, <1>3, <1>5, <1>7, <2>1, <2>2, TalkGone
<1>9. Rest(t) = Rest(s)
  BY <1>7 DEF Rest
<1>10. Files(t, dirs, file, inode) /\ Registered(t)
  <2>1. Registered(t)
    BY <1>3, <1>6, <1>7 DEF Registered
  <2>2. Files(t, dirs, file, inode)
    BY <1>3, <1>7 DEF Files, Reached, HereOf
  <2> QED
    BY <2>1, <2>2
<1>11. /\ c2s' \in [Clients -> Seq(ToServer)] /\ s2c' \in [Clients -> Seq(ToClient)]
       /\ users' \subseteq Users /\ aborted' \in BOOLEAN
  BY <1>1 DEF IInv, Typed
<1>12. Talk(cli[c], local[c], Rest(t) \o c2s'[c], s2c'[c], t)
  BY <1>1, <1>8, <1>9
<1> QED
  BY <1>1, <1>2, <1>7, <1>10, <1>11, <1>12, ServerMovesQuietly

(* The functor connectDestroyed runs. *)
LEMMA ConnectDestroyedStep == ASSUME IInv, NEW c \in Clients, ConnectDestroyed(c) PROVE IInv'
<1>1. /\ ~aborted /\ srv[c].conn = "disconnected" /\ srv[c].active = <<>>
      /\ UNCHANGED <<cli, local, c2s, s2c, users, fileSystem, aborted>>
  BY DEF ConnectDestroyed, clientSide
<1> DEFINE s == srv[c]
           t == [s EXCEPT !.conn = IF s.gets = "none" THEN "released" ELSE "destroyed",
                          !.file = IF s.gets = "none" THEN 0 ELSE @]
<1>2. srv' = [srv EXCEPT ![c] = t]
  BY DEF ConnectDestroyed
<1>3. /\ s \in Sessions /\ Talk(cli[c], local[c], Rest(s) \o c2s[c], s2c[c], s)
      /\ Files(s, dirs, file, inode) /\ Registered(s) /\ s.active = <<>> /\ s.conn = "disconnected"
  BY <1>1, Around DEF IInv
<1> HIDE DEF s
<1>4. /\ t \in Sessions /\ t.conn = IF s.gets = "none" THEN "released" ELSE "destroyed"
      /\ t.file = IF s.gets = "none" THEN 0 ELSE s.file
      /\ t.state = s.state /\ t.user = s.user /\ t.cwd = s.cwd /\ t.size = s.size /\ t.active = s.active
      /\ t.pos = s.pos /\ t.gets = s.gets /\ t.in = s.in /\ t.call = s.call
  BY <1>3 DEF Sessions
<1> HIDE DEF t
<1>5. Rest(t) = Rest(s)
  BY <1>4 DEF Rest
<1>6. Talk(cli[c], local[c], Rest(s) \o c2s[c], s2c[c], t)
  <2>1. CallOK(t) /\ cli[c].state = "dead" /\ Gone(cli[c], Rest(s) \o c2s[c], t)
    BY <1>3, <1>4 DEF Talk, CallOK, Gone
  <2>2. SessionOK(t)
    BY <1>3, <1>4 DEF Talk, SessionOK
  <2> QED
    BY <1>3, <1>4, <2>1, <2>2, TalkGone
<1>7. Files(t, dirs, file, inode) /\ Registered(t)
  <2>1. Registered(t)
    BY <1>3, <1>4 DEF Registered
  <2>2. Files(t, dirs, file, inode)
    BY <1>3, <1>4 DEF Files, Reached, HereOf
  <2> QED
    BY <2>1, <2>2
<1>8. /\ c2s' \in [Clients -> Seq(ToServer)] /\ s2c' \in [Clients -> Seq(ToClient)]
      /\ users' \subseteq Users /\ aborted' \in BOOLEAN
  BY <1>1 DEF IInv, Typed
<1>9. Talk(cli[c], local[c], Rest(t) \o c2s'[c], s2c'[c], t)
  BY <1>1, <1>5, <1>6
<1> QED
  BY <1>1, <1>2, <1>4, <1>7, <1>8, <1>9, ServerMovesQuietly

(* The channel of a download reads its file once more. *)
LEMMA HandleGetsStep == ASSUME IInv, NEW c \in Clients, HandleGets(c) PROVE IInv'
<1>1. /\ ~aborted /\ srv[c].in = <<>> /\ srv[c].active # <<>> /\ Head(srv[c].active) = "gets"
      /\ UNCHANGED <<cli, local, c2s, users, fileSystem, aborted>>
  BY DEF HandleGets, Handles, clientSide
<1> DEFINE s == srv[c]
           q == Rest(s) \o c2s[c]
           data == NextChunk(s)
<1>2. /\ s \in Sessions /\ Talk(cli[c], local[c], q, s2c[c], s) /\ Files(s, dirs, file, inode)
      /\ Ends(cli[c], local[c], q, s2c[c], s) /\ Registered(s) /\ s.active \in Turns
  BY <1>1, Around DEF IInv, Sessions, Turns
<1>3. s.gets = "added" /\ s.state = "Gets" /\ s.call = "none"
  <2>1. \E i \in DOMAIN s.active : s.active[i] = "gets"
    <3>1. 1 \in DOMAIN s.active /\ s.active[1] = "gets"
      BY <1>1, <1>2 DEF Turns
    <3> QED
      BY <3>1
  <2> QED
    BY <1>2, <2>1 DEF Registered, Talk, SessionOK
<1>4. /\ Tail(s.active) \in Turns
      /\ ~\E i \in DOMAIN Tail(s.active) : Tail(s.active)[i] = "gets"
  BY <1>1, <1>2, TurnOver
<1>5. /\ c2s' \in [Clients -> Seq(ToServer)] /\ users' \subseteq Users /\ aborted' \in BOOLEAN
      /\ Typed /\ c2s'[c] = c2s[c]
  BY <1>1 DEF IInv, Typed
<1>6. CASE s.size = 0
  <2> DEFINE t == [s EXCEPT !.active = Tail(@), !.gets = "removed"]
  <2>1. srv' = [srv EXCEPT ![c] = t] /\ s2c' = s2c
    BY <1>6 DEF HandleGets
  <2>2. s.in = <<>>
    BY <1>1
  <2> HIDE DEF s, q
  <2>3. /\ t \in Sessions /\ t.active = Tail(s.active) /\ t.gets = "removed"
        /\ t.state = s.state /\ t.user = s.user /\ t.cwd = s.cwd /\ t.size = s.size /\ t.file = s.file
        /\ t.pos = s.pos /\ t.in = s.in /\ t.call = s.call /\ t.conn = s.conn
    BY <1>2, <1>4 DEF Sessions, Turns
  <2> HIDE DEF t
  <2>4. s.conn # "released"
    BY <1>2, <1>3 DEF Talk, SessionOK
  <2>5. Talk(cli[c], local[c], q, s2c[c], t)
    BY <1>2, <1>3, <2>2, <2>3, <2>4, TalkTurns
  <2>6. Rest(t) = Rest(s)
    BY <2>3 DEF Rest
  <2>7. Files(t, dirs, file, inode) /\ Registered(t)
    BY <1>2, <1>4, <2>3 DEF Files, Reached, HereOf, Registered
  <2>8. Talk(cli[c], local[c], Rest(t) \o c2s'[c], s2c'[c], t)
    BY <1>5, <2>1, <2>5, <2>6 DEF q
  <2>9. s2c' \in [Clients -> Seq(ToClient)] /\ \A d \in Clients \ {c} : s2c'[d] = s2c[d]
    BY <1>5, <2>1 DEF Typed
  <2> QED
    BY <1>1, <1>5, <2>1, <2>3, <2>7, <2>8, <2>9, ServerMovesQuietly
<1>7. CASE s.size # 0
  <2> DEFINE t == [s EXCEPT !.active = Tail(@), !.size = SizeLeft(s), !.pos = @ + Len(data)]
             m == Frame("data", CString(data))
  <2>1. srv' = [srv EXCEPT ![c] = t] /\ Reply(c, m)
    BY <1>7 DEF HandleGets
  <2>2. /\ s.in = <<>> /\ s.file \in Inodes \cup {0} /\ s.pos \in Nat /\ s.size \in Int
        /\ s.file # 0 => s.pos <= Len(inode[s.file])
    BY <1>1, <1>2, <1>3 DEF Sessions, Files
  <2>3. s.file # 0 => inode[s.file] \in Seq(Text)
    BY <1>5, <2>2 DEF Typed
  <2>4a. ASSUME s.file # 0
         PROVE  /\ data \in Seq(Text) /\ Len(data) \in Nat /\ s.pos + Len(data) <= Len(inode[s.file])
                /\ SizeLeft(s) = s.size - Len(data) /\ CString(data) = data
    <3>1. data = ReadAt(inode[s.file], s.pos) /\ SizeLeft(s) = s.size - Len(data)
      BY <2>4a DEF NextChunk, ReadLen, SizeLeft
    <3> DEFINE I == inode[s.file]
               n == s.pos
    <3>2. I \in Seq(Text) /\ n \in Nat /\ n <= Len(I) /\ Len(I) \in Nat /\ BufLen \in Nat \ {0}
      BY <2>2, <2>3, <2>4a, LenProperties, NetdiskAssumption
    <3> HIDE DEF I, n
    <3>3. /\ ReadAt(I, n) \in Seq(Text) /\ Len(ReadAt(I, n)) \in Nat
          /\ Len(ReadAt(I, n)) = IF n + BufLen < Len(I) THEN BufLen ELSE Len(I) - n
      BY <3>2, ReadReturns
    <3>4. n + Len(ReadAt(I, n)) <= Len(I)
      BY <3>2, <3>3
    <3>5. CString(ReadAt(I, n)) = ReadAt(I, n)
      BY <3>3, TextCarried
    <3> QED
      BY <3>1, <3>3, <3>4, <3>5 DEF I, n
  <2>4b. ASSUME s.file = 0
         PROVE  /\ data = <<>> /\ CString(data) = data /\ SizeLeft(s) \in Int
                /\ s.size > 0 => SizeLeft(s) > 0
    <3>1. data = <<>> /\ ReadLen(s) = -1
      BY <2>4b DEF NextChunk, ReadLen
    <3>2. SizeLeft(s) = IF s.size >= MaxSize THEN s.size ELSE s.size - (-1)
      BY <2>4b, <3>1 DEF SizeLeft
    <3>3. CString(data) = data
      <4>1. <<>> \in Seq(Text)
        BY EmptySeq
      <4> QED
        BY <3>1, <4>1, TextCarried
    <3> QED
      BY <2>2, <3>1, <3>2, <3>3
  <2>4. /\ data \in Seq(Text) /\ Len(data) \in Nat /\ CString(data) = data /\ SizeLeft(s) \in Int
        /\ s.file # 0 => s.pos + Len(data) <= Len(inode[s.file])
        /\ IF s.file = 0 THEN Len(data) = 0 /\ (s.size > 0 => SizeLeft(s) > 0)
                         ELSE SizeLeft(s) = s.size - Len(data)
    <3>1. CASE s.file = 0
      BY <2>4b, <3>1, EmptySeq
    <3>2. CASE s.file # 0
      <4>1. s.size - Len(data) \in Int
        BY <2>2, <2>4a, <3>2
      <4> QED
        BY <2>4a, <3>2, <4>1
    <3> QED
      BY <3>1, <3>2
  <2>5. m \in ToClient /\ m.kind = "data" /\ m.val = data
    BY <2>4 DEF Frame, ToClient
  <2> HIDE DEF s, q, data, m
  <2>6. /\ t \in Sessions /\ t.active = Tail(s.active) /\ t.gets = s.gets
        /\ t.state = s.state /\ t.user = s.user /\ t.cwd = s.cwd /\ t.file = s.file
        /\ t.size = SizeLeft(s) /\ t.pos = s.pos + Len(data)
        /\ t.in = s.in /\ t.call = s.call /\ t.conn = s.conn
    <3>1. s.pos + Len(data) \in Nat /\ SizeLeft(s) \in Int
      BY <2>2, <2>4
    <3>2. t = [s EXCEPT !.active = Tail(s.active), !.size = SizeLeft(s), !.pos = s.pos + Len(data)]
      BY <1>2, <2>4 DEF Sessions
    <3> QED
      BY <1>2, <1>4, <3>1, <3>2 DEF Sessions, Turns
  <2> HIDE DEF t
  <2>7. Talk(cli[c], local[c], q, Sent(cli[c], s, s2c[c], m), t)
    BY <1>2, <1>3, <1>7, <2>4, <2>5, <2>6, TalkGetsData
  <2>8. Rest(t) = Rest(s)
    BY <2>6 DEF Rest
  <2>9. Files(t, dirs, file, inode) /\ Registered(t)
    BY <1>2, <1>3, <1>4, <2>4, <2>6 DEF Files, Reached, HereOf, Registered
  <2>10. /\ s2c' \in [Clients -> Seq(ToClient)] /\ \A d \in Clients \ {c} : s2c'[d] = s2c[d]
         /\ s2c'[c] = Sent(cli[c], s, s2c[c], m)
    BY <1>5, <2>1, <2>5, Replies DEF s
  <2>11. Talk(cli[c], local[c], Rest(t) \o c2s'[c], s2c'[c], t)
    BY <1>5, <2>7, <2>8, <2>10 DEF q
  <2> QED
    BY <1>1, <1>5, <2>1, <2>6, <2>9, <2>10, <2>11, ServerMovesQuietly
<1> QED
  BY <1>6, <1>7
-----------------------------------------------------------------------------
(* The steps of the server: its frames *)

(* A session that is done with a frame. *)
LEMMA FrameDone ==
  ASSUME IInv, NEW c \in Clients, ~aborted, srv[c].in # <<>>, UNCHANGED <<cli, local, c2s>>,
         NEW new \in Sessions, new.in = srv[c].in, new.active = srv[c].active, Becomes(c, new),
         NEW t, t = DoneWith(new),
         s2c' \in [Clients -> Seq(ToClient)], \A d \in Clients \ {c} : s2c'[d] = s2c[d],
         Talk(cli[c], local[c], Tail(srv[c].in) \o c2s[c], s2c'[c], t),
         users' \subseteq Users, dirs' \subseteq Paths,
         file' \in [Paths -> Inodes \cup {0}], inode' \in [Inodes -> Seq(Text)],
         writers' \in [Inodes -> SUBSET (Clients \X Params)],
         new.file # 0 => new.pos <= Len(inode'[new.file]),
         \A d \in Clients \ {c} : Files(srv[d], dirs', file', inode'),
         aborted' \in BOOLEAN, aborted' \/ srv[c].gets # "added" \/ new.gets = "added"
  PROVE  IInv'
<1>1. srv[c] \in Sessions /\ Registered(srv[c])
  BY Around DEF IInv
<1>2. /\ t \in Sessions /\ t.call = "none" /\ Rest(t) = Tail(srv[c].in)
      /\ t.file = new.file /\ t.pos = new.pos /\ t.gets = new.gets /\ t.active = new.active
  BY <1>1, Done
<1>3. srv' = [srv EXCEPT ![c] = t]
  BY DEF Becomes, DoneWith
<1>4. Files(t, dirs', file', inode')
  BY <1>2 DEF Files
<1>5. aborted' \/ Registered(t)
  BY <1>1, <1>2 DEF Registered
<1>6. c2s' \in [Clients -> Seq(ToServer)] /\ \A d \in Clients \ {c} : c2s'[d] = c2s[d]
  BY DEF IInv, Typed
<1>7. Talk(cli[c], local[c], Rest(t) \o c2s'[c], s2c'[c], t)
  BY <1>2
<1> QED
  BY <1>2, <1>3, <1>4, <1>5, <1>6, <1>7, ServerMoves

(* It has touched no file. *)
LEMMA FrameDoneQuietly ==
  ASSUME IInv, NEW c \in Clients, ~aborted, srv[c].in # <<>>,
         UNCHANGED <<cli, local, c2s, fileSystem>>,
         NEW new \in Sessions, new.in = srv[c].in, new.active = srv[c].active, Becomes(c, new),
         NEW t, t = DoneWith(new),
         s2c' \in [Clients -> Seq(ToClient)], \A d \in Clients \ {c} : s2c'[d] = s2c[d],
         Talk(cli[c], local[c], Tail(srv[c].in) \o c2s[c], s2c'[c], t),
         users' \subseteq Users,
         new.file # 0 => new.pos <= Len(inode[new.file]),
         aborted' \in BOOLEAN, aborted' \/ srv[c].gets # "added" \/ new.gets = "added"
  PROVE  IInv'
<1>1. dirs' = dirs /\ file' = file /\ inode' = inode /\ writers' = writers
  BY DEF fileSystem
<1>2. /\ dirs' \subseteq Paths /\ file' \in [Paths -> Inodes \cup {0}]
      /\ inode' \in [Inodes -> Seq(Text)] /\ writers' \in [Inodes -> SUBSET (Clients \X Params)]
  BY <1>1 DEF IInv, Typed
<1>3. \A d \in Clients \ {c} : Files(srv[d], dirs', file', inode')
  BY <1>1 DEF IInv
<1>4. new.file # 0 => new.pos <= Len(inode'[new.file])
  BY <1>1
<1> QED
  BY <1>2, <1>3, <1>4, FrameDone

(* A session whose handler comes to its next call. *)
LEMMA MidFrame ==
  ASSUME IInv, NEW c \in Clients, ~aborted, srv[c].in # <<>>,
         UNCHANGED <<cli, local, c2s, s2c, fileSystem>>,
         NEW new \in Sessions, new.in = srv[c].in, new.active = srv[c].active,
         new.file = srv[c].file, new.pos = srv[c].pos, new.gets = srv[c].gets,
         NEW call \in ServerCalls,
         GoesOn(c, new, call),
         call \in {"statFile", "openFile"} => Reached(new, dirs, file),
         NEW t, t = Midway(new, call),
         Talk(cli[c], local[c], Tail(srv[c].in) \o c2s[c], s2c[c], t),
         users' \subseteq Users, aborted' \in BOOLEAN
  PROVE  IInv'
<1>1. srv[c] \in Sessions /\ Registered(srv[c]) /\ Files(srv[c], dirs, file, inode)
  BY Around DEF IInv
<1>2. /\ t \in Sessions /\ t.call = call /\ Rest(t) = Tail(srv[c].in) /\ t.in = new.in
      /\ t.user = new.user /\ t.cwd = new.cwd
      /\ t.file = new.file /\ t.pos = new.pos /\ t.gets = new.gets /\ t.active = new.active
  <2>1. t \in Sessions /\ t.in = new.in /\ t.call = call /\ Rest(t) = Tail(new.in)
    BY Going
  <2>2. /\ t.user = new.user /\ t.cwd = new.cwd /\ t.file = new.file /\ t.pos = new.pos
        /\ t.gets = new.gets /\ t.active = new.active
    BY Going
  <2> QED
    BY <2>1, <2>2
<1>3. srv' = [srv EXCEPT ![c] = t]
  BY DEF GoesOn, Midway
<1>4. Files(t, dirs, file, inode)
  BY <1>1, <1>2 DEF Files, Reached, HereOf
<1>5. Registered(t)
  BY <1>1, <1>2 DEF Registered
<1>6. /\ c2s' \in [Clients -> Seq(ToServer)] /\ s2c' \in [Clients -> Seq(ToClient)]
  BY DEF IInv, Typed
<1>7. Talk(cli[c], local[c], Rest(t) \o c2s'[c], s2c'[c], t)
  BY <1>2
<1> QED
  BY <1>2, <1>3, <1>4, <1>5, <1>6, <1>7, ServerMovesQuietly

(* A session that takes a frame. *)
LEMMA Takes ==
  ASSUME IInv, NEW c \in Clients, NEW state, ServerTakes(c, state)
  PROVE  LET s == srv[c]
             q == Rest(s) \o c2s[c]
         IN  /\ ~aborted /\ UNCHANGED <<cli, local, c2s>>
             /\ s \in Sessions /\ s.in # <<>> /\ s.call = "none" /\ s.state = state
             /\ Ends(cli[c], local[c], q, s2c[c], s) /\ Talk(cli[c], local[c], q, s2c[c], s)
             /\ q # <<>> /\ q[1] = s.in[1] /\ Msg(c) = q[1] /\ Msg(c) \in ToServer
             /\ Tail(q) = Tail(s.in) \o c2s[c]
             /\ Msg(c).kind = ServerExpects[state]
             /\ s.file # 0 => s.pos <= Len(inode[s.file])
             /\ Typed /\ users \subseteq Users /\ s2c \in [Clients -> Seq(ToClient)]
<1>1. /\ ~aborted /\ UNCHANGED <<cli, local, c2s>>
      /\ srv[c].in # <<>> /\ srv[c].call = "none" /\ srv[c].state = state
  BY DEF ServerTakes, clientSide
<1> DEFINE s == srv[c]
           q == Rest(s) \o c2s[c]
<1>2. /\ s \in Sessions /\ Ends(cli[c], local[c], q, s2c[c], s)
      /\ Talk(cli[c], local[c], q, s2c[c], s) /\ Files(s, dirs, file, inode)
  BY Around
<1>3. /\ q # <<>> /\ q[1] = s.in[1] /\ Msg(c) = s.in[1] /\ Msg(c) \in ToServer
      /\ Tail(q) = Tail(s.in) \o c2s[c]
  BY <1>1, Taken
<1>4. q[1].kind = ServerExpects[s.state]
  <2>1. s.call = "none"
    BY <1>1
  <2> HIDE DEF s, q
  <2> QED
    BY <2>1, <1>2, <1>3, Expected
<1>5. s.file # 0 => s.pos <= Len(inode[s.file])
  BY <1>2 DEF Files
<1>6. Typed /\ users \subseteq Users /\ s2c \in [Clients -> Seq(ToClient)]
  BY DEF IInv, Typed
<1> QED
  BY <1>1, <1>2, <1>3, <1>4, <1>5, <1>6

(* onMessage takes a menu choice. *)
LEMMA MenuChoiceStep == ASSUME IInv, NEW c \in Clients, MenuChoice(c) PROVE IInv'
<1> DEFINE s == srv[c]
           q == Rest(s) \o c2s[c]
           state == IF q[1].val = "0" THEN "Registering" ELSE "Logining_Step1"
           new == [s EXCEPT !.state = state]
           t == DoneWith(new)
<1>1. ServerTakes(c, "Init") /\ UNCHANGED <<s2c, users, fileSystem, aborted>>
  BY DEF MenuChoice
<1>2. /\ ~aborted /\ UNCHANGED <<cli, local, c2s>>
      /\ s \in Sessions /\ s.in # <<>> /\ s.call = "none" /\ s.state = "Init"
      /\ Ends(cli[c], local[c], q, s2c[c], s) /\ Talk(cli[c], local[c], q, s2c[c], s)
      /\ q # <<>> /\ q[1] = s.in[1] /\ Msg(c) = q[1] /\ Msg(c).kind = ServerExpects["Init"]
      /\ Tail(q) = Tail(s.in) \o c2s[c]
      /\ s.file # 0 => s.pos <= Len(inode[s.file])
      /\ users \subseteq Users /\ s2c \in [Clients -> Seq(ToClient)]
  BY <1>1, Takes
<1>3. Becomes(c, new) /\ state \in ServerStates
  <2>1. Msg(c).kind = "menu"
    BY <1>2 DEF ServerExpects
  <2>2. state = CASE Msg(c).kind # "menu" -> s.state
                  [] Msg(c).kind = "menu" /\ Msg(c).val = "0" -> "Registering"
                  [] OTHER -> "Logining_Step1"
    BY <1>2, <2>1
  <2>3. Becomes(c, new)
    BY <2>2 DEF MenuChoice
  <2>4. state \in ServerStates
    BY DEF ServerStates
  <2> QED
    BY <2>3, <2>4
<1> HIDE DEF s, q
<1>4. /\ new \in Sessions /\ new.in = s.in /\ new.active = s.active /\ new.state = state
      /\ new.gets = s.gets /\ new.file = s.file /\ new.pos = s.pos /\ new.user = s.user /\ new.conn = s.conn
  BY <1>2, <1>3 DEF Sessions
<1> HIDE DEF new
<1>5. /\ t.state = new.state /\ t.call = "none" /\ t.gets = new.gets /\ t.conn = new.conn
      /\ t.user = new.user
  BY <1>2, <1>4, Done
<1> HIDE DEF t
<1>6. Talk(cli[c], local[c], Tail(q), s2c[c], t)
  BY <1>2, <1>4, <1>5, TalkMenu
<1>7. users' \subseteq Users /\ s2c' = s2c /\ UNCHANGED fileSystem /\ aborted' = FALSE
  BY <1>1, <1>2
<1>8. Talk(cli[c], local[c], Tail(s.in) \o c2s[c], s2c'[c], t)
  BY <1>2, <1>6, <1>7
<1> QED
  BY <1>1, <1>2, <1>3, <1>4, <1>7, <1>8, FrameDoneQuietly DEF s, t

(* onMessage takes a registration. *)
LEMMA HandleRegisterStep == ASSUME IInv, NEW c \in Clients, HandleRegister(c) PROVE IInv'
<1> DEFINE s == srv[c]
           q == Rest(s) \o c2s[c]
           u == Msg(c).val
           new == [s EXCEPT !.state = "Init"]
           f == Ret(FALSE)
<1>1. ServerTakes(c, "Registering") /\ UNCHANGED <<fileSystem, aborted>>
  BY DEF HandleRegister
<1>2. /\ ~aborted /\ UNCHANGED <<cli, local, c2s>>
      /\ s \in Sessions /\ s.in # <<>> /\ s.call = "none" /\ s.state = "Registering"
      /\ Ends(cli[c], local[c], q, s2c[c], s) /\ Talk(cli[c], local[c], q, s2c[c], s)
      /\ q # <<>> /\ q[1] = s.in[1] /\ Msg(c) = q[1] /\ Msg(c) \in ToServer
      /\ Tail(q) = Tail(s.in) \o c2s[c] /\ Msg(c).kind = ServerExpects["Registering"]
      /\ s.file # 0 => s.pos <= Len(inode[s.file])
      /\ Typed /\ users \subseteq Users /\ s2c \in [Clients -> Seq(ToClient)]
  BY <1>1, Takes
<1>3. u \in Users
  BY <1>2 DEF ToServer, ServerExpects
<1>4. \/ /\ users' = users \cup {u} /\ GoesOn(c, new, "mkdir") /\ UNCHANGED s2c
      \/ /\ Becomes(c, new) /\ Reply(c, f) /\ UNCHANGED users
  BY DEF HandleRegister
<1>5. /\ f \in ToClient /\ f.kind = "ret"
  BY DEF Ret, Frame, ToClient
<1>6. aborted' = FALSE /\ UNCHANGED fileSystem
  BY <1>1, <1>2
<1> HIDE DEF s, q, u, f
<1>7. /\ new \in Sessions /\ new.in = s.in /\ new.active = s.active /\ new.state = "Init"
      /\ new.gets = s.gets /\ new.file = s.file /\ new.pos = s.pos /\ new.user = s.user /\ new.conn = s.conn
  BY <1>2 DEF Sessions, ServerStates
<1> HIDE DEF new
<1>8. ASSUME users' = users \cup {u}, GoesOn(c, new, "mkdir"), UNCHANGED s2c
      PROVE  IInv'
  <2> DEFINE t == Midway(new, "mkdir")
  <2>0. "mkdir" \in ServerCalls /\ "mkdir" \notin {"access", "statFile", "openFile"}
    BY DEF ServerCalls
  <2>1. /\ t.state = new.state /\ t.call = "mkdir" /\ t.gets = new.gets /\ t.conn = new.conn
        /\ t.user = new.user /\ t.in = s.in
    BY <1>7, <2>0, Going
  <2> HIDE DEF t
  <2>2. Talk(cli[c], local[c], Tail(q), s2c[c], t)
    BY <1>2, <1>5, <1>7, <2>1, TalkRegister
  <2>3. Talk(cli[c], local[c], Tail(s.in) \o c2s[c], s2c[c], t)
    BY <1>2, <2>2
  <2>4. users' \subseteq Users
    BY <1>2, <1>3, <1>8
  <2> QED
    BY <1>2, <1>6, <1>7, <1>8, <2>0, <2>3, <2>4, MidFrame DEF s, t
<1>9. ASSUME Becomes(c, new), Reply(c, f), UNCHANGED users
      PROVE  IInv'
  <2> DEFINE t == DoneWith(new)
  <2>1. /\ t.state = new.state /\ t.call = "none" /\ t.gets = new.gets /\ t.conn = new.conn
        /\ t.user = new.user
    BY <1>2, <1>7, Done
  <2> HIDE DEF t
  <2>2. /\ s2c' \in [Clients -> Seq(ToClient)] /\ s2c'[c] = Sent(cli[c], s, s2c[c], f)
        /\ \A d \in Clients \ {c} : s2c'[d] = s2c[d]
    BY <1>2, <1>5, <1>9, Replies DEF s
  <2>3. Talk(cli[c], local[c], Tail(q), Sent(cli[c], s, s2c[c], f), t)
    BY <1>2, <1>5, <1>7, <2>1, TalkRegister
  <2>4. Talk(cli[c], local[c], Tail(s.in) \o c2s[c], s2c'[c], t)
    BY <1>2, <2>2, <2>3
  <2>5. users' \subseteq Users
    BY <1>2, <1>9
  <2> QED
    BY <1>2, <1>6, <1>7, <1>9, <2>2, <2>4, <2>5, FrameDoneQuietly DEF s, t
<1> QED
  BY <1>4, <1>8, <1>9

(* onMessage takes the name of a login. *)
LEMMA LoginStep1Step == ASSUME IInv, NEW c \in Clients, LoginStep1(c) PROVE IInv'
<1> DEFINE s == srv[c]
           q == Rest(s) \o c2s[c]
           u == Msg(c).val
<1>1. ServerTakes(c, "Logining_Step1") /\ UNCHANGED <<users, fileSystem, aborted>>
  BY DEF LoginStep1
<1>2. /\ ~aborted /\ UNCHANGED <<cli, local, c2s>>
      /\ s \in Sessions /\ s.in # <<>> /\ s.call = "none" /\ s.state = "Logining_Step1"
      /\ Ends(cli[c], local[c], q, s2c[c], s) /\ Talk(cli[c], local[c], q, s2c[c], s)
      /\ q # <<>> /\ q[1] = s.in[1] /\ Msg(c) = q[1] /\ Msg(c) \in ToServer
      /\ Tail(q) = Tail(s.in) \o c2s[c] /\ Msg(c).kind = ServerExpects["Logining_Step1"]
      /\ s.file # 0 => s.pos <= Len(inode[s.file])
      /\ Typed /\ users \subseteq Users /\ s2c \in [Clients -> Seq(ToClient)]
  BY <1>1, Takes
<1>3. u \in Users
  BY <1>2 DEF ToServer, ServerExpects
<1>4. PICK found \in Selects(u) :
        /\ Becomes(c, [s EXCEPT !.user = u, !.state = IF found THEN "Logining_Step2" ELSE "Init"])
        /\ Reply(c, Frame("salt", found))
  BY DEF LoginStep1
<1>5. found \in BOOLEAN
  <2>1. found = FALSE \/ found = (u \in users)
    BY DEF Selects
  <2>2. (u \in users) \in BOOLEAN
    OBVIOUS
  <2> QED
    BY <2>1, <2>2
<1> DEFINE new == [s EXCEPT !.user = u, !.state = IF found THEN "Logining_Step2" ELSE "Init"]
           t == DoneWith(new)
           f == Frame("salt", found)
<1>6. f \in ToClient /\ f.kind = "salt" /\ f.val = found
  BY <1>5 DEF Frame, ToClient
<1>7. aborted' = FALSE /\ UNCHANGED fileSystem /\ users' \subseteq Users
  BY <1>1, <1>2
<1> HIDE DEF s, q, u, f
<1>8. /\ new \in Sessions /\ new.in = s.in /\ new.active = s.active
      /\ new.state = (IF found THEN "Logining_Step2" ELSE "Init")
      /\ new.gets = s.gets /\ new.file = s.file /\ new.pos = s.pos /\ new.user = u /\ new.conn = s.conn
  BY <1>2, <1>3 DEF Sessions, ServerStates
<1>9. Becomes(c, new)
  BY <1>4
<1> HIDE DEF new
<1>10. /\ t.state = new.state /\ t.call = "none" /\ t.gets = new.gets /\ t.conn = new.conn
       /\ t.user = new.user
  BY <1>2, <1>8, Done
<1> HIDE DEF t
<1>11. /\ s2c' \in [Clients -> Seq(ToClient)] /\ s2c'[c] = Sent(cli[c], s, s2c[c], f)
       /\ \A d \in Clients \ {c} : s2c'[d] = s2c[d]
  BY <1>2, <1>4, <1>6, Replies DEF s, f
<1>12. Talk(cli[c], local[c], Tail(q), Sent(cli[c], s, s2c[c], f), t)
  BY <1>2, <1>3, <1>5, <1>6, <1>8, <1>10, TalkLogin1
<1>13. Talk(cli[c], local[c], Tail(s.in) \o c2s[c], s2c'[c], t)
  BY <1>2, <1>11, <1>12
<1> QED
  BY <1>2, <1>7, <1>8, <1>9, <1>11, <1>13, FrameDoneQuietly DEF s, t

(* onMessage takes the password of a login. *)
LEMMA LoginStep2Step == ASSUME IInv, NEW c \in Clients, LoginStep2(c) PROVE IInv'
<1> DEFINE s == srv[c]
           q == Rest(s) \o c2s[c]
<1>1. ServerTakes(c, "Logining_Step2") /\ UNCHANGED <<users, fileSystem, aborted>>
  BY DEF LoginStep2
<1>2. /\ ~aborted /\ UNCHANGED <<cli, local, c2s>>
      /\ s \in Sessions /\ s.in # <<>> /\ s.call = "none" /\ s.state = "Logining_Step2"
      /\ Ends(cli[c], local[c], q, s2c[c], s) /\ Talk(cli[c], local[c], q, s2c[c], s)
      /\ q # <<>> /\ q[1] = s.in[1] /\ Msg(c) = q[1] /\ Msg(c) \in ToServer
      /\ Tail(q) = Tail(s.in) \o c2s[c] /\ Msg(c).kind = ServerExpects["Logining_Step2"]
      /\ s.file # 0 => s.pos <= Len(inode[s.file])
      /\ Typed /\ users \subseteq Users /\ s2c \in [Clients -> Seq(ToClient)]
  BY <1>1, Takes
<1> DEFINE After(ok) == IF ok THEN [s EXCEPT !.state = "Login_Success", !.cwd = <<>>]
                        ELSE [s EXCEPT !.state = "Init"]
<1>3. Msg(c).val \in BOOLEAN
  BY <1>2 DEF ToServer, ServerExpects
<1>4. PICK found \in Selects(s.user) :
        /\ Becomes(c, After(found /\ Msg(c).val))
        /\ Reply(c, Ret(found /\ Msg(c).val))
  BY DEF LoginStep2
<1> DEFINE ok == found /\ Msg(c).val
<1>5. ok \in BOOLEAN /\ Becomes(c, After(ok)) /\ Reply(c, Ret(ok))
  BY <1>4
<1> HIDE DEF ok
<1> DEFINE new == After(ok)
           t == DoneWith(new)
           f == Ret(ok)
<1>6. f \in ToClient /\ f.kind = "ret" /\ f.val = IF ok THEN 0 ELSE -1
  BY <1>5 DEF Ret, Frame, ToClient
<1>7. aborted' = FALSE /\ UNCHANGED fileSystem /\ users' \subseteq Users
  BY <1>1, <1>2
<1> HIDE DEF s, q, f
<1>8. /\ new \in Sessions /\ new.in = s.in /\ new.active = s.active
      /\ new.state = (IF ok THEN "Login_Success" ELSE "Init")
      /\ new.gets = s.gets /\ new.file = s.file /\ new.pos = s.pos /\ new.user = s.user /\ new.conn = s.conn
  <2>1. <<>> \in Seq(Paths)
    BY EmptySeq
  <2>2. CASE ok
    BY <1>2, <2>1, <2>2 DEF Sessions, ServerStates
  <2>3. CASE ~ok
    BY <1>2, <2>3 DEF Sessions, ServerStates
  <2> QED
    BY <2>2, <2>3
<1>9. Becomes(c, new) /\ Reply(c, f)
  BY <1>5 DEF f
<1> HIDE DEF new
<1>10. /\ t.state = new.state /\ t.call = "none" /\ t.gets = new.gets /\ t.conn = new.conn
       /\ t.user = new.user
  BY <1>2, <1>8, Done
<1> HIDE DEF t
<1>11. /\ s2c' \in [Clients -> Seq(ToClient)] /\ s2c'[c] = Sent(cli[c], s, s2c[c], f)
       /\ \A d \in Clients \ {c} : s2c'[d] = s2c[d]
  BY <1>2, <1>6, <1>9, Replies DEF s
<1>12. Talk(cli[c], local[c], Tail(q), Sent(cli[c], s, s2c[c], f), t)
  BY <1>2, <1>5, <1>6, <1>8, <1>10, TalkLogin2
<1>13. Talk(cli[c], local[c], Tail(s.in) \o c2s[c], s2c'[c], t)
  BY <1>2, <1>11, <1>12
<1> QED
  BY <1>2, <1>7, <1>8, <1>9, <1>11, <1>13, FrameDoneQuietly DEF s, t
-----------------------------------------------------------------------------
(* The steps of the server: the commands *)

(* What a session is told to look at is a path. *)
LEMMA TargetIs ==
  ASSUME NEW c \in Clients, Msg(c) = srv[c].in[1], Leads(srv[c], srv[c].in[1].val.arg)
  PROVE  /\ Arg(c) = srv[c].in[1].val.arg /\ Arg(c) \in Params
         /\ Here(c) = HereOf(srv[c]) /\ Arg(c).up <= Len(Here(c))
         /\ Target(c) = TargetOf(Here(c), Arg(c)) /\ Target(c) \in Paths
         /\ IsThere(c) <=> Reached(srv[c], dirs, file)
<1>1. /\ Arg(c) = srv[c].in[1].val.arg /\ Here(c) = HereOf(srv[c])
      /\ Target(c) = TargetOf(HereOf(srv[c]), srv[c].in[1].val.arg)
  BY DEF Arg, Here, HereOf, Target
<1>2. IsThere(c) <=> Reached(srv[c], dirs, file)
  BY <1>1 DEF IsThere, Found, Stands, Exists, Reached
<1> QED
  BY <1>1, <1>2 DEF Leads

(* A session that takes a command. *)
LEMMA TakesCommand ==
  ASSUME IInv, NEW c \in Clients, ServerTakes(c, "Login_Success")
  PROVE  LET s == srv[c]
             q == Rest(s) \o c2s[c]
         IN  /\ ~aborted /\ UNCHANGED <<cli, local, c2s>>
             /\ s \in Sessions /\ s.in # <<>> /\ s.call = "none" /\ s.state = "Login_Success"
             /\ Ends(cli[c], local[c], q, s2c[c], s) /\ Talk(cli[c], local[c], q, s2c[c], s)
             /\ q # <<>> /\ q[1] = s.in[1] /\ Msg(c) = q[1]
             /\ Tail(q) = Tail(s.in) \o c2s[c]
             /\ s.file # 0 => s.pos <= Len(inode[s.file])
             /\ Typed /\ users \subseteq Users /\ s2c \in [Clients -> Seq(ToClient)]
             /\ Msg(c).val \in Lines /\ s.user \in Users
             /\ Here(c) \in Paths
             /\ Arg(c) \in Params => /\ Arg(c).up <= Len(Here(c)) /\ Target(c) \in Paths
                                     /\ Target(c) = TargetOf(Here(c), Arg(c))
<1> DEFINE s == srv[c]
           q == Rest(s) \o c2s[c]
<1>1. /\ ~aborted /\ UNCHANGED <<cli, local, c2s>>
      /\ s \in Sessions /\ s.in # <<>> /\ s.call = "none" /\ s.state = "Login_Success"
      /\ Ends(cli[c], local[c], q, s2c[c], s) /\ Talk(cli[c], local[c], q, s2c[c], s)
      /\ q # <<>> /\ q[1] = s.in[1] /\ Msg(c) = q[1] /\ Msg(c) \in ToServer
      /\ Tail(q) = Tail(s.in) \o c2s[c] /\ Msg(c).kind = ServerExpects["Login_Success"]
      /\ s.file # 0 => s.pos <= Len(inode[s.file])
      /\ Typed /\ users \subseteq Users /\ s2c \in [Clients -> Seq(ToClient)]
  BY Takes
<1>2. Msg(c).val \in Lines
  BY <1>1 DEF ToServer, ServerExpects
<1>3. s.user \in Users
  BY <1>1 DEF Talk, SessionOK, ServerStates
<1>4. Arg(c) \in Params => Leads(s, s.in[1].val.arg)
  <2>1. q[1].val.arg \in Params => Leads(s, q[1].val.arg)
    <3> HIDE DEF s, q
    <3> QED
      BY <1>1, AtCommand
  <2> QED
    BY <1>1, <2>1 DEF Arg
<1>5. Here(c) \in Paths
  BY <1>1, <1>3, HereIs DEF Here, HereOf
<1>6. Arg(c) \in Params => /\ Arg(c).up <= Len(Here(c)) /\ Target(c) \in Paths
                           /\ Target(c) = TargetOf(Here(c), Arg(c))
  BY <1>1, <1>4, TargetIs
<1> QED
  BY <1>1, <1>2, <1>3, <1>4, <1>5, <1>6

(* A command that is answered at once. *)
LEMMA Answered ==
  ASSUME IInv, NEW c \in Clients, ServerTakes(c, "Login_Success"),
         NEW new \in Sessions, Becomes(c, new), new.in = srv[c].in, new.state = "Login_Success",
         new.user = srv[c].user, new.conn = srv[c].conn, new.gets = srv[c].gets,
         new.active = srv[c].active, new.file = srv[c].file, new.pos = srv[c].pos,
         NEW m \in ToClient, Reply(c, m),
         \/ Msg(c).val.cmd = "pwd" /\ m.kind = "text"
         \/ Msg(c).val.cmd \in {"mkdir", "remove", "cd"} /\ m.kind = "ret"
         \/ Msg(c).val.cmd = "puts" /\ m.kind = "ret" /\ m.val = -1
         \/ Msg(c).val.cmd = "gets" /\ m.kind = "long" /\ m.val = -1,
         UNCHANGED <<users, inode, writers, aborted>>,
         dirs' \subseteq Paths, file' \in [Paths -> Inodes \cup {0}],
         \A d \in Clients \ {c} : Files(srv[d], dirs', file', inode)
  PROVE  IInv'
<1> DEFINE s == srv[c]
           q == Rest(s) \o c2s[c]
           t == DoneWith(new)
<1>1. /\ ~aborted /\ UNCHANGED <<cli, local, c2s>>
      /\ s \in Sessions /\ s.in # <<>> /\ s.call = "none" /\ s.state = "Login_Success"
      /\ Ends(cli[c], local[c], q, s2c[c], s) /\ Talk(cli[c], local[c], q, s2c[c], s)
      /\ q # <<>> /\ Msg(c) = q[1] /\ Tail(q) = Tail(s.in) \o c2s[c]
      /\ s.file # 0 => s.pos <= Len(inode[s.file])
      /\ Typed /\ users \subseteq Users
  BY TakesCommand
<1>2. /\ s2c' \in [Clients -> Seq(ToClient)] /\ s2c'[c] = Sent(cli[c], s, s2c[c], m)
      /\ \A d \in Clients \ {c} : s2c'[d] = s2c[d]
  BY <1>1, Replies
<1>3. /\ inode' = inode /\ aborted' = FALSE /\ users' \subseteq Users
      /\ inode' \in [Inodes -> Seq(Text)] /\ writers' \in [Inodes -> SUBSET (Clients \X Params)]
  BY <1>1 DEF Typed
<1>4. new.file # 0 => new.pos <= Len(inode'[new.file])
  BY <1>1, <1>3
<1>5. \A d \in Clients \ {c} : Files(srv[d], dirs', file', inode')
  BY <1>3
<1>6. /\ new.in = s.in /\ new.user = s.user /\ new.conn = s.conn /\ new.gets = s.gets
      /\ new.active = s.active
  OBVIOUS
<1> HIDE DEF s, q
<1>7. /\ t.state = "Login_Success" /\ t.call = "none" /\ t.gets = s.gets /\ t.conn = s.conn
      /\ t.user = s.user
  BY <1>1, <1>6, Done
<1> HIDE DEF t
<1>8. Talk(cli[c], local[c], Tail(q), Sent(cli[c], s, s2c[c], m), t)
  BY <1>1, <1>7, TalkAnswers
<1>9. Talk(cli[c], local[c], Tail(s.in) \o c2s[c], s2c'[c], t)
  BY <1>1, <1>2, <1>8
<1>10. aborted' \/ s.gets # "added" \/ new.gets = "added"
  BY <1>6
<1> QED
  BY <1>1, <1>2, <1>3, <1>4, <1>5, <1>6, <1>9, <1>10, FrameDone DEF s, t

(* onMessage takes pwd. *)
LEMMA PwdStep == ASSUME IInv, NEW c \in Clients, Pwd(c) PROVE IInv'
<1> DEFINE s == srv[c]
           m == Frame("text", s.cwd)
<1>0. ServerTakes(c, "Login_Success")
  BY DEF Pwd
<1>1. /\ Msg(c).val.cmd = "pwd" /\ Becomes(c, s)
      /\ Reply(c, m) /\ UNCHANGED <<users, dirs, file, inode, writers, aborted>>
  <2>1. Msg(c).kind = ServerExpects["Login_Success"]
    BY <1>0, Takes
  <2>2. Msg(c).kind = "command"
    BY <2>1 DEF ServerExpects
  <2> QED
    BY <2>2 DEF Pwd, fileSystem
<1>2. s \in Sessions /\ Typed /\ s.state = "Login_Success"
  BY <1>0, TakesCommand
<1>3. m \in ToClient /\ m.kind = "text"
  BY <1>2 DEF Frame, ToClient, Sessions
<1>4. /\ dirs' \subseteq Paths /\ file' \in [Paths -> Inodes \cup {0}]
      /\ \A d \in Clients \ {c} : Files(srv[d], dirs', file', inode)
  BY <1>1 DEF IInv, Typed
<1> HIDE DEF s, m
<1> QED
  BY <1>0, <1>1, <1>2, <1>3, <1>4, Answered DEF s

(* What the command in hand names is a path. *)
LEMMA InHand ==
  ASSUME IInv, NEW c \in Clients, srv[c].call \in {"open", "access", "statFile", "openFile"}
  PROVE  /\ Msg(c) = srv[c].in[1] /\ Leads(srv[c], srv[c].in[1].val.arg)
         /\ Target(c) \in Paths /\ TargetOf(HereOf(srv[c]), srv[c].in[1].val.arg) \in Paths
<1> DEFINE s == srv[c]
           q == Rest(s) \o c2s[c]
<1>1. /\ s \in Sessions /\ Ends(cli[c], local[c], q, s2c[c], s)
      /\ Talk(cli[c], local[c], q, s2c[c], s) /\ s.in \in Seq(ToServer)
  BY Around
<1>2. Leads(s, s.in[1].val.arg) /\ s.in # <<>>
  <2>1. s.call \in {"stat", "open", "access", "statFile", "openFile"} /\ s.call # "stat"
    OBVIOUS
  <2> HIDE DEF s, q
  <2> QED
    BY <1>1, <2>1, AtCall
<1>3. Msg(c) = s.in[1]
  BY <1>1, <1>2, HeadTailProperties DEF Msg
<1>4. Target(c) \in Paths
  BY <1>2, <1>3, TargetIs
<1> QED
  BY <1>2, <1>3, <1>4 DEF Leads

(* What a session has found stays there while only more is made. *)
LEMMA FilesGrow ==
  ASSUME IInv, NEW d \in Clients, NEW D, dirs \subseteq D,
         NEW F, \A p \in Paths : file[p] # 0 => F[p] # 0,
         NEW I, srv[d].file # 0 => srv[d].pos <= Len(I[srv[d].file])
  PROVE  Files(srv[d], D, F, I)
<1>1. ASSUME srv[d].call \in {"statFile", "openFile"}
      PROVE  Reached(srv[d], D, F)
  <2>1. Reached(srv[d], dirs, file)
    BY <1>1, Around DEF Files
  <2>2. TargetOf(HereOf(srv[d]), srv[d].in[1].val.arg) \in Paths
    BY <1>1, InHand
  <2> QED
    BY <2>1, <2>2 DEF Reached
<1> QED
  BY <1>1 DEF Files

(* While a file is fetched, no other session removes anything. *)
LEMMA Alone ==
  ASSUME Undisturbed, IInv, NEW c \in Clients, ServerTakes(c, "Login_Success"),
         Msg(c).val.cmd = "remove", NEW d \in Clients \ {c}
  PROVE  srv[d].call \notin {"access", "statFile", "openFile"}
<1> SUFFICES ASSUME srv[d].call \in {"access", "statFile", "openFile"}
             PROVE  FALSE
  OBVIOUS
<1>1. Msg(c).val.cmd \in Commands
  <2>1. Msg(c).val \in Lines
    BY TakesCommand
  <2> QED
    BY <2>1 DEF Lines
<1>2. "gets" \in Commands
  <2>1. srv[d] \in Sessions /\ Talk(cli[d], local[d], Rest(srv[d]) \o c2s[d], s2c[d], srv[d])
    BY Around
  <2>2. srv[d].in # <<>> /\ srv[d].in[1].kind = "command" /\ srv[d].in[1].val.cmd = "gets"
    BY <2>1 DEF Talk, CallOK
  <2>3. srv[d].in \in Seq(ToServer)
    BY <2>1 DEF Sessions
  <2>4. srv[d].in[1] \in ToServer
    BY <2>2, <2>3, HeadTailProperties
  <2>5. srv[d].in[1].val \in Lines
    BY <2>2, <2>4 DEF ToServer
  <2> QED
    BY <2>2, <2>5 DEF Lines
<1> QED
  BY <1>1, <1>2 DEF Undisturbed

(* onMessage takes mkdir. *)
LEMMA MkdirStep == ASSUME IInv, NEW c \in Clients, Mkdir(c) PROVE IInv'
<1> DEFINE s == srv[c]
           ok == Found(c) /\ ~Exists(Target(c))
           m == Ret(ok)
<1>1. /\ ServerTakes(c, "Login_Success") /\ Msg(c).val.cmd = "mkdir" /\ Becomes(c, s)
      /\ Reply(c, m) /\ dirs' = (IF ok THEN dirs \cup {Target(c)} ELSE dirs)
      /\ UNCHANGED <<users, file, inode, writers, aborted>>
  BY DEF Mkdir, Commanded
<1>2. /\ s \in Sessions /\ Typed /\ s.state = "Login_Success" /\ Msg(c).val \in Lines
      /\ Arg(c) \in Params => Target(c) \in Paths
  BY <1>1, TakesCommand
<1>3. Target(c) \in Paths
  BY <1>1, <1>2 DEF Lines, Arg
<1>4. m \in ToClient /\ m.kind = "ret"
  BY DEF Ret, Frame, ToClient
<1>5. dirs' \subseteq Paths /\ file' \in [Paths -> Inodes \cup {0}]
  BY <1>1, <1>2, <1>3 DEF Typed
<1>6. ASSUME NEW d \in Clients \ {c} PROVE Files(srv[d], dirs', file', inode)
  <2>1. dirs \subseteq dirs' /\ file' = file
    BY <1>1
  <2>2. srv[d].file # 0 => srv[d].pos <= Len(inode[srv[d].file])
    BY DEF IInv, Files
  <2> QED
    BY <2>1, <2>2, FilesGrow
<1> HIDE DEF s, m, ok
<1> QED
  BY <1>1, <1>2, <1>4, <1>5, <1>6, Answered DEF s

(* onMessage takes remove. *)
LEMMA RemoveStep == ASSUME Undisturbed, IInv, NEW c \in Clients, Remove(c) PROVE IInv'
<1> DEFINE s == srv[c]
           ok == IsThere(c) /\ EmptyDir(Target(c)) /\ Arg(c).down # <<>>
           m == Ret(ok)
<1>1. /\ ServerTakes(c, "Login_Success") /\ Msg(c).val.cmd = "remove" /\ Becomes(c, s)
      /\ Reply(c, m) /\ dirs' = (IF ok THEN dirs \ {Target(c)} ELSE dirs)
      /\ file' = (IF ok THEN [file EXCEPT ![Target(c)] = 0] ELSE file)
      /\ UNCHANGED <<users, inode, writers, aborted>>
  BY DEF Remove, Commanded
<1>2. s \in Sessions /\ Typed /\ s.state = "Login_Success"
  BY <1>1, TakesCommand
<1>3. m \in ToClient /\ m.kind = "ret"
  BY DEF Ret, Frame, ToClient
<1>4. dirs' \subseteq Paths /\ file' \in [Paths -> Inodes \cup {0}]
  BY <1>1, <1>2 DEF Typed
<1>5. ASSUME NEW d \in Clients \ {c} PROVE Files(srv[d], dirs', file', inode)
  <2>1. srv[d].call \notin {"access", "statFile", "openFile"}
    BY <1>1, Alone
  <2>2. Files(srv[d], dirs, file, inode)
    BY DEF IInv
  <2> QED
    BY <2>1, <2>2 DEF Files
<1> HIDE DEF s, m, ok
<1> QED
  BY <1>1, <1>2, <1>3, <1>4, <1>5, Answered DEF s

(* Where cd leads. *)
LEMMA CdToPath ==
  ASSUME NEW c \in Clients, srv[c] \in Sessions, NEW a, a \in Params \cup {NoArg},
         a # NoArg => a.up <= Len(Here(c)) /\ TargetOf(Here(c), a) \in Paths, Here(c) \in Paths
  PROVE  CdTo(c, a) \in Seq(Paths)
<1> DEFINE w == srv[c].cwd
<1>1. w \in Seq(Paths) /\ Len(w) \in Nat
  BY LenProperties DEF Sessions
<1>2. a # NoArg => a \in Params
  OBVIOUS
<1>3. CASE a = NoArg
  BY <1>3, EmptySeq DEF CdTo
<1>4. CASE a # NoArg /\ Untested(a)
  <2>1. a.up \in Nat /\ a.up < 2
    BY <1>2, <1>4, NetdiskAssumption DEF Untested
  <2>2. CdTo(c, a) = SubSeq(w, 1, Len(w) - a.up)
    BY <1>4 DEF CdTo
  <2> HIDE DEF w
  <2>3. CASE Len(w) - a.up \in 0 .. Len(w)
    BY <1>1, <2>2, <2>3, Cut
  <2>4. CASE Len(w) - a.up \notin 0 .. Len(w)
    <3>1. Len(w) - a.up < 1 /\ Len(w) - a.up \in Int
      BY <1>1, <2>1, <2>4
    <3>2. SubSeq(w, 1, Len(w) - a.up) = <<>>
      BY <3>1, SubSeqEmpty
    <3> QED
      BY <2>2, <3>2, EmptySeq
  <2> QED
    BY <2>3, <2>4
<1>5. CASE a # NoArg /\ ~Untested(a)
  <2>1. CdTo(c, a) = w \o Way(Here(c), a)
    BY <1>5 DEF CdTo
  <2>2. Way(Here(c), a) \in Seq(Paths)
    BY <1>2, <1>5, WayIs
  <2> HIDE DEF w
  <2> QED
    BY <1>1, <2>1, <2>2, ConcatProperties
<1> QED
  BY <1>3, <1>4, <1>5

(* onMessage takes cd. *)
LEMMA CdStep == ASSUME IInv, NEW c \in Clients, Cd(c) PROVE IInv'
<1> DEFINE s == srv[c]
<1>1. ServerTakes(c, "Login_Success") /\ Msg(c).val.cmd = "cd"
  BY DEF Cd, Commanded
<1>2. PICK full \in NoFds :
        LET ok == Untested(Arg(c)) \/ (IsDir(c) /\ ~full)
        IN  /\ Becomes(c, IF ok THEN [s EXCEPT !.cwd = CdTo(c, Arg(c))] ELSE s)
            /\ Reply(c, Ret(ok))
  BY DEF Cd
<1> DEFINE ok == Untested(Arg(c)) \/ (IsDir(c) /\ ~full)
           to == CdTo(c, Arg(c))
           new == IF ok THEN [s EXCEPT !.cwd = to] ELSE s
           m == Ret(ok)
<1>3. /\ Becomes(c, new) /\ Reply(c, m)
      /\ UNCHANGED <<users, dirs, file, inode, writers, aborted>>
  BY <1>2 DEF Cd, fileSystem
<1>4. /\ s \in Sessions /\ Typed /\ s.state = "Login_Success" /\ Msg(c).val \in Lines
      /\ Here(c) \in Paths
      /\ Arg(c) \in Params => Arg(c).up <= Len(Here(c)) /\ Target(c) = TargetOf(Here(c), Arg(c))
                              /\ Target(c) \in Paths
  BY <1>1, TakesCommand
<1>5. m \in ToClient /\ m.kind = "ret"
  BY DEF Ret, Frame, ToClient
<1>6. to \in Seq(Paths)
  <2>1. Arg(c) \in Params \cup {NoArg}
    BY <1>4 DEF Lines, Arg
  <2> QED
    BY <1>4, <2>1, CdToPath
<1>7. /\ dirs' \subseteq Paths /\ file' \in [Paths -> Inodes \cup {0}]
      /\ \A d \in Clients \ {c} : Files(srv[d], dirs', file', inode)
  BY <1>3 DEF IInv, Typed
<1> HIDE DEF s, m, ok, to
<1>8. /\ new \in Sessions /\ new.in = s.in /\ new.state = "Login_Success"
      /\ new.user = s.user /\ new.conn = s.conn /\ new.gets = s.gets
      /\ new.active = s.active /\ new.file = s.file /\ new.pos = s.pos
  <2>1. CASE ok
    BY <1>4, <1>6, <2>1 DEF Sessions
  <2>2. CASE ~ok
    BY <1>4, <2>2
  <2> QED
    BY <2>1, <2>2
<1> HIDE DEF new
<1> QED
  BY <1>1, <1>3, <1>5, <1>7, <1>8, Answered DEF s

(* A command that makes a call first. *)
LEMMA Called ==
  ASSUME IInv, NEW c \in Clients, ServerTakes(c, "Login_Success"),
         NEW new \in Sessions, NEW call \in ServerCalls, GoesOn(c, new, call),
         new.in = srv[c].in, new.user = srv[c].user, new.cwd = srv[c].cwd,
         new.conn = srv[c].conn, new.gets = srv[c].gets, new.active = srv[c].active,
         new.file = srv[c].file, new.pos = srv[c].pos,
         \/ Msg(c).val.cmd = "ls" /\ new.state = "Login_Success" /\ call = "stat"
         \/ Msg(c).val.cmd = "puts" /\ new.state = "Begin_Puts" /\ call = "open"
         \/ Msg(c).val.cmd = "gets" /\ new.state = "Login_Success" /\ call = "access",
         UNCHANGED <<s2c, users, fileSystem>>, aborted' \in BOOLEAN
  PROVE  IInv'
<1> DEFINE s == srv[c]
           q == Rest(s) \o c2s[c]
           t == Midway(new, call)
<1>1. /\ ~aborted /\ UNCHANGED <<cli, local, c2s>>
      /\ s \in Sessions /\ s.in # <<>> /\ s.call = "none" /\ s.state = "Login_Success"
      /\ Ends(cli[c], local[c], q, s2c[c], s) /\ Talk(cli[c], local[c], q, s2c[c], s)
      /\ q # <<>> /\ q[1] = s.in[1] /\ Msg(c) = q[1] /\ Tail(q) = Tail(s.in) \o c2s[c]
      /\ users \subseteq Users
  BY TakesCommand
<1>3. /\ new.in = s.in /\ new.user = s.user /\ new.conn = s.conn /\ new.gets = s.gets
      /\ new.cwd = s.cwd /\ new.active = s.active
      /\ call \notin {"statFile", "openFile"}
  OBVIOUS
<1> HIDE DEF s, q
<1>4. /\ t.state = new.state /\ t.call = call /\ t.gets = s.gets /\ t.conn = s.conn
      /\ t.user = s.user /\ t.in = s.in /\ t.cwd = s.cwd
  BY <1>3, Going
<1> HIDE DEF t
<1>5. Talk(cli[c], local[c], Tail(q), s2c[c], t)
  BY <1>1, <1>4, TalkCalls
<1>6. Talk(cli[c], local[c], Tail(s.in) \o c2s[c], s2c[c], t)
  BY <1>1, <1>5
<1>7. users' \subseteq Users
  BY <1>1
<1>8. UNCHANGED <<cli, local, c2s, s2c, fileSystem>>
  BY <1>1
<1> QED
  BY <1>1, <1>3, <1>6, <1>7, <1>8, MidFrame DEF s, t

(* onMessage takes ls. *)
LEMMA LsStep == ASSUME IInv, NEW c \in Clients, Ls(c) PROVE IInv'
<1> DEFINE s == srv[c]
           found == {p \in Paths : p # <<>> /\ Parent(p) = Here(c) /\ Exists(p)}
           new == [s EXCEPT !.names = found]
<1>1. /\ ServerTakes(c, "Login_Success") /\ Msg(c).val.cmd = "ls" /\ GoesOn(c, new, "stat")
      /\ UNCHANGED <<s2c, users, fileSystem>>
  BY DEF Ls, Commanded
<1>6. aborted' \in BOOLEAN
  <2>1. PICK full \in NoFds : aborted' = (full \/ ~Stands(c))
    BY DEF Ls
  <2>2. (full \/ ~Stands(c)) \in BOOLEAN
    OBVIOUS
  <2> QED
    BY <2>1, <2>2
<1>2. s \in Sessions /\ s.state = "Login_Success"
  BY <1>1, TakesCommand
<1>3. found \subseteq Paths
  OBVIOUS
<1> HIDE DEF s, found
<1>4. /\ new \in Sessions /\ new.in = s.in /\ new.user = s.user /\ new.cwd = s.cwd
      /\ new.conn = s.conn /\ new.gets = s.gets /\ new.active = s.active
      /\ new.file = s.file /\ new.pos = s.pos /\ new.state = "Login_Success"
  BY <1>2, <1>3 DEF Sessions
<1>5. "stat" \in ServerCalls
  BY DEF ServerCalls
<1> HIDE DEF new
<1> QED
  BY <1>1, <1>4, <1>5, <1>6, Called DEF s

(* onMessage takes puts. *)
LEMMA PutsStep == ASSUME IInv, NEW c \in Clients, Puts(c) PROVE IInv'
<1> DEFINE s == srv[c]
           new == [s EXCEPT !.state = "Begin_Puts"]
           m == Ret(FALSE)
<1>1. /\ ServerTakes(c, "Login_Success") /\ Msg(c).val.cmd = "puts"
      /\ UNCHANGED <<users, fileSystem, aborted>>
      /\ \/ Becomes(c, s) /\ Reply(c, m)
         \/ GoesOn(c, new, "open") /\ UNCHANGED s2c
  BY DEF Puts, Commanded
<1>2. s \in Sessions /\ Typed /\ s.state = "Login_Success"
  BY <1>1, TakesCommand
<1>3. m \in ToClient /\ m.kind = "ret" /\ m.val = -1
  BY DEF Ret, Frame, ToClient
<1>4. /\ dirs' \subseteq Paths /\ file' \in [Paths -> Inodes \cup {0}]
      /\ UNCHANGED <<users, inode, writers, aborted>> /\ aborted' \in BOOLEAN
      /\ \A d \in Clients \ {c} : Files(srv[d], dirs', file', inode)
  BY <1>1 DEF IInv, Typed, fileSystem
<1> HIDE DEF s, m
<1>5. CASE Becomes(c, s) /\ Reply(c, m)
  BY <1>1, <1>2, <1>3, <1>4, <1>5, Answered DEF s
<1>6. CASE GoesOn(c, new, "open") /\ UNCHANGED s2c
  <2>1. /\ new \in Sessions /\ new.in = s.in /\ new.user = s.user /\ new.cwd = s.cwd
        /\ new.conn = s.conn /\ new.gets = s.gets /\ new.active = s.active
        /\ new.file = s.file /\ new.pos = s.pos /\ new.state = "Begin_Puts"
    BY <1>2 DEF Sessions, ServerStates
  <2>2. "open" \in ServerCalls
    BY DEF ServerCalls
  <2>3. UNCHANGED <<s2c, users, fileSystem>>
    BY <1>1, <1>6
  <2> HIDE DEF new
  <2> QED
    BY <1>1, <1>4, <1>6, <2>1, <2>2, <2>3, Called DEF s
<1> QED
  BY <1>1, <1>5, <1>6

(* onMessage takes gets. *)
LEMMA GetsStep == ASSUME IInv, NEW c \in Clients, Gets(c) PROVE IInv'
<1> DEFINE s == srv[c]
           m == Frame("long", -1)
<1>1. /\ ServerTakes(c, "Login_Success") /\ Msg(c).val.cmd = "gets"
      /\ UNCHANGED <<users, fileSystem, aborted>>
      /\ \/ Becomes(c, s) /\ Reply(c, m)
         \/ GoesOn(c, s, "access") /\ UNCHANGED s2c
  BY DEF Gets, Commanded
<1>2. s \in Sessions /\ Typed /\ s.state = "Login_Success"
  BY <1>1, TakesCommand
<1>3. m \in ToClient /\ m.kind = "long" /\ m.val = -1
  BY DEF Frame, ToClient
<1>4. /\ dirs' \subseteq Paths /\ file' \in [Paths -> Inodes \cup {0}]
      /\ UNCHANGED <<users, inode, writers, aborted>> /\ aborted' \in BOOLEAN
      /\ \A d \in Clients \ {c} : Files(srv[d], dirs', file', inode)
  BY <1>1 DEF IInv, Typed, fileSystem
<1> HIDE DEF s, m
<1>5. CASE Becomes(c, s) /\ Reply(c, m)
  BY <1>1, <1>2, <1>3, <1>4, <1>5, Answered DEF s
<1>6. CASE GoesOn(c, s, "access") /\ UNCHANGED s2c
  <2>1. "access" \in ServerCalls
    BY DEF ServerCalls
  <2>2. UNCHANGED <<s2c, users, fileSystem>>
    BY <1>1, <1>6
  <2> QED
    BY <1>1, <1>2, <1>4, <1>6, <2>1, <2>2, Called DEF s
<1> QED
  BY <1>1, <1>5, <1>6
-----------------------------------------------------------------------------
(* The steps of the server: its calls *)

(* A session that makes the call it has come to. *)
LEMMA Calling ==
  ASSUME IInv, NEW c \in Clients, NEW call \in ServerCalls, Calls(c, call)
  PROVE  LET s == srv[c]
             q == Rest(s) \o c2s[c]
         IN  /\ ~aborted /\ UNCHANGED <<cli, local, c2s>>
             /\ s \in Sessions /\ s.in # <<>> /\ s.call = call
             /\ Ends(cli[c], local[c], q, s2c[c], s) /\ Talk(cli[c], local[c], q, s2c[c], s)
             /\ q = Tail(s.in) \o c2s[c]
             /\ Files(s, dirs, file, inode)
             /\ s.file # 0 => s.pos <= Len(inode[s.file])
             /\ Typed /\ users \subseteq Users /\ s2c \in [Clients -> Seq(ToClient)]
             /\ s.gets = "none"
             /\ Msg(c) = s.in[1] /\ Msg(c) \in ToServer
             /\ call \in {"open", "access", "statFile", "openFile"} =>
                  /\ Leads(s, s.in[1].val.arg) /\ Target(c) \in Paths
                  /\ IsThere(c) <=> Reached(s, dirs, file)
<1> DEFINE s == srv[c]
           q == Rest(s) \o c2s[c]
<1>1. /\ ~aborted /\ UNCHANGED <<cli, local, c2s>> /\ s.call = call
  BY DEF Calls, clientSide
<1>2. call # "none"
  BY DEF ServerCalls
<1>3. /\ s \in Sessions /\ Ends(cli[c], local[c], q, s2c[c], s)
      /\ Talk(cli[c], local[c], q, s2c[c], s) /\ Files(s, dirs, file, inode)
      /\ s.in \in Seq(ToServer)
  BY Around
<1>4. s.in # <<>> /\ s.gets = "none"
  BY <1>1, <1>2, <1>3 DEF Talk, CallOK, SessionOK, Sessions
<1>5. q = Tail(s.in) \o c2s[c]
  BY <1>1, <1>2 DEF Rest
<1>6. Typed /\ users \subseteq Users /\ s2c \in [Clients -> Seq(ToClient)]
  BY DEF IInv, Typed
<1>7. Msg(c) = s.in[1] /\ Msg(c) \in ToServer
  BY <1>3, <1>4, HeadTailProperties DEF Msg
<1>8. ASSUME call \in {"open", "access", "statFile", "openFile"}
      PROVE  /\ Leads(s, s.in[1].val.arg) /\ Target(c) \in Paths
             /\ IsThere(c) <=> Reached(s, dirs, file)
  <2>1. /\ Msg(c) = srv[c].in[1] /\ Leads(srv[c], srv[c].in[1].val.arg)
        /\ Target(c) \in Paths
    BY <1>1, <1>8, InHand
  <2> QED
    BY <2>1, TargetIs
<1>9. s.file # 0 => s.pos <= Len(inode[s.file])
  BY <1>3 DEF Files
<1> QED
  BY <1>1, <1>3, <1>4, <1>5, <1>6, <1>7, <1>8, <1>9

(* A call that ends the frame. *)
LEMMA Returned ==
  ASSUME IInv, NEW c \in Clients, NEW call \in ServerCalls, Calls(c, call),
         NEW new \in Sessions, Becomes(c, new), new.in = srv[c].in, new.state = srv[c].state,
         new.user = srv[c].user, new.conn = srv[c].conn, new.size = srv[c].size,
         new.active = srv[c].active,
         NEW m \in ToClient, Reply(c, m),
         \/ call = "stat" /\ new.gets = srv[c].gets /\ m.kind = "text"
         \/ call = "open" /\ new.gets = srv[c].gets /\ m.kind = "ret" /\ m.val = 0
         \/ call = "access" /\ new.gets = srv[c].gets /\ m.kind = "long" /\ m.val = -1
         \/ /\ call = "openFile" /\ new.gets \in {"added", "unwatched"}
            /\ m.kind = "long" /\ m.val = srv[c].size,
         UNCHANGED <<users, dirs, aborted>>,
         file' \in [Paths -> Inodes \cup {0}], inode' \in [Inodes -> Seq(Text)],
         writers' \in [Inodes -> SUBSET (Clients \X Params)],
         new.file # 0 => new.pos <= Len(inode'[new.file]),
         \A d \in Clients \ {c} : Files(srv[d], dirs, file', inode')
  PROVE  IInv'
<1> DEFINE s == srv[c]
           q == Rest(s) \o c2s[c]
           t == DoneWith(new)
<1>1. /\ ~aborted /\ UNCHANGED <<cli, local, c2s>>
      /\ s \in Sessions /\ s.in # <<>> /\ s.call = call
      /\ Ends(cli[c], local[c], q, s2c[c], s) /\ Talk(cli[c], local[c], q, s2c[c], s)
      /\ q = Tail(s.in) \o c2s[c] /\ Typed /\ users \subseteq Users /\ s.gets = "none"
  BY Calling
<1>2. /\ s2c' \in [Clients -> Seq(ToClient)] /\ s2c'[c] = Sent(cli[c], s, s2c[c], m)
      /\ \A d \in Clients \ {c} : s2c'[d] = s2c[d]
  BY <1>1, Replies
<1>3. /\ dirs' = dirs /\ dirs' \subseteq Paths /\ aborted' = FALSE /\ users' \subseteq Users
  BY <1>1 DEF Typed
<1>4. \A d \in Clients \ {c} : Files(srv[d], dirs', file', inode')
  BY <1>3
<1>5. /\ new.in = s.in /\ new.state = s.state /\ new.user = s.user /\ new.conn = s.conn
      /\ new.size = s.size /\ new.active = s.active /\ s.call \in ServerCalls
      /\ \/ s.call = "stat" /\ new.gets = s.gets /\ m.kind = "text"
         \/ s.call = "open" /\ new.gets = s.gets /\ m.kind = "ret" /\ m.val = 0
         \/ s.call = "access" /\ new.gets = s.gets /\ m.kind = "long" /\ m.val = -1
         \/ /\ s.call = "openFile" /\ new.gets \in {"added", "unwatched"}
            /\ m.kind = "long" /\ m.val = s.size
  BY <1>1
<1> HIDE DEF s, q
<1>6. /\ t.state = s.state /\ t.call = "none" /\ t.gets = new.gets /\ t.conn = s.conn
      /\ t.user = s.user /\ t.size = s.size /\ t.file = new.file
  BY <1>1, <1>5, Done
<1> HIDE DEF t
<1>7. Talk(cli[c], local[c], q, Sent(cli[c], s, s2c[c], m), t)
  BY <1>1, <1>5, <1>6, TalkReturns
<1>8. Talk(cli[c], local[c], Tail(s.in) \o c2s[c], s2c'[c], t)
  BY <1>1, <1>2, <1>7
<1>9. s.gets # "added"
  BY <1>1
<1> QED
  BY <1>1, <1>2, <1>3, <1>4, <1>5, <1>8, <1>9, FrameDone DEF s, t

(* ls stats the names it has listed. *)
LEMMA LsStatStep == ASSUME IInv, NEW c \in Clients, LsStat(c) PROVE IInv'
<1> DEFINE s == srv[c]
           new == [s EXCEPT !.names = {}]
           m == Frame("text", Here(c))
<1>1. "stat" \in ServerCalls
  BY DEF ServerCalls
<1>2. Calls(c, "stat") /\ UNCHANGED <<users, fileSystem>>
  BY DEF LsStat
<1>3. PICK dies \in BOOLEAN :
        /\ aborted' = dies
        /\ IF dies THEN UNCHANGED <<srv, s2c>> ELSE Becomes(c, new) /\ Reply(c, m)
  BY DEF LsStat
<1>4. /\ ~aborted /\ UNCHANGED <<cli, local, c2s>> /\ s \in Sessions /\ s.call = "stat"
      /\ Talk(cli[c], local[c], Rest(s) \o c2s[c], s2c[c], s)
      /\ s.file # 0 => s.pos <= Len(inode[s.file])
  BY <1>1, <1>2, Calling
<1>5. /\ dirs' = dirs /\ file' = file /\ inode' = inode /\ writers' = writers /\ users' = users
      /\ Typed
  BY <1>2 DEF fileSystem, IInv
<1>6. CASE dies
  <2>1. srv' = srv /\ s2c' = s2c /\ c2s' = c2s /\ cli' = cli /\ local' = local /\ aborted' = TRUE
    BY <1>3, <1>4, <1>6
  <2>2. Typed'
    BY <1>5, <2>1 DEF Typed
  <2>3. ASSUME NEW d \in Clients PROVE Session(d)' /\ Files(srv'[d], dirs', file', inode')
    <3>1. Session(d) /\ Files(srv[d], dirs, file, inode)
      BY DEF IInv
    <3> QED
      BY <1>5, <2>1, <3>1 DEF Session
  <2> QED
    BY <2>1, <2>2, <2>3 DEF IInv
<1>7. CASE ~dies
  <2>1. Becomes(c, new) /\ Reply(c, m) /\ aborted' = FALSE
    BY <1>3, <1>7
  <2>2. s.user \in Users
    BY <1>4 DEF Sessions, Talk, CallOK, SessionOK, ServerStates
  <2>3. Here(c) \in Paths
    BY <1>4, <2>2, HereIs DEF Here, HereOf
  <2>4. m \in ToClient /\ m.kind = "text"
    BY <2>3 DEF Frame, ToClient
  <2> HIDE DEF s, m
  <2>5. /\ new \in Sessions /\ new.in = s.in /\ new.state = s.state /\ new.user = s.user
        /\ new.conn = s.conn /\ new.size = s.size /\ new.active = s.active /\ new.gets = s.gets
        /\ new.file = s.file /\ new.pos = s.pos
    BY <1>4 DEF Sessions
  <2> HIDE DEF new
  <2>6. /\ file' \in [Paths -> Inodes \cup {0}] /\ inode' \in [Inodes -> Seq(Text)]
        /\ writers' \in [Inodes -> SUBSET (Clients \X Params)]
        /\ UNCHANGED <<users, dirs, aborted>>
        /\ new.file # 0 => new.pos <= Len(inode'[new.file])
    BY <1>4, <1>5, <2>1, <2>5 DEF Typed
  <2>7. \A d \in Clients \ {c} : Files(srv[d], dirs, file', inode')
    BY <1>5 DEF IInv
  <2> QED
    BY <1>1, <1>2, <2>1, <2>4, <2>5, <2>6, <2>7, Returned DEF s
<1> QED
  BY <1>6, <1>7

(* The registration makes the home of its user. *)
LEMMA RegisterMkdirStep == ASSUME IInv, NEW c \in Clients, RegisterMkdir(c) PROVE IInv'
<1> DEFINE s == srv[c]
           q == Rest(s) \o c2s[c]
           u == Msg(c).val
           m == Ret(TRUE)
           t == DoneWith(s)
<1>1. /\ Calls(c, "mkdir") /\ Becomes(c, s) /\ dirs' \in {dirs, dirs \cup {<<u>>}} /\ Reply(c, m)
      /\ UNCHANGED <<users, file, inode, writers, aborted>>
  BY DEF RegisterMkdir
<1>2. "mkdir" \in ServerCalls
  BY DEF ServerCalls
<1>3. /\ ~aborted /\ UNCHANGED <<cli, local, c2s>> /\ s \in Sessions /\ s.in # <<>>
      /\ s.call = "mkdir" /\ Ends(cli[c], local[c], q, s2c[c], s)
      /\ Talk(cli[c], local[c], q, s2c[c], s) /\ q = Tail(s.in) \o c2s[c]
      /\ s.file # 0 => s.pos <= Len(inode[s.file])
      /\ Typed /\ users \subseteq Users /\ s.gets = "none"
      /\ Msg(c) = s.in[1] /\ Msg(c) \in ToServer
  BY <1>1, <1>2, Calling
<1>4. u \in Users
  <2>1. s.in[1].kind = "account"
    BY <1>3 DEF Talk, CallOK
  <2> QED
    BY <1>3, <2>1 DEF ToServer
<1>5. <<u>> \in Paths
  BY <1>4, HomePath
<1>6. m \in ToClient /\ m.kind = "ret"
  BY DEF Ret, Frame, ToClient
<1>7. /\ s2c' \in [Clients -> Seq(ToClient)] /\ s2c'[c] = Sent(cli[c], s, s2c[c], m)
      /\ \A d \in Clients \ {c} : s2c'[d] = s2c[d]
  BY <1>1, <1>3, <1>6, Replies
<1>8. /\ dirs' \subseteq Paths /\ file' = file /\ inode' = inode /\ aborted' = FALSE
      /\ users' \subseteq Users
      /\ file' \in [Paths -> Inodes \cup {0}] /\ inode' \in [Inodes -> Seq(Text)]
      /\ writers' \in [Inodes -> SUBSET (Clients \X Params)]
      /\ s.file # 0 => s.pos <= Len(inode'[s.file])
  BY <1>1, <1>3, <1>5 DEF Typed
<1>9. ASSUME NEW d \in Clients \ {c} PROVE Files(srv[d], dirs', file', inode')
  <2>1. dirs \subseteq dirs' /\ file' = file /\ inode' = inode
    BY <1>1
  <2>2. srv[d].file # 0 => srv[d].pos <= Len(inode'[srv[d].file])
    BY <2>1 DEF IInv, Files
  <2> QED
    BY <2>1, <2>2, FilesGrow
<1> HIDE DEF s, q, m
<1>10. /\ t.state = s.state /\ t.call = "none" /\ t.gets = s.gets /\ t.conn = s.conn
       /\ t.user = s.user /\ t.size = s.size /\ t.cwd = s.cwd /\ t.file = s.file
       /\ t.active = s.active
  BY <1>3, Done
<1> HIDE DEF t
<1>11. Talk(cli[c], local[c], q, Sent(cli[c], s, s2c[c], m), t)
  BY <1>3, <1>6, <1>10, TalkRegisterMkdir
<1>12. Talk(cli[c], local[c], Tail(s.in) \o c2s[c], s2c'[c], t)
  BY <1>3, <1>7, <1>11
<1>13. s.gets # "added"
  BY <1>3
<1> QED
  BY <1>1, <1>3, <1>7, <1>8, <1>9, <1>12, <1>13, FrameDone DEF s, t

(* puts opens the file it will write. *)
LEMMA PutsOpenStep == ASSUME IInv, NEW c \in Clients, PutsOpen(c) PROVE IInv'
<1> DEFINE s == srv[c]
           p == Target(c)
           m == Ret(TRUE)
<1>1. Calls(c, "open") /\ Reply(c, m) /\ UNCHANGED <<users, dirs, aborted>>
  BY DEF PutsOpen
<1>2. PICK i \in Opened(c, p) :
        /\ Becomes(c, [s EXCEPT !.file = i, !.pos = 0])
        /\ IF i = 0 THEN UNCHANGED <<file, inode, writers>>
           ELSE /\ file' = [file EXCEPT ![p] = i]
                /\ inode' = IF file[p] = 0 THEN [inode EXCEPT ![i] = <<>>] ELSE inode
                /\ writers' = [writers EXCEPT ![i] = {<<c, Arg(c)>>} \cup IF file[p] = 0 THEN {} ELSE @]
  BY DEF PutsOpen
<1>3. "open" \in ServerCalls
  BY DEF ServerCalls
<1>4. /\ ~aborted /\ s \in Sessions /\ p \in Paths /\ Typed /\ Arg(c) \in Params
  <2>1. /\ ~aborted /\ s \in Sessions /\ p \in Paths /\ Typed
        /\ Leads(s, s.in[1].val.arg) /\ Msg(c) = s.in[1]
    BY <1>1, <1>3, Calling
  <2> QED
    BY <2>1 DEF Arg, Leads
<1>5. /\ i \in Inodes \cup {0}
      /\ i # 0 /\ file[p] # 0 => i = file[p]
      /\ i # 0 /\ file[p] = 0 => i \in FreeInodes
  <2>1. file[p] \in Inodes \cup {0}
    BY <1>4 DEF Typed
  <2>2. LowestInode \subseteq FreeInodes /\ FreeInodes \subseteq Inodes
    BY DEF LowestInode, FreeInodes
  <2> HIDE DEF p
  <2> QED
    BY <1>2, <2>1, <2>2 DEF Opened
<1>6. /\ file' \in [Paths -> Inodes \cup {0}] /\ inode' \in [Inodes -> Seq(Text)]
      /\ writers' \in [Inodes -> SUBSET (Clients \X Params)]
      /\ i # 0 => Len(inode'[i]) \in Nat
  <2>1. CASE i = 0
    BY <1>2, <1>4, <2>1 DEF Typed
  <2>2. CASE i # 0
    <3>1. i \in Inodes /\ <<>> \in Seq(Text)
      BY <1>5, <2>2, EmptySeq
    <3>2. inode' = (IF file[p] = 0 THEN [inode EXCEPT ![i] = <<>>] ELSE inode)
      BY <1>2, <2>2
    <3>3. inode' \in [Inodes -> Seq(Text)]
      BY <1>4, <3>1, <3>2 DEF Typed
    <3>4. inode'[i] \in Seq(Text)
      BY <3>1, <3>3
    <3>5. Len(inode'[i]) \in Nat
      BY <3>4, LenProperties
    <3>6. file' \in [Paths -> Inodes \cup {0}]
      BY <1>2, <1>4, <2>2, <3>1 DEF Typed
    <3> DEFINE w == {<<c, Arg(c)>>} \cup IF file[p] = 0 THEN {} ELSE writers[i]
    <3>7. w \in SUBSET (Clients \X Params)
      BY <1>4, <3>1 DEF Typed
    <3>8. writers' = [writers EXCEPT ![i] = w]
      BY <1>2, <1>4, <2>2, <3>1 DEF Typed
    <3> HIDE DEF w
    <3>9. writers' \in [Inodes -> SUBSET (Clients \X Params)]
      BY <1>4, <3>7, <3>8 DEF Typed
    <3> QED
      BY <3>3, <3>5, <3>6, <3>9
  <2> QED
    BY <2>1, <2>2
<1>7. ASSUME NEW d \in Clients \ {c} PROVE Files(srv[d], dirs, file', inode')
  <2>1. Files(srv[d], dirs, file, inode) /\ srv[d].file \in Inodes \cup {0}
    BY <1>4 DEF IInv, Typed, Sessions
  <2>2. srv[d].file # 0 => srv[d].pos <= Len(inode'[srv[d].file])
    <3>1. srv[d].file # 0 => srv[d].pos <= Len(inode[srv[d].file])
      BY <2>1 DEF Files
    <3>2. srv[d].file # 0 => inode'[srv[d].file] = inode[srv[d].file]
      <4>1. CASE i = 0 \/ file[p] # 0
        BY <1>2, <4>1
      <4>2. CASE i # 0 /\ file[p] = 0
        <5>1. i # srv[d].file /\ i \in Inodes
          BY <1>5, <4>2 DEF FreeInodes
        <5>2. inode' = [inode EXCEPT ![i] = <<>>] /\ inode \in [Inodes -> Seq(Text)]
          BY <1>2, <1>4, <4>2 DEF Typed
        <5> QED
          BY <2>1, <5>1, <5>2
      <4> QED
        BY <4>1, <4>2
    <3> QED
      BY <3>1, <3>2
  <2>3. \A x \in Paths : file[x] # 0 => file'[x] # 0
    BY <1>2, <1>4 DEF Typed
  <2> QED
    BY <2>2, <2>3, FilesGrow
<1> DEFINE new == [s EXCEPT !.file = i, !.pos = 0]
<1>8. m \in ToClient /\ m.kind = "ret" /\ m.val = 0
  BY DEF Ret, Frame, ToClient
<1>9. Becomes(c, new)
  BY <1>2
<1> HIDE DEF s, p, m
<1>10. /\ new \in Sessions /\ new.in = s.in /\ new.state = s.state /\ new.user = s.user
       /\ new.conn = s.conn /\ new.size = s.size /\ new.active = s.active /\ new.gets = s.gets
       /\ new.file = i /\ new.pos = 0
  BY <1>4, <1>5 DEF Sessions
<1> HIDE DEF new
<1>11. new.file # 0 => new.pos <= Len(inode'[new.file])
  BY <1>6, <1>10
<1> QED
  BY <1>1, <1>3, <1>6, <1>7, <1>8, <1>9, <1>10, <1>11, Returned DEF s

(* A call after which the handler comes to the next. *)
LEMMA GoesOnTo ==
  ASSUME IInv, NEW c \in Clients, NEW call \in ServerCalls, Calls(c, call),
         NEW new \in Sessions, NEW next \in ServerCalls, GoesOn(c, new, next),
         new.in = srv[c].in, new.user = srv[c].user, new.cwd = srv[c].cwd,
         new.conn = srv[c].conn, new.gets = srv[c].gets, new.active = srv[c].active,
         new.file = srv[c].file, new.pos = srv[c].pos,
         \/ call = "access" /\ next = "statFile" /\ new.state = srv[c].state
         \/ call = "statFile" /\ next = "openFile" /\ new.state = "Gets" /\ new.size >= 0,
         IsThere(c),
         UNCHANGED <<s2c, users, fileSystem, aborted>>
  PROVE  IInv'
<1> DEFINE s == srv[c]
           q == Rest(s) \o c2s[c]
           t == Midway(new, next)
<1>1. /\ ~aborted /\ UNCHANGED <<cli, local, c2s>>
      /\ s \in Sessions /\ s.in # <<>> /\ s.call = call
      /\ Ends(cli[c], local[c], q, s2c[c], s) /\ Talk(cli[c], local[c], q, s2c[c], s)
      /\ q = Tail(s.in) \o c2s[c] /\ Files(s, dirs, file, inode) /\ users \subseteq Users
      /\ IsThere(c) <=> Reached(s, dirs, file)
  BY Calling
<1>2. /\ new.in = s.in /\ new.user = s.user /\ new.conn = s.conn /\ new.gets = s.gets
      /\ new.cwd = s.cwd /\ new.active = s.active
      /\ \/ s.call = "access" /\ next = "statFile" /\ new.state = s.state
         \/ s.call = "statFile" /\ next = "openFile" /\ new.state = "Gets" /\ new.size >= 0
  BY <1>1
<1>4. Reached(new, dirs, file)
  BY <1>1, <1>2 DEF Reached, HereOf
<1> HIDE DEF s, q
<1>5. /\ t.state = new.state /\ t.call = next /\ t.gets = s.gets /\ t.conn = s.conn
      /\ t.user = s.user /\ t.in = s.in /\ t.cwd = s.cwd /\ t.size = new.size
  BY <1>2, Going
<1> HIDE DEF t
<1>6. Talk(cli[c], local[c], q, s2c[c], t)
  BY <1>1, <1>2, <1>5, TalkGoesOn
<1>7. Talk(cli[c], local[c], Tail(s.in) \o c2s[c], s2c[c], t)
  BY <1>1, <1>6
<1>8. users' \subseteq Users /\ aborted' = FALSE /\ UNCHANGED <<cli, local, c2s, s2c, fileSystem>>
  BY <1>1
<1> QED
  BY <1>1, <1>2, <1>4, <1>7, <1>8, MidFrame DEF s, t

(* gets looks for the file. *)
LEMMA GetsAccessStep == ASSUME IInv, NEW c \in Clients, GetsAccess(c) PROVE IInv'
<1> DEFINE s == srv[c]
           m == Frame("long", -1)
<1>1. /\ Calls(c, "access") /\ UNCHANGED <<users, fileSystem, aborted>>
      /\ \/ Becomes(c, s) /\ Reply(c, m)
         \/ IsThere(c) /\ GoesOn(c, s, "statFile") /\ UNCHANGED s2c
  BY DEF GetsAccess
<1>2. "access" \in ServerCalls /\ "statFile" \in ServerCalls
  BY DEF ServerCalls
<1>3. /\ s \in Sessions /\ Typed /\ s.call = "access"
      /\ s.file # 0 => s.pos <= Len(inode[s.file])
  BY <1>1, <1>2, Calling
<1>4. /\ file' \in [Paths -> Inodes \cup {0}] /\ inode' \in [Inodes -> Seq(Text)]
      /\ writers' \in [Inodes -> SUBSET (Clients \X Params)] /\ inode' = inode
      /\ UNCHANGED <<users, dirs, aborted>>
      /\ \A d \in Clients \ {c} : Files(srv[d], dirs, file', inode')
  BY <1>1 DEF IInv, Typed, fileSystem
<1>5. m \in ToClient /\ m.kind = "long" /\ m.val = -1
  BY DEF Frame, ToClient
<1>6. CASE Becomes(c, s) /\ Reply(c, m)
  <2>1. s.file # 0 => s.pos <= Len(inode'[s.file])
    BY <1>3, <1>4
  <2> HIDE DEF s, m
  <2> QED
    BY <1>1, <1>2, <1>3, <1>4, <1>5, <1>6, <2>1, Returned DEF s
<1>7. CASE IsThere(c) /\ GoesOn(c, s, "statFile") /\ UNCHANGED s2c
  <2>2. UNCHANGED <<s2c, users, fileSystem, aborted>>
    BY <1>1, <1>7
  <2> QED
    BY <1>1, <1>2, <1>3, <1>7, <2>2, GoesOnTo
<1> QED
  BY <1>1, <1>6, <1>7

(* gets asks for the size of the file. *)
LEMMA GetsStatStep == ASSUME IInv, NEW c \in Clients, GetsStat(c) PROVE IInv'
<1> DEFINE s == srv[c]
<1>1. Calls(c, "statFile") /\ UNCHANGED <<s2c, users, fileSystem, aborted>>
  BY DEF GetsStat
<1>2. PICK size \in StatSizes(c) :
        GoesOn(c, [s EXCEPT !.state = "Gets", !.size = size], "openFile")
  BY DEF GetsStat
<1>3. "statFile" \in ServerCalls /\ "openFile" \in ServerCalls
  BY DEF ServerCalls
<1>4. /\ s \in Sessions /\ Typed /\ s.call = "statFile"
      /\ Target(c) \in Paths /\ IsThere(c)
  <2>1. /\ s \in Sessions /\ Typed /\ s.call = "statFile" /\ Target(c) \in Paths
        /\ Files(s, dirs, file, inode) /\ (IsThere(c) <=> Reached(s, dirs, file))
    BY <1>1, <1>3, Calling
  <2> QED
    BY <2>1 DEF Files
<1>6. size \in Nat
  <2>1. CASE file[Target(c)] # 0
    <3>1. size = Len(inode[file[Target(c)]])
      BY <1>2, <1>4, <2>1 DEF StatSizes, IsThere
    <3>2. inode[file[Target(c)]] \in Seq(Text)
      BY <1>4, <2>1 DEF Typed
    <3> QED
      BY <3>1, <3>2, LenProperties
  <2>2. CASE file[Target(c)] = 0
    <3>1. IsDir(c)
      BY <1>4, <2>2 DEF IsThere, IsDir, Exists
    <3>2. size \in {0, 1, 2 * BufLen}
      BY <1>2, <2>2, <3>1 DEF StatSizes
    <3>3. BufLen \in Nat
      BY NetdiskAssumption
    <3> QED
      BY <3>2, <3>3
  <2> QED
    BY <2>1, <2>2
<1> DEFINE new == [s EXCEPT !.state = "Gets", !.size = size]
<1>7. GoesOn(c, new, "openFile")
  BY <1>2
<1> HIDE DEF s
<1>8. /\ new \in Sessions /\ new.in = s.in /\ new.user = s.user /\ new.cwd = s.cwd
      /\ new.conn = s.conn /\ new.gets = s.gets /\ new.active = s.active
      /\ new.file = s.file /\ new.pos = s.pos /\ new.state = "Gets" /\ new.size = size
  <2>1. size \in Int /\ "Gets" \in ServerStates
    BY <1>6 DEF ServerStates
  <2> QED
    BY <1>4, <2>1 DEF Sessions
<1>9. new.size >= 0
  BY <1>6, <1>8
<1> HIDE DEF new
<1> QED
  BY <1>1, <1>3, <1>4, <1>7, <1>8, <1>9, GoesOnTo DEF s

(* gets opens the file. *)
LEMMA GetsOpenStep == ASSUME IInv, NEW c \in Clients, GetsOpen(c) PROVE IInv'
<1> DEFINE s == srv[c]
           m == Frame("long", s.size)
<1>0. PICK noFile \in NoFds, noEvent \in NoFds :
        Becomes(c, [s EXCEPT !.file = IF noFile \/ ~Found(c) THEN 0 ELSE file[Target(c)],
                             !.pos = 0, !.gets = IF noEvent THEN "unwatched" ELSE "added"])
  BY DEF GetsOpen
<1> DEFINE i == IF noFile \/ ~Found(c) THEN 0 ELSE file[Target(c)]
           g == IF noEvent THEN "unwatched" ELSE "added"
           new == [s EXCEPT !.file = i, !.pos = 0, !.gets = g]
<1>1. /\ Calls(c, "openFile") /\ Becomes(c, new) /\ Reply(c, m)
      /\ UNCHANGED <<users, fileSystem, aborted>>
  BY <1>0 DEF GetsOpen
<1>2. "openFile" \in ServerCalls
  BY DEF ServerCalls
<1>3. /\ s \in Sessions /\ Typed /\ s.call = "openFile" /\ Target(c) \in Paths
  BY <1>1, <1>2, Calling
<1>4. i \in Inodes \cup {0}
  BY <1>3 DEF Typed
<1>5. /\ file' \in [Paths -> Inodes \cup {0}] /\ inode' \in [Inodes -> Seq(Text)]
      /\ writers' \in [Inodes -> SUBSET (Clients \X Params)] /\ inode' = inode
      /\ UNCHANGED <<users, dirs, aborted>>
      /\ \A d \in Clients \ {c} : Files(srv[d], dirs, file', inode')
  BY <1>1 DEF IInv, Typed, fileSystem
<1>6. m \in ToClient /\ m.kind = "long" /\ m.val = s.size
  BY <1>3 DEF Frame, ToClient, Sessions
<1>7. i # 0 => 0 <= Len(inode'[i])
  <2>0. SUFFICES ASSUME i # 0 PROVE 0 <= Len(inode'[i])
    OBVIOUS
  <2>1. inode'[i] \in Seq(Text)
    BY <1>4, <1>5, <2>0
  <2>2. Len(inode'[i]) \in Nat
    BY <2>1, LenProperties
  <2> QED
    BY <2>2
<1>8. g \in {"added", "unwatched"}
  OBVIOUS
<1> HIDE DEF s, i, m, g
<1>9. /\ new \in Sessions /\ new.in = s.in /\ new.state = s.state /\ new.user = s.user
      /\ new.conn = s.conn /\ new.size = s.size /\ new.active = s.active /\ new.gets = g
      /\ new.file = i /\ new.pos = 0
  BY <1>3, <1>4, <1>8 DEF Sessions
<1> HIDE DEF new
<1>10. new.file # 0 => new.pos <= Len(inode'[new.file])
  BY <1>7, <1>9
<1> QED
  BY <1>1, <1>2, <1>5, <1>6, <1>8, <1>9, <1>10, Returned DEF s
-----------------------------------------------------------------------------
(* The steps of the server: the transfers *)

(* onMessage takes the size of an upload. *)
LEMMA BeginPutsStep == ASSUME IInv, NEW c \in Clients, BeginPuts(c) PROVE IInv'
<1> DEFINE s == srv[c]
           q == Rest(s) \o c2s[c]
           size == Msg(c).val
           new == [s EXCEPT !.state = "Puts", !.size = size]
           t == DoneWith(new)
           m == Ret(TRUE)
<1>1. /\ ServerTakes(c, "Begin_Puts") /\ Becomes(c, new) /\ Reply(c, m)
      /\ UNCHANGED <<users, fileSystem, aborted>>
  BY DEF BeginPuts
<1>2. /\ ~aborted /\ UNCHANGED <<cli, local, c2s>>
      /\ s \in Sessions /\ s.in # <<>> /\ s.call = "none" /\ s.state = "Begin_Puts"
      /\ Ends(cli[c], local[c], q, s2c[c], s) /\ Talk(cli[c], local[c], q, s2c[c], s)
      /\ q # <<>> /\ Msg(c) = q[1] /\ Msg(c) \in ToServer
      /\ Tail(q) = Tail(s.in) \o c2s[c] /\ Msg(c).kind = ServerExpects["Begin_Puts"]
      /\ s.file # 0 => s.pos <= Len(inode[s.file])
      /\ Typed /\ users \subseteq Users
  BY <1>1, Takes
<1>3. size \in Int
  <2>1. size \in Nat \ {0}
    BY <1>2 DEF ToServer, ServerExpects
  <2> QED
    BY <2>1
<1>4. m \in ToClient /\ m.kind = "ret"
  BY DEF Ret, Frame, ToClient
<1>5. aborted' = FALSE /\ UNCHANGED fileSystem /\ users' \subseteq Users /\ size = q[1].val
  BY <1>1, <1>2
<1>6. /\ s2c' \in [Clients -> Seq(ToClient)] /\ s2c'[c] = Sent(cli[c], s, s2c[c], m)
      /\ \A d \in Clients \ {c} : s2c'[d] = s2c[d]
  BY <1>1, <1>2, <1>4, Replies
<1> HIDE DEF s, q, size, m
<1>7. /\ new \in Sessions /\ new.in = s.in /\ new.active = s.active /\ new.state = "Puts"
      /\ new.gets = s.gets /\ new.file = s.file /\ new.pos = s.pos /\ new.user = s.user
      /\ new.conn = s.conn /\ new.size = size
  <2>1. "Puts" \in ServerStates
    BY DEF ServerStates
  <2> QED
    BY <1>2, <1>3, <2>1 DEF Sessions
<1> HIDE DEF new
<1>8. /\ t.state = "Puts" /\ t.call = "none" /\ t.gets = s.gets /\ t.conn = s.conn
      /\ t.user = s.user /\ t.size = size
  BY <1>2, <1>7, Done
<1> HIDE DEF t
<1>9. Talk(cli[c], local[c], Tail(q), Sent(cli[c], s, s2c[c], m), t)
  BY <1>2, <1>4, <1>5, <1>8, TalkBeginPuts
<1>10. Talk(cli[c], local[c], Tail(s.in) \o c2s[c], s2c'[c], t)
  BY <1>2, <1>6, <1>9
<1> QED
  BY <1>1, <1>2, <1>5, <1>6, <1>7, <1>10, FrameDoneQuietly DEF s, t

(* onMessage takes a frame of an upload. *)
LEMMA PutsDataStep == ASSUME IInv, NEW c \in Clients, PutsData(c) PROVE IInv'
<1> DEFINE s == srv[c]
           q == Rest(s) \o c2s[c]
           data == DataBytes(Msg(c))
           left == s.size - Len(data)
           pos == s.pos + Len(data)
           new == IF left = 0 THEN [s EXCEPT !.size = 0, !.file = 0, !.pos = 0, !.state = "Login_Success"]
                  ELSE [s EXCEPT !.size = left, !.pos = pos]
           t == DoneWith(new)
<1>1. /\ ServerTakes(c, "Puts") /\ Becomes(c, new)
      /\ inode' = IF s.file = 0 THEN inode ELSE [inode EXCEPT ![s.file] = WriteAt(@, s.pos, data)]
      /\ UNCHANGED <<s2c, users, dirs, file, writers, aborted>>
  BY DEF PutsData
<1>2. /\ ~aborted /\ UNCHANGED <<cli, local, c2s>>
      /\ s \in Sessions /\ s.in # <<>> /\ s.call = "none" /\ s.state = "Puts"
      /\ Ends(cli[c], local[c], q, s2c[c], s) /\ Talk(cli[c], local[c], q, s2c[c], s)
      /\ q # <<>> /\ Msg(c) = q[1] /\ Msg(c) \in ToServer
      /\ Tail(q) = Tail(s.in) \o c2s[c] /\ Msg(c).kind = ServerExpects["Puts"]
      /\ s.file # 0 => s.pos <= Len(inode[s.file])
      /\ Typed /\ users \subseteq Users /\ s2c \in [Clients -> Seq(ToClient)]
  BY <1>1, Takes
<1>3. data \in Seq(Text) /\ data = q[1].val /\ Len(data) \in Nat
  <2>1. Msg(c).kind = "data" /\ Msg(c).val \in Seq(Text)
    BY <1>2 DEF ToServer, ServerExpects
  <2>2. data = Msg(c).val
    BY <2>1 DEF DataBytes
  <2> QED
    BY <1>2, <2>1, <2>2, LenProperties
<1>4. s.size \in Int /\ s.pos \in Nat /\ s.file \in Inodes \cup {0} /\ s.gets = "none"
  BY <1>2 DEF Sessions, Talk, SessionOK
<1> HIDE DEF q, data
<1>5. left \in Int /\ pos \in Nat /\ left = s.size - Len(q[1].val)
  <2>1. left = s.size - Len(q[1].val)
    BY <1>3
  <2> DEFINE n == Len(data)
  <2>2. n \in Nat /\ s.size \in Int /\ s.pos \in Nat
    BY <1>3, <1>4
  <2> HIDE DEF s, n
  <2>3. s.size - n \in Int /\ s.pos + n \in Nat
    BY <2>2
  <2> QED
    BY <2>1, <2>3 DEF n
<1>6. /\ inode' \in [Inodes -> Seq(Text)]
      /\ \A i \in Inodes : Len(inode[i]) <= Len(inode'[i]) /\ Len(inode[i]) \in Nat /\ Len(inode'[i]) \in Nat
      /\ s.file # 0 => pos <= Len(inode'[s.file])
  <2>1. inode \in [Inodes -> Seq(Text)]
    BY <1>2 DEF Typed
  <2>2. \A i \in Inodes : Len(inode[i]) \in Nat
    <3>1. \A i \in Inodes : inode[i] \in Seq(Text)
      BY <2>1
    <3> QED
      BY <3>1, LenProperties
  <2>3. CASE s.file = 0
    BY <1>1, <2>1, <2>2, <2>3
  <2>4. CASE s.file # 0
    <3> DEFINE i == s.file
               w == WriteAt(inode[i], s.pos, data)
    <3>1. i \in Inodes /\ inode[i] \in Seq(Text) /\ s.pos <= Len(inode[i])
      BY <1>2, <1>4, <2>1, <2>4
    <3>2. inode' = [inode EXCEPT ![i] = w]
      BY <1>1, <2>4
    <3>3. /\ w \in Seq(Text) /\ Len(inode[i]) <= Len(w) /\ pos <= Len(w)
      BY <1>3, <1>4, <3>1, WriteGrows
    <3>4. Len(w) \in Nat
      BY <3>3, LenProperties
    <3> HIDE DEF w, pos
    <3>5. inode'[i] = w /\ \A j \in Inodes \ {i} : inode'[j] = inode[j]
      BY <2>1, <3>1, <3>2
    <3>6. inode' \in [Inodes -> Seq(Text)]
      BY <2>1, <3>1, <3>2, <3>3
    <3>7. \A j \in Inodes : Len(inode[j]) <= Len(inode'[j]) /\ Len(inode'[j]) \in Nat
      <4>1. ASSUME NEW j \in Inodes
            PROVE  Len(inode[j]) <= Len(inode'[j]) /\ Len(inode'[j]) \in Nat
        <5>1. CASE j = i
          BY <3>3, <3>4, <3>5, <5>1
        <5>2. CASE j # i
          BY <2>2, <3>5, <5>2
        <5> QED
          BY <5>1, <5>2
      <4> QED
        BY <4>1
    <3> QED
      BY <2>2, <3>3, <3>5, <3>6, <3>7
  <2> QED
    BY <2>3, <2>4
<1>7. ASSUME NEW d \in Clients \ {c} PROVE Files(srv[d], dirs', file', inode')
  <2>1. Files(srv[d], dirs, file, inode) /\ srv[d].file \in Inodes \cup {0} /\ srv[d].pos \in Nat
    BY <1>2 DEF IInv, Typed, Sessions
  <2>2. srv[d].file # 0 => srv[d].pos <= Len(inode'[srv[d].file])
    <3>1. srv[d].file # 0 => srv[d].pos <= Len(inode[srv[d].file])
      BY <2>1 DEF Files
    <3> QED
      BY <1>6, <2>1, <3>1
  <2>3. dirs' = dirs /\ file' = file
    BY <1>1
  <2> QED
    BY <2>1, <2>2, <2>3 DEF Files
<1>8. /\ new \in Sessions /\ new.in = s.in /\ new.active = s.active
      /\ new.state = (IF left = 0 THEN "Login_Success" ELSE "Puts")
      /\ new.gets = s.gets /\ new.user = s.user /\ new.cwd = s.cwd
      /\ new.conn = s.conn /\ new.size = left
      /\ new.file # 0 => new.file = s.file /\ new.pos = pos
  <2> HIDE DEF s, left, pos
  <2>1. "Login_Success" \in ServerStates /\ 0 \in Int /\ 0 \in Nat
    BY DEF ServerStates
  <2>2. CASE left = 0
    <3>1. new = [s EXCEPT !.size = 0, !.file = 0, !.pos = 0, !.state = "Login_Success"]
      BY <2>2
    <3> HIDE DEF new
    <3> QED
      BY <1>2, <2>1, <2>2, <3>1 DEF Sessions
  <2>3. CASE left # 0
    <3>1. new = [s EXCEPT !.size = left, !.pos = pos]
      BY <2>3
    <3> HIDE DEF new
    <3> QED
      BY <1>2, <1>5, <2>3, <3>1 DEF Sessions
  <2> QED
    BY <2>2, <2>3
<1> HIDE DEF s, left, pos, new
<1>9. /\ t.state = new.state /\ t.call = "none" /\ t.gets = new.gets /\ t.conn = new.conn
      /\ t.user = new.user /\ t.cwd = new.cwd /\ t.size = new.size
  BY <1>2, <1>8, Done
<1> HIDE DEF t
<1>10. Talk(cli[c], local[c], Tail(q), s2c[c], t)
  BY <1>2, <1>5, <1>8, <1>9, TalkPutsData
<1>11. /\ s2c' \in [Clients -> Seq(ToClient)] /\ \A d \in Clients \ {c} : s2c'[d] = s2c[d]
       /\ users' \subseteq Users /\ dirs' \subseteq Paths
       /\ file' \in [Paths -> Inodes \cup {0}] /\ writers' \in [Inodes -> SUBSET (Clients \X Params)]
       /\ aborted' = FALSE /\ s2c' = s2c
  BY <1>1, <1>2 DEF Typed
<1>12. Talk(cli[c], local[c], Tail(s.in) \o c2s[c], s2c'[c], t)
  BY <1>2, <1>10, <1>11
<1>13. new.file # 0 => new.pos <= Len(inode'[new.file])
  BY <1>6, <1>8
<1>14. s.gets # "added"
  BY <1>4
<1> QED
  BY <1>1, <1>2, <1>6, <1>7, <1>8, <1>11, <1>12, <1>13, <1>14, FrameDone DEF s, t

(* onMessage takes the frame that follows a download. *)
LEMMA GetsAckStep == ASSUME IInv, NEW c \in Clients, GetsAck(c) PROVE IInv'
<1> DEFINE s == srv[c]
           q == Rest(s) \o c2s[c]
           new == [s EXCEPT !.state = "Login_Success", !.file = 0, !.gets = "none"]
           t == DoneWith(new)
<1>1. /\ ServerTakes(c, "Gets") /\ UNCHANGED <<s2c, users, fileSystem>>
  BY DEF GetsAck
<1>2. /\ ~aborted /\ UNCHANGED <<cli, local, c2s>>
      /\ s \in Sessions /\ s.in # <<>> /\ s.call = "none" /\ s.state = "Gets"
      /\ Ends(cli[c], local[c], q, s2c[c], s) /\ Talk(cli[c], local[c], q, s2c[c], s)
      /\ q # <<>> /\ Tail(q) = Tail(s.in) \o c2s[c] /\ Msg(c).kind = ServerExpects["Gets"]
      /\ users \subseteq Users /\ s2c \in [Clients -> Seq(ToClient)]
  BY <1>1, Takes
<1>9. Becomes(c, new) /\ aborted' = (s.gets \in {"added", "unwatched"})
  <2>1. PICK acked \in StartsWithZero(Msg(c)) :
          /\ aborted' = (acked /\ s.gets \in {"added", "unwatched"})
          /\ Becomes(c, IF acked THEN new ELSE s)
    BY DEF GetsAck
  <2>2. acked = TRUE
    BY <1>2, <2>1 DEF StartsWithZero, ServerExpects
  <2> QED
    BY <2>1, <2>2
<1>3. aborted' \in BOOLEAN /\ (aborted' \/ s.gets # "added")
  <2>1. (s.gets \in {"added", "unwatched"}) \in BOOLEAN
    OBVIOUS
  <2>2. s.gets = "added" => s.gets \in {"added", "unwatched"}
    OBVIOUS
  <2> HIDE DEF s
  <2> QED
    BY <1>9, <2>1, <2>2
<1> HIDE DEF s, q
<1>4. /\ new \in Sessions /\ new.in = s.in /\ new.active = s.active /\ new.state = "Login_Success"
      /\ new.gets = "none" /\ new.file = 0 /\ new.user = s.user /\ new.cwd = s.cwd
      /\ new.conn = s.conn
  <2>1. "Login_Success" \in ServerStates
    BY DEF ServerStates
  <2> QED
    BY <1>2, <2>1 DEF Sessions
<1> HIDE DEF new
<1>5. /\ t.state = "Login_Success" /\ t.call = "none" /\ t.gets = "none" /\ t.conn = s.conn
      /\ t.user = s.user /\ t.cwd = s.cwd
  BY <1>2, <1>4, Done
<1> HIDE DEF t
<1>6. Talk(cli[c], local[c], Tail(q), s2c[c], t)
  BY <1>2, <1>5, TalkGetsAck
<1>7. /\ users' \subseteq Users /\ s2c' = s2c /\ UNCHANGED fileSystem
  BY <1>1, <1>2
<1>8. Talk(cli[c], local[c], Tail(s.in) \o c2s[c], s2c'[c], t)
  BY <1>2, <1>6, <1>7
<1> QED
  BY <1>1, <1>2, <1>3, <1>4, <1>7, <1>8, <1>9, FrameDoneQuietly DEF s, t
-----------------------------------------------------------------------------
(* The steps of the client *)

(* What its user types: the client goes to k and sends frames. *)
LEMMA TypesStep ==
  ASSUME IInv, NEW c \in Clients, NEW k \in ClientProcesses, cli' = [cli EXCEPT ![c] = k],
         NEW frames \in Seq(ToServer), ClientSends(c, frames),
         UNCHANGED <<local, s2c, serverSide>>,
         Talk(k, local[c], (Rest(srv[c]) \o c2s[c]) \o frames, s2c[c], srv[c])
  PROVE  IInv'
<1>1. /\ Rest(srv[c]) \in Seq(ToServer) /\ c2s[c] \in Seq(ToServer) /\ s2c[c] \in Seq(ToClient)
      /\ local[c] \in LocalFiles
  BY Around
<1>2. /\ (Rest(srv[c]) \o c2s[c]) \o frames = Rest(srv[c]) \o (c2s[c] \o frames)
      /\ c2s[c] \o frames \in Seq(ToServer)
  <2> DEFINE a == Rest(srv[c])
             b == c2s[c]
  <2>1. a \in Seq(ToServer) /\ b \in Seq(ToServer)
    BY <1>1
  <2> HIDE DEF a, b
  <2>2. (a \o b) \o frames = a \o (b \o frames) /\ b \o frames \in Seq(ToServer)
    BY <2>1, ConcatAssociative, ConcatProperties
  <2> QED
    BY <2>2 DEF a, b
<1>3. /\ local' = [local EXCEPT ![c] = local[c]] /\ s2c' = [s2c EXCEPT ![c] = s2c[c]]
      /\ c2s' = [c2s EXCEPT ![c] = c2s[c] \o frames]
  BY DEF ClientSends, IInv, Typed
<1>4. Talk(k, local[c], Rest(srv[c]) \o (c2s[c] \o frames), s2c[c], srv[c])
  BY <1>2
<1> HIDE DEF ClientSends
<1> QED
  BY <1>1, <1>2, <1>3, <1>4, ClientMoves

(* The user registers. *)
LEMMA TypeRegisterStep ==
  ASSUME IInv, NEW c \in Clients, NEW u \in Users, TypeRegister(c, u)
  PROVE  IInv'
<1> DEFINE k == [cli[c] EXCEPT !.state = "Registering"]
           q == Rest(srv[c]) \o c2s[c]
           f == Frame("menu", "0")
           g == Frame("account", u)
<1>1. /\ cli[c].state = "Init" /\ cli' = [cli EXCEPT ![c] = k] /\ ClientSends(c, <<f, g>>)
      /\ UNCHANGED <<local, s2c, serverSide>>
  BY DEF TypeRegister, Types
<1>2. /\ cli[c] \in ClientProcesses /\ Ends(cli[c], local[c], q, s2c[c], srv[c])
      /\ Talk(cli[c], local[c], q, s2c[c], srv[c])
  BY Around
<1>3. /\ f \in ToServer /\ f.kind = "menu" /\ f.val = "0" /\ g \in ToServer /\ g.kind = "account"
  BY DEF Frame, ToServer
<1> HIDE DEF f, g, q
<1>4. k \in ClientProcesses /\ k.state = "Registering"
  BY <1>2 DEF ClientProcesses, ClientStates
<1> HIDE DEF k
<1>5. Talk(k, local[c], q \o <<f, g>>, s2c[c], srv[c])
  BY <1>1, <1>2, <1>3, <1>4, TalkTypesMenu
<1>6. <<f, g>> \in Seq(ToServer)
  BY <1>3
<1> QED
  BY <1>1, <1>4, <1>5, <1>6, TypesStep DEF q

(* The user logs in. *)
LEMMA TypeLoginStep ==
  ASSUME IInv, NEW c \in Clients, NEW u \in Users, TypeLogin(c, u)
  PROVE  IInv'
<1> DEFINE k == [cli[c] EXCEPT !.state = "Logining_Step1"]
           q == Rest(srv[c]) \o c2s[c]
           f == Frame("menu", "1")
           g == Frame("user", u)
<1>1. /\ cli[c].state = "Init" /\ cli' = [cli EXCEPT ![c] = k] /\ ClientSends(c, <<f, g>>)
      /\ UNCHANGED <<local, s2c, serverSide>>
  BY DEF TypeLogin, Types
<1>2. /\ cli[c] \in ClientProcesses /\ Ends(cli[c], local[c], q, s2c[c], srv[c])
      /\ Talk(cli[c], local[c], q, s2c[c], srv[c])
  BY Around
<1>3. /\ f \in ToServer /\ f.kind = "menu" /\ f.val # "0" /\ g \in ToServer /\ g.kind = "user"
  BY DEF Frame, ToServer
<1> HIDE DEF f, g, q
<1>4. k \in ClientProcesses /\ k.state = "Logining_Step1"
  BY <1>2 DEF ClientProcesses, ClientStates
<1> HIDE DEF k
<1>5. Talk(k, local[c], q \o <<f, g>>, s2c[c], srv[c])
  BY <1>1, <1>2, <1>3, <1>4, TalkTypesMenu
<1>6. <<f, g>> \in Seq(ToServer)
  BY <1>3
<1> QED
  BY <1>1, <1>4, <1>5, <1>6, TypesStep DEF q

(* A command line is typed: the client goes to k. *)
LEMMA TypesLine ==
  ASSUME IInv, NEW c \in Clients, cli[c].state = "Login_Success",
         NEW line \in Lines, line.arg \in Params => Leads(srv[c], line.arg),
         NEW k \in ClientProcesses, k.state = Waiting[line.cmd], LocalOK(k, local[c]),
         cli' = [cli EXCEPT ![c] = k],
         ClientSends(c, Line(line.cmd, line.arg)), UNCHANGED <<local, s2c, serverSide>>
  PROVE  IInv'
<1> DEFINE q == Rest(srv[c]) \o c2s[c]
           f == Frame("command", line)
<1>1. /\ Ends(cli[c], local[c], q, s2c[c], srv[c]) /\ Talk(cli[c], local[c], q, s2c[c], srv[c])
  BY Around
<1>2. f \in ToServer /\ f.kind = "command" /\ f.val = line
  BY DEF Frame, ToServer
<1>3. Line(line.cmd, line.arg) = <<f>>
  <2>1. line = [cmd |-> line.cmd, arg |-> line.arg]
    BY DEF Lines
  <2> QED
    BY <2>1 DEF Line
<1>4. f.val.arg \in Params => Leads(srv[c], f.val.arg)
  BY <1>2
<1>5. ClientSends(c, <<f>>)
  BY <1>3
<1> HIDE DEF f, q
<1>6. Talk(k, local[c], q \o <<f>>, s2c[c], srv[c])
  BY <1>1, <1>2, <1>4, TalkTypesCommand
<1>7. <<f>> \in Seq(ToServer)
  BY <1>2
<1> QED
  BY <1>5, <1>6, <1>7, TypesStep DEF q

(* A parameter is typed where it leads to a path. *)
LEMMA FitsLeads ==
  ASSUME NEW c \in Clients, NEW cmd, NEW a \in Params, Fits(c, cmd, a)
  PROVE  Leads(srv[c], a)
BY DEF Fits, Leads, Here, HereOf

(* The user types a command that moves no file. *)
LEMMA TypeCommandStep ==
  ASSUME IInv, NEW c \in Clients, NEW cmd \in Commands \cap DOMAIN Arguments,
         NEW arg \in Arguments[cmd], TypeCommand(c, cmd, arg)
  PROVE  IInv'
<1> DEFINE k == [cli[c] EXCEPT !.state = WaitState[cmd]]
           line == [cmd |-> cmd, arg |-> arg]
<1>1. /\ cli[c].state = "Login_Success" /\ (arg # NoArg => Fits(c, cmd, arg))
      /\ cli' = [cli EXCEPT ![c] = k] /\ ClientSends(c, Line(cmd, arg))
      /\ UNCHANGED <<local, s2c, serverSide>>
  BY DEF TypeCommand, Types
<1>2. /\ cli[c] \in ClientProcesses /\ local[c] \in LocalFiles
      /\ Talk(cli[c], local[c], Rest(srv[c]) \o c2s[c], s2c[c], srv[c])
  BY Around
<1>3. /\ cmd \in {"pwd", "ls", "mkdir", "remove", "cd"} /\ cmd \in Commands
      /\ arg \in Params \cup {NoArg}
      /\ cmd \in {"mkdir", "remove"} => arg \in Params
  BY DEF Arguments
<1>4. line \in Lines /\ line.cmd = cmd /\ line.arg = arg
  BY <1>3 DEF Lines
<1>5. /\ WaitState[cmd] = Waiting[cmd]
      /\ WaitState[cmd] \in {"Print", "Mkdir", "Remove", "Cd"}
  BY <1>3 DEF WaitState, Waiting
<1>6. k \in ClientProcesses /\ k.state = Waiting[cmd]
  <2>1. WaitState[cmd] \in ClientStates
    BY <1>5 DEF ClientStates
  <2> QED
    BY <1>2, <1>5, <2>1 DEF ClientProcesses
<1>7. LocalOK(cli[c], local[c])
  BY <1>1, <1>2 DEF Talk
<1> HIDE DEF k
<1>8. LocalOK(k, local[c])
  <2>1. cli[c].state # "Gets" /\ k.state \notin {"Begin_Puts", "Puts", "Begin_Gets", "Gets"}
    BY <1>1, <1>5, <1>6
  <2> QED
    BY <1>7, <2>1, LocalRests
<1> HIDE DEF line
<1>9. k.state = Waiting[line.cmd] /\ ClientSends(c, Line(line.cmd, line.arg))
  BY <1>1, <1>4, <1>6
<1>10. line.arg \in Params => Leads(srv[c], line.arg)
  <2>1. arg \in Params => arg # NoArg
    BY NetdiskAssumption DEF NoArg
  <2> QED
    BY <1>1, <1>4, <2>1, FitsLeads
<1> QED
  BY <1>1, <1>4, <1>6, <1>8, <1>9, <1>10, TypesLine

(* The user types puts. *)
LEMMA TypePutsStep ==
  ASSUME IInv, NEW c \in Clients, "puts" \in Commands, NEW a \in Params, TypePuts(c, a)
  PROVE  IInv'
<1> DEFINE k == [cli[c] EXCEPT !.state = "Begin_Puts", !.file = a]
           line == [cmd |-> "puts", arg |-> a]
<1>1. /\ cli[c].state = "Login_Success" /\ Fits(c, "puts", a) /\ local[c][a] # NoFile
      /\ ClientSends(c, Line("puts", a)) /\ UNCHANGED <<local, s2c, serverSide>>
      /\ cli' = [cli EXCEPT ![c] = k]
  BY DEF TypePuts
<1>2. /\ cli[c] \in ClientProcesses /\ local[c] \in LocalFiles
      /\ Talk(cli[c], local[c], Rest(srv[c]) \o c2s[c], s2c[c], srv[c])
  BY Around
<1>3. line \in Lines /\ line.cmd = "puts" /\ line.arg = a
  BY DEF Lines
<1>4. LocalOK(cli[c], local[c])
  BY <1>1, <1>2 DEF Talk
<1>5. k \in ClientProcesses /\ k.state = "Begin_Puts" /\ k.file = a
  BY <1>2 DEF ClientProcesses, ClientStates
<1> HIDE DEF k, line
<1>6. LocalOK(k, local[c])
  <2>1. local[c][a] \in Seq(Text) \ {<<>>}
    BY <1>1, <1>2, <1>4 DEF LocalOK, LocalFiles
  <2> QED
    BY <1>1, <1>4, <1>5, <2>1 DEF LocalOK
<1>7. /\ k.state = Waiting[line.cmd] /\ ClientSends(c, Line(line.cmd, line.arg))
      /\ Leads(srv[c], line.arg)
  BY <1>1, <1>3, <1>5, FitsLeads DEF Waiting
<1> QED
  BY <1>1, <1>3, <1>5, <1>6, <1>7, TypesLine

(* The user types gets. *)
LEMMA TypeGetsStep ==
  ASSUME IInv, NEW c \in Clients, "gets" \in Commands, NEW a \in Params, TypeGets(c, a)
  PROVE  IInv'
<1> DEFINE k == [cli[c] EXCEPT !.state = "Begin_Gets", !.file = a]
           line == [cmd |-> "gets", arg |-> a]
<1>1. /\ cli[c].state = "Login_Success" /\ Fits(c, "gets", a)
      /\ ClientSends(c, Line("gets", a)) /\ UNCHANGED <<local, s2c, serverSide>>
      /\ cli' = [cli EXCEPT ![c] = k]
  BY DEF TypeGets
<1>2. /\ cli[c] \in ClientProcesses
      /\ Talk(cli[c], local[c], Rest(srv[c]) \o c2s[c], s2c[c], srv[c])
  BY Around
<1>3. line \in Lines /\ line.cmd = "gets" /\ line.arg = a
  BY DEF Lines
<1>4. LocalOK(cli[c], local[c])
  BY <1>1, <1>2 DEF Talk
<1>5. k \in ClientProcesses /\ k.state = "Begin_Gets" /\ k.file = a
  BY <1>2 DEF ClientProcesses, ClientStates
<1> HIDE DEF k, line
<1>6. LocalOK(k, local[c])
  BY <1>1, <1>4, <1>5 DEF LocalOK
<1>7. /\ k.state = Waiting[line.cmd] /\ ClientSends(c, Line(line.cmd, line.arg))
      /\ Leads(srv[c], line.arg)
  BY <1>1, <1>3, <1>5, FitsLeads DEF Waiting
<1> QED
  BY <1>1, <1>3, <1>5, <1>6, <1>7, TypesLine

(* Whatever the user types. *)
LEMMA UserTypesStep == ASSUME IInv, NEW c \in Clients, UserTypes(c) PROVE IInv'
<1>1. ASSUME NEW u \in Users, TypeRegister(c, u) PROVE IInv'
  BY <1>1, TypeRegisterStep
<1>2. ASSUME NEW u \in Users, TypeLogin(c, u) PROVE IInv'
  BY <1>2, TypeLoginStep
<1>3. ASSUME NEW cmd \in Commands \cap DOMAIN Arguments, NEW arg \in Arguments[cmd],
             TypeCommand(c, cmd, arg)
      PROVE  IInv'
  BY <1>3, TypeCommandStep
<1>4. ASSUME "puts" \in Commands, NEW a \in Params, TypePuts(c, a) PROVE IInv'
  BY <1>4, TypePutsStep
<1>5. ASSUME "gets" \in Commands, NEW a \in Params, TypeGets(c, a) PROVE IInv'
  BY <1>5, TypeGetsStep
<1> QED
  BY <1>1, <1>2, <1>3, <1>4, <1>5 DEF UserTypes

(* A client that takes a frame. *)
LEMMA Receives ==
  ASSUME IInv, NEW c \in Clients, NEW state, ClientTakes(c, state)
  PROVE  LET r == s2c[c]
         IN  /\ cli[c].state = state /\ r # <<>> /\ r \in Seq(ToClient)
             /\ Received(c) = r[1].val /\ Tail(r) \in Seq(ToClient)
             /\ s2c' = [s2c EXCEPT ![c] = Tail(r)] /\ UNCHANGED serverSide
             /\ cli[c] \in ClientProcesses /\ local[c] \in LocalFiles /\ c2s[c] \in Seq(ToServer)
             /\ Rest(srv[c]) \in Seq(ToServer)
             /\ Ends(cli[c], local[c], Rest(srv[c]) \o c2s[c], r, srv[c])
             /\ Talk(cli[c], local[c], Rest(srv[c]) \o c2s[c], r, srv[c])
<1>1. /\ cli[c].state = state /\ s2c[c] # <<>> /\ UNCHANGED serverSide
      /\ s2c' = [s2c EXCEPT ![c] = Tail(s2c[c])]
  BY DEF ClientTakes
<1>2. /\ s2c[c] \in Seq(ToClient) /\ cli[c] \in ClientProcesses /\ local[c] \in LocalFiles
      /\ c2s[c] \in Seq(ToServer) /\ Rest(srv[c]) \in Seq(ToServer)
      /\ Ends(cli[c], local[c], Rest(srv[c]) \o c2s[c], s2c[c], srv[c])
      /\ Talk(cli[c], local[c], Rest(srv[c]) \o c2s[c], s2c[c], srv[c])
  BY Around
<1>3. Received(c) = s2c[c][1].val /\ Tail(s2c[c]) \in Seq(ToClient)
  BY <1>1, <1>2, HeadTailProperties DEF Received
<1> QED
  BY <1>1, <1>2, <1>3

(* It goes back to its user. *)
LEMMA BackStep ==
  ASSUME IInv, NEW c \in Clients, NEW old, ClientTakes(c, old),
         NEW new \in ClientStates, BackToUser(c, new),
         \/ old = "Registering" /\ new = "Init"
         \/ old = "Logining_Step1" /\ ~Received(c) /\ new = "Init"
         \/ old = "Logining_Step2" /\ new = IF Received(c) = 0 THEN "Login_Success" ELSE "Init"
         \/ old \in {"Print", "Mkdir", "Remove", "Cd"} /\ new = "Login_Success"
         \/ old = "Begin_Puts" /\ Received(c) # 0 /\ new = "Login_Success"
         \/ old = "Begin_Gets" /\ Received(c) < 0 /\ new = "Login_Success"
  PROVE  IInv'
<1> DEFINE q == Rest(srv[c]) \o c2s[c]
           r == s2c[c]
           k == [cli[c] EXCEPT !.state = new]
<1>1. /\ cli[c].state = old /\ r # <<>> /\ r \in Seq(ToClient)
      /\ Received(c) = r[1].val /\ Tail(r) \in Seq(ToClient)
      /\ s2c' = [s2c EXCEPT ![c] = Tail(r)] /\ UNCHANGED serverSide
      /\ cli[c] \in ClientProcesses /\ local[c] \in LocalFiles /\ c2s[c] \in Seq(ToServer)
      /\ Ends(cli[c], local[c], q, r, srv[c]) /\ Talk(cli[c], local[c], q, r, srv[c])
  BY Receives
<1>2. cli' = [cli EXCEPT ![c] = k] /\ UNCHANGED <<local, c2s>>
  BY DEF BackToUser
<1>3. local' = [local EXCEPT ![c] = local[c]] /\ c2s' = [c2s EXCEPT ![c] = c2s[c]]
  BY <1>2 DEF IInv, Typed
<1> HIDE DEF q, r
<1>4. k \in ClientProcesses /\ k.state = new
  BY <1>1 DEF ClientProcesses
<1> HIDE DEF k
<1>5. \/ cli[c].state = "Registering" /\ k.state = "Init"
      \/ cli[c].state = "Logining_Step1" /\ ~r[1].val /\ k.state = "Init"
      \/ cli[c].state = "Logining_Step2" /\ k.state = IF r[1].val = 0 THEN "Login_Success" ELSE "Init"
      \/ cli[c].state \in {"Print", "Mkdir", "Remove", "Cd"} /\ k.state = "Login_Success"
      \/ cli[c].state = "Begin_Puts" /\ r[1].val # 0 /\ k.state = "Login_Success"
      \/ cli[c].state = "Begin_Gets" /\ r[1].val < 0 /\ k.state = "Login_Success"
  BY <1>1, <1>4
<1>6. Talk(k, local[c], q, Tail(r), srv[c])
  BY <1>1, <1>5, TalkToUser
<1> QED
  BY <1>1, <1>2, <1>3, <1>4, <1>6, ClientMoves DEF q

(* It sends one frame more. *)
LEMMA SendsStep ==
  ASSUME IInv, NEW c \in Clients, NEW old, ClientTakes(c, old),
         NEW k \in ClientProcesses, cli' = [cli EXCEPT ![c] = k], k.file = cli[c].file,
         NEW f \in ToServer, ClientSends(c, <<f>>), UNCHANGED local,
         \/ old = "Logining_Step1" /\ Received(c) /\ k.state = "Logining_Step2" /\ f.kind = "secret"
         \/ /\ old = "Begin_Puts" /\ Received(c) = 0 /\ k.state = "Puts"
            /\ k.size = Len(local[c][cli[c].file]) /\ f.kind = "size" /\ f.val = k.size
  PROVE  IInv'
<1> DEFINE a == Rest(srv[c])
           b == c2s[c]
           q == a \o b
           r == s2c[c]
<1>1. /\ cli[c].state = old /\ r # <<>> /\ r \in Seq(ToClient)
      /\ Received(c) = r[1].val /\ Tail(r) \in Seq(ToClient)
      /\ s2c' = [s2c EXCEPT ![c] = Tail(r)] /\ UNCHANGED serverSide
      /\ cli[c] \in ClientProcesses /\ local[c] \in LocalFiles
      /\ a \in Seq(ToServer) /\ b \in Seq(ToServer)
      /\ Ends(cli[c], local[c], q, r, srv[c]) /\ Talk(cli[c], local[c], q, r, srv[c])
  BY Receives
<1>2. local' = [local EXCEPT ![c] = local[c]] /\ c2s' = [c2s EXCEPT ![c] = b \o <<f>>]
  BY DEF ClientSends, IInv, Typed
<1>3. \/ /\ cli[c].state = "Logining_Step1" /\ r[1].val /\ k.state = "Logining_Step2"
         /\ f.kind = "secret"
      \/ /\ cli[c].state = "Begin_Puts" /\ r[1].val = 0 /\ k.state = "Puts"
         /\ k.size = Len(local[c][cli[c].file]) /\ f.kind = "size" /\ f.val = k.size
  BY <1>1
<1> HIDE DEF a, b, q, r
<1>4. Talk(k, local[c], q \o <<f>>, Tail(r), srv[c])
  BY <1>1, <1>3, TalkSendsOne
<1>5. q \o <<f>> = a \o (b \o <<f>>) /\ b \o <<f>> \in Seq(ToServer)
  <2>1. <<f>> \in Seq(ToServer)
    OBVIOUS
  <2>2. (a \o b) \o <<f>> = a \o (b \o <<f>>)
    BY <1>1, <2>1, ConcatAssociative
  <2>3. b \o <<f>> \in Seq(ToServer)
    BY <1>1, <2>1, ConcatProperties
  <2> QED
    BY <2>2, <2>3 DEF q
<1>6. Talk(k, local[c], a \o (b \o <<f>>), Tail(r), srv[c])
  BY <1>4, <1>5
<1> QED
  BY <1>1, <1>2, <1>5, <1>6, ClientMoves DEF a

(* The client hears how its registration ended. *)
LEMMA ClientRegisteredStep == ASSUME IInv, NEW c \in Clients, ClientRegistered(c) PROVE IInv'
<1>1. "Init" \in ClientStates
  BY DEF ClientStates
<1>2. ClientTakes(c, "Registering") /\ BackToUser(c, "Init")
  BY DEF ClientRegistered
<1> QED
  BY <1>1, <1>2, BackStep

(* The client hears the salt and sends the password. *)
LEMMA ClientSaltStep == ASSUME IInv, NEW c \in Clients, ClientSalt(c) PROVE IInv'
<1>1. ClientTakes(c, "Logining_Step1")
  BY DEF ClientSalt
<1>2. CASE ~Received(c) /\ BackToUser(c, "Init")
  <2>1. "Init" \in ClientStates
    BY DEF ClientStates
  <2> QED
    BY <1>1, <1>2, <2>1, BackStep
<1> DEFINE k == [cli[c] EXCEPT !.state = "Logining_Step2"]
<1>3. CASE /\ Received(c) /\ cli' = [cli EXCEPT ![c] = k] /\ UNCHANGED local
           /\ \E right \in BOOLEAN : ClientSends(c, <<Frame("secret", right)>>)
  <2>1. PICK right \in BOOLEAN : ClientSends(c, <<Frame("secret", right)>>)
    BY <1>3
  <2> DEFINE f == Frame("secret", right)
  <2>2. f \in ToServer /\ f.kind = "secret"
    BY DEF Frame, ToServer
  <2>3. cli[c] \in ClientProcesses
    BY Around
  <2>4. k \in ClientProcesses /\ k.state = "Logining_Step2" /\ k.file = cli[c].file
    BY <2>3 DEF ClientProcesses, ClientStates
  <2>5. ClientSends(c, <<f>>) /\ Received(c) /\ cli' = [cli EXCEPT ![c] = k] /\ UNCHANGED local
    BY <1>3, <2>1
  <2> HIDE DEF k, f
  <2> QED
    BY <1>1, <2>2, <2>4, <2>5, SendsStep
<1> QED
  BY <1>2, <1>3 DEF ClientSalt

(* The client hears how its login ended. *)
LEMMA ClientLoginStep == ASSUME IInv, NEW c \in Clients, ClientLogin(c) PROVE IInv'
<1> DEFINE new == IF Received(c) = 0 THEN "Login_Success" ELSE "Init"
<1>1. ClientTakes(c, "Logining_Step2") /\ BackToUser(c, new)
  BY DEF ClientLogin
<1>2. new \in ClientStates
  BY DEF ClientStates
<1>3. new = IF Received(c) = 0 THEN "Login_Success" ELSE "Init"
  OBVIOUS
<1> HIDE DEF new
<1> QED
  BY <1>1, <1>2, <1>3, BackStep

(* The client hears the answer to a command. *)
LEMMA ClientAnsweredStep == ASSUME IInv, NEW c \in Clients, ClientAnswered(c) PROVE IInv'
<1>1. PICK cmd \in DOMAIN WaitState :
        ClientTakes(c, WaitState[cmd]) /\ BackToUser(c, "Login_Success")
  BY DEF ClientAnswered
<1>2. WaitState[cmd] \in {"Print", "Mkdir", "Remove", "Cd"}
  BY DEF WaitState
<1>3. "Login_Success" \in ClientStates
  BY DEF ClientStates
<1> QED
  BY <1>1, <1>2, <1>3, BackStep

(* The client hears whether it may upload, and announces the size. *)
LEMMA ClientBeginPutsStep == ASSUME IInv, NEW c \in Clients, ClientBeginPuts(c) PROVE IInv'
<1> DEFINE size == Len(local[c][cli[c].file])
           k == [cli[c] EXCEPT !.state = "Puts", !.size = size]
           f == Frame("size", size)
<1>1. ClientTakes(c, "Begin_Puts")
  BY DEF ClientBeginPuts
<1>2. CASE Received(c) # 0 /\ BackToUser(c, "Login_Success")
  <2>1. "Login_Success" \in ClientStates
    BY DEF ClientStates
  <2> QED
    BY <1>1, <1>2, <2>1, BackStep
<1>3. CASE /\ Received(c) = 0 /\ cli' = [cli EXCEPT ![c] = k]
           /\ ClientSends(c, <<f>>) /\ UNCHANGED local
  <2>1. /\ cli[c].state = "Begin_Puts" /\ cli[c] \in ClientProcesses
        /\ Talk(cli[c], local[c], Rest(srv[c]) \o c2s[c], s2c[c], srv[c])
    BY <1>1, Receives
  <2>2. local[c][cli[c].file] \in Seq(Text) \ {<<>>}
    BY <2>1 DEF Talk, LocalOK
  <2>3. size \in Nat \ {0}
    BY <2>2, LenProperties, EmptySeq
  <2>4. f \in ToServer /\ f.kind = "size" /\ f.val = size
    BY <2>3 DEF Frame, ToServer
  <2>5. size = Len(local[c][cli[c].file])
    OBVIOUS
  <2> HIDE DEF size, f
  <2>6. k \in ClientProcesses /\ k.state = "Puts" /\ k.file = cli[c].file /\ k.size = size
    <3>1. "Puts" \in ClientStates /\ size \in Nat
      BY <2>3 DEF ClientStates
    <3> QED
      BY <2>1, <3>1 DEF ClientProcesses
  <2>7. /\ Received(c) = 0 /\ cli' = [cli EXCEPT ![c] = k] /\ ClientSends(c, <<f>>)
        /\ UNCHANGED local
    BY <1>3
  <2> HIDE DEF k
  <2>8. k.size = Len(local[c][cli[c].file]) /\ f.val = k.size
    BY <2>4, <2>5, <2>6
  <2> QED
    BY <1>1, <2>4, <2>6, <2>7, <2>8, SendsStep
<1> QED
  BY <1>2, <1>3 DEF ClientBeginPuts

(* The client sends the file it puts, or finds that it cannot read it. *)
LEMMA ClientPutsStep == ASSUME IInv, NEW c \in Clients, ClientPuts(c) PROVE IInv'
<1> DEFINE a == Rest(srv[c])
           b == c2s[c]
           q == a \o b
           r == s2c[c]
           k(state) == [cli[c] EXCEPT !.state = state]
           chunks == Chunks(local[c][cli[c].file])
<1>1. PICK reads \in BOOLEAN :
        /\ cli' = [cli EXCEPT ![c] = k(IF reads THEN "Login_Success" ELSE "Endless")]
        /\ ClientSends(c, IF reads THEN chunks ELSE <<>>)
  BY DEF ClientPuts
<1>2. ClientTakes(c, "Puts") /\ UNCHANGED local
  BY DEF ClientPuts
<1>3. /\ cli[c].state = "Puts" /\ r # <<>> /\ r \in Seq(ToClient) /\ Tail(r) \in Seq(ToClient)
      /\ s2c' = [s2c EXCEPT ![c] = Tail(r)] /\ UNCHANGED serverSide
      /\ cli[c] \in ClientProcesses /\ local[c] \in LocalFiles
      /\ a \in Seq(ToServer) /\ b \in Seq(ToServer)
      /\ Ends(cli[c], local[c], q, r, srv[c]) /\ Talk(cli[c], local[c], q, r, srv[c])
  BY <1>2, Receives
<1>4. local' = [local EXCEPT ![c] = local[c]] /\ \A p : ClientSends(c, p) => c2s' = [c2s EXCEPT ![c] = b \o p]
  BY <1>2 DEF ClientSends, IInv, Typed
<1>5. \A state \in ClientStates : k(state) \in ClientProcesses /\ k(state).state = state
  BY <1>3 DEF ClientProcesses
<1>6. "Login_Success" \in ClientStates /\ "Endless" \in ClientStates
  BY DEF ClientStates
<1> HIDE DEF a, b, q, r, k, chunks
<1>7. CASE reads
  <2>1. Talk(k("Login_Success"), local[c], q \o chunks, Tail(r), srv[c]) /\ chunks \in Seq(ToServer)
    BY <1>3, <1>5, <1>6, TalkPuts DEF chunks
  <2>2. chunks \in Seq(ToServer) /\ a \in Seq(ToServer) /\ b \in Seq(ToServer)
    BY <1>3, <2>1
  <2>3. q \o chunks = a \o (b \o chunks) /\ b \o chunks \in Seq(ToServer)
    <3>1. (a \o b) \o chunks = a \o (b \o chunks)
      BY <2>2, ConcatAssociative
    <3>2. b \o chunks \in Seq(ToServer)
      BY <2>2, ConcatProperties
    <3> QED
      BY <3>1, <3>2 DEF q
  <2>4. Talk(k("Login_Success"), local[c], a \o (b \o chunks), Tail(r), srv[c])
    BY <2>1, <2>3
  <2>5. cli' = [cli EXCEPT ![c] = k("Login_Success")] /\ c2s' = [c2s EXCEPT ![c] = b \o chunks]
    BY <1>1, <1>4, <1>7
  <2> QED
    BY <1>3, <1>4, <1>5, <1>6, <2>3, <2>4, <2>5, ClientMoves DEF a
<1>8. CASE ~reads
  <2>1. Talk(k("Endless"), local[c], q, Tail(r), srv[c])
    BY <1>3, <1>5, <1>6, TalkPutsFails
  <2>2. b \o <<>> = b
    BY <1>3, ConcatEmptySeq
  <2>3. cli' = [cli EXCEPT ![c] = k("Endless")] /\ c2s' = [c2s EXCEPT ![c] = b]
    BY <1>1, <1>4, <1>8, <2>2
  <2>4. Talk(k("Endless"), local[c], a \o b, Tail(r), srv[c])
    BY <2>1 DEF q
  <2> QED
    BY <1>3, <1>4, <1>5, <1>6, <2>3, <2>4, ClientMoves DEF a
<1> QED
  BY <1>7, <1>8

(* The client sends a frame with nothing in it. *)
LEMMA ClientEndlessStep == ASSUME IInv, NEW c \in Clients, ClientEndless(c) PROVE IInv'
<1> DEFINE q == Rest(srv[c]) \o c2s[c]
           f == Frame("data", <<>>)
           k == cli[c]
<1>1. /\ k.state = "Endless" /\ ClientSends(c, <<f>>)
      /\ UNCHANGED <<cli, local, s2c, serverSide>>
  BY DEF ClientEndless
<1>2. /\ k \in ClientProcesses /\ Ends(k, local[c], q, s2c[c], srv[c])
      /\ Talk(k, local[c], q, s2c[c], srv[c])
  BY Around
<1>3. f \in ToServer /\ f.kind = "data" /\ Len(f.val) = 0
  BY EmptySeq DEF Frame, ToServer
<1>4. cli' = [cli EXCEPT ![c] = k]
  BY <1>1 DEF IInv, Typed
<1>5. <<f>> \in Seq(ToServer)
  BY <1>3
<1> HIDE DEF q, f, k
<1>6. Talk(k, local[c], q \o <<f>>, s2c[c], srv[c])
  BY <1>1, <1>2, <1>3, TalkEndless
<1> QED
  BY <1>1, <1>2, <1>4, <1>5, <1>6, TypesStep DEF q

(* The client hears the size of a download. *)
LEMMA ClientBeginGetsStep == ASSUME IInv, NEW c \in Clients, ClientBeginGets(c) PROVE IInv'
<1> DEFINE q == Rest(srv[c]) \o c2s[c]
           r == s2c[c]
           k == [cli[c] EXCEPT !.state = "Gets", !.size = r[1].val, !.cur = 0]
           l(made) == [local[c] EXCEPT ![cli[c].file] = made]
<1>1. ClientTakes(c, "Begin_Gets")
  BY DEF ClientBeginGets
<1>2. CASE Received(c) < 0 /\ BackToUser(c, "Login_Success")
  <2>1. "Login_Success" \in ClientStates
    BY DEF ClientStates
  <2> QED
    BY <1>1, <1>2, <2>1, BackStep
<1>3. CASE /\ Received(c) >= 0
           /\ cli' = [cli EXCEPT ![c].state = "Gets", ![c].size = Received(c), ![c].cur = 0]
           /\ \E made \in {<<>>, NoFile} : local' = [local EXCEPT ![c][cli[c].file] = made]
           /\ UNCHANGED c2s
  <2>1. PICK made \in {<<>>, NoFile} : local' = [local EXCEPT ![c][cli[c].file] = made]
    BY <1>3
  <2>2. /\ cli[c].state = "Begin_Gets" /\ r # <<>> /\ r \in Seq(ToClient)
        /\ Received(c) = r[1].val /\ Tail(r) \in Seq(ToClient)
        /\ s2c' = [s2c EXCEPT ![c] = Tail(r)] /\ UNCHANGED serverSide
        /\ cli[c] \in ClientProcesses /\ local[c] \in LocalFiles /\ c2s[c] \in Seq(ToServer)
        /\ Ends(cli[c], local[c], q, r, srv[c]) /\ Talk(cli[c], local[c], q, r, srv[c])
    BY <1>1, Receives
  <2>3. r[1].val >= 0
    BY <1>3, <2>2
  <2>4. /\ cli' = [cli EXCEPT ![c] = k] /\ local' = [local EXCEPT ![c] = l(made)]
        /\ c2s' = [c2s EXCEPT ![c] = c2s[c]]
    <3>1. c2s' = [c2s EXCEPT ![c] = c2s[c]]
      BY <1>3 DEF IInv, Typed
    <3>2. cli' = [cli EXCEPT ![c] = k]
      BY <1>3, <2>2
    <3>3. local' = [local EXCEPT ![c] = l(made)]
      BY <2>1
    <3> QED
      BY <3>1, <3>2, <3>3
  <2> HIDE DEF q, r
  <2>5. /\ k.state = "Gets" /\ k.file = cli[c].file /\ k.size = r[1].val /\ k.cur = 0
    BY <2>2 DEF ClientProcesses
  <2> DEFINE k2 == k
  <2>6. k2.state = "Gets" /\ k2.file = cli[c].file /\ k2.size = r[1].val /\ k2.cur = 0
    BY <2>5
  <2> HIDE DEF k2
  <2>7. Talk(k2, l(made), q, Tail(r), srv[c]) /\ r[1].val \in Nat /\ cli[c].file \in Params
    BY <2>2, <2>3, <2>6, TalkBeginGets
  <2>8. k2 \in ClientProcesses /\ l(made) \in LocalFiles
    <3>1. "Gets" \in ClientStates /\ made \in Seq(Text) \cup {NoFile}
      BY <2>1, EmptySeq DEF ClientStates
    <3>2. k \in ClientProcesses
      BY <2>2, <2>7, <3>1 DEF ClientProcesses
    <3>3. l(made) \in LocalFiles
      BY <2>2, <2>7, <3>1 DEF LocalFiles
    <3> QED
      BY <3>2, <3>3 DEF k2
  <2>9. cli' = [cli EXCEPT ![c] = k2]
    BY <2>4 DEF k2
  <2> HIDE DEF k, l
  <2> QED
    BY <2>2, <2>4, <2>7, <2>8, <2>9, ClientMoves DEF q
<1> QED
  BY <1>2, <1>3 DEF ClientBeginGets

(* The client takes a piece of a download. *)
LEMMA ClientGetsStep == ASSUME IInv, NEW c \in Clients, ClientGets(c) PROVE IInv'
<1> DEFINE a == Rest(srv[c])
           b == c2s[c]
           q == a \o b
           r == s2c[c]
           cur == cli[c].cur + Len(r[1].val)
           state == IF cur = cli[c].size THEN "Login_Success" ELSE cli[c].state
           k == [cli[c] EXCEPT !.cur = cur, !.state = state]
           l == Fetched(local[c], cli[c].file, r[1].val)
           ack == <<Frame("ack", 0)>>
           frames == IF cur = cli[c].size THEN ack ELSE <<>>
<1>1. ClientTakes(c, "Gets")
  BY DEF ClientGets
<1>2. /\ cli[c].state = "Gets" /\ r # <<>> /\ r \in Seq(ToClient)
      /\ Received(c) = r[1].val /\ Tail(r) \in Seq(ToClient)
      /\ s2c' = [s2c EXCEPT ![c] = Tail(r)] /\ UNCHANGED serverSide
      /\ cli[c] \in ClientProcesses /\ local[c] \in LocalFiles
      /\ a \in Seq(ToServer) /\ b \in Seq(ToServer)
      /\ Ends(cli[c], local[c], q, r, srv[c]) /\ Talk(cli[c], local[c], q, r, srv[c])
  BY <1>1, Receives
<1>3. /\ cli' = [cli EXCEPT ![c] = k] /\ local' = [local EXCEPT ![c] = l]
      /\ ClientSends(c, frames)
  BY <1>2 DEF ClientGets, Fetched
<1>4. ack \in Seq(ToServer) /\ <<>> \in Seq(ToServer)
  <2>1. Frame("ack", 0) \in ToServer
    BY DEF Frame, ToServer
  <2> QED
    BY <2>1, EmptySeq
<1>5. frames \in Seq(ToServer)
  BY <1>4
<1>6. c2s' = [c2s EXCEPT ![c] = b \o frames]
  BY <1>3 DEF ClientSends
<1> HIDE DEF a, b, q, r, cur
<1>7. /\ k.file = cli[c].file /\ k.size = cli[c].size /\ k.cur = cur
      /\ k.state = IF cur = cli[c].size THEN "Login_Success" ELSE "Gets"
  BY <1>2 DEF ClientProcesses
<1> DEFINE k2 == k
<1>8. /\ k2.file = cli[c].file /\ k2.size = cli[c].size /\ k2.cur = cur
      /\ k2.state = IF cur = cli[c].size THEN "Login_Success" ELSE "Gets"
  BY <1>7
<1>9. cur = cli[c].cur + Len(r[1].val)
  BY DEF cur
<1> DEFINE m == l
<1>10. m = Fetched(local[c], cli[c].file, r[1].val)
  OBVIOUS
<1> HIDE DEF k2, m
<1>11. /\ cur # cli[c].size => Talk(k2, m, q, Tail(r), srv[c])
       /\ cur = cli[c].size => Talk(k2, m, q \o ack, Tail(r), srv[c])
       /\ cli[c].file \in Params /\ cur \in Nat /\ m \in LocalFiles
  BY <1>2, <1>8, <1>9, <1>10, TalkGets
<1>12. k2 \in ClientProcesses
  <2>1. state \in ClientStates
    BY <1>2 DEF ClientStates
  <2> HIDE DEF state
  <2>2. k \in ClientProcesses
    BY <1>2, <1>11, <2>1 DEF ClientProcesses
  <2> QED
    BY <2>2 DEF k2
<1>13. cli' = [cli EXCEPT ![c] = k2] /\ local' = [local EXCEPT ![c] = m]
  BY <1>3 DEF k2, m
<1>14. /\ cur = cli[c].size => a \o (b \o frames) = q \o ack
       /\ cur # cli[c].size => a \o (b \o frames) = q
  <2> HIDE DEF ack
  <2>1. a \o (b \o ack) = q \o ack
    BY <1>2, <1>4, ConcatAssociative DEF q
  <2>2. b \o <<>> = b
    BY <1>2, ConcatEmptySeq
  <2>3. CASE cur = cli[c].size
    BY <2>1, <2>3
  <2>4. CASE cur # cli[c].size
    BY <2>2, <2>4 DEF q
  <2> QED
    BY <2>3, <2>4
<1> HIDE DEF frames
<1>15. b \o frames \in Seq(ToServer)
  BY <1>2, <1>5, ConcatProperties
<1>16. Talk(k2, m, a \o (b \o frames), Tail(r), srv[c])
  BY <1>11, <1>14
<1> QED
  BY <1>2, <1>6, <1>11, <1>12, <1>13, <1>15, <1>16, ClientMoves DEF a

(* A client process ends, and its connection with it. *)
LEMMA ClientDiesStep == ASSUME IInv, NEW c \in Clients, ClientDies(c) PROVE IInv'
<1> DEFINE a == Rest(srv[c])
           b == c2s[c]
           q == a \o b
           k == [cli[c] EXCEPT !.state = "dead"]
<1>1. /\ cli[c].state # "dead" /\ cli' = [cli EXCEPT ![c] = k] /\ s2c' = [s2c EXCEPT ![c] = <<>>]
      /\ UNCHANGED <<local, serverSide>>
  BY DEF ClientDies, Alive
<1>2. PICK n \in 0 .. Len(b) : c2s' = [c2s EXCEPT ![c] = SubSeq(b, 1, n)]
  BY DEF ClientDies
<1>3. /\ a \in Seq(ToServer) /\ b \in Seq(ToServer) /\ cli[c] \in ClientProcesses
      /\ local[c] \in LocalFiles
      /\ Ends(cli[c], local[c], q, s2c[c], srv[c]) /\ Talk(cli[c], local[c], q, s2c[c], srv[c])
  BY Around
<1>4. local' = [local EXCEPT ![c] = local[c]]
  BY <1>1 DEF IInv, Typed
<1> HIDE DEF a, b, q
<1>5. k \in ClientProcesses /\ k.state = "dead"
  BY <1>3 DEF ClientProcesses, ClientStates
<1> HIDE DEF k
<1> DEFINE p == SubSeq(b, 1, n)
           w == a \o p
<1>6. p \in Seq(ToServer) /\ Len(p) = n /\ \A i \in 1 .. n : p[i] = b[i]
  BY <1>2, <1>3, Cut
<1> HIDE DEF p
<1>7. w \in Seq(ToServer) /\ Len(w) <= Len(q) /\ \A i \in 1 .. Len(w) : w[i] = q[i]
  <2>1. /\ w \in Seq(ToServer) /\ Len(w) = Len(a) + Len(p)
        /\ Len(q) = Len(a) + Len(b) /\ Len(a) \in Nat /\ Len(b) \in Nat
        /\ \A i \in 1 .. Len(a) + Len(p) : w[i] = IF i <= Len(a) THEN a[i] ELSE p[i - Len(a)]
        /\ \A i \in 1 .. Len(a) + Len(b) : q[i] = IF i <= Len(a) THEN a[i] ELSE b[i - Len(a)]
    BY <1>3, <1>6, ConcatProperties, LenProperties DEF q
  <2> DEFINE A == Len(a)
             B == Len(b)
  <2>2. A \in Nat /\ B \in Nat /\ n \in 0 .. B /\ Len(w) = A + n /\ Len(q) = A + B
    BY <1>2, <1>6, <2>1
  <2>3. ASSUME NEW i \in 1 .. A + n PROVE w[i] = q[i]
    <3>1. i \in 1 .. A + B /\ i \in Nat
      BY <2>2
    <3>2. CASE i <= A
      BY <1>6, <2>1, <3>1, <3>2
    <3>3. CASE ~(i <= A)
      <4>1. i - A \in 1 .. n
        BY <2>2, <3>3
      <4>2. w[i] = p[i - A] /\ q[i] = b[i - A]
        BY <1>6, <2>1, <3>1, <3>3
      <4> QED
        BY <1>6, <4>1, <4>2
    <3> QED
      BY <3>2, <3>3
  <2>4. A + n <= A + B
    BY <2>2
  <2> HIDE DEF A, B, w
  <2> QED
    BY <2>1, <2>2, <2>3, <2>4
<1> HIDE DEF w
<1>8. Talk(k, local[c], w, <<>>, srv[c])
  BY <1>1, <1>3, <1>5, <1>7, TalkDies
<1>9. <<>> \in Seq(ToClient) /\ c2s' = [c2s EXCEPT ![c] = p]
  BY <1>2, EmptySeq DEF p
<1> QED
  BY <1>1, <1>3, <1>4, <1>5, <1>6, <1>8, <1>9, ClientMoves DEF w, a
-----------------------------------------------------------------------------
(* The invariant *)

(* The first state: no client has typed anything yet. *)
LEMMA InitOK == ASSUME SoundFiles, Init PROVE IInv
<1>1. <<>> \in Paths
  BY DEF Paths
<1>2. SessionStart \in Sessions
  <2>1. <<>> \in Seq(ToServer) /\ <<>> \in Seq(Paths) /\ {} \in SUBSET Paths
    BY EmptySeq
  <2> QED
    BY <1>1, <2>1 DEF SessionStart, Sessions, ServerStates
<1>3. /\ cli \in [Clients -> ClientProcesses] /\ c2s \in [Clients -> Seq(ToServer)]
      /\ s2c \in [Clients -> Seq(ToClient)] /\ srv \in [Clients -> Sessions]
  <2>1. [state |-> "Init", file |-> NoFile, size |-> 0, cur |-> 0] \in ClientProcesses
    BY DEF ClientProcesses, ClientStates
  <2>2. <<>> \in Seq(ToServer) /\ <<>> \in Seq(ToClient)
    BY EmptySeq
  <2> QED
    BY <1>2, <2>1, <2>2 DEF Init
<1>4. local \in [Clients -> LocalFiles] /\ \A c \in Clients, a \in Params : local[c][a] # <<>> \/ local[c][a] = NoFile
  <2>1. local \in [Clients -> [Params -> (Seq(Text) \ {<<>>}) \cup {NoFile}]]
    BY DEF Init, SoundFiles
  <2>2. [Params -> (Seq(Text) \ {<<>>}) \cup {NoFile}] \subseteq LocalFiles
    BY DEF LocalFiles
  <2> QED
    BY <2>1, <2>2
<1>5. users \subseteq Users /\ dirs \subseteq Paths
  <2>1. users = Users0 /\ dirs = {<<>>} \cup {<<u>> : u \in Users0} /\ Users0 \subseteq Users
    BY NetdiskAssumption DEF Init
  <2> QED
    BY <1>1, <2>1, HomePath
<1>6. /\ file \in [Paths -> Inodes \cup {0}] /\ inode \in [Inodes -> Seq(Text)]
      /\ writers \in [Inodes -> SUBSET (Clients \X Params)] /\ aborted \in BOOLEAN
  <2>1. DOMAIN Stored0 \subseteq Inodes
    <3>1. /\ Stored0 \in Seq([path : Paths, content : Seq(Bytes)]) /\ Len(Stored0) <= NumInodes
          /\ NumInodes \in Nat
      BY NetdiskAssumption
    <3>2. DOMAIN Stored0 = 1 .. Len(Stored0) /\ Len(Stored0) \in Nat
      BY <3>1, LenProperties
    <3> QED
      BY <3>1, <3>2 DEF Inodes
  <2>2. file \in [Paths -> Inodes \cup {0}]
    <3>1. ASSUME NEW p \in Paths
          PROVE  (IF \E i \in DOMAIN Stored0 : Stored0[i].path = p
                  THEN CHOOSE i \in DOMAIN Stored0 : Stored0[i].path = p ELSE 0) \in Inodes \cup {0}
      BY <2>1
    <3> QED
      BY <3>1 DEF Init
  <2>3. inode \in [Inodes -> Seq(Text)]
    <3>1. <<>> \in Seq(Text)
      BY EmptySeq
    <3> QED
      BY <3>1 DEF Init, SoundFiles
  <2> QED
    BY <2>2, <2>3 DEF Init
<1>7. ASSUME NEW c \in Clients
      PROVE  Session(c) /\ Files(srv[c], dirs, file, inode) /\ Registered(srv[c])
  <2> DEFINE s == SessionStart
             k == cli[c]
  <2>1. /\ srv[c] = s /\ c2s[c] = <<>> /\ s2c[c] = <<>> /\ k.state = "Init"
    BY DEF Init
  <2>2. /\ s.state = "Init" /\ s.call = "none" /\ s.conn = "connected" /\ s.file = 0
        /\ s.gets = "none" /\ s.active = <<>> /\ s.in = <<>>
    BY DEF SessionStart
  <2> HIDE DEF s, k
  <2>3. Rest(s) \o <<>> = <<>>
    <3>1. <<>> \in Seq(ToServer) /\ Rest(s) = <<>>
      BY <2>2, EmptySeq DEF Rest
    <3> QED
      BY <3>1, ConcatEmptySeq
  <2>4. Agree(k, <<>>, <<>>, s)
    BY <2>1, <2>2 DEF Agree, At
  <2>5. LocalOK(k, local[c])
    BY <1>4, <2>1 DEF LocalOK
  <2>6. CallOK(s) /\ SessionOK(s)
    BY <2>2 DEF CallOK, SessionOK
  <2>7. Talk(k, local[c], <<>>, <<>>, s)
    <3>1. s.state \in ServerStates /\ (s.state # "Puts" \/ s.size \in Int \ {0})
      BY <2>2 DEF ServerStates
    <3>2. k.state # "dead"
      BY <2>1
    <3> QED
      BY <2>2, <2>4, <2>5, <2>6, <3>1, <3>2, TalkEmpty
  <2>8. Files(s, dirs, file, inode)
    BY <2>2 DEF Files
  <2>9. Registered(s)
    BY <2>2 DEF Registered
  <2>10. Session(c)
    BY <2>1, <2>3, <2>7 DEF Session, k
  <2> QED
    BY <2>1, <2>8, <2>9, <2>10
<1>8. Typed
  BY <1>3, <1>4, <1>5, <1>6 DEF Typed
<1> QED
  BY <1>7, <1>8 DEF IInv

(* Every step of the server's loop. *)
LEMMA ServerStep == ASSUME Undisturbed, IInv, NEW c \in Clients, ServerLoop(c) PROVE IInv'
<1>1. CASE ServerOnMessage(c)
  BY <1>1, MenuChoiceStep, HandleRegisterStep, RegisterMkdirStep, LoginStep1Step, LoginStep2Step,
     PwdStep, LsStep, LsStatStep, MkdirStep, RemoveStep, CdStep, PutsStep, PutsOpenStep,
     GetsStep, GetsAccessStep, GetsStatStep, GetsOpenStep, BeginPutsStep, PutsDataStep, GetsAckStep
     DEF ServerOnMessage
<1> QED
  BY <1>1, PollStep, HandleReadStep, HandleGetsStep, HandleCloseStep, ConnectDestroyedStep
     DEF ServerLoop

(* Every frame a client takes. *)
LEMMA ClientStep == ASSUME IInv, NEW c \in Clients, ClientOnMessage(c) PROVE IInv'
BY ClientRegisteredStep, ClientSaltStep, ClientLoginStep, ClientAnsweredStep, ClientBeginPutsStep,
   ClientPutsStep, ClientEndlessStep, ClientBeginGetsStep, ClientGetsStep DEF ClientOnMessage

(* Every step of the system. *)
LEMMA StepOK == ASSUME Undisturbed, IInv, [Next]_vars PROVE IInv'
<1>1. ASSUME UNCHANGED vars PROVE IInv'
  <2>1. /\ cli' = cli /\ local' = local /\ c2s' = c2s /\ s2c' = s2c /\ srv' = srv
        /\ users' = users /\ dirs' = dirs /\ file' = file /\ inode' = inode
        /\ writers' = writers /\ aborted' = aborted
    BY <1>1 DEF vars, clientSide, serverSide, fileSystem
  <2>2. Typed'
    BY <2>1 DEF IInv, Typed
  <2>3. \A c \in Clients : Session(c)'
    BY <2>1 DEF IInv, Session
  <2>4. \A c \in Clients : Files(srv'[c], dirs', file', inode') /\ (aborted' \/ Registered(srv'[c]))
    BY <2>1 DEF IInv
  <2> QED
    BY <2>2, <2>3, <2>4 DEF IInv
<1>2. ASSUME NEW c \in Clients, UserTypes(c) \/ ClientOnMessage(c) \/ ServerLoop(c) \/ ClientDies(c)
      PROVE  IInv'
  BY <1>2, UserTypesStep, ClientStep, ServerStep, ClientDiesStep
<1> QED
  BY <1>1, <1>2 DEF Next
-----------------------------------------------------------------------------
(* Theorems *)

(* Every reachable state satisfies IInv: what is on its way in a session, and
   what both of its ends have still to do with it, fits together. *)
THEOREM Inductive == ASSUME SoundFiles, Undisturbed PROVE Spec => []IInv
<1>1. Init => IInv
  BY InitOK
<1>2. IInv /\ [Next]_vars => IInv'
  BY StepOK
<1> QED
  BY <1>1, <1>2, PTL DEF Spec

(* A pass of the loop handles at most the two channels of a connection. *)
LEMMA ShortTurns == \A a \in Turns : Len(a) <= 2
<1> SUFFICES ASSUME NEW a \in Turns PROVE Len(a) <= 2
  OBVIOUS
<1>1. Len(<<>>) <= 2 /\ Len(<<"tcp">>) <= 2 /\ Len(<<"gets">>) <= 2
  OBVIOUS
<1>2. Len(<<"tcp", "gets">>) <= 2 /\ Len(<<"gets", "tcp">>) <= 2
  OBVIOUS
<1>3. a = <<>> \/ a = <<"tcp">> \/ a = <<"gets">> \/ a = <<"tcp", "gets">> \/ a = <<"gets", "tcp">>
  BY DEF Turns
<1> QED
  BY <1>1, <1>2, <1>3

(* IInv has the types of the protocol's state in it. *)
LEMMA HasTypes == ASSUME IInv PROVE TypeOK
<1>1. Typed
  BY DEF IInv
<1>2. ASSUME NEW c \in Clients
      PROVE  /\ cli[c].state \in ClientStates /\ cli[c].file \in Params \cup {NoFile}
             /\ cli[c].size \in Nat /\ cli[c].cur \in Nat
  BY <1>1 DEF Typed, ClientProcesses
<1>3. ASSUME NEW c \in Clients
      PROVE  /\ srv[c].state \in ServerStates
             /\ srv[c].user \in Users \cup {NoFile}
             /\ srv[c].size \in Int /\ srv[c].pos \in Nat
             /\ srv[c].file \in Inodes \cup {0}
             /\ srv[c].gets \in {"none", "added", "removed", "unwatched"}
             /\ srv[c].conn \in {"connected", "disconnected", "destroyed", "released"}
             /\ srv[c].call \in {"none", "mkdir", "stat", "open", "access", "statFile", "openFile"}
             /\ srv[c].names \subseteq Paths /\ srv[c].cwd \in Seq(Paths)
             /\ Len(srv[c].active) <= 2
  <2>1. srv[c] \in Sessions
    BY <1>1 DEF Typed
  <2>2. srv[c].active \in Turns
    BY <2>1 DEF Sessions, Turns
  <2>3. \A a \in Turns : Len(a) <= 2
    BY ShortTurns
  <2> QED
    BY <2>1, <2>2, <2>3 DEF Sessions
<1>4. ASSUME NEW c \in Clients
      PROVE  /\ srv[c].call # "none" => srv[c].in # <<>>
             /\ srv[c].conn = "released" =>
                  srv[c].file = 0 /\ srv[c].gets = "none" /\ srv[c].active = <<>>
  <2>1. Talk(cli[c], local[c], Rest(srv[c]) \o c2s[c], s2c[c], srv[c])
    BY Around
  <2> QED
    BY <2>1 DEF Talk, CallOK, SessionOK
<1>5. /\ users \subseteq Users /\ dirs \subseteq Paths /\ file \in [Paths -> Inodes \cup {0}]
      /\ writers \in [Inodes -> SUBSET (Clients \X Params)] /\ aborted \in BOOLEAN
  BY <1>1 DEF Typed
<1> QED
  BY <1>2, <1>3, <1>4, <1>5 DEF TypeOK

(* And that both ends agree. *)
LEMMA HasAgreement == ASSUME IInv PROVE InStep
<1>1. ASSUME NEW c \in Clients, srv[c].in # <<>>, srv[c].call = "none"
      PROVE  Msg(c).kind = ServerExpects[srv[c].state]
  <2> DEFINE s == srv[c]
             q == Rest(s) \o c2s[c]
  <2>1. Ends(cli[c], local[c], q, s2c[c], s) /\ Talk(cli[c], local[c], q, s2c[c], s)
    BY Around
  <2>2. q # <<>> /\ Msg(c) = q[1]
    BY <1>1, Taken
  <2>3. s.call = "none"
    BY <1>1
  <2> HIDE DEF s, q
  <2>4. q[1].kind = ServerExpects[s.state]
    BY <2>1, <2>2, <2>3, Expected
  <2> QED
    BY <2>2, <2>4 DEF s
<1>2. ASSUME NEW c \in Clients, s2c[c] # <<>>
      PROVE  <<cli[c].state, Head(s2c[c]).kind>> \in ClientExpects
  <2> DEFINE s == srv[c]
             q == Rest(s) \o c2s[c]
  <2>1. Ends(cli[c], local[c], q, s2c[c], s) /\ Talk(cli[c], local[c], q, s2c[c], s)
    BY Around
  <2> HIDE DEF s, q
  <2> QED
    BY <1>2, <2>1, ExpectedBack
<1> QED
  BY <1>1, <1>2 DEF InStep

(* The types of what the two ends and the server's files hold. *)
THEOREM TypeCorrect == ASSUME SoundFiles, Undisturbed PROVE Spec => []TypeOK
BY Inductive, HasTypes, PTL

(* The two ends agree on what the next frame is, whatever the users type, the
   reads cut off and the other sessions do: onMessage of either end never takes
   a frame for something its sender did not mean. *)
THEOREM StaysInStep == ASSUME SoundFiles, Undisturbed PROVE Spec => []InStep
BY Inductive, HasAgreement, PTL
-----------------------------------------------------------------------------
(* What the handlers leave alone *)

Serving == {"Login_Success", "Begin_Puts", "Puts", "Gets"}

(* Session s has become t: it stays in its directory, gets_channel_ has not been
   registered, and no ls has begun. *)
Same(s, t) ==
  /\ t.active = s.active /\ (t.gets = s.gets \/ t.gets = "none") /\ t.call # "stat"
  /\ t.state \in Serving => s.state \in Serving /\ t.user = s.user /\ t.cwd = s.cwd

Others(c) == \A d \in Clients \ {c} : srv'[d] = srv[d]

Keeps(c) == Others(c) /\ Same(srv[c], srv'[c])

(* The handlers that have no more to do with the directory, ls or gets_channel_. *)
Plain(c) ==
  \/ MenuChoice(c) \/ HandleRegister(c) \/ RegisterMkdir(c) \/ LoginStep1(c)
  \/ Pwd(c) \/ Mkdir(c) \/ Remove(c) \/ Puts(c) \/ PutsOpen(c)
  \/ Gets(c) \/ GetsAccess(c) \/ GetsStat(c) \/ BeginPuts(c) \/ PutsData(c) \/ GetsAck(c)

(* The frame is done with. *)
LEMMA BecomesSame ==
  ASSUME NEW c \in Clients, srv[c] \in Sessions, srv \in [Clients -> Sessions],
         NEW new, Becomes(c, new), DOMAIN new = DOMAIN srv[c], new.active = srv[c].active,
         new.gets = srv[c].gets \/ new.gets = "none",
         new.state \in Serving => srv[c].state \in Serving /\ new.user = srv[c].user /\ new.cwd = srv[c].cwd
  PROVE  Keeps(c)
<1> DEFINE t == [new EXCEPT !.in = Tail(@), !.call = "none"]
<1>1. Others(c) /\ srv'[c] = t
  BY DEF Becomes, Others
<1>2. /\ t.active = new.active /\ t.gets = new.gets /\ t.call = "none" /\ t.state = new.state
      /\ t.user = new.user /\ t.cwd = new.cwd
  BY DEF Sessions
<1> HIDE DEF t
<1> QED
  BY <1>1, <1>2 DEF Keeps, Same

(* The handler has come to its next call. *)
LEMMA GoesOnSame ==
  ASSUME NEW c \in Clients, srv[c] \in Sessions, srv \in [Clients -> Sessions],
         NEW new, NEW call, GoesOn(c, new, call), DOMAIN new = DOMAIN srv[c], call # "stat",
         new.active = srv[c].active, new.gets = srv[c].gets,
         new.state \in Serving => srv[c].state \in Serving /\ new.user = srv[c].user /\ new.cwd = srv[c].cwd
  PROVE  Keeps(c)
<1> DEFINE t == [new EXCEPT !.call = call]
<1>1. Others(c) /\ srv'[c] = t
  BY DEF GoesOn, Others
<1>2. /\ t.active = new.active /\ t.gets = new.gets /\ t.call = call /\ t.state = new.state
      /\ t.user = new.user /\ t.cwd = new.cwd
  BY DEF Sessions
<1> HIDE DEF t
<1> QED
  BY <1>1, <1>2 DEF Keeps, Same

LEMMA PlainKeeps ==
  ASSUME NEW c \in Clients, srv[c] \in Sessions, srv \in [Clients -> Sessions], CallOK(srv[c]), Plain(c)
  PROVE  Keeps(c)
<1>1. Becomes(c, srv[c]) => Keeps(c)
  BY BecomesSame
<1>2. ASSUME NEW call, GoesOn(c, srv[c], call), call # "stat" PROVE Keeps(c)
  BY <1>2, GoesOnSame
<1>3. CASE RegisterMkdir(c) \/ Pwd(c) \/ Mkdir(c) \/ Remove(c)
  BY <1>1, <1>3 DEF RegisterMkdir, Pwd, Mkdir, Remove
<1>4. CASE Gets(c) \/ GetsAccess(c)
  <2>1. Becomes(c, srv[c]) \/ GoesOn(c, srv[c], "access") \/ GoesOn(c, srv[c], "statFile")
    BY <1>4 DEF Gets, GetsAccess
  <2> QED
    BY <1>1, <1>2, <2>1
<1>5. CASE MenuChoice(c)
  <2>1. srv[c].state = "Init"
    BY <1>5 DEF MenuChoice, ServerTakes
  <2>2. \E v \in {"Init", "Registering", "Logining_Step1"} : Becomes(c, [srv[c] EXCEPT !.state = v])
    <3>1. \E v : /\ v \in {"Init", "Registering", "Logining_Step1"}
                /\ Becomes(c, [srv[c] EXCEPT !.state = v])
      <4> DEFINE v == CASE Msg(c).kind # "menu" -> srv[c].state
                        [] Msg(c).kind = "menu" /\ Msg(c).val = "0" -> "Registering"
                        [] OTHER -> "Logining_Step1"
      <4>1. v \in {"Init", "Registering", "Logining_Step1"}
        BY <2>1
      <4>2. Becomes(c, [srv[c] EXCEPT !.state = v])
        BY <1>5 DEF MenuChoice
      <4> HIDE DEF v
      <4> QED
        BY <4>1, <4>2
    <3> QED
      BY <3>1
  <2>3. ASSUME NEW v \in {"Init", "Registering", "Logining_Step1"}, NEW new,
               new = [srv[c] EXCEPT !.state = v], Becomes(c, new)
        PROVE  Keeps(c)
    <3>1. /\ DOMAIN new = DOMAIN srv[c] /\ new.active = srv[c].active /\ new.gets = srv[c].gets
          /\ new.state \notin Serving
      BY <2>3 DEF Sessions, Serving
    <3> QED
      BY <2>3, <3>1, BecomesSame
  <2> QED
    BY <2>2, <2>3
<1>6. CASE HandleRegister(c)
  <2>1. srv[c].state = "Registering"
    BY <1>6 DEF HandleRegister, ServerTakes
  <2>2. \/ GoesOn(c, [srv[c] EXCEPT !.state = "Init"], "mkdir")
        \/ Becomes(c, [srv[c] EXCEPT !.state = "Init"])
    BY <1>6 DEF HandleRegister
  <2>3. ASSUME NEW new, new = [srv[c] EXCEPT !.state = "Init"], GoesOn(c, new, "mkdir") PROVE Keeps(c)
    <3>1. /\ DOMAIN new = DOMAIN srv[c] /\ new.active = srv[c].active
          /\ new.gets = srv[c].gets
          /\ new.state \in Serving =>
               srv[c].state \in Serving /\ new.user = srv[c].user /\ new.cwd = srv[c].cwd
      BY <2>1, <2>3 DEF Sessions, Serving
    <3> QED
      BY <3>1, <2>3, GoesOnSame
  <2>4. ASSUME NEW new, new = [srv[c] EXCEPT !.state = "Init"], Becomes(c, new) PROVE Keeps(c)
    <3>1. /\ DOMAIN new = DOMAIN srv[c] /\ new.active = srv[c].active
          /\ new.gets = srv[c].gets
          /\ new.state \in Serving =>
               srv[c].state \in Serving /\ new.user = srv[c].user /\ new.cwd = srv[c].cwd
      BY <2>1, <2>4 DEF Sessions, Serving
    <3> QED
      BY <3>1, <2>4, BecomesSame
  <2> QED
    BY <2>2, <2>3, <2>4
<1>7. CASE LoginStep1(c)
  <2>1. srv[c].state = "Logining_Step1"
    BY <1>7 DEF LoginStep1, ServerTakes
  <2>2. \/ \E u : Becomes(c, [srv[c] EXCEPT !.user = u, !.state = "Logining_Step2"])
        \/ \E u : Becomes(c, [srv[c] EXCEPT !.user = u, !.state = "Init"])
    BY <1>7 DEF LoginStep1
  <2>3. ASSUME NEW u, NEW new, new = [srv[c] EXCEPT !.user = u, !.state = "Logining_Step2"], Becomes(c, new) PROVE Keeps(c)
    <3>1. /\ DOMAIN new = DOMAIN srv[c] /\ new.active = srv[c].active
          /\ new.gets = srv[c].gets
          /\ new.state \in Serving =>
               srv[c].state \in Serving /\ new.user = srv[c].user /\ new.cwd = srv[c].cwd
      BY <2>1, <2>3 DEF Sessions, Serving
    <3> QED
      BY <3>1, <2>3, BecomesSame
  <2>4. ASSUME NEW u, NEW new, new = [srv[c] EXCEPT !.user = u, !.state = "Init"], Becomes(c, new) PROVE Keeps(c)
    <3>1. /\ DOMAIN new = DOMAIN srv[c] /\ new.active = srv[c].active
          /\ new.gets = srv[c].gets
          /\ new.state \in Serving =>
               srv[c].state \in Serving /\ new.user = srv[c].user /\ new.cwd = srv[c].cwd
      BY <2>1, <2>4 DEF Sessions, Serving
    <3> QED
      BY <3>1, <2>4, BecomesSame
  <2> QED
    BY <2>2, <2>3, <2>4
<1>8. CASE Puts(c)
  <2>1. srv[c].state \in Serving
    BY <1>8 DEF Puts, Commanded, ServerTakes, Serving
  <2>2. \/ Becomes(c, srv[c])
        \/ GoesOn(c, [srv[c] EXCEPT !.state = "Begin_Puts"], "open")
    BY <1>8 DEF Puts
  <2>4. ASSUME NEW new, new = [srv[c] EXCEPT !.state = "Begin_Puts"], GoesOn(c, new, "open") PROVE Keeps(c)
    <3>1. /\ DOMAIN new = DOMAIN srv[c] /\ new.active = srv[c].active
          /\ new.gets = srv[c].gets
          /\ new.state \in Serving =>
               srv[c].state \in Serving /\ new.user = srv[c].user /\ new.cwd = srv[c].cwd
      BY <2>1, <2>4 DEF Sessions, Serving
    <3> QED
      BY <3>1, <2>4, GoesOnSame
  <2> QED
    BY <2>2, <1>1, <2>4
<1>9. CASE PutsOpen(c)
  <2>1. Calls(c, "open")
    BY <1>9 DEF PutsOpen
  <2>2. \E v : Becomes(c, [srv[c] EXCEPT !.file = v, !.pos = 0])
    BY <1>9 DEF PutsOpen
  <2>3. ASSUME NEW v, NEW new, new = [srv[c] EXCEPT !.file = v, !.pos = 0], Becomes(c, new) PROVE Keeps(c)
    <3>1. /\ DOMAIN new = DOMAIN srv[c] /\ new.active = srv[c].active
          /\ new.gets = srv[c].gets
          /\ new.state \in Serving =>
               srv[c].state \in Serving /\ new.user = srv[c].user /\ new.cwd = srv[c].cwd
      BY <2>1, <2>3 DEF Sessions, Serving
    <3> QED
      BY <3>1, <2>3, BecomesSame
  <2> QED
    BY <2>2, <2>3
<1>10. CASE GetsStat(c)
  <2>1. srv[c].state \in Serving
    BY <1>10 DEF GetsStat, Calls, CallOK, Serving
  <2>2. \E v : GoesOn(c, [srv[c] EXCEPT !.state = "Gets", !.size = v], "openFile")
    BY <1>10 DEF GetsStat
  <2>3. ASSUME NEW v, NEW new, new = [srv[c] EXCEPT !.state = "Gets", !.size = v], GoesOn(c, new, "openFile") PROVE Keeps(c)
    <3>1. /\ DOMAIN new = DOMAIN srv[c] /\ new.active = srv[c].active
          /\ new.gets = srv[c].gets
          /\ new.state \in Serving =>
               srv[c].state \in Serving /\ new.user = srv[c].user /\ new.cwd = srv[c].cwd
      BY <2>1, <2>3 DEF Sessions, Serving
    <3> QED
      BY <3>1, <2>3, GoesOnSame
  <2> QED
    BY <2>2, <2>3
<1>11. CASE BeginPuts(c)
  <2>1. srv[c].state \in Serving
    BY <1>11 DEF BeginPuts, ServerTakes, Serving
  <2>2. \E v : Becomes(c, [srv[c] EXCEPT !.state = "Puts", !.size = v])
    BY <1>11 DEF BeginPuts
  <2>3. ASSUME NEW v, NEW new, new = [srv[c] EXCEPT !.state = "Puts", !.size = v], Becomes(c, new) PROVE Keeps(c)
    <3>1. /\ DOMAIN new = DOMAIN srv[c] /\ new.active = srv[c].active
          /\ new.gets = srv[c].gets
          /\ new.state \in Serving =>
               srv[c].state \in Serving /\ new.user = srv[c].user /\ new.cwd = srv[c].cwd
      BY <2>1, <2>3 DEF Sessions, Serving
    <3> QED
      BY <3>1, <2>3, BecomesSame
  <2> QED
    BY <2>2, <2>3
<1>12. CASE PutsData(c)
  <2>1. srv[c].state \in Serving
    BY <1>12 DEF PutsData, ServerTakes, Serving
  <2>2. \/ Becomes(c, [srv[c] EXCEPT !.size = 0, !.file = 0, !.pos = 0, !.state = "Login_Success"])
        \/ \E u, v : Becomes(c, [srv[c] EXCEPT !.size = u, !.pos = v])
    BY <1>12 DEF PutsData
  <2>3. ASSUME NEW new, new = [srv[c] EXCEPT !.size = 0, !.file = 0, !.pos = 0, !.state = "Login_Success"], Becomes(c, new) PROVE Keeps(c)
    <3>1. /\ DOMAIN new = DOMAIN srv[c] /\ new.active = srv[c].active
          /\ new.gets = srv[c].gets
          /\ new.state \in Serving =>
               srv[c].state \in Serving /\ new.user = srv[c].user /\ new.cwd = srv[c].cwd
      BY <2>1, <2>3 DEF Sessions, Serving
    <3> QED
      BY <3>1, <2>3, BecomesSame
  <2>4. ASSUME NEW u, NEW v, NEW new, new = [srv[c] EXCEPT !.size = u, !.pos = v], Becomes(c, new) PROVE Keeps(c)
    <3>1. /\ DOMAIN new = DOMAIN srv[c] /\ new.active = srv[c].active
          /\ new.gets = srv[c].gets
          /\ new.state \in Serving =>
               srv[c].state \in Serving /\ new.user = srv[c].user /\ new.cwd = srv[c].cwd
      BY <2>1, <2>4 DEF Sessions, Serving
    <3> QED
      BY <3>1, <2>4, BecomesSame
  <2> QED
    BY <2>2, <2>3, <2>4
<1>13. CASE GetsAck(c)
  <2>1. srv[c].state \in Serving
    BY <1>13 DEF GetsAck, ServerTakes, Serving
  <2>2. \/ Becomes(c, srv[c])
        \/ Becomes(c, [srv[c] EXCEPT !.state = "Login_Success", !.file = 0, !.gets = "none"])
    BY <1>13 DEF GetsAck
  <2>4. ASSUME NEW new, new = [srv[c] EXCEPT !.state = "Login_Success", !.file = 0, !.gets = "none"], Becomes(c, new) PROVE Keeps(c)
    <3>1. /\ DOMAIN new = DOMAIN srv[c] /\ new.active = srv[c].active
          /\ new.gets = "none"
          /\ new.state \in Serving =>
               srv[c].state \in Serving /\ new.user = srv[c].user /\ new.cwd = srv[c].cwd
      BY <2>1, <2>4 DEF Sessions, Serving
    <3> QED
      BY <3>1, <2>4, BecomesSame
  <2> QED
    BY <2>2, <1>1, <2>4
<1> QED
  BY <1>3, <1>4, <1>5, <1>6, <1>7, <1>8, <1>9, <1>10, <1>11, <1>12, <1>13 DEF Plain

(* Whichever handler has its turn, no other session moves, and if the session may
   be told of a directory it stays in the one it is in, but for cd and a login. *)
LEMMA MessageOthers ==
  ASSUME NEW c \in Clients, srv[c] \in Sessions, srv \in [Clients -> Sessions], CallOK(srv[c]),
         ServerOnMessage(c)
  PROVE  /\ Others(c)
         /\ srv'[c].state \in Serving =>
              \/ srv[c].state \in Serving /\ srv'[c].user = srv[c].user /\ srv'[c].cwd = srv[c].cwd
              \/ srv'[c].cwd = <<>>
              \/ Cd(c)
<1>1. CASE Plain(c)
  BY <1>1, PlainKeeps DEF Keeps, Same
<1>2. CASE LoginStep2(c)
  <2>1. \/ Becomes(c, [srv[c] EXCEPT !.state = "Login_Success", !.cwd = <<>>])
        \/ Becomes(c, [srv[c] EXCEPT !.state = "Init"])
    BY <1>2 DEF LoginStep2
  <2>2. CASE Becomes(c, [srv[c] EXCEPT !.state = "Login_Success", !.cwd = <<>>])
    BY <2>2 DEF Becomes, Sessions, Others
  <2>3. CASE Becomes(c, [srv[c] EXCEPT !.state = "Init"])
    BY <2>3 DEF Becomes, Sessions, Others, Serving
  <2> QED
    BY <2>1, <2>2, <2>3
<1>3. CASE Cd(c)
  BY <1>3 DEF Cd, Becomes, Others
<1>4. CASE Ls(c)
  <2>1. srv[c].state \in Serving /\ \E v : GoesOn(c, [srv[c] EXCEPT !.names = v], "stat")
    BY <1>4 DEF Ls, Commanded, ServerTakes, Serving
  <2> QED
    BY <2>1 DEF GoesOn, Sessions, Others
<1>5. CASE LsStat(c)
  <2>1. srv[c].state \in Serving /\ (srv' = srv \/ Becomes(c, [srv[c] EXCEPT !.names = {}]))
    BY <1>5 DEF LsStat, Calls, CallOK, Serving
  <2> QED
    BY <2>1 DEF Becomes, Sessions, Others
<1>6. CASE GetsOpen(c)
  <2>1. /\ srv[c].state \in Serving
        /\ \E u, v : Becomes(c, [srv[c] EXCEPT !.file = u, !.pos = 0, !.gets = v])
    BY <1>6 DEF GetsOpen, Calls, CallOK, Serving
  <2> QED
    BY <2>1 DEF Becomes, Sessions, Others
<1> QED
  BY <1>1, <1>2, <1>3, <1>4, <1>5, <1>6 DEF ServerOnMessage, Plain

(* The channels leave everything else in the session as it is. *)
LEMMA ChannelsOthers ==
  ASSUME NEW c \in Clients, srv[c] \in Sessions, srv \in [Clients -> Sessions],
         Poll(c) \/ HandleRead(c) \/ HandleGets(c) \/ HandleClose(c) \/ ConnectDestroyed(c)
  PROVE  /\ Others(c) /\ UNCHANGED <<dirs, file, aborted>>
         /\ srv'[c].state = srv[c].state /\ srv'[c].user = srv[c].user /\ srv'[c].cwd = srv[c].cwd
         /\ srv'[c].call = srv[c].call /\ srv'[c].names = srv[c].names
<1>1. CASE Poll(c)
  BY <1>1 DEF Poll, Sessions, Others, fileSystem
<1>2. CASE HandleRead(c)
  <2>1. /\ \E v : srv' = [srv EXCEPT ![c].active = Tail(@), ![c].in = v]
        /\ UNCHANGED <<dirs, file, aborted>>
    BY <1>2 DEF HandleRead, Handles, fileSystem
  <2> QED
    BY <2>1 DEF Sessions, Others
<1>3. CASE HandleGets(c)
  BY <1>3 DEF HandleGets, Handles, Sessions, Others, fileSystem
<1>4. CASE HandleClose(c)
  BY <1>4 DEF HandleClose, Handles, Sessions, Others, fileSystem
<1>5. CASE ConnectDestroyed(c)
  BY <1>5 DEF ConnectDestroyed, Sessions, Others, fileSystem
<1> QED
  BY <1>1, <1>2, <1>3, <1>4, <1>5

(* What a client does leaves the server alone. *)
LEMMA ClientLeavesServer ==
  ASSUME NEW c \in Clients, UserTypes(c) \/ ClientOnMessage(c) \/ ClientDies(c)
  PROVE  UNCHANGED serverSide
<1>1. CASE UserTypes(c)
  BY <1>1 DEF UserTypes, TypeRegister, TypeLogin, TypeCommand, TypePuts, TypeGets, Types
<1>2. CASE ClientOnMessage(c)
  BY <1>2 DEF ClientOnMessage, ClientRegistered, ClientSalt, ClientLogin, ClientAnswered, ClientBeginPuts,
     ClientPuts, ClientEndless, ClientBeginGets, ClientGets, ClientTakes
<1>3. CASE ClientDies(c)
  BY <1>3 DEF ClientDies
<1> QED
  BY <1>1, <1>2, <1>3

(* Nothing but remove takes anything away. *)
LEMMA DiskGrows ==
  ASSUME IInv, NEW c \in Clients, ServerOnMessage(c), ~Remove(c)
  PROVE  dirs \subseteq dirs' /\ \A p \in Paths : file[p] # 0 => file'[p] # 0
<1>1. CASE Mkdir(c) \/ RegisterMkdir(c)
  BY <1>1 DEF Mkdir, RegisterMkdir
<1>2. CASE PutsOpen(c)
  <2>1. PICK i \in Opened(c, Target(c)) : file' = file \/ (i # 0 /\ file' = [file EXCEPT ![Target(c)] = i])
    BY <1>2 DEF PutsOpen
  <2>2. file \in [Paths -> Inodes \cup {0}]
    BY DEF IInv, Typed
  <2>3. dirs' = dirs
    BY <1>2 DEF PutsOpen
  <2> QED
    BY <2>1, <2>2, <2>3
<1>3. CASE \/ MenuChoice(c) \/ HandleRegister(c) \/ LoginStep1(c) \/ LoginStep2(c) \/ Pwd(c) \/ Ls(c)
           \/ LsStat(c) \/ Cd(c) \/ Puts(c) \/ Gets(c) \/ GetsAccess(c) \/ GetsStat(c) \/ GetsOpen(c)
           \/ BeginPuts(c) \/ PutsData(c) \/ GetsAck(c)
  BY <1>3 DEF MenuChoice, HandleRegister, LoginStep1, LoginStep2, Pwd, Ls, LsStat, Cd, Puts, Gets, GetsAccess,
     GetsStat, GetsOpen, BeginPuts, PutsData, GetsAck, fileSystem
<1> QED
  BY <1>1, <1>2, <1>3 DEF ServerOnMessage
-----------------------------------------------------------------------------
(* The working directory *)

(* A path that passes w comes from u's home and goes up or down one directory at a
   time. *)
Chained(u, w) == \A i \in 1 .. Len(w) : Near(IF i = 1 THEN <<u>> ELSE w[i - 1], w[i])

TrailInv == IInv /\ \A c \in Clients : srv[c].state \in Serving => Chained(srv[c].user, srv[c].cwd)

(* cd leads from there one directory at a time, and where everything it passes is
   there the whole path is. *)
LEMMA CdTrail ==
  ASSUME NEW c \in Clients, srv[c] \in Sessions, Here(c) \in Paths, Chained(srv[c].user, srv[c].cwd),
         NEW a \in Params \cup {NoArg},
         a # NoArg => a.up <= Len(Here(c)) /\ TargetOf(Here(c), a) \in Paths
  PROVE  /\ Chained(srv[c].user, CdTo(c, a))
         /\ \A i \in 1 .. Len(CdTo(c, a)) :
              \/ \E j \in 1 .. Len(srv[c].cwd) : CdTo(c, a)[i] = srv[c].cwd[j]
              \/ ~Untested(a) /\ \E j \in 1 .. Len(Way(Here(c), a)) : CdTo(c, a)[i] = Way(Here(c), a)[j]
<1> DEFINE w == srv[c].cwd
           u == srv[c].user
           h == Here(c)
           to == CdTo(c, a)
<1>1. w \in Seq(Paths) /\ Len(w) \in Nat
  BY LenProperties DEF Sessions
<1>2. h = IF w = <<>> THEN <<u>> ELSE w[Len(w)]
  BY DEF Here
<1>3. CASE to = <<>>
  BY <1>3 DEF Chained
<1>4. CASE Untested(a) /\ a # NoArg
  <2>1. a.up \in Nat
    BY <1>4, NetdiskAssumption
  <2> DEFINE n == Len(w) - a.up
  <2>2. to = SubSeq(w, 1, n) /\ n \in Int /\ n <= Len(w)
    BY <1>1, <1>4, <2>1 DEF CdTo
  <2> HIDE DEF w, u, to, n
  <2>3. CASE n \in 0 .. Len(w)
    <3>1. Len(to) = n /\ \A i \in 1 .. n : to[i] = w[i]
      BY <1>1, <2>2, <2>3, Cut
    <3>2. \A i \in 1 .. n : i \in 1 .. Len(w) /\ (i # 1 => i - 1 \in 1 .. n)
      BY <1>1, <2>3
    <3>3. Chained(u, w)
      BY DEF u, w
    <3>4. Chained(u, to)
      BY <3>1, <3>2, <3>3 DEF Chained
    <3> QED
      BY <3>1, <3>2, <3>4 DEF w, u, to
  <2>4. CASE n \notin 0 .. Len(w)
    <3>1. n < 1
      BY <1>1, <2>2, <2>4
    <3>2. to = <<>>
      BY <2>2, <3>1, SubSeqEmpty
    <3> QED
      BY <1>3, <3>2 DEF to
  <2> QED
    BY <2>3, <2>4
<1>5. CASE ~Untested(a) /\ a # NoArg
  <2> DEFINE v == Way(h, a)
             m == Len(w)
             n == Len(v)
  <2>1. /\ v \in Seq(Paths)
        /\ \A i \in 1 .. n : Near(IF i = 1 THEN h ELSE v[i - 1], v[i])
    BY <1>5, WayIs
  <2>2. m \in Nat /\ n \in Nat
    BY <1>1, <2>1, LenProperties
  <2>3. to = w \o v
    BY <1>5 DEF CdTo
  <2>4. Chained(u, w)
    OBVIOUS
  <2> HIDE DEF w, u, h, to, v
  <2>5. /\ Len(to) = m + n
        /\ \A i \in 1 .. m + n : to[i] = IF i <= m THEN w[i] ELSE v[i - m]
    BY <1>1, <2>1, <2>3, ConcatProperties
  <2>6. w = <<>> <=> m = 0
    BY <1>1, EmptySeq
  <2>7. \A i \in 1 .. m : Near(IF i = 1 THEN <<u>> ELSE w[i - 1], w[i])
    BY <2>4 DEF Chained
  <2> HIDE DEF m, n
  <2>8. ASSUME NEW i \in 1 .. m + n
        PROVE  /\ Near(IF i = 1 THEN <<u>> ELSE to[i - 1], to[i])
               /\ (\E j \in 1 .. m : to[i] = w[j]) \/ (\E j \in 1 .. n : to[i] = v[j])
    <3>1. CASE i <= m
      <4>1. i \in 1 .. m /\ to[i] = w[i]
        BY <2>2, <2>5, <3>1
      <4>2. i # 1 => i - 1 \in 1 .. m + n /\ i - 1 <= m
        BY <2>2, <3>1
      <4> QED
        BY <2>5, <2>7, <4>1, <4>2
    <3>2. CASE i = m + 1
      <4>1. /\ 1 \in 1 .. n /\ i - m = 1 /\ ~(i <= m)
            /\ i # 1 => m # 0 /\ i - 1 = m /\ m \in 1 .. m + n /\ m <= m
            /\ i = 1 => m = 0
        BY <2>2, <3>2
      <4>2. to[i] = v[1]
        BY <2>5, <4>1
      <4>3. h = IF i = 1 THEN <<u>> ELSE to[i - 1]
        <5>1. CASE i = 1
          BY <1>2, <2>6, <4>1, <5>1 DEF m
        <5>2. CASE i # 1
          <6>1. to[i - 1] = w[m] /\ w # <<>>
            BY <2>5, <2>6, <4>1, <5>2
          <6> QED
            BY <1>2, <5>2, <6>1 DEF m
        <5> QED
          BY <5>1, <5>2
      <4>4. Near(h, v[1])
        BY <2>1, <4>1 DEF n
      <4> QED
        BY <4>1, <4>2, <4>3, <4>4
    <3>3. CASE i > m + 1
      <4>1. /\ i - m \in 1 .. n /\ ~(i <= m) /\ i # 1 /\ i - m # 1
            /\ i - 1 \in 1 .. m + n /\ ~(i - 1 <= m) /\ (i - 1) - m = (i - m) - 1
        BY <2>2, <3>3
      <4>2. to[i] = v[i - m] /\ to[i - 1] = v[(i - m) - 1]
        BY <2>5, <4>1
      <4>3. Near(v[(i - m) - 1], v[i - m])
        BY <2>1, <4>1 DEF n
      <4> QED
        BY <4>1, <4>2, <4>3
    <3> QED
      BY <2>2, <3>1, <3>2, <3>3
  <2>9. Chained(u, to)
    BY <2>5, <2>8 DEF Chained
  <2> QED
    BY <1>5, <2>5, <2>8, <2>9 DEF w, u, h, to, v, m, n
<1> QED
  BY <1>3, <1>4, <1>5 DEF CdTo

(* Wherever cd leads, it gets there by directories that are there. *)
LEMMA CdMoves ==
  ASSUME TrailInv, NEW c \in Clients, Cd(c)
  PROVE  /\ Others(c) /\ UNCHANGED <<dirs, file>> /\ srv'[c].user = srv[c].user
         /\ srv'[c].cwd \in Seq(Paths) /\ Chained(srv[c].user, srv'[c].cwd)
         /\ Stands(c) => \A i \in 1 .. Len(srv'[c].cwd) : srv'[c].cwd[i] \in dirs
<1>1. ServerTakes(c, "Login_Success") /\ Msg(c).val.cmd = "cd"
  BY DEF Cd, Commanded
<1>2. /\ srv[c] \in Sessions /\ srv \in [Clients -> Sessions] /\ srv[c].state = "Login_Success"
      /\ Msg(c).val \in Lines /\ Here(c) \in Paths
      /\ Arg(c) \in Params => /\ Arg(c).up <= Len(Here(c)) /\ Target(c) \in Paths
                              /\ Target(c) = TargetOf(Here(c), Arg(c))
  BY <1>1, TakesCommand DEF TrailInv, Typed
<1>3. Arg(c) \in Params \cup {NoArg}
  BY <1>2 DEF Lines, Arg
<1>4. Chained(srv[c].user, srv[c].cwd) /\ srv[c].cwd \in Seq(Paths)
  BY <1>2 DEF TrailInv, Serving, Sessions
<1> DEFINE to == CdTo(c, Arg(c))
<1>5. to \in Seq(Paths)
  BY <1>2, <1>3, CdToPath
<1>6. /\ Chained(srv[c].user, to)
      /\ \A i \in 1 .. Len(to) :
           \/ \E j \in 1 .. Len(srv[c].cwd) : to[i] = srv[c].cwd[j]
           \/ /\ ~Untested(Arg(c))
              /\ \E j \in 1 .. Len(Way(Here(c), Arg(c))) : to[i] = Way(Here(c), Arg(c))[j]
  BY <1>2, <1>3, <1>4, CdTrail
<1>7. \/ Becomes(c, srv[c])
      \/ (Untested(Arg(c)) \/ IsDir(c)) /\ Becomes(c, [srv[c] EXCEPT !.cwd = to])
  BY DEF Cd
<1>8. UNCHANGED <<dirs, file>>
  BY DEF Cd, fileSystem
<1>9. Stands(c) => \A j \in 1 .. Len(srv[c].cwd) : srv[c].cwd[j] \in dirs
  BY <1>4 DEF Stands
<1> HIDE DEF to
<1>10. CASE Becomes(c, srv[c])
  <2>1. Others(c) /\ srv'[c].user = srv[c].user /\ srv'[c].cwd = srv[c].cwd
    BY <1>2, <1>10 DEF Becomes, Sessions, Others
  <2> QED
    BY <1>4, <1>8, <1>9, <2>1
<1>11. CASE (Untested(Arg(c)) \/ IsDir(c)) /\ Becomes(c, [srv[c] EXCEPT !.cwd = to])
  <2>1. Others(c) /\ srv'[c].user = srv[c].user /\ srv'[c].cwd = to
    BY <1>2, <1>11 DEF Becomes, Sessions, Others
  <2>2. ~Untested(Arg(c)) =>
          \A j \in 1 .. Len(Way(Here(c), Arg(c))) : Way(Here(c), Arg(c))[j] \in dirs
    <3>1. SUFFICES ASSUME ~Untested(Arg(c))
                   PROVE  \A j \in 1 .. Len(Way(Here(c), Arg(c))) : Way(Here(c), Arg(c))[j] \in dirs
      OBVIOUS
    <3> DEFINE v == Way(Here(c), Arg(c))
               n == Len(v)
    <3>2. Arg(c) \in Params
      BY <1>3, <3>1 DEF Untested
    <3>3. v \in Seq(Paths) /\ (n > 0 => v[n] = Target(c))
      BY <1>2, <3>2, WayIs
    <3>4. n \in Nat
      BY <3>3, LenProperties
    <3>5. Target(c) \in dirs /\ \A j \in 1 .. n - 1 : v[j] \in dirs
      BY <1>11, <3>1 DEF IsDir, Found
    <3> HIDE DEF v, n
    <3>6. ASSUME NEW j \in 1 .. n PROVE v[j] \in dirs
      <4>1. (j = n /\ n > 0) \/ j \in 1 .. n - 1
        BY <3>4
      <4> QED
        BY <3>3, <3>5, <4>1
    <3> QED
      BY <3>6 DEF v, n
  <2>3. Stands(c) => \A i \in 1 .. Len(to) : to[i] \in dirs
    BY <1>6, <1>9, <2>2
  <2> QED
    BY <1>5, <1>6, <1>8, <2>1, <2>3
<1> QED
  BY <1>7, <1>10, <1>11

(* A session keeps to a chain of directories. *)
LEMMA TrailStep == ASSUME Undisturbed, TrailInv, [Next]_vars PROVE TrailInv'
<1>1. IInv'
  BY StepOK DEF TrailInv
<1>2. ASSUME srv' = srv PROVE TrailInv'
  BY <1>1, <1>2 DEF TrailInv
<1>3. ASSUME NEW c \in Clients, UserTypes(c) \/ ClientOnMessage(c) \/ ClientDies(c) PROVE TrailInv'
  BY <1>2, <1>3, ClientLeavesServer DEF serverSide
<1>4. ASSUME NEW c \in Clients, ServerLoop(c) PROVE TrailInv'
  <2>1. srv[c] \in Sessions /\ srv \in [Clients -> Sessions] /\ CallOK(srv[c])
    BY DEF TrailInv, IInv, Typed, Session, Talk
  <2>2. Others(c) /\ (srv'[c].state \in Serving => Chained(srv'[c].user, srv'[c].cwd))
    <3>1. CASE Cd(c)
      BY <3>1, CdMoves
    <3>2. CASE ServerOnMessage(c) /\ ~Cd(c)
      BY <2>1, <3>2, MessageOthers DEF TrailInv, Chained
    <3>3. CASE Poll(c) \/ HandleRead(c) \/ HandleGets(c) \/ HandleClose(c) \/ ConnectDestroyed(c)
      BY <2>1, <3>3, ChannelsOthers DEF TrailInv
    <3> QED
      BY <1>4, <3>1, <3>2, <3>3 DEF ServerLoop
  <2> QED
    BY <1>1, <2>2 DEF TrailInv, Others
<1>5. CASE UNCHANGED vars
  BY <1>2, <1>5 DEF vars, serverSide
<1> QED
  BY <1>3, <1>4, <1>5 DEF Next

(* A directory on a path that goes straight down is not empty, unless it is the
   end. *)
LEMMA StraightDown ==
  ASSUME TrailInv, NEW c \in Clients, srv[c].state \in Serving, Straight(c), Stands(c),
         NEW p, EmptyDir(p), p = <<srv[c].user>> \/ \E i \in DOMAIN srv[c].cwd : p = srv[c].cwd[i]
  PROVE  p = Here(c)
<1> DEFINE w == srv[c].cwd
           u == srv[c].user
<1>1. w \in Seq(Paths) /\ Chained(u, w)
  BY DEF TrailInv, IInv, Typed, Sessions
<1>2. DOMAIN w = 1 .. Len(w) /\ Len(w) \in Nat /\ \A i \in 1 .. Len(w) : w[i] \in Paths /\ Len(w[i]) \in Nat
  BY <1>1, ElementOfSeq, PathIs, LenProperties
<1>3. \A i \in 1 .. Len(w) : Len(w[i]) = i + 1 /\ w[i] \in dirs
  BY <1>2 DEF Straight, Stands
<1>4. Len(<<u>>) = 1
  OBVIOUS
<1> DEFINE at(i) == IF i = 0 THEN <<u>> ELSE w[i]
<1>5. PICK i \in 0 .. Len(w) : p = at(i)
  <2>1. CASE p = <<u>>
    <3>1. 0 \in 0 .. Len(w) /\ p = at(0)
      BY <1>2, <2>1
    <3> QED
      BY <3>1
  <2>2. CASE \E i \in DOMAIN w : p = w[i]
    <3>1. PICK i \in 1 .. Len(w) : p = w[i]
      BY <1>2, <2>2
    <3>2. i \in 0 .. Len(w) /\ i # 0
      BY <1>2
    <3>3. p = at(i)
      BY <3>1, <3>2
    <3> QED
      BY <3>2, <3>3
  <2> QED
    BY <2>1, <2>2
<1>6. Here(c) = at(Len(w))
  <2>1. w = <<>> <=> Len(w) = 0
    BY <1>1, EmptySeq
  <2> QED
    BY <2>1 DEF Here
<1>7. CASE i = Len(w)
  BY <1>5, <1>6, <1>7
<1>8. CASE i # Len(w)
  <2> DEFINE q == w[i + 1]
  <2>1. i + 1 \in 1 .. Len(w) /\ i \in Nat /\ (i + 1) - 1 = i /\ (i + 1 = 1 <=> i = 0)
    BY <1>2, <1>8
  <2>2. q \in Paths /\ q \in dirs /\ Len(q) = i + 2 /\ Len(q) \in Nat
    BY <1>2, <1>3, <2>1
  <2>3. Near(at(i), q)
    BY <1>1, <2>1 DEF Chained
  <2>4. at(i) \in Paths /\ Len(at(i)) = i + 1
    <3>1. CASE i = 0
      <4>1. u \in Users
        BY DEF TrailInv, IInv, Session, Talk, SessionOK, Serving, ServerStates
      <4> QED
        BY <1>4, <3>1, <4>1, HomePath
    <3>2. CASE i # 0
      BY <1>2, <1>3, <2>1, <3>2
    <3> QED
      BY <3>1, <3>2
  <2>5. q # Parent(at(i))
    <3>1. at(i) \in Seq(PathNames) /\ i \in 0 .. Len(at(i))
      <4>1. \A q1 \in Paths : q1 \in Seq(PathNames)
        BY PathIs
      <4>2. at(i) \in Seq(PathNames)
        BY <2>4, <4>1
      <4>3. \A n \in Nat : n = i + 1 => i \in 0 .. n
        BY <2>1
      <4>4. i + 1 \in Nat
        BY <2>1
      <4>5. i \in 0 .. Len(at(i))
        BY <2>4, <4>3, <4>4
      <4> QED
        BY <4>2, <4>5
    <3>2. Len(SubSeq(at(i), 1, i)) = i /\ Len(at(i)) - 1 = i
      BY <2>1, <2>4, <3>1, Cut
    <3>3. Len(Parent(at(i))) = i
      BY <3>2 DEF Parent
    <3> QED
      BY <2>1, <2>2, <3>3
  <2>6. at(i) = Parent(q) /\ Len(q) = Len(at(i)) + 1
    BY <2>3, <2>5 DEF Near
  <2>7. Exists(q)
    BY <2>2 DEF Exists
  <2> QED
    BY <1>5, <2>2, <2>6, <2>7 DEF EmptyDir
<1> QED
  BY <1>7, <1>8

(* Only a login changes whose session it is, and only that and cd where it is. *)
LEMMA PlainUser ==
  ASSUME NEW c \in Clients, srv[c] \in Sessions, srv \in [Clients -> Sessions],
         srv[c].state \in Serving, Plain(c)
  PROVE  srv'[c].user = srv[c].user /\ srv'[c].cwd = srv[c].cwd
<1>1. ASSUME Becomes(c, srv[c]) \/ \E call : GoesOn(c, srv[c], call)
      PROVE  srv'[c].user = srv[c].user /\ srv'[c].cwd = srv[c].cwd
  BY <1>1 DEF Becomes, GoesOn, Sessions
<1>2. ~MenuChoice(c) /\ ~HandleRegister(c) /\ ~LoginStep1(c)
  BY DEF MenuChoice, HandleRegister, LoginStep1, ServerTakes, Serving
<1>3. CASE RegisterMkdir(c) \/ Pwd(c) \/ Mkdir(c) \/ Remove(c) \/ Gets(c) \/ GetsAccess(c)
  BY <1>1, <1>3 DEF RegisterMkdir, Pwd, Mkdir, Remove, Gets, GetsAccess
<1>4. CASE Puts(c)
  <2>1. Becomes(c, srv[c]) \/ GoesOn(c, [srv[c] EXCEPT !.state = "Begin_Puts"], "open")
    BY <1>4 DEF Puts
  <2>2. CASE Becomes(c, srv[c])
    BY <1>1, <2>2
  <2>3. CASE GoesOn(c, [srv[c] EXCEPT !.state = "Begin_Puts"], "open")
    BY <2>3 DEF GoesOn, Sessions
  <2> QED
    BY <2>1, <2>2, <2>3
<1>5. CASE PutsOpen(c)
  <2>1. \E i : Becomes(c, [srv[c] EXCEPT !.file = i, !.pos = 0])
    BY <1>5 DEF PutsOpen
  <2> QED
    BY <2>1 DEF Becomes, Sessions
<1>6. CASE GetsStat(c)
  <2>1. \E size : GoesOn(c, [srv[c] EXCEPT !.state = "Gets", !.size = size], "openFile")
    BY <1>6 DEF GetsStat
  <2> QED
    BY <2>1 DEF GoesOn, Sessions
<1>7. CASE BeginPuts(c)
  BY <1>7 DEF BeginPuts, Becomes, Sessions
<1>8. CASE PutsData(c)
  <2>1. \/ Becomes(c, [srv[c] EXCEPT !.size = 0, !.file = 0, !.pos = 0, !.state = "Login_Success"])
        \/ \E size, pos : Becomes(c, [srv[c] EXCEPT !.size = size, !.pos = pos])
    BY <1>8 DEF PutsData
  <2>2. CASE Becomes(c, [srv[c] EXCEPT !.size = 0, !.file = 0, !.pos = 0, !.state = "Login_Success"])
    BY <2>2 DEF Becomes, Sessions
  <2>3. CASE \E size, pos : Becomes(c, [srv[c] EXCEPT !.size = size, !.pos = pos])
    <3>1. PICK size, pos : Becomes(c, [srv[c] EXCEPT !.size = size, !.pos = pos])
      BY <2>3
    <3> QED
      BY <3>1 DEF Becomes, Sessions
  <2> QED
    BY <2>1, <2>2, <2>3
<1>9. CASE GetsAck(c)
  BY <1>9 DEF GetsAck, Becomes, Sessions
<1> QED
  BY <1>2, <1>3, <1>4, <1>5, <1>6, <1>7, <1>8, <1>9 DEF Plain

(* Of a path that goes straight down a remove takes only the end away, and the
   session itself only by a parameter that goes up. *)
LEMMA RemoveLeaves ==
  ASSUME TrailInv, NEW c \in Clients, NEW d \in Clients, Remove(d),
         srv[c].state \in Serving, Stands(c), ~Stands(c)'
  PROVE  MayRemove(d, c)
<1>1. ServerTakes(d, "Login_Success") /\ Msg(d).val.cmd = "remove" /\ Msg(d).kind = "command"
  BY DEF Remove, Commanded
<1>2. /\ srv[d] \in Sessions /\ srv \in [Clients -> Sessions] /\ srv[d].in # <<>>
      /\ Msg(d).val \in Lines /\ Here(d) \in Paths
      /\ Arg(d) \in Params => Target(d) = TargetOf(Here(d), Arg(d))
  BY <1>1, TakesCommand DEF TrailInv, Typed
<1>3. Arg(d) \in Params
  BY <1>1, <1>2 DEF Lines, Arg
<1>4. srv'[c].user = srv[c].user /\ srv'[c].cwd = srv[c].cwd
  <2>1. srv[c] \in Sessions
    BY <1>2
  <2> QED
    BY <1>2, <2>1 DEF Remove, Becomes, Sessions
<1>5. /\ dirs' = dirs \ {Target(d)} /\ EmptyDir(Target(d)) /\ Arg(d).down # <<>>
  <2>1. CASE IsThere(d) /\ EmptyDir(Target(d)) /\ Arg(d).down # <<>>
    BY <2>1 DEF Remove
  <2>2. CASE ~(IsThere(d) /\ EmptyDir(Target(d)) /\ Arg(d).down # <<>>)
    BY <1>4, <2>2 DEF Remove, Stands
  <2> QED
    BY <2>1, <2>2
<1>6. Target(d) = <<srv[c].user>> \/ \E i \in DOMAIN srv[c].cwd : Target(d) = srv[c].cwd[i]
  BY <1>4, <1>5 DEF Stands
<1>7. ASSUME Straight(c) PROVE Target(d) = Here(c)
  BY <1>5, <1>6, <1>7, StraightDown
<1>8. ASSUME d = c, Target(d) = Here(c) PROVE Arg(d).up > 0
  <2> DEFINE h == Here(d)
             u == Arg(d).up
             w == Arg(d).down
  <2>1. u \in Nat /\ w \in Seq(PathNames) /\ w # <<>>
    BY <1>3, <1>5, NetdiskAssumption DEF PathNames
  <2>2. h \in Seq(PathNames) /\ Len(h) \in Nat
    BY <1>2, PathIs
  <2>3. h = SubSeq(h, 1, Len(h) - u) \o w
    BY <1>2, <1>3, <1>8 DEF TargetOf
  <2> HIDE DEF h, u, w
  <2>4. ASSUME u = 0 PROVE FALSE
    <3>1. Len(h) - u = Len(h) /\ Len(h) \in 0 .. Len(h)
      BY <2>2, <2>4
    <3> DEFINE b == SubSeq(h, 1, Len(h))
    <3>2. b \in Seq(PathNames) /\ Len(b) = Len(h)
      BY <2>2, <3>1, Cut
    <3>3. h = b \o w
      BY <2>3, <3>1
    <3> HIDE DEF b
    <3>4. Len(h) = Len(b) + Len(w)
      BY <2>1, <3>2, <3>3, ConcatProperties
    <3>5. Len(w) \in Nat /\ Len(w) # 0
      BY <2>1, EmptySeq, LenProperties
    <3> QED
      BY <2>2, <3>2, <3>4, <3>5
  <2> QED
    BY <2>1, <2>4 DEF u
<1> QED
  BY <1>1, <1>2, <1>7, <1>8 DEF MayRemove

(* A session's directories stay, but for a remove. *)
LEMMA StandsOn ==
  ASSUME Undisturbed, TrailInv, [Next]_vars, NEW c \in Clients, LoggedIn(c), Stands(c)
  PROVE  Stands(c)' \/ \E d \in Clients : MayRemove(d, c)
<1>1. srv \in [Clients -> Sessions] /\ dirs \subseteq Paths /\ \A d \in Clients : CallOK(srv[d])
  BY DEF TrailInv, IInv, Typed, Session, Talk
<1>2. srv[c].state \in Serving /\ srv[c].cwd \in Seq(Paths)
  BY <1>1 DEF LoggedIn, Serving, Sessions
<1>3. ASSUME dirs \subseteq dirs', srv'[c].user = srv[c].user, srv'[c].cwd = srv[c].cwd PROVE Stands(c)'
  BY <1>3 DEF Stands
<1>4. ASSUME UNCHANGED serverSide PROVE Stands(c)'
  BY <1>3, <1>4 DEF serverSide, fileSystem
<1>5. ASSUME NEW d \in Clients, ServerLoop(d) PROVE Stands(c)' \/ MayRemove(d, c)
  <2>1. CASE Poll(d) \/ HandleRead(d) \/ HandleGets(d) \/ HandleClose(d) \/ ConnectDestroyed(d)
    <3>1. Others(d) /\ dirs' = dirs /\ srv'[d].user = srv[d].user /\ srv'[d].cwd = srv[d].cwd
      BY <1>1, <2>1, ChannelsOthers
    <3> QED
      BY <1>3, <3>1 DEF Others
  <2>2. CASE Remove(d)
    BY <1>2, <2>2, RemoveLeaves
  <2>3. CASE ServerOnMessage(d) /\ ~Remove(d) /\ d # c
    <3>1. dirs \subseteq dirs' /\ Others(d)
      BY <1>1, <2>3, DiskGrows, MessageOthers DEF TrailInv
    <3> QED
      BY <1>3, <2>3, <3>1 DEF Others
  <2>4. CASE Cd(d) /\ d = c
    <3>1. /\ dirs' = dirs /\ srv'[c].user = srv[c].user /\ srv'[c].cwd \in Seq(Paths)
          /\ \A i \in 1 .. Len(srv'[c].cwd) : srv'[c].cwd[i] \in dirs
      BY <2>4, CdMoves
    <3>2. DOMAIN srv'[c].cwd = 1 .. Len(srv'[c].cwd)
      BY <3>1, LenProperties
    <3> QED
      BY <3>1, <3>2 DEF Stands
  <2>5. CASE ServerOnMessage(d) /\ ~Remove(d) /\ ~Cd(d) /\ d = c
    <3>1. dirs \subseteq dirs'
      BY <2>5, DiskGrows DEF TrailInv
    <3>2. srv'[c].user = srv[c].user /\ srv'[c].cwd = srv[c].cwd
      <4>1. CASE Plain(c)
        BY <1>1, <1>2, <2>5, <4>1, PlainUser
      <4>2. ~LoginStep2(c)
        BY <1>2 DEF LoginStep2, ServerTakes, Serving
      <4>3. CASE Ls(c)
        <5>1. \E v : GoesOn(c, [srv[c] EXCEPT !.names = v], "stat")
          BY <4>3 DEF Ls
        <5> QED
          BY <1>1, <5>1 DEF GoesOn, Sessions
      <4>4. CASE LsStat(c)
        <5>1. srv' = srv \/ Becomes(c, [srv[c] EXCEPT !.names = {}])
          BY <4>4 DEF LsStat
        <5> QED
          BY <1>1, <5>1 DEF Becomes, Sessions
      <4>5. CASE GetsOpen(c)
        <5>1. \E u, v : Becomes(c, [srv[c] EXCEPT !.file = u, !.pos = 0, !.gets = v])
          BY <4>5 DEF GetsOpen
        <5> QED
          BY <1>1, <5>1 DEF Becomes, Sessions
      <4> QED
        BY <2>5, <4>1, <4>2, <4>3, <4>4, <4>5 DEF ServerOnMessage, Plain
    <3> QED
      BY <1>3, <3>1, <3>2
  <2> QED
    BY <1>5, <2>1, <2>2, <2>3, <2>4, <2>5 DEF ServerLoop
<1> QED
  BY <1>4, <1>5, ClientLeavesServer DEF Next, vars

LEMMA InitTrail == ASSUME SoundFiles, Init PROVE TrailInv
<1>1. IInv
  BY InitOK
<1>2. ASSUME NEW c \in Clients PROVE srv[c].state \notin Serving
  BY DEF Init, SessionStart, Serving
<1> QED
  BY <1>1, <1>2 DEF TrailInv

(* Whatever the sessions do, a working directory that is there stays there until
   something on its path is removed; of a path that goes straight down that is its
   end, and by the session itself only through "..". *)
THEOREM WorkingDirsStay == ASSUME SoundFiles, Undisturbed PROVE Spec => WorkingDirStays
<1>1. Init => TrailInv
  BY InitTrail
<1>2. TrailInv /\ [Next]_vars => TrailInv'
  BY TrailStep
<1> DEFINE Stay == \A c \in Clients : LoggedIn(c) /\ Stands(c) => Stands(c)' \/ \E d \in Clients : MayRemove(d, c)
<1>3. TrailInv /\ [Next]_vars => [Stay]_vars
  BY StandsOn
<1>4. Spec => [][Stay]_vars
  <2> HIDE DEF Stay
  <2> QED
    BY <1>1, <1>2, <1>3, PTL DEF Spec
<1> QED
  BY <1>4 DEF WorkingDirStays
-----------------------------------------------------------------------------
(* What the server dies of *)

(* Nobody else removes anything: there is one client, or no remove is typed. *)
OwnRemoves == (\A c, d \in Clients : c = d) \/ "remove" \notin Commands

(* What ls has listed is there until it has been looked at. *)
Listed(s, theDirs, theFile) ==
  s.call = "stat" =>
    /\ <<s.user>> \in theDirs
    /\ \A i \in DOMAIN s.cwd : s.cwd[i] \in theDirs
    /\ \A p \in s.names : p \in theDirs \/ theFile[p] # 0

(* The turn of gets_channel_ comes before the socket's: while the channel is
   registered the session has not taken the frame that destroys it, and will not
   before the channel has had a turn that finds the file at its end. *)
InTurn(k, q, s) ==
  /\ s.gets # "unwatched"
  /\ s.in # <<>> => s.active \in {<<>>, <<"gets">>}
  /\ s.gets = "added" =>
       /\ s.in = <<>>
       /\ s.active \in {<<>>, <<"gets">>, <<"gets", "tcp">>, <<"tcp">>}
       /\ s.active = <<"tcp">> => q = <<>>
       /\ s.active \in {<<"tcp">>, <<"gets", "tcp">>} /\ q = <<>> => k.state = "dead"
       /\ q # <<>> => s.size = 0

LiveInv ==
  /\ IInv
  /\ ~aborted
  /\ \A c \in Clients : InTurn(cli[c], c2s[c], srv[c]) /\ Listed(srv[c], dirs, file)

(* The server has died of a working directory that is not there. *)
Lost == IInv /\ aborted /\ \E c \in Clients : LoggedIn(c) /\ ~Stands(c)
-----------------------------------------------------------------------------
(* What the server dies of: the channels *)

(* What is known of a session as long as the server lives. *)
LEMMA Before ==
  ASSUME LiveInv, NEW c \in Clients
  PROVE  LET s == srv[c]
             q == Rest(s) \o c2s[c]
         IN  /\ ~aborted /\ IInv
             /\ s \in Sessions /\ srv \in [Clients -> Sessions] /\ s.active \in Turns
             /\ cli \in [Clients -> ClientProcesses] /\ c2s \in [Clients -> Seq(ToServer)]
             /\ InTurn(cli[c], c2s[c], s) /\ Registered(s)
             /\ Talk(cli[c], local[c], q, s2c[c], s) /\ CallOK(s) /\ SessionOK(s)
<1>1. /\ srv[c] \in Sessions /\ srv \in [Clients -> Sessions]
      /\ cli \in [Clients -> ClientProcesses] /\ c2s \in [Clients -> Seq(ToServer)]
  BY DEF LiveInv, IInv, Typed
<1>2. srv[c].active \in Turns
  BY <1>1 DEF Sessions, Turns
<1>3. Session(c) /\ Registered(srv[c]) /\ ~aborted
  BY DEF LiveInv, IInv
<1> QED
  BY <1>1, <1>2, <1>3 DEF LiveInv, Session, Talk

(* A step of one connection that the server survives. *)
LEMMA Lives ==
  ASSUME LiveInv, IInv', ~aborted', NEW c \in Clients, Others(c),
         \A d \in Clients \ {c} : cli'[d] = cli[d] /\ c2s'[d] = c2s[d],
         dirs \subseteq dirs', \A p \in Paths : file[p] # 0 => file'[p] # 0,
         InTurn(cli'[c], c2s'[c], srv'[c]), Listed(srv'[c], dirs', file')
  PROVE  LiveInv'
<1>1. ASSUME NEW d \in Clients
      PROVE  InTurn(cli'[d], c2s'[d], srv'[d]) /\ Listed(srv'[d], dirs', file')
  <2>1. CASE d = c
    BY <2>1
  <2>2. CASE d # c
    <3>1. srv'[d] = srv[d] /\ cli'[d] = cli[d] /\ c2s'[d] = c2s[d]
      BY <2>2 DEF Others
    <3>2. InTurn(cli[d], c2s[d], srv[d]) /\ Listed(srv[d], dirs, file)
      BY DEF LiveInv
    <3>3. srv[d].names \subseteq Paths
      BY DEF LiveInv, IInv, Typed, Sessions
    <3>4. Listed(srv[d], dirs', file')
      BY <3>2, <3>3 DEF Listed
    <3> QED
      BY <3>1, <3>2, <3>4
  <2> QED
    BY <2>1, <2>2
<1> QED
  BY <1>1 DEF LiveInv

(* The channels change nothing that ls depends on. *)
LEMMA ChannelLives ==
  ASSUME LiveInv, IInv', ~aborted', NEW c \in Clients, UNCHANGED cli,
         \A d \in Clients \ {c} : c2s'[d] = c2s[d],
         Poll(c) \/ HandleRead(c) \/ HandleGets(c) \/ HandleClose(c) \/ ConnectDestroyed(c),
         InTurn(cli'[c], c2s'[c], srv'[c])
  PROVE  LiveInv'
<1>1. srv[c] \in Sessions /\ srv \in [Clients -> Sessions]
  BY Before
<1>2. /\ Others(c) /\ UNCHANGED <<dirs, file>>
      /\ srv'[c].user = srv[c].user /\ srv'[c].cwd = srv[c].cwd
      /\ srv'[c].call = srv[c].call /\ srv'[c].names = srv[c].names
  BY <1>1, ChannelsOthers
<1>3. Listed(srv'[c], dirs', file')
  BY <1>2 DEF LiveInv, Listed
<1> QED
  BY <1>2, <1>3, Lives

(* What is left of a pass of the loop after the turn of each channel. *)
LEMMA TurnsLeft ==
  ASSUME NEW a \in Turns, a # <<>>
  PROVE  /\ Head(a) = "tcp" => /\ a = <<"tcp">> \/ a = <<"tcp", "gets">>
                               /\ Tail(a) \in {<<>>, <<"gets">>}
         /\ Head(a) = "gets" => /\ a = <<"gets">> \/ a = <<"gets", "tcp">>
                                /\ a[1] = "gets" /\ 1 \in DOMAIN a
                                /\ Tail(a) = <<>> \/ (a = <<"gets", "tcp">> /\ Tail(a) = <<"tcp">>)
<1>1. CASE a = <<"tcp">>
  <2>1. Head(a) = "tcp" /\ Tail(a) = <<>>
    BY <1>1
  <2> QED
    BY <1>1, <2>1
<1>2. CASE a = <<"gets">>
  <2>1. Head(a) = "gets" /\ Tail(a) = <<>> /\ a[1] = "gets" /\ 1 \in DOMAIN a
    BY <1>2
  <2> QED
    BY <1>2, <2>1
<1>3. CASE a = <<"tcp", "gets">>
  <2>1. Tail(a) = <<"gets">> /\ Head(a) = "tcp"
    BY <1>3
  <2> QED
    BY <1>3, <2>1
<1>4. CASE a = <<"gets", "tcp">>
  <2>1. Tail(a) = <<"tcp">> /\ Head(a) = "gets" /\ a[1] = "gets" /\ 1 \in DOMAIN a
    BY <1>4
  <2> QED
    BY <1>4, <2>1
<1> QED
  BY <1>1, <1>2, <1>3, <1>4 DEF Turns

(* epoll_wait reports gets_channel_ first. *)
LEMMA PollTurn ==
  ASSUME PollOrders \subseteq {"getsFirst"}, LiveInv, IInv', NEW c \in Clients, Poll(c)
  PROVE  LiveInv'
<1>1. /\ srv[c] \in Sessions /\ srv \in [Clients -> Sessions] /\ InTurn(cli[c], c2s[c], srv[c])
      /\ cli \in [Clients -> ClientProcesses]
  BY Before
<1>2. PICK ready \in ReadyOrders(c) : srv' = [srv EXCEPT ![c].active = ready]
  BY DEF Poll
<1>3. /\ ~aborted' /\ UNCHANGED <<cli, c2s>> /\ srv[c].in = <<>>
  BY DEF Poll, clientSide
<1>4. /\ \A d \in Clients \ {c} : srv'[d] = srv[d]
      /\ srv'[c].active = ready /\ srv'[c].in = srv[c].in /\ srv'[c].gets = srv[c].gets
      /\ srv'[c].size = srv[c].size
  BY <1>1, <1>2 DEF Sessions
<1>5. srv[c].gets = "added" =>
        \/ ready = <<"gets">>
        \/ ready = <<"gets", "tcp">> /\ (c2s[c] # <<>> \/ cli[c].state = "dead")
  <2>1. SUFFICES ASSUME srv[c].gets = "added"
                 PROVE  \/ ready = <<"gets">>
                        \/ ready = <<"gets", "tcp">> /\ (c2s[c] # <<>> \/ cli[c].state = "dead")
    OBVIOUS
  <2>2. GetsReady(c)
    BY <2>1 DEF GetsReady
  <2>3. CASE SocketReady(c)
    <3>1. ready \in {IF order = "getsFirst" THEN <<"gets", "tcp">> ELSE <<"tcp", "gets">> : order \in PollOrders}
      BY <1>2, <2>2, <2>3 DEF ReadyOrders
    <3>2. ready = <<"gets", "tcp">>
      BY <3>1
    <3> QED
      BY <2>3, <3>2 DEF SocketReady, Alive
  <2>4. CASE ~SocketReady(c)
    BY <1>2, <2>2, <2>4 DEF ReadyOrders
  <2> QED
    BY <2>3, <2>4
<1>6. InTurn(cli'[c], c2s'[c], srv'[c])
  <2> DEFINE s == srv[c]
             t == srv'[c]
             k == cli[c]
             q == c2s[c]
  <2>1. /\ InTurn(k, q, s) /\ t.active = ready /\ t.in = <<>> /\ t.gets = s.gets /\ t.size = s.size
        /\ s.gets = "added" => \/ ready = <<"gets">>
                               \/ ready = <<"gets", "tcp">> /\ (q # <<>> \/ k.state = "dead")
    BY <1>1, <1>3, <1>4, <1>5
  <2> HIDE DEF s, t, k, q
  <2>2. <<"gets">> # <<"tcp">> /\ <<"gets", "tcp">> # <<"tcp">> /\ <<"gets", "tcp">> # <<>>
    OBVIOUS
  <2>3. InTurn(k, q, t)
    BY <2>1, <2>2 DEF InTurn
  <2> QED
    BY <1>3, <2>3 DEF k, q, t
<1> QED
  BY <1>3, <1>4, <1>6, ChannelLives

(* readFd takes what has arrived: gets_channel_ is not registered any more. *)
LEMMA HandleReadTurn ==
  ASSUME LiveInv, IInv', NEW c \in Clients, HandleRead(c)
  PROVE  LiveInv'
<1>1. /\ srv[c] \in Sessions /\ srv \in [Clients -> Sessions] /\ InTurn(cli[c], c2s[c], srv[c])
      /\ c2s \in [Clients -> Seq(ToServer)] /\ srv[c].active \in Turns
  BY Before
<1>2. /\ ~aborted' /\ UNCHANGED cli /\ srv[c].in = <<>> /\ srv[c].active # <<>> /\ Head(srv[c].active) = "tcp"
      /\ \E n \in 1 .. Len(c2s[c]) : \E w, v : /\ srv' = [srv EXCEPT ![c].active = Tail(@), ![c].in = w]
                                               /\ c2s' = [c2s EXCEPT ![c] = v]
  BY DEF HandleRead, Handles, clientSide
<1>3. PICK n \in 1 .. Len(c2s[c]) : \E w, v : /\ srv' = [srv EXCEPT ![c].active = Tail(@), ![c].in = w]
                                              /\ c2s' = [c2s EXCEPT ![c] = v]
  BY <1>2
<1>4. /\ \A d \in Clients \ {c} : srv'[d] = srv[d] /\ c2s'[d] = c2s[d]
      /\ srv'[c].active = Tail(srv[c].active) /\ srv'[c].gets = srv[c].gets
  BY <1>1, <1>3 DEF Sessions
<1>5. c2s[c] # <<>>
  <2> SUFFICES ASSUME c2s[c] = <<>> PROVE FALSE
    OBVIOUS
  <2>1. 1 .. Len(c2s[c]) = {}
    OBVIOUS
  <2> QED
    BY <2>1
<1>6. srv[c].active = <<"tcp">> \/ srv[c].active = <<"tcp", "gets">>
  BY <1>1, <1>2, TurnsLeft
<1>7. Tail(srv[c].active) \in {<<>>, <<"gets">>}
  BY <1>1, <1>2, TurnsLeft
<1>8. srv[c].gets # "added"
  <2> DEFINE s == srv[c]
  <2>1. <<"tcp", "gets">> # <<>> /\ <<"tcp", "gets">> # <<"gets">> /\ <<"tcp", "gets">> # <<"gets", "tcp">>
        /\ <<"tcp", "gets">> # <<"tcp">>
    OBVIOUS
  <2>2. InTurn(cli[c], c2s[c], s) /\ (s.active = <<"tcp">> \/ s.active = <<"tcp", "gets">>)
    BY <1>1, <1>6
  <2> HIDE DEF s
  <2>3. s.gets # "added"
    BY <1>5, <2>1, <2>2 DEF InTurn
  <2> QED
    BY <2>3 DEF s
<1>9. InTurn(cli'[c], c2s'[c], srv'[c])
  BY <1>1, <1>4, <1>7, <1>8 DEF InTurn
<1> QED
  BY <1>2, <1>4, <1>9, ChannelLives

(* readFd returns 0. *)
LEMMA HandleCloseTurn ==
  ASSUME LiveInv, IInv', NEW c \in Clients, HandleClose(c)
  PROVE  LiveInv'
<1>1. /\ srv[c] \in Sessions /\ srv \in [Clients -> Sessions] /\ InTurn(cli[c], c2s[c], srv[c])
      /\ srv[c].active \in Turns
  BY Before
<1>2. /\ ~aborted' /\ UNCHANGED <<cli, c2s>> /\ srv[c].in = <<>> /\ c2s[c] = <<>>
      /\ srv[c].active # <<>> /\ Head(srv[c].active) = "tcp" /\ cli[c].state = "dead"
      /\ srv' = [srv EXCEPT ![c].active = Tail(@), ![c].conn = "disconnected"]
  BY DEF HandleClose, Handles, clientSide, Alive
<1>3. /\ \A d \in Clients \ {c} : srv'[d] = srv[d]
      /\ srv'[c].active = Tail(srv[c].active) /\ srv'[c].gets = srv[c].gets /\ srv'[c].in = <<>>
  BY <1>1, <1>2 DEF Sessions
<1>4. Tail(srv[c].active) \in {<<>>, <<"gets">>}
  BY <1>1, <1>2, TurnsLeft
<1>5. InTurn(cli'[c], c2s'[c], srv'[c])
  BY <1>1, <1>2, <1>3, <1>4 DEF InTurn
<1> QED
  BY <1>2, <1>3, <1>5, ChannelLives

(* connectDestroyed. *)
LEMMA ConnectDestroyedTurn ==
  ASSUME LiveInv, IInv', NEW c \in Clients, ConnectDestroyed(c)
  PROVE  LiveInv'
<1>1. srv[c] \in Sessions /\ srv \in [Clients -> Sessions] /\ InTurn(cli[c], c2s[c], srv[c])
  BY Before
<1>2. /\ ~aborted' /\ UNCHANGED <<cli, c2s>>
      /\ \E conn, so : srv' = [srv EXCEPT ![c].conn = conn, ![c].file = so]
  BY DEF ConnectDestroyed, clientSide
<1>3. /\ \A d \in Clients \ {c} : srv'[d] = srv[d]
      /\ srv'[c].active = srv[c].active /\ srv'[c].gets = srv[c].gets /\ srv'[c].in = srv[c].in
      /\ srv'[c].size = srv[c].size
  BY <1>1, <1>2 DEF Sessions
<1>4. InTurn(cli'[c], c2s'[c], srv'[c])
  BY <1>1, <1>2, <1>3 DEF InTurn
<1> QED
  BY <1>2, <1>3, <1>4, ChannelLives

(* gets_channel_ has its turn: at the end of the file it goes, and before that no
   acknowledgement has come. *)
LEMMA HandleGetsTurn ==
  ASSUME LiveInv, IInv', NEW c \in Clients, HandleGets(c)
  PROVE  LiveInv'
<1>1. /\ srv[c] \in Sessions /\ srv \in [Clients -> Sessions] /\ InTurn(cli[c], c2s[c], srv[c])
      /\ srv[c].active \in Turns /\ Registered(srv[c])
  BY Before
<1>2. /\ ~aborted' /\ UNCHANGED <<cli, c2s>> /\ srv[c].in = <<>>
      /\ srv[c].active # <<>> /\ Head(srv[c].active) = "gets"
      /\ \/ srv' = [srv EXCEPT ![c].active = Tail(@), ![c].gets = "removed"]
         \/ srv[c].size # 0 /\ \E size, pos : srv' = [srv EXCEPT ![c].active = Tail(@), ![c].size = size, ![c].pos = pos]
  BY DEF HandleGets, Handles, clientSide
<1>3. CASE srv' = [srv EXCEPT ![c].active = Tail(@), ![c].gets = "removed"]
  <2>1. /\ \A d \in Clients \ {c} : srv'[d] = srv[d]
        /\ srv'[c].gets = "removed" /\ srv'[c].in = <<>>
    BY <1>1, <1>2, <1>3 DEF Sessions
  <2>2. InTurn(cli'[c], c2s'[c], srv'[c])
    BY <2>1 DEF InTurn
  <2> QED
    BY <1>2, <2>1, <2>2, ChannelLives
<1>4. CASE srv[c].size # 0 /\ \E size, pos : srv' = [srv EXCEPT ![c].active = Tail(@), ![c].size = size, ![c].pos = pos]
  <2>1. /\ \A d \in Clients \ {c} : srv'[d] = srv[d]
        /\ srv'[c].active = Tail(srv[c].active) /\ srv'[c].gets = srv[c].gets /\ srv'[c].in = <<>>
    <3>1. PICK size, pos : srv' = [srv EXCEPT ![c].active = Tail(@), ![c].size = size, ![c].pos = pos]
      BY <1>4
    <3>2. srv[c].in = <<>>
      BY <1>2
    <3> QED
      BY <1>1, <3>1, <3>2 DEF Sessions
  <2>3. /\ Tail(srv[c].active) = <<>> \/ (srv[c].active = <<"gets", "tcp">> /\ Tail(srv[c].active) = <<"tcp">>)
        /\ 1 \in DOMAIN srv[c].active /\ srv[c].active[1] = "gets"
    BY <1>1, <1>2, TurnsLeft
  <2>4. srv[c].gets = "added"
    BY <1>1, <2>3 DEF Registered
  <2>5. InTurn(cli'[c], c2s'[c], srv'[c])
    <3> DEFINE s == srv[c]
               t == srv'[c]
               k == cli[c]
               q == c2s[c]
    <3>1. /\ InTurn(k, q, s) /\ s.gets = "added" /\ s.size # 0 /\ t.gets = "added" /\ t.in = <<>>
          /\ t.active = <<>> \/ (s.active = <<"gets", "tcp">> /\ t.active = <<"tcp">>)
      BY <1>1, <1>4, <2>1, <2>3, <2>4
    <3> HIDE DEF s, t, k, q
    <3>2. <<>> # <<"tcp">> /\ <<>> # <<"gets", "tcp">>
      OBVIOUS
    <3>3. InTurn(k, q, t)
      BY <3>1, <3>2 DEF InTurn
    <3> QED
      BY <1>2, <3>3 DEF k, q, t
  <2> QED
    BY <1>2, <2>1, <2>5, ChannelLives
<1> QED
  BY <1>2, <1>3, <1>4
-----------------------------------------------------------------------------
(* What the server dies of: the frames *)

(* A handler of onMessage has a frame in hand, and gets_channel_ is then not
   registered: a step that neither registers it nor ends the process, nor takes
   anything away. *)
LEMMA HandledLives ==
  ASSUME LiveInv, IInv', ~aborted', NEW c \in Clients, UNCHANGED <<cli, c2s>>, srv[c].in # <<>>,
         Others(c), dirs \subseteq dirs', \A p \in Paths : file[p] # 0 => file'[p] # 0,
         srv'[c].active = srv[c].active, srv'[c].gets = srv[c].gets \/ srv'[c].gets = "none",
         srv'[c].call # "stat"
  PROVE  LiveInv'
<1>1. InTurn(cli[c], c2s[c], srv[c])
  BY Before
<1>2. InTurn(cli'[c], c2s'[c], srv'[c])
  <2>1. /\ InTurn(cli[c], c2s[c], srv[c]) /\ srv[c].gets # "added" /\ srv[c].gets # "unwatched"
        /\ srv[c].active \in {<<>>, <<"gets">>}
    BY <1>1 DEF InTurn
  <2>2. srv'[c].gets # "added" /\ srv'[c].gets # "unwatched"
    BY <2>1
  <2> QED
    BY <2>1, <2>2 DEF InTurn
<1>3. Listed(srv'[c], dirs', file')
  BY DEF Listed
<1> QED
  BY <1>2, <1>3, Lives

(* Nothing is made of nothing. *)
LEMMA BothEmpty ==
  ASSUME NEW S, NEW a \in Seq(S), NEW b \in Seq(S), a \o b = <<>>
  PROVE  a = <<>> /\ b = <<>>
<1>1. Len(a \o b) = Len(a) + Len(b)
  BY ConcatProperties
<1>2. Len(a) \in Nat /\ Len(b) \in Nat /\ Len(<<>>) = 0
  BY LenProperties
<1> DEFINE m == Len(a)
           n == Len(b)
<1>3. m \in Nat /\ n \in Nat /\ m + n = 0
  BY <1>1, <1>2
<1> HIDE DEF m, n
<1>4. m = 0 /\ n = 0
  BY <1>3
<1>5. Len(a) = 0 /\ Len(b) = 0
  BY <1>4 DEF m, n
<1> QED
  BY <1>5, EmptySeq

(* A handler has a frame in hand. *)
LEMMA HasFrame ==
  ASSUME LiveInv, NEW c \in Clients, ServerOnMessage(c)
  PROVE  srv[c].in # <<>> /\ UNCHANGED <<cli, c2s>> /\ ~aborted
<1>1. \/ \E state : ServerTakes(c, state)
      \/ \E call \in {"mkdir", "stat", "open", "access", "statFile", "openFile"} : Calls(c, call)
  BY DEF ServerOnMessage, MenuChoice, HandleRegister, RegisterMkdir, LoginStep1, LoginStep2, Pwd, Ls, LsStat,
     Mkdir, Remove, Cd, Puts, PutsOpen, Gets, GetsAccess, GetsStat, GetsOpen, BeginPuts, PutsData, GetsAck,
     Commanded
<1>2. CASE \E state : ServerTakes(c, state)
  BY <1>2 DEF ServerTakes, clientSide
<1>3. CASE \E call \in {"mkdir", "stat", "open", "access", "statFile", "openFile"} : Calls(c, call)
  <2>1. CallOK(srv[c])
    BY Before
  <2> QED
    BY <1>3, <2>1 DEF Calls, CallOK, clientSide
<1> QED
  BY <1>1, <1>2, <1>3

(* Where the working directory is there, ls reads it; where it is not, the server
   dies. *)
LEMMA LsTurn ==
  ASSUME FdsRunOut = FALSE, LiveInv, IInv', NEW c \in Clients, Ls(c)
  PROVE  LiveInv' \/ Lost'
<1> DEFINE found == {p \in Paths : p # <<>> /\ Parent(p) = Here(c) /\ Exists(p)}
<1>1. srv[c] \in Sessions /\ srv \in [Clients -> Sessions] /\ InTurn(cli[c], c2s[c], srv[c])
  BY Before
<1>2. /\ srv[c].in # <<>> /\ UNCHANGED <<cli, c2s>> /\ srv[c].state = "Login_Success"
  BY DEF Ls, Commanded, ServerTakes, clientSide
<1>3. GoesOn(c, [srv[c] EXCEPT !.names = found], "stat") /\ UNCHANGED <<dirs, file>>
  BY DEF Ls, fileSystem
<1>4. aborted' = ~Stands(c)
  <2>1. NoFds = {FALSE}
    BY DEF NoFds
  <2>2. \E full \in NoFds : aborted' = (full \/ ~Stands(c))
    BY DEF Ls
  <2> QED
    BY <2>1, <2>2
<1> HIDE DEF found
<1>5. /\ Others(c) /\ srv'[c].active = srv[c].active /\ srv'[c].gets = srv[c].gets
      /\ srv'[c].in = srv[c].in /\ srv'[c].size = srv[c].size
      /\ srv'[c].user = srv[c].user /\ srv'[c].cwd = srv[c].cwd /\ srv'[c].state = "Login_Success"
      /\ srv'[c].names = found /\ srv'[c].call = "stat"
  BY <1>1, <1>2, <1>3 DEF GoesOn, Sessions, Others
<1>6. CASE Stands(c)
  <2>1. InTurn(cli'[c], c2s'[c], srv'[c])
    BY <1>1, <1>2, <1>5 DEF InTurn
  <2>2. \A p \in found : p \in dirs \/ file[p] # 0
    BY DEF found, Exists
  <2>3. Listed(srv'[c], dirs', file')
    BY <1>3, <1>5, <1>6, <2>2 DEF Listed, Stands
  <2> QED
    BY <1>2, <1>3, <1>4, <1>5, <1>6, <2>1, <2>3, Lives
<1>7. CASE ~Stands(c)
  <2>1. LoggedIn(c)' /\ ~Stands(c)'
    BY <1>3, <1>5, <1>7 DEF LoggedIn, Stands
  <2>2. aborted'
    BY <1>4, <1>7
  <2> QED
    BY <2>1, <2>2 DEF Lost
<1> QED
  BY <1>6, <1>7

(* What ls has found there stays until it has been looked at. *)
LEMMA LsStatTurn ==
  ASSUME LiveInv, IInv', NEW c \in Clients, LsStat(c)
  PROVE  LiveInv'
<1>1. srv[c] \in Sessions /\ srv \in [Clients -> Sessions] /\ CallOK(srv[c]) /\ Listed(srv[c], dirs, file)
  BY Before DEF LiveInv
<1>2. srv[c].call = "stat" /\ UNCHANGED <<cli, c2s>> /\ srv[c].in # <<>>
  BY <1>1 DEF LsStat, Calls, clientSide, CallOK
<1>3. Stands(c) /\ \A p \in srv[c].names : Exists(p)
  BY <1>1, <1>2 DEF Listed, Stands, Exists
<1>4. ~aborted' /\ Becomes(c, [srv[c] EXCEPT !.names = {}]) /\ UNCHANGED <<dirs, file>>
  BY <1>3 DEF LsStat, fileSystem
<1>5. /\ Others(c) /\ srv'[c].active = srv[c].active /\ srv'[c].gets = srv[c].gets
      /\ srv'[c].call # "stat"
  BY <1>1, <1>4 DEF Becomes, Sessions, Others
<1> QED
  BY <1>2, <1>4, <1>5, HandledLives

(* The acknowledgement finds gets_channel_ unregistered. *)
LEMMA GetsAckLives == ASSUME LiveInv, NEW c \in Clients, GetsAck(c) PROVE ~aborted'
<1>1. InTurn(cli[c], c2s[c], srv[c])
  BY Before
<1>2. srv[c].in # <<>>
  BY DEF GetsAck, ServerTakes
<1>3. srv[c].gets \notin {"added", "unwatched"}
  BY <1>1, <1>2 DEF InTurn
<1> QED
  BY <1>3 DEF GetsAck

(* gets registers the channel when the client has nothing more to say. *)
LEMMA GetsOpenTurn ==
  ASSUME FdsRunOut = FALSE, LiveInv, IInv', NEW c \in Clients, GetsOpen(c)
  PROVE  LiveInv'
<1> DEFINE s == srv[c]
           q == Rest(s) \o c2s[c]
           k == cli[c]
           t == srv'[c]
<1>1. /\ s \in Sessions /\ srv \in [Clients -> Sessions] /\ CallOK(s)
      /\ c2s \in [Clients -> Seq(ToServer)]
      /\ InTurn(k, c2s[c], s) /\ Talk(k, local[c], q, s2c[c], s)
  BY Before
<1>2. /\ ~aborted' /\ UNCHANGED <<cli, c2s, dirs, file>> /\ s.call = "openFile"
      /\ \E i : Becomes(c, [s EXCEPT !.file = i, !.pos = 0, !.gets = "added"])
  <2>1. NoFds = {FALSE}
    BY DEF NoFds
  <2>2. PICK noFile \in NoFds, noEvent \in NoFds :
          \E i : Becomes(c, [s EXCEPT !.file = i, !.pos = 0, !.gets = IF noEvent THEN "unwatched" ELSE "added"])
    BY DEF GetsOpen
  <2>3. noEvent = FALSE
    BY <2>1, <2>2
  <2>4. ~aborted' /\ UNCHANGED <<cli, c2s, dirs, file>> /\ s.call = "openFile"
    BY DEF GetsOpen, Calls, clientSide, fileSystem
  <2> HIDE DEF s
  <2> QED
    BY <2>2, <2>3, <2>4
<1>3. s.in # <<>> /\ s.in \in Seq(ToServer) /\ q = <<>>
  BY <1>1, <1>2 DEF CallOK, Talk, Script, Sessions
<1>4. Tail(s.in) = <<>> /\ c2s[c] = <<>>
  <2> DEFINE a == Tail(s.in)
             b == c2s[c]
  <2>1. a \in Seq(ToServer) /\ b \in Seq(ToServer)
    BY <1>1, <1>3, HeadTailProperties
  <2>2. q = a \o b
    BY <1>2 DEF Rest
  <2> HIDE DEF a, b
  <2>3. a = <<>> /\ b = <<>>
    BY <1>3, <2>1, <2>2, BothEmpty
  <2> QED
    BY <2>3 DEF a, b
<1>5. /\ Others(c) /\ t.active = s.active /\ t.in = Tail(s.in) /\ t.gets = "added" /\ t.call = "none"
  <2>1. PICK i : Becomes(c, [s EXCEPT !.file = i, !.pos = 0, !.gets = "added"])
    BY <1>2
  <2> QED
    BY <1>1, <2>1 DEF Becomes, Sessions, Others
<1>6. s.active = <<>> \/ s.active = <<"gets">>
  BY <1>1, <1>3 DEF InTurn
<1>7. InTurn(k, c2s[c], t)
  <2> DEFINE p == c2s[c]
  <2>1. p = <<>> /\ t.in = <<>> /\ t.gets = "added" /\ (t.active = <<>> \/ t.active = <<"gets">>)
    BY <1>4, <1>5, <1>6
  <2> HIDE DEF p, t, k
  <2>2. /\ <<>> # <<"tcp">> /\ <<>> # <<"gets", "tcp">> /\ <<"gets">> # <<"tcp">>
        /\ <<"gets">> # <<"gets", "tcp">>
    OBVIOUS
  <2>3. InTurn(k, p, t)
    BY <2>1, <2>2 DEF InTurn
  <2> QED
    BY <2>3 DEF p
<1>8. Listed(t, dirs', file')
  BY <1>5 DEF Listed
<1> QED
  BY <1>2, <1>5, <1>7, <1>8, Lives

(* A client removes things only when there is no other. *)
LEMMA RemoveTurn ==
  ASSUME OwnRemoves, LiveInv, IInv', NEW c \in Clients, Remove(c)
  PROVE  LiveInv'
<1>1. srv[c] \in Sessions /\ srv \in [Clients -> Sessions] /\ CallOK(srv[c]) /\ IInv
  BY Before
<1>2. ServerTakes(c, "Login_Success") /\ Msg(c).val.cmd = "remove" /\ ~aborted'
  BY DEF Remove, Commanded, ServerTakes
<1>3. "remove" \in Commands
  BY <1>1, <1>2, TakesCommand DEF Lines
<1>4. \A d \in Clients : d = c
  BY <1>3 DEF OwnRemoves
<1>5. Keeps(c)
  BY <1>1, PlainKeeps DEF Plain
<1>6. /\ srv[c].in # <<>> /\ UNCHANGED <<cli, c2s>> /\ InTurn(cli[c], c2s[c], srv[c])
  BY <1>2, Before DEF ServerTakes, clientSide
<1>7. InTurn(cli'[c], c2s'[c], srv'[c]) /\ Listed(srv'[c], dirs', file')
  <2>1. srv[c].gets # "added" /\ srv[c].gets # "unwatched" /\ srv[c].active \in {<<>>, <<"gets">>}
    BY <1>6 DEF InTurn
  <2>2. srv'[c].gets # "added" /\ srv'[c].gets # "unwatched" /\ srv'[c].active = srv[c].active
    BY <1>5, <2>1 DEF Keeps, Same
  <2>3. InTurn(cli'[c], c2s'[c], srv'[c])
    BY <2>1, <2>2 DEF InTurn
  <2>4. srv'[c].call # "stat"
    BY <1>5 DEF Keeps, Same
  <2> QED
    BY <2>3, <2>4 DEF Listed
<1> QED
  BY <1>2, <1>4, <1>7 DEF LiveInv

(* Every frame the server takes. *)
LEMMA MessageTurn ==
  ASSUME OwnRemoves, FdsRunOut = FALSE, LiveInv, IInv', NEW c \in Clients, ServerOnMessage(c)
  PROVE  LiveInv' \/ Lost'
<1>1. srv[c].in # <<>> /\ UNCHANGED <<cli, c2s>> /\ ~aborted
  BY HasFrame
<1>2. srv[c] \in Sessions /\ srv \in [Clients -> Sessions] /\ CallOK(srv[c]) /\ IInv
  BY Before
<1>3. CASE Ls(c) \/ LsStat(c) \/ GetsOpen(c) \/ Remove(c)
  BY <1>3, LsTurn, LsStatTurn, GetsOpenTurn, RemoveTurn
<1>4. CASE ~(Ls(c) \/ LsStat(c) \/ GetsOpen(c) \/ Remove(c))
  <2>1. dirs \subseteq dirs' /\ \A p \in Paths : file[p] # 0 => file'[p] # 0
    BY <1>2, <1>4, DiskGrows
  <2>2. ~aborted'
    <3>1. CASE GetsAck(c)
      BY <3>1, GetsAckLives
    <3>2. CASE ~GetsAck(c)
      <4>1. aborted' = aborted
        BY <1>4, <3>2 DEF ServerOnMessage, MenuChoice, HandleRegister, RegisterMkdir, LoginStep1, LoginStep2,
           Pwd, Mkdir, Cd, Puts, PutsOpen, Gets, GetsAccess, GetsStat, BeginPuts, PutsData
      <4> QED
        BY <1>1, <4>1
    <3> QED
      BY <3>1, <3>2
  <2>3. /\ Others(c) /\ srv'[c].active = srv[c].active /\ (srv'[c].gets = srv[c].gets \/ srv'[c].gets = "none")
        /\ srv'[c].call # "stat"
    <3>1. CASE Plain(c)
      BY <1>2, <3>1, PlainKeeps DEF Keeps, Same
    <3>2. CASE LoginStep2(c)
      <4>1. \/ Becomes(c, [srv[c] EXCEPT !.state = "Login_Success", !.cwd = <<>>])
            \/ Becomes(c, [srv[c] EXCEPT !.state = "Init"])
        BY <3>2 DEF LoginStep2
      <4>2. CASE Becomes(c, [srv[c] EXCEPT !.state = "Login_Success", !.cwd = <<>>])
        BY <1>2, <4>2 DEF Becomes, Sessions, Others
      <4>3. CASE Becomes(c, [srv[c] EXCEPT !.state = "Init"])
        BY <1>2, <4>3 DEF Becomes, Sessions, Others
      <4> QED
        BY <4>1, <4>2, <4>3
    <3>3. CASE Cd(c)
      <4>1. Becomes(c, srv[c]) \/ \E w : Becomes(c, [srv[c] EXCEPT !.cwd = w])
        BY <3>3 DEF Cd
      <4>2. CASE Becomes(c, srv[c])
        BY <1>2, <4>2 DEF Becomes, Sessions, Others
      <4>3. CASE \E w : Becomes(c, [srv[c] EXCEPT !.cwd = w])
        <5>1. PICK w : Becomes(c, [srv[c] EXCEPT !.cwd = w])
          BY <4>3
        <5> QED
          BY <1>2, <5>1 DEF Becomes, Sessions, Others
      <4> QED
        BY <4>1, <4>2, <4>3
    <3> QED
      BY <1>4, <3>1, <3>2, <3>3 DEF ServerOnMessage, Plain
  <2> QED
    BY <1>1, <2>1, <2>2, <2>3, HandledLives
<1> QED
  BY <1>3, <1>4
-----------------------------------------------------------------------------
(* What the server dies of: the client *)

(* A living client that has something on its way to a session in gets has been
   sent the whole file. *)
LEMMA AllSent ==
  ASSUME NEW k, NEW q, NEW r, NEW s, Agree(k, q, r, s), k.state \in ClientStates \ {"dead"},
         s.state = "Gets", s.call = "none", q # <<>>
  PROVE  s.size = 0
<1>1. k.state \in {"Registering", "Logining_Step1", "Logining_Step2", "Init", "Puts", "Endless", "Gets"} => FALSE
  BY DEF Agree, At
<1>2. k.state \in {"Login_Success", "Print", "Mkdir", "Remove", "Cd", "Begin_Puts", "Begin_Gets"}
        => Settled(q, s)
  BY DEF Agree, At, Waits, Asked
<1>3. Settled(q, s) => s.size = 0
  BY DEF Settled
<1> QED
  BY <1>1, <1>2, <1>3 DEF ClientStates

(* Until then it has not read all that was sent, or it has a command to give. *)
LEMMA SentBefore ==
  ASSUME NEW k, NEW q, NEW r, NEW s, Agree(k, q, r, s), k.state \in ClientStates \ {"dead"},
         s.state = "Gets", s.call = "none", q # <<>>
  PROVE  r = <<>>
<1>1. k.state \in {"Registering", "Logining_Step1", "Logining_Step2", "Init", "Puts", "Endless", "Gets"} => FALSE
  BY DEF Agree, At
<1>2. k.state \in {"Login_Success", "Print", "Mkdir", "Remove", "Cd", "Begin_Puts", "Begin_Gets"}
        => r = <<>>
  BY DEF Agree, At, Waits, Asked
<1> QED
  BY <1>1, <1>2 DEF ClientStates

(* A living client lives on when it takes a frame or its user types a line. *)
LEMMA ClientLives ==
  ASSUME NEW c \in Clients, cli \in [Clients -> ClientProcesses], c2s \in [Clients -> Seq(ToServer)],
         UserTypes(c) \/ ClientOnMessage(c)
  PROVE  /\ \A d \in Clients \ {c} : cli'[d] = cli[d] /\ c2s'[d] = c2s[d]
         /\ cli[c].state # "dead" /\ cli'[c].state # "dead"
         /\ ClientOnMessage(c) => s2c[c] # <<>> \/ cli[c].state = "Endless"
<1>1. \A cmd \in DOMAIN WaitState : WaitState[cmd] # "dead"
  BY DEF WaitState
<1>2. CASE UserTypes(c)
  <2>1. ASSUME NEW state, NEW frames, cli' = [cli EXCEPT ![c].state = state], ClientSends(c, frames), state # "dead"
        PROVE  /\ \A d \in Clients \ {c} : cli'[d] = cli[d] /\ c2s'[d] = c2s[d]
               /\ cli'[c].state # "dead"
    BY <2>1 DEF ClientSends, ClientProcesses
  <2>2. ASSUME NEW u \in Users, TypeRegister(c, u) \/ TypeLogin(c, u)
        PROVE  /\ cli[c].state = "Init"
               /\ \E state, frames : /\ cli' = [cli EXCEPT ![c].state = state]
                                     /\ ClientSends(c, frames) /\ state # "dead"
    BY <2>2 DEF TypeRegister, TypeLogin, Types
  <2>3. ASSUME NEW cmd \in Commands \cap DOMAIN Arguments, NEW arg \in Arguments[cmd], TypeCommand(c, cmd, arg)
        PROVE  /\ cli[c].state = "Login_Success"
               /\ \E state, frames : /\ cli' = [cli EXCEPT ![c].state = state]
                                     /\ ClientSends(c, frames) /\ state # "dead"
    <3>1. cmd \in DOMAIN WaitState
      BY DEF Arguments, WaitState
    <3> QED
      BY <1>1, <2>3, <3>1 DEF TypeCommand, Types
  <2>4. ASSUME NEW a \in Params, TypePuts(c, a) \/ TypeGets(c, a)
        PROVE  /\ cli[c].state = "Login_Success" /\ cli'[c].state # "dead"
               /\ \A d \in Clients \ {c} : cli'[d] = cli[d] /\ c2s'[d] = c2s[d]
    BY <2>4 DEF TypePuts, TypeGets, ClientSends, ClientProcesses
  <2>5. ~ClientOnMessage(c) \/ s2c[c] # <<>> \/ cli[c].state = "Endless"
    BY DEF ClientOnMessage, ClientRegistered, ClientSalt, ClientLogin, ClientAnswered, ClientBeginPuts,
       ClientPuts, ClientEndless, ClientBeginGets, ClientGets, ClientTakes
  <2> QED
    BY <1>2, <2>1, <2>2, <2>3, <2>4, <2>5 DEF UserTypes
<1>3. CASE ClientOnMessage(c)
  <2>1. /\ s2c[c] # <<>> \/ cli[c].state = "Endless"
        /\ cli[c].state \in {"Registering", "Logining_Step1", "Logining_Step2", "Begin_Puts", "Puts", "Endless",
                             "Begin_Gets", "Gets"} \cup {WaitState[cmd] : cmd \in DOMAIN WaitState}
    BY <1>3 DEF ClientOnMessage, ClientRegistered, ClientSalt, ClientLogin, ClientAnswered, ClientBeginPuts,
       ClientPuts, ClientEndless, ClientBeginGets, ClientGets, ClientTakes
  <2>2. cli[c].state # "dead"
    BY <1>1, <2>1
  <2>3. /\ \A d \in Clients \ {c} : c2s'[d] = c2s[d]
        /\ \A d \in Clients \ {c} : cli'[d] = cli[d]
        /\ cli'[c].state # "dead"
    <3>1. CASE ClientRegistered(c) \/ ClientLogin(c) \/ ClientAnswered(c)
      BY <3>1 DEF ClientRegistered, ClientLogin, ClientAnswered, BackToUser, ClientProcesses
    <3>2. CASE ClientSalt(c) \/ ClientBeginPuts(c)
      BY <3>2 DEF ClientSalt, ClientBeginPuts, BackToUser, ClientSends, ClientProcesses
    <3>3. CASE ClientPuts(c) \/ ClientBeginGets(c)
      BY <3>3 DEF ClientPuts, ClientBeginGets, BackToUser, ClientSends, ClientProcesses
    <3>4. CASE ClientGets(c)
      BY <2>2, <3>4 DEF ClientGets, ClientSends, ClientProcesses
    <3>5. CASE ClientEndless(c)
      BY <2>2, <3>5 DEF ClientEndless, ClientSends, ClientProcesses
    <3> QED
      BY <1>3, <3>1, <3>2, <3>3, <3>4, <3>5 DEF ClientOnMessage
  <2> QED
    BY <2>1, <2>2, <2>3
<1> QED
  BY <1>2, <1>3

(* A client that has been asked for a command adds a frame. *)
LEMMA AsksOn ==
  ASSUME NEW c \in Clients, c2s \in [Clients -> Seq(ToServer)], UserTypes(c), c2s[c] # <<>>
  PROVE  c2s'[c] # <<>>
<1>1. \E f, g : c2s'[c] = c2s[c] \o <<f>> \/ c2s'[c] = c2s[c] \o <<f, g>>
  <2>1. ASSUME NEW u \in Users, TypeRegister(c, u) \/ TypeLogin(c, u)
        PROVE  \E f, g : c2s'[c] = c2s[c] \o <<f, g>>
    BY <2>1 DEF TypeRegister, TypeLogin, Types, ClientSends
  <2>2. ASSUME NEW cmd \in Commands \cap DOMAIN Arguments, NEW arg \in Arguments[cmd], TypeCommand(c, cmd, arg)
        PROVE  \E f : c2s'[c] = c2s[c] \o <<f>>
    BY <2>2 DEF TypeCommand, Types, ClientSends, Line
  <2>3. ASSUME NEW a \in Params, TypePuts(c, a) \/ TypeGets(c, a)
        PROVE  \E f : c2s'[c] = c2s[c] \o <<f>>
    BY <2>3 DEF TypePuts, TypeGets, ClientSends, Line
  <2> QED
    BY <2>1, <2>2, <2>3 DEF UserTypes
<1>2. PICK f, g : c2s'[c] = c2s[c] \o <<f>> \/ c2s'[c] = c2s[c] \o <<f, g>>
  BY <1>1
<1> DEFINE S == ToServer \cup {f, g}
           q == c2s[c]
<1>3. q \in Seq(S) /\ <<f>> \in Seq(S) /\ <<f, g>> \in Seq(S)
  <2>1. q \in Seq(ToServer) /\ ToServer \subseteq S
    OBVIOUS
  <2>2. q \in Seq(S)
    BY <2>1, SeqMonotonic
  <2>3. f \in S /\ g \in S
    OBVIOUS
  <2> HIDE DEF S
  <2> QED
    BY <2>2, <2>3
<1> HIDE DEF S, q
<1>4. q \o <<f>> # <<>> /\ q \o <<f, g>> # <<>>
  BY <1>3, BothEmpty
<1> QED
  BY <1>2, <1>4 DEF q

(* A living client acknowledges a file when it has the whole of it. *)
LEMMA ClientTurn ==
  ASSUME LiveInv, IInv', NEW c \in Clients, UserTypes(c) \/ ClientOnMessage(c)
  PROVE  LiveInv'
<1> DEFINE s == srv[c]
           p == c2s[c]
           pp == c2s'[c]
           k == cli[c]
           kk == cli'[c]
<1>1. /\ ~aborted /\ cli \in [Clients -> ClientProcesses] /\ c2s \in [Clients -> Seq(ToServer)]
      /\ InTurn(k, p, s) /\ Talk(k, local[c], Rest(s) \o p, s2c[c], s) /\ CallOK(s) /\ SessionOK(s)
  BY Before
<1>2. /\ \A d \in Clients \ {c} : cli'[d] = cli[d] /\ c2s'[d] = c2s[d]
      /\ k.state # "dead" /\ kk.state # "dead" /\ (ClientOnMessage(c) => s2c[c] # <<>> \/ k.state = "Endless")
  BY <1>1, ClientLives
<1>3. srv' = srv /\ aborted' = aborted /\ UNCHANGED <<dirs, file>>
  BY ClientLeavesServer DEF serverSide, fileSystem
<1>4. /\ IInv' /\ Talk(kk, local'[c], Rest(s) \o pp, s2c'[c], s)
      /\ kk \in ClientProcesses /\ k \in ClientProcesses /\ pp \in Seq(ToServer) /\ p \in Seq(ToServer)
  <2>1. IInv'
    OBVIOUS
  <2> QED
    BY <1>1, <1>3, <2>1 DEF IInv, Typed, Session
<1>5. k.state \in ClientStates \ {"dead"} /\ kk.state \in ClientStates \ {"dead"}
  BY <1>2, <1>4 DEF ClientProcesses
<1>6. s.gets = "added" =>
        /\ s.in = <<>> /\ s.state = "Gets" /\ s.call = "none"
        /\ Rest(s) \o p = p /\ Rest(s) \o pp = pp
  <2>1. s.gets = "added" => s.in = <<>> /\ s.state = "Gets" /\ s.call = "none"
    BY <1>1 DEF InTurn, SessionOK
  <2>2. <<>> \o p = p /\ <<>> \o pp = pp
    BY <1>4, ConcatEmptySeq
  <2>3. s.gets = "added" => Rest(s) = <<>>
    BY <2>1 DEF Rest
  <2> QED
    BY <2>1, <2>2, <2>3
<1>7. s.gets = "added" /\ pp # <<>> => s.size = 0
  <2>1. SUFFICES ASSUME s.gets = "added", pp # <<>> PROVE s.size = 0
    OBVIOUS
  <2>2. Agree(kk, pp, s2c'[c], s) /\ s.state = "Gets" /\ s.call = "none"
    BY <1>2, <1>4, <1>6, <2>1 DEF Talk
  <2> HIDE DEF s, pp, kk
  <2> QED
    BY <1>5, <2>1, <2>2, AllSent
<1>8. s.gets = "added" /\ p # <<>> => pp # <<>>
  <2>1. SUFFICES ASSUME s.gets = "added", p # <<>> PROVE pp # <<>>
    OBVIOUS
  <2>2. Agree(k, p, s2c[c], s) /\ s.state = "Gets" /\ s.call = "none"
    BY <1>1, <1>2, <1>6, <2>1 DEF Talk
  <2>3. s2c[c] = <<>>
    <3> HIDE DEF s, p, k
    <3> QED
      BY <1>5, <2>1, <2>2, SentBefore
  <2>4. k.state # "Endless"
    <3> HIDE DEF s, p, k
    <3> QED
      BY <2>2 DEF Agree
  <2>5. UserTypes(c)
    BY <1>2, <2>3, <2>4
  <2> QED
    BY <1>1, <2>1, <2>5, AsksOn
<1>9. InTurn(kk, pp, s)
  <2> HIDE DEF s, p, pp, k, kk
  <2>1. <<"gets", "tcp">> # <<"tcp">>
    OBVIOUS
  <2>2. s.gets = "added" => p # <<>> \/ s.active \notin {<<"tcp">>, <<"gets", "tcp">>}
    BY <1>1, <1>2 DEF InTurn
  <2>3. s.gets = "added" => s.active # <<"tcp">>
    BY <1>1, <2>2 DEF InTurn
  <2> QED
    BY <1>1, <1>7, <1>8, <2>2, <2>3 DEF InTurn
<1>10. Others(c) /\ Listed(s, dirs', file')
  BY <1>3 DEF Others, LiveInv
<1> QED
  BY <1>1, <1>2, <1>3, <1>9, <1>10, Lives

(* A client dies, and some of what it sent is lost. *)
LEMMA ClientDiesTurn ==
  ASSUME LiveInv, IInv', NEW c \in Clients, ClientDies(c)
  PROVE  LiveInv'
<1> DEFINE s == srv[c]
           p == c2s[c]
           pp == c2s'[c]
           kk == cli'[c]
<1>1. /\ ~aborted /\ cli \in [Clients -> ClientProcesses] /\ c2s \in [Clients -> Seq(ToServer)]
      /\ InTurn(cli[c], p, s)
  BY Before
<1>2. srv' = srv /\ aborted' = aborted /\ UNCHANGED <<dirs, file>>
  BY ClientLeavesServer DEF serverSide, fileSystem
<1>3. /\ \A d \in Clients \ {c} : cli'[d] = cli[d] /\ c2s'[d] = c2s[d]
      /\ kk.state = "dead"
      /\ \E n \in 0 .. Len(p) : pp = SubSeq(p, 1, n)
  BY <1>1 DEF ClientDies, ClientProcesses
<1>4. p = <<>> => pp = <<>>
  <2>1. SUFFICES ASSUME p = <<>> PROVE pp = <<>>
    OBVIOUS
  <2>2. PICK n \in 0 .. Len(p) : pp = SubSeq(p, 1, n)
    BY <1>3
  <2>3. n = 0
    BY <2>1, <2>2
  <2>4. SubSeq(<<>>, 1, 0) = <<>>
    OBVIOUS
  <2> QED
    BY <2>1, <2>2, <2>3, <2>4
<1>5. InTurn(kk, pp, s)
  <2> HIDE DEF s, p, pp, kk
  <2> QED
    BY <1>1, <1>3, <1>4 DEF InTurn
<1>6. Others(c) /\ Listed(s, dirs', file')
  BY <1>2 DEF Others, LiveInv
<1> QED
  BY <1>1, <1>2, <1>3, <1>5, <1>6, Lives
-----------------------------------------------------------------------------
(* What the server dies of *)

(* The process has died, and nothing moves at the server any more. *)
LEMMA LostStep == ASSUME OwnRemoves, Lost, [Next]_vars PROVE Lost'
<1>1. IInv'
  <2>1. Undisturbed
    BY DEF OwnRemoves, Undisturbed
  <2> QED
    BY <2>1, StepOK DEF Lost
<1>2. srv \in [Clients -> Sessions]
  BY DEF Lost, IInv, Typed
<1>3. UNCHANGED serverSide
  <2>1. ASSUME NEW c \in Clients, ServerLoop(c) PROVE FALSE
    <3>1. CASE Poll(c) \/ HandleRead(c) \/ HandleGets(c) \/ HandleClose(c) \/ ConnectDestroyed(c)
      BY <3>1 DEF Lost, Poll, HandleRead, HandleGets, HandleClose, ConnectDestroyed, Handles
    <3>2. CASE ServerOnMessage(c)
      BY <3>2 DEF Lost, ServerOnMessage, MenuChoice, HandleRegister, RegisterMkdir, LoginStep1, LoginStep2,
         Pwd, Ls, LsStat, Mkdir, Remove, Cd, Puts, PutsOpen, Gets, GetsAccess, GetsStat, GetsOpen, BeginPuts,
         PutsData, GetsAck, Commanded, ServerTakes, Calls
    <3> QED
      BY <2>1, <3>1, <3>2 DEF ServerLoop
  <2> QED
    BY <2>1, ClientLeavesServer DEF Next, vars
<1> QED
  BY <1>1, <1>3 DEF Lost, serverSide, fileSystem, LoggedIn, Stands

SurvivalInv == LiveInv \/ Lost

(* Every step of the system. *)
LEMMA SurvivalStep ==
  ASSUME OwnRemoves, FdsRunOut = FALSE, PollOrders \subseteq {"getsFirst"}, SurvivalInv, [Next]_vars
  PROVE  SurvivalInv'
<1>1. CASE Lost
  BY <1>1, LostStep DEF SurvivalInv
<1>2. CASE LiveInv
  <2>1. IInv'
    <3>1. Undisturbed
      BY DEF OwnRemoves, Undisturbed
    <3> QED
      BY <1>2, <3>1, StepOK DEF LiveInv
  <2>2. ASSUME UNCHANGED vars PROVE LiveInv'
    <3>1. cli' = cli /\ c2s' = c2s /\ srv' = srv /\ aborted' = aborted /\ dirs' = dirs /\ file' = file
      BY <2>2 DEF vars, clientSide, serverSide, fileSystem
    <3> QED
      BY <1>2, <2>1, <3>1 DEF LiveInv
  <2>3. ASSUME NEW c \in Clients, UserTypes(c) \/ ClientOnMessage(c) \/ ClientDies(c) PROVE LiveInv'
    BY <1>2, <2>1, <2>3, ClientTurn, ClientDiesTurn
  <2>4. ASSUME NEW c \in Clients, ServerLoop(c) PROVE LiveInv' \/ Lost'
    BY <1>2, <2>1, <2>4, PollTurn, HandleReadTurn, MessageTurn, HandleGetsTurn, HandleCloseTurn,
       ConnectDestroyedTurn DEF ServerLoop
  <2> QED
    BY <2>2, <2>3, <2>4 DEF Next, SurvivalInv
<1> QED
  BY <1>1, <1>2 DEF SurvivalInv

(* Before anyone has typed anything no channel is registered. *)
LEMMA InitTurn == ASSUME SoundFiles, Init PROVE SurvivalInv
<1>1. IInv
  BY InitOK
<1>2. ASSUME NEW c \in Clients PROVE InTurn(cli[c], c2s[c], srv[c]) /\ Listed(srv[c], dirs, file)
  <2>1. srv[c].gets = "none" /\ srv[c].in = <<>> /\ srv[c].call = "none"
    BY DEF Init, SessionStart
  <2> QED
    BY <2>1 DEF InTurn, Listed
<1> QED
  BY <1>1, <1>2 DEF Init, LiveInv, SurvivalInv

(* Whatever the users type, parameters with ".." included, and whenever a client
   dies, the server dies only of an ls in a working directory that is not there
   any more, which a session can bring about by itself.  The acknowledgement of a
   file never destroys gets_channel_ while it is registered, as long as epoll_wait
   reports that channel before the socket, the server has descriptors left, and no
   other client removes anything. *)
THEOREM Survives ==
  ASSUME SoundFiles, OwnRemoves, PollOrders \subseteq {"getsFirst"}, FdsRunOut = FALSE
  PROVE  Spec => []ServerSurvives
<1>1. Init => SurvivalInv
  BY InitTurn
<1>2. SurvivalInv /\ [Next]_vars => SurvivalInv'
  BY SurvivalStep
<1>3. SurvivalInv => ServerSurvives
  BY DEF SurvivalInv, LiveInv, Lost, ServerSurvives
<1> QED
  BY <1>1, <1>2, <1>3, PTL DEF Spec
=============================================================================
