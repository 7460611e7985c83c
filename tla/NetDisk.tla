------------------------------ MODULE NetDisk ------------------------------
(***************************************************************************)
(* What the netdisk promises its users.  A file appears on the server, or  *)
(* on a client, whole and in one step; it differs from the file it was     *)
(* copied from only when the client died during the transfer, and then it  *)
(* is a prefix.  Only a name that several clients put at the same time may *)
(* end up with bytes of each, and only such a name is written over.  A     *)
(* directory goes only when it is empty.  Files belong to nobody: a client *)
(* that is logged in may work on any path.  Nothing is said of frames,     *)
(* states or channels.                                                     *)
(***************************************************************************)
EXTENDS Naturals, Sequences

CONSTANTS
  Clients, Users, Paths, Params, NoFile,
  Users0, Disk0, Local0   \* the users and files there are from the start

VARIABLES
  users,   \* registered users
  who,     \* per client: the user it is logged in as, or NoFile
  dirs,    \* directories on the server
  disk,    \* per path: the content of the file there, or NoFile
  by,      \* per path: <<client, parameter>> that were let put there since the name was free
  local,   \* per client and parameter: the content of the local file, or NoFile
  dead     \* clients whose process ended

vars == <<users, who, dirs, disk, by, local, dead>>

Init ==
  /\ users = Users0
  /\ who = [c \in Clients |-> NoFile]
  /\ dirs = {<<>>} \cup {<<u>> : u \in Users0}
  /\ disk = Disk0
  /\ by = [p \in Paths |-> {}]
  /\ local = Local0
  /\ dead = {}

Prefixes(s) == {SubSeq(s, 1, n) : n \in 0 .. Len(s)}

(* A parameter that may lead to p: both end in the same name. *)
LeadsTowards(a, p) == a.down # <<>> /\ p # <<>> /\ a.down[Len(a.down)] = p[Len(p)]

LoggedIn(c) == who[c] # NoFile

Register(u) ==
  /\ u \notin users
  /\ users' = users \cup {u}
  /\ UNCHANGED <<who, dirs, disk, by, local, dead>>

(* A user's directory is made after the user is registered, if at all. *)
MakeHome(u) ==
  /\ u \in users
  /\ <<u>> \notin dirs /\ disk[<<u>>] = NoFile
  /\ dirs' = dirs \cup {<<u>>}
  /\ UNCHANGED <<users, who, disk, by, local, dead>>

Login(c, u) ==
  /\ who[c] = NoFile
  /\ u \in users
  /\ who' = [who EXCEPT ![c] = u]
  /\ UNCHANGED <<users, dirs, disk, by, local, dead>>

Mkdir(c, p) ==
  /\ LoggedIn(c)
  /\ p \notin dirs /\ disk[p] = NoFile
  /\ dirs' = dirs \cup {p}
  /\ UNCHANGED <<users, who, disk, by, local, dead>>

Remove(c, p) ==
  /\ LoggedIn(c) /\ p # <<>>
  /\ \A q \in Paths : Len(q) = Len(p) + 1 /\ SubSeq(q, 1, Len(p)) = p
       => q \notin dirs /\ disk[q] = NoFile
  /\ dirs' = dirs \ {p}
  /\ disk' = [disk EXCEPT ![p] = NoFile]
  /\ \E S \in SUBSET by[p] : by' = [by EXCEPT ![p] = S]
  /\ UNCHANGED <<users, who, local, dead>>

(* A client may put a file where nothing is. *)
Begin(c, a, p) ==
  /\ LoggedIn(c) /\ LeadsTowards(a, p)
  /\ local[c][a] # NoFile
  /\ p \notin dirs /\ disk[p] = NoFile
  /\ by' = [by EXCEPT ![p] = @ \cup {<<c, a>>}]
  /\ UNCHANGED <<users, who, dirs, disk, local, dead>>

(* Some of those whose file has not arrived yet put it nowhere. *)
Abandon(p) ==
  /\ \E S \in SUBSET by[p] : by' = [by EXCEPT ![p] = S]
  /\ UNCHANGED <<users, who, dirs, disk, local, dead>>

(* What the clients in W make of a file together: each byte is where one of them
   has it, and nothing of a client that lives is missing.  What a single client
   makes is its local file, or a prefix of it when it died. *)
Written(content, W) ==
  /\ \A i \in DOMAIN content :
       \E w \in W : LET own == local[w[1]][w[2]] IN i <= Len(own) /\ content[i] = own[i]
  /\ \A w \in W : w[1] \in dead \/ Len(local[w[1]][w[2]]) <= Len(content)

(* A file arrives on the server. *)
Put(p) ==
  /\ p \notin dirs /\ disk[p] = NoFile /\ disk'[p] # NoFile
  /\ \E W \in SUBSET by[p] : W # {} /\ Written(disk'[p], W)
  /\ disk' = [disk EXCEPT ![p] = disk'[p]]
  /\ UNCHANGED <<users, who, dirs, by, local, dead>>

(* One of several is late, and opens the file another has put already. *)
Reopen(p) ==
  /\ disk[p] # NoFile
  /\ \E v, w \in by[p] : v[1] # w[1]
  /\ disk' = [disk EXCEPT ![p] = NoFile]
  /\ UNCHANGED <<users, who, dirs, by, local, dead>>

(* A file arrives on the client. *)
Fetch(c, a, p, content) ==
  /\ LoggedIn(c) /\ LeadsTowards(a, p)
  /\ local[c][a] = NoFile
  /\ local' = [local EXCEPT ![c][a] = content]
  /\ UNCHANGED <<users, who, dirs, disk, by>>

Get(c, a, p) == disk[p] # NoFile /\ Fetch(c, a, p, disk[p]) /\ UNCHANGED dead

Dies(c) == c \notin dead /\ dead' = dead \cup {c}

(* When the client dies in between, a prefix is left, or nothing but the name. *)
GetLost(c, a, p) ==
  Dies(c) /\ \E s \in {<<>>} \cup IF disk[p] = NoFile THEN {} ELSE Prefixes(disk[p]) : Fetch(c, a, p, s)

Die(c) == Dies(c) /\ UNCHANGED <<users, who, dirs, disk, by, local>>

Next ==
  \/ \E u \in Users : Register(u) \/ MakeHome(u)
  \/ \E c \in Clients : Die(c) \/ \E u \in Users : Login(c, u)
  \/ \E p \in Paths : Abandon(p) \/ Put(p) \/ Reopen(p)
  \/ \E c \in Clients, p \in Paths :
       \/ Mkdir(c, p) \/ Remove(c, p)
       \/ \E a \in Params : Begin(c, a, p) \/ Get(c, a, p) \/ GetLost(c, a, p)

Spec == Init /\ [][Next]_vars
=============================================================================
