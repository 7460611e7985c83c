----------------------------- MODULE TcpServer -----------------------------
(***************************************************************************)
(* A TcpServer and the life of its connections: the base loop accepts,     *)
(* keeps connections_ and removes; the loop of a connection establishes    *)
(* it, handles its channel and destroys it.  Loops talk through their      *)
(* queues of functors, and a functor that is bound to a TcpConnectionPtr   *)
(* keeps the connection alive until the batch it ran in is dropped.        *)
(*                                                                         *)
(* A loop is what EventLoop shows it to be: poll, handle what was ready,   *)
(* take the queue, run it.  The wakeups are left to that module.  The      *)
(* server is modelled from the moment it listens, and the message callback *)
(* may use what TcpConnection offers it: send, shutdown and forceClose.    *)
(*                                                                         *)
(* Descriptors are those of the whole process.  The acceptor keeps one     *)
(* idle, to make room with when accept finds none; the threads of the      *)
(* loops open and close others meanwhile, for their users' sessions.       *)
(***************************************************************************)
EXTENDS Naturals, Sequences, FiniteSets

CONSTANTS
  Conns,     \* connections that peers may try to make, numbered in that order
  Base,      \* the loop of the TcpServer
  Pools,     \* the thread pools it may have, sequences of loops; <<>> for no threads
  MaxFd,     \* bound: descriptors the process may have for what is modelled
  MaxOther,  \* bound: descriptors that sessions hold at a time, of so many of the process
  MaxFrames, \* bound: forceClose calls from the frames of one read
  NoConn     \* no connection; as a channel, the acceptor's

LoopsOf(p) == {Base} \cup {p[i] : i \in DOMAIN p}

Loops == UNION {LoopsOf(p) : p \in Pools}

Fds == 1 .. MaxFd

ASSUME ServerAssumption ==
  /\ Conns \subseteq Nat /\ NoConn \notin Conns
  /\ Pools \subseteq Seq(Loops)
  /\ MaxFd \in Nat /\ MaxOther \in [Fds -> Nat] /\ MaxFrames \in Nat

VARIABLES
  pool,       \* loops_ of the thread pool
  maxFd,      \* the process may use the descriptors 1 .. maxFd
  idleFd,     \* idleFd_ of the acceptor; 0 for -1, and while its descriptor is given up
  refusing,   \* what Acceptor::handleRead is to call next without descriptors:
              \*   accept, close, open; or no
  other,      \* the descriptors of files, eventfds and databases of sessions
  conn,       \* per connection: see Unborn
  peer,       \* per connection: none, waiting in the backlog, open, closed, refused
  inMap,      \* the connections in connections_
  poller,     \* channels_ of each loop's EPollPoller: [Loops -> [Fds -> connection]]
  nextLoop,   \* next_ of the thread pool
  phase,      \* per loop: poll, dispatch, functors
  active,     \* per loop: the events that are still to be handled
  pending,    \* per loop: pendingFunctors_
  functors,   \* per loop: the batch that runs, kept until its last functor returned
  ran,        \* per loop: how many functors of the batch have run
  calls,      \* history, per connection: what the connection callback reported
  failed      \* the assertion that ended the process, or "none"

config == <<pool, maxFd>>
acceptor == <<idleFd, refusing, other>>
loopVars == <<phase, active, functors, ran>>
vars == <<config, acceptor, conn, peer, inMap, poller, nextLoop, loopVars, pending, calls, failed>>

Running == failed = "none"

(* state_, its loop, its descriptor (0 when it has none), the index of its
   channel (kNew, kAdded, kDeleted), whether it watches for reading and
   writing, and whether the write side of the socket was shut down.  Output
   waits in outputBuffer_ exactly when the channel watches for writing. *)
Unborn ==
  [state |-> "none", loop |-> Base, fd |-> 0, index |-> "kNew",
   reading |-> FALSE, writing |-> FALSE, shut |-> FALSE]

Alive(k) == conn[k].state \notin {"none", "freed"}

Functor(op, k) == [op |-> op, conn |-> k]

Event(k, what) == [conn |-> k, what |-> what]

Occurs(k, s) == \E i \in DOMAIN s : s[i].conn = k

(* Fault: forgets what the functors hold. *)
HeldElsewhereForgets(k, l) == k \in inMap

(* Somebody other than the batch of loop l holds a TcpConnectionPtr to k. *)
HeldElsewhere(k, l) ==
  \/ k \in inMap
  \/ \E m \in Loops : Occurs(k, pending[m]) \/ (m # l /\ Occurs(k, functors[m]))

Init ==
  /\ pool \in Pools
  /\ maxFd \in Fds
  /\ idleFd = 1
  /\ refusing = "no"
  /\ other = {}
  /\ conn = [k \in Conns |-> Unborn]
  /\ peer = [k \in Conns |-> "none"]
  /\ inMap = {}
  /\ poller = [l \in Loops |-> [d \in Fds |-> NoConn]]
  /\ nextLoop = 1
  /\ phase = [l \in Loops |-> "poll"]
  /\ active = [l \in Loops |-> {}]
  /\ pending = [l \in Loops |-> <<>>]
  /\ functors = [l \in Loops |-> <<>>]
  /\ ran = [l \in Loops |-> 0]
  /\ calls = [k \in Conns |-> <<>>]
  /\ failed = "none"
-----------------------------------------------------------------------------
(* The peers *)

Connect(k) ==
  /\ Running
  /\ peer[k] = "none" /\ \A j \in Conns : j < k => peer[j] # "none"
  /\ peer' = [peer EXCEPT ![k] = "waiting"]
  /\ UNCHANGED <<conn, inMap, poller, config, acceptor, nextLoop, loopVars, pending, calls, failed>>

PeerCloses(k) ==
  /\ Running
  /\ peer[k] = "open"
  /\ peer' = [peer EXCEPT ![k] = "closed"]
  /\ UNCHANGED <<conn, inMap, poller, config, acceptor, nextLoop, loopVars, pending, calls, failed>>
-----------------------------------------------------------------------------
(* The loops *)

Watched(k, l) == Alive(k) /\ conn[k].loop = l /\ conn[k].index = "kAdded"

(* epoll_wait reports the end of a stream until it has been read and a backlog
   until it is empty, and data or room to write when there happens to be some. *)
Poll(l) ==
  /\ Running
  /\ l \in LoopsOf(pool)
  /\ phase[l] = "poll"
  /\ LET ended  == {k \in Conns : Watched(k, l) /\ conn[k].reading /\ peer[k] = "closed"}
         inputs == {k \in Conns : Watched(k, l) /\ conn[k].reading /\ peer[k] = "open"}
         roomy  == {k \in Conns : Watched(k, l) /\ conn[k].writing}
         queued == IF l = Base /\ \E k \in Conns : peer[k] = "waiting" THEN {NoConn} ELSE {}
     IN  \E data \in SUBSET inputs, room \in SUBSET roomy :
           active' = [active EXCEPT ![l] = {Event(k, "in") : k \in queued \cup ended \cup data}
                                             \cup {Event(k, "out") : k \in room}]
  /\ phase' = [phase EXCEPT ![l] = "dispatch"]
  /\ UNCHANGED <<conn, peer, inMap, poller, config, acceptor, nextLoop, functors, ran, pending, calls, failed>>

SwapFunctors(l) ==
  /\ Running
  /\ phase[l] = "dispatch" /\ active[l] = {}
  /\ functors' = [functors EXCEPT ![l] = pending[l]]
  /\ pending' = [pending EXCEPT ![l] = <<>>]
  /\ ran' = [ran EXCEPT ![l] = 0]
  /\ phase' = [phase EXCEPT ![l] = "functors"]
  /\ UNCHANGED <<conn, peer, inMap, poller, config, acceptor, nextLoop, active, calls, failed>>

(* The last TcpConnectionPtr of each connection in S goes: ~TcpConnection wants
   the connection disconnected, ~Channel wants its channel out of the poller, and
   ~Socket closes the descriptor. *)
Destruct(S) ==
  /\ conn' = [k \in Conns |-> IF k \in S THEN [conn[k] EXCEPT !.state = "freed", !.fd = 0]
                              ELSE conn[k]]
  /\ failed' = IF \E k \in S : conn[k].state # "kDisconnected" THEN "~TcpConnection"
               ELSE IF \E k \in S : conn[k].index # "kNew" THEN "~Channel"
               ELSE failed

(* The vector of functors goes out of scope, and with it what they held. *)
FunctorsDone(l) ==
  /\ Running
  /\ phase[l] = "functors" /\ ran[l] = Len(functors[l])
  /\ Destruct({k \in Conns : Occurs(k, functors[l]) /\ Alive(k) /\ ~HeldElsewhere(k, l)})
  /\ functors' = [functors EXCEPT ![l] = <<>>]
  /\ ran' = [ran EXCEPT ![l] = 0]
  /\ phase' = [phase EXCEPT ![l] = "poll"]
  /\ UNCHANGED <<peer, inMap, poller, config, acceptor, nextLoop, active, pending, calls>>
-----------------------------------------------------------------------------
(* Accepting: Acceptor::handleRead and TcpServer::newConnection, on the base loop *)

FreeFds == {d \in 1 .. maxFd \ (other \cup {idleFd}) : \A k \in Conns : conn[k].fd # d}

(* The kernel gives the lowest descriptor that is free, if there is one. *)
LowestFd == {d \in FreeFds : \A e \in FreeFds : d <= e}

(* getNextLoop: round robin over the pool, the base loop when there is none. *)
NextLoop == IF pool = <<>> THEN Base ELSE pool[nextLoop]

RoundRobin == IF pool = <<>> THEN 1 ELSE (nextLoop % Len(pool)) + 1

(* accept takes who has waited longest. *)
FirstWaiting(k) == peer[k] = "waiting" /\ \A j \in Conns : peer[j] = "waiting" => k <= j

Accepting(k) ==
  /\ Running
  /\ phase[Base] = "dispatch" /\ Event(NoConn, "in") \in active[Base]
  /\ refusing = "no"
  /\ FirstWaiting(k)
  /\ active' = [active EXCEPT ![Base] = @ \ {Event(NoConn, "in")}]

(* connectEstablished: wants the connection kConnecting, and the descriptor
   free in channels_ of its loop's poller. *)
Establish(k, c) ==
  /\ conn' = [conn EXCEPT ![k] = [c EXCEPT !.state = "kConnected", !.index = "kAdded",
                                           !.reading = TRUE]]
  /\ poller' = [poller EXCEPT ![c.loop][c.fd] = k]
  /\ calls' = [calls EXCEPT ![k] = Append(@, "UP")]
  /\ failed' = IF c.state # "kConnecting" THEN "connectEstablished"
               ELSE IF poller[c.loop][c.fd] # NoConn THEN "updateChannel"
               ELSE failed

NewConnection(k) ==
  /\ Accepting(k)
  /\ \E d \in LowestFd :
       LET new == [Unborn EXCEPT !.state = "kConnecting", !.loop = NextLoop, !.fd = d]
       IN  \/ /\ NextLoop = Base
              /\ Establish(k, new)
              /\ UNCHANGED pending
           \/ /\ NextLoop # Base
              /\ conn' = [conn EXCEPT ![k] = new]
              /\ pending' = [pending EXCEPT ![NextLoop] = Append(@, Functor("connectEstablished", k))]
              /\ UNCHANGED <<calls, poller, failed>>
  /\ inMap' = inMap \cup {k}
  /\ peer' = [peer EXCEPT ![k] = "open"]
  /\ nextLoop' = RoundRobin
  /\ UNCHANGED <<config, acceptor, phase, functors, ran>>

(* accept finds no descriptor: Acceptor::handleRead turns the peer away with the
   idle one.  It takes four calls, between which other threads may run. *)
Refusing(call) ==
  /\ Running
  /\ refusing = call
  /\ UNCHANGED <<config, conn, inMap, poller, nextLoop, phase, functors, ran, pending, calls, failed>>

(* What accept or open returns: the lowest descriptor, or -1. *)
Opened(d) == IF FreeFds = {} THEN d = 0 ELSE d \in LowestFd

(* Fault: the idle descriptor is not given up. *)
CloseIdleNot ==
  /\ Refusing("no")
  /\ \E k \in Conns : Accepting(k)
  /\ FreeFds = {}
  /\ UNCHANGED <<peer, acceptor>>

CloseIdle ==
  /\ Refusing("no")
  /\ FreeFds = {}
  /\ phase[Base] = "dispatch" /\ Event(NoConn, "in") \in active[Base]
  /\ \E k \in Conns : peer[k] = "waiting"
  /\ idleFd' = 0
  /\ refusing' = "accept"
  /\ UNCHANGED <<peer, active, other>>

(* accept, unless somebody else took the descriptor. *)
IdleAccept ==
  /\ Refusing("accept")
  /\ Opened(idleFd')
  /\ \/ idleFd' = 0 /\ UNCHANGED peer
     \/ /\ idleFd' # 0
        /\ \E k \in Conns : /\ FirstWaiting(k)
                            /\ peer' = [peer EXCEPT ![k] = "refused"]
  /\ refusing' = "close"
  /\ UNCHANGED <<active, other>>

IdleClose ==
  /\ Refusing("close")
  /\ idleFd' = 0
  /\ refusing' = "open"
  /\ UNCHANGED <<peer, active, other>>

(* open of /dev/null, whose failure leaves the acceptor without an idle one. *)
IdleOpen ==
  /\ Refusing("open")
  /\ Opened(idleFd')
  /\ refusing' = "no"
  /\ active' = [active EXCEPT ![Base] = @ \ {Event(NoConn, "in")}]
  /\ UNCHANGED <<peer, other>>

(* The session of a connection opens a file, an eventfd or a database, on its
   loop's thread: not while the base loop's is in the acceptor. *)
SessionRuns(k) ==
  /\ Running
  /\ conn[k].state = "kConnected"
  /\ conn[k].loop = Base => refusing = "no"
  /\ UNCHANGED <<config, idleFd, refusing, conn, peer, inMap, poller, nextLoop, loopVars, pending,
                 calls, failed>>

SessionOpens(k) ==
  /\ SessionRuns(k)
  /\ Cardinality(other) < MaxOther[maxFd]
  /\ \E d \in LowestFd : other' = other \cup {d}

SessionCloses(k) ==
  /\ SessionRuns(k)
  /\ \E d \in other : other' = other \ {d}
-----------------------------------------------------------------------------
(* The channel of a connection *)

(* Fault: handleClose closes the socket, so that its descriptor is free at once. *)
DisabledAllCloses(c) ==
  [c EXCEPT !.reading = FALSE, !.writing = FALSE, !.fd = 0,
            !.index = IF @ = "kAdded" THEN "kDeleted" ELSE "kAdded"]

(* disableAll leaves the channel in channels_; Channel::update on a channel that
   was deleted from epoll adds it again, with nothing to watch. *)
DisabledAll(c) ==
  [c EXCEPT !.reading = FALSE, !.writing = FALSE,
            !.index = IF @ = "kAdded" THEN "kDeleted" ELSE "kAdded"]

(* Fault: the connection stays in connections_. *)
RemoveConnectionInLoopKeeps(k) ==
  /\ pending' = [pending EXCEPT ![conn[k].loop] = Append(@, Functor("connectDestroyed", k))]
  /\ UNCHANGED inMap

(* removeConnectionInLoop: wants the connection in connections_. *)
RemoveConnectionInLoop(k) ==
  /\ inMap' = inMap \ {k}
  /\ pending' = [pending EXCEPT ![conn[k].loop] = Append(@, Functor("connectDestroyed", k))]

(* handleClose, and TcpServer::removeConnection as its last call: at once when
   the connection lives on the base loop, else through the base loop's queue. *)
HandleClose(k) ==
  /\ conn' = [conn EXCEPT ![k] = DisabledAll([@ EXCEPT !.state = "kDisconnected"])]
  /\ calls' = [calls EXCEPT ![k] = Append(@, "DOWN")]
  /\ \/ /\ conn[k].loop = Base
        /\ RemoveConnectionInLoop(k)
     \/ /\ conn[k].loop # Base
        /\ pending' = [pending EXCEPT ![Base] = Append(@, Functor("removeConnectionInLoop", k))]
        /\ UNCHANGED inMap
  /\ failed' = IF conn[k].state \notin {"kConnected", "kDisconnecting"} THEN "handleClose"
               ELSE IF conn[k].loop = Base /\ k \notin inMap THEN "removeConnectionInLoop"
               ELSE failed

Handling(l, k, what) ==
  /\ Running
  /\ phase[l] = "dispatch" /\ Event(k, what) \in active[l]
  /\ l = Base => refusing = "no"
  /\ active' = [active EXCEPT ![l] = @ \ {Event(k, what)}]
  /\ UNCHANGED <<peer, poller, config, acceptor, nextLoop, phase, functors, ran>>

(* handleRead finds the end of the stream. *)
HandleReadEnd(l, k) ==
  /\ peer[k] = "closed"
  /\ Handling(l, k, "in")
  /\ HandleClose(k)

(* shutdownInLoop: half-closes unless output waits; handleWrite does it then. *)
ShutdownInLoop(c) == IF c.writing THEN c ELSE [c EXCEPT !.shut = TRUE]

(* What the message callback may do with its connection; one read may hand it
   several frames. *)
Callback(k) ==
  \/ UNCHANGED <<conn, pending>>
  \/ \* send, of more than the socket takes
     /\ conn[k].state = "kConnected"
     /\ conn' = [conn EXCEPT ![k].writing = TRUE]
     /\ UNCHANGED pending
  \/ \* shutdown
     /\ conn[k].state = "kConnected"
     /\ conn' = [conn EXCEPT ![k] = ShutdownInLoop([@ EXCEPT !.state = "kDisconnecting"])]
     /\ UNCHANGED pending
  \/ \* forceClose, for one frame or for several
     /\ conn[k].state \in {"kConnected", "kDisconnecting"}
     /\ conn' = [conn EXCEPT ![k].state = "kDisconnecting"]
     /\ \E n \in 1 .. MaxFrames :
          pending' = [pending EXCEPT ![conn[k].loop] =
                        @ \o [i \in 1 .. n |-> Functor("forceCloseInLoop", k)]]

(* handleRead finds data, and calls back with it. *)
HandleReadData(l, k) ==
  /\ peer[k] \in {"open", "closed"}
  /\ Handling(l, k, "in")
  /\ Callback(k)
  /\ UNCHANGED <<inMap, calls, failed>>

(* handleWrite, after handleRead of the same channel: writes some of what waits
   or all of it, and then half-closes if that was waited for. *)
HandleWrite(l, k) ==
  /\ Event(k, "in") \notin active[l]
  /\ Handling(l, k, "out")
  /\ \/ UNCHANGED conn
     \/ /\ conn[k].writing
        /\ LET drained == [conn[k] EXCEPT !.writing = FALSE]
           IN  conn' = [conn EXCEPT ![k] = IF @.state = "kDisconnecting" THEN ShutdownInLoop(drained)
                                           ELSE drained]
  /\ UNCHANGED <<inMap, pending, calls, failed>>
-----------------------------------------------------------------------------
(* The functors *)

RunFunctor(l, op, k) ==
  /\ Running
  /\ phase[l] = "functors" /\ ran[l] < Len(functors[l])
  /\ functors[l][ran[l] + 1] = Functor(op, k)
  /\ ran' = [ran EXCEPT ![l] = @ + 1]
  /\ UNCHANGED <<peer, config, acceptor, nextLoop, phase, active, functors>>

ConnectEstablished(l, k) ==
  /\ RunFunctor(l, "connectEstablished", k)
  /\ Establish(k, conn[k])
  /\ UNCHANGED <<inMap, pending>>

RemoveConnection(l, k) ==
  /\ RunFunctor(l, "removeConnectionInLoop", k)
  /\ RemoveConnectionInLoop(k)
  /\ failed' = IF k \notin inMap THEN "removeConnectionInLoop" ELSE failed
  /\ UNCHANGED <<conn, poller, calls>>

(* Fault: connectDestroyed leaves the channel in channels_. *)
ConnectDestroyedLeaves(l, k) ==
  /\ RunFunctor(l, "connectDestroyed", k)
  /\ conn' = [conn EXCEPT ![k].index = "kNew"]
  /\ UNCHANGED <<poller, inMap, pending, calls, failed>>

(* removeChannel wants the channel in channels_, with no events left. *)
Removable(l, k) ==
  /\ poller[l][conn[k].fd] = k
  /\ ~conn[k].reading /\ ~conn[k].writing
  /\ conn[k].index # "kNew"

(* connectDestroyed: the connection is still kConnected only when the server
   itself goes, which is not modelled. *)
ConnectDestroyed(l, k) ==
  /\ RunFunctor(l, "connectDestroyed", k)
  /\ conn' = [conn EXCEPT ![k].index = "kNew"]
  /\ poller' = [poller EXCEPT ![l][conn[k].fd] = NoConn]
  /\ failed' = IF Removable(l, k) THEN failed ELSE "removeChannel"
  /\ UNCHANGED <<inMap, pending, calls>>

(* Fault: forceCloseInLoop does not look at the state again. *)
ForceCloseInLoopBlindly(l, k) ==
  /\ RunFunctor(l, "forceCloseInLoop", k)
  /\ HandleClose(k)
  /\ UNCHANGED poller

ForceCloseInLoop(l, k) ==
  /\ RunFunctor(l, "forceCloseInLoop", k)
  /\ \/ /\ conn[k].state \in {"kConnected", "kDisconnecting"}
        /\ HandleClose(k)
     \/ /\ conn[k].state \notin {"kConnected", "kDisconnecting"}
        /\ UNCHANGED <<conn, inMap, pending, calls, failed>>
  /\ UNCHANGED poller
-----------------------------------------------------------------------------
LoopStep(l) ==
  \/ Poll(l) \/ SwapFunctors(l) \/ FunctorsDone(l)
  \/ \E k \in Conns :
       \/ HandleReadEnd(l, k) \/ HandleReadData(l, k) \/ HandleWrite(l, k)
       \/ ConnectEstablished(l, k) \/ RemoveConnection(l, k)
       \/ ConnectDestroyed(l, k) \/ ForceCloseInLoop(l, k)
       \/ l = Base /\ NewConnection(k)
  \/ l = Base /\ (CloseIdle \/ IdleAccept \/ IdleClose \/ IdleOpen)

Next ==
  \/ \E k \in Conns : Connect(k) \/ PeerCloses(k) \/ SessionOpens(k) \/ SessionCloses(k)
  \/ \E l \in Loops : LoopStep(l)

Spec == Init /\ [][Next]_vars

(* Every loop's thread goes on, and a stream has an end: data that was sent
   before the peer closed runs out. *)
Fairness ==
  /\ \A l \in Loops : WF_vars(LoopStep(l))
  /\ \A l \in Loops, k \in Conns : SF_vars(HandleReadEnd(l, k))

FairSpec == Spec /\ Fairness
-----------------------------------------------------------------------------
(* Properties *)

Connections ==
  [state : {"none", "kConnecting", "kConnected", "kDisconnecting", "kDisconnected", "freed"},
   loop : Loops, fd : Fds \cup {0}, index : {"kNew", "kAdded", "kDeleted"},
   reading : BOOLEAN, writing : BOOLEAN, shut : BOOLEAN]

Functors ==
  [op : {"connectEstablished", "removeConnectionInLoop", "connectDestroyed", "forceCloseInLoop"},
   conn : Conns]

(* The types of the server's state, and that a connection has a descriptor
   exactly as long as its object lives. *)
TypeOK ==
  /\ pool \in Pools /\ maxFd \in Fds
  /\ idleFd \in Fds \cup {0} /\ other \subseteq Fds
  /\ refusing \in {"no", "accept", "close", "open"}
  /\ conn \in [Conns -> Connections]
  /\ \A k \in Conns : conn[k].fd # 0 <=> Alive(k)
  /\ peer \in [Conns -> {"none", "waiting", "open", "closed", "refused"}]
  /\ inMap \subseteq Conns
  /\ poller \in [Loops -> [Fds -> Conns \cup {NoConn}]]
  /\ nextLoop \in Nat \ {0}
  /\ phase \in [Loops -> {"poll", "dispatch", "functors"}]
  /\ active \in [Loops -> SUBSET [conn : Conns \cup {NoConn}, what : {"in", "out"}]]
  /\ pending \in [Loops -> Seq(Functors)]
  /\ functors \in [Loops -> Seq(Functors)]
  /\ \A l \in Loops : ran[l] \in 0 .. Len(functors[l])

(* None of the assertions of Channel, EPollPoller, TcpConnection and TcpServer
   on the life of a connection fails, in whatever order the loops run. *)
NoAssertionFails == failed = "none"

(* The poller's pointers do not dangle: a channel in channels_, and one that
   epoll reported, belongs to a connection that lives on that loop and still
   has that descriptor. *)
NoDanglingChannel ==
  \A l \in Loops :
    /\ \A d \in Fds : LET k == poller[l][d] IN
         k # NoConn => Alive(k) /\ conn[k].loop = l /\ conn[k].fd = d /\ conn[k].index # "kNew"
    /\ \A e \in active[l] : e.conn # NoConn => Alive(e.conn) /\ conn[e.conn].loop = l

(* A connection whose peer closed goes: freed, its descriptor with it. *)
ClosedPeersFreed == \A k \in Conns : peer[k] = "closed" ~> conn[k].state = "freed"

(* The acceptor is without its idle descriptor: accept or open did not get it
   back, since a session's thread had taken it. *)
IdleTaken == idleFd = 0 /\ refusing \in {"close", "no"}

(* The backlog is worked off, its peers accepted or turned away, even without
   descriptors: one waits for ever only if sessions take the idle one, again and
   again or for good. *)
BacklogServed ==
  (\E k \in Conns : peer[k] = "waiting") ~> (\A k \in Conns : peer[k] # "waiting") \/ IdleTaken

Life == INSTANCE ConnectionLife WITH
  NoFd <- 0,
  fd   <- [k \in Conns |-> conn[k].fd],
  life <- [k \in Conns |->
             IF ~Alive(k) THEN conn[k].state
             ELSE CASE calls[k] = <<>> -> "accepted"
                    [] calls[k] = <<"UP">> -> "up"
                    [] calls[k] = <<"UP", "DOWN">> -> "down"
                    [] OTHER -> "broken"]

(* Each connection lives as ConnectionLife says: UP once, DOWN once, freed. *)
LifeSpec == Life!Spec
=============================================================================
