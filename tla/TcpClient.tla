----------------------------- MODULE TcpClient -----------------------------
(***************************************************************************)
(* The client process: its TcpClients, each with a Connector and at most   *)
(* one connection, on a single loop with one poller.  The clients connect  *)
(* one after the other, each when the one before it is up.                 *)
(*                                                                         *)
(* Every connection has two channels, one for its socket and one for the   *)
(* keyboard, descriptor 0.  What a user types belongs to NetdiskClient.    *)
(*                                                                         *)
(* retry() sleeps and calls startInLoop at once, inside whatever handler   *)
(* called it: "attempt" says in which connector the loop's thread is, and  *)
(* "retries" how many calls of retry() are on its stack.  Each of them     *)
(* doubles the delay when it returns.                                      *)
(***************************************************************************)
EXTENDS Naturals, Sequences

CONSTANTS
  NumClients,  \* TcpClients of the process, the second argument of main
  MaxFd,       \* bound: descriptors sockets may have, above 0, the keyboard
  Delays       \* values of retryDelayMs_, in order: doubled each time, to a limit

Clients == 1 .. NumClients

Stdin == 0

Fds == 1 .. MaxFd

ASSUME ClientAssumption ==
  /\ NumClients \in Nat \ {0}
  /\ MaxFd \in Nat
  /\ Delays \in Seq(Nat) /\ Delays # <<>>

VARIABLES
  connector,  \* per client: state_, channel_ (its descriptor, or 0), index of retryDelayMs_,
              \*   calls of retry() on the stack (as many as Delays are as good as more)
  conn,       \* per client: the connection's state and descriptor
  poller,     \* channels_ of the poller: the owner of the channel, or Nobody
  open,       \* the sockets that are open
  net,        \* per socket: pending, ok, error or self while it connects; up, gone after
  attempt,    \* the client the loop's thread tries to connect for, or 0
  current,    \* how many connections came up: current of main, counted from 1
  phase,      \* poll, dispatch, functors
  active,     \* the channels that are still to be handled, by owner
  pending,    \* pendingFunctors_
  functors,   \* the batch that runs
  failed      \* the assertion that ended the process, or "none"

loopVars == <<phase, active, functors>>
vars == <<connector, conn, poller, open, net, attempt, current, loopVars, pending, failed>>

Owner(kind, i) == [kind |-> kind, client |-> i]

Nobody == Owner("nobody", 0)

Functor(op, i) == [op |-> op, client |-> i]

(* The loop's thread runs, outside startInLoop. *)
AtLoop == failed = "none" /\ attempt = 0

(* main connects the first client, and enters the loop then. *)
Init ==
  /\ connector = [i \in Clients |-> [state |-> "kDisconnected", channel |-> 0, delay |-> 1,
                                    retries |-> 0]]
  /\ conn = [i \in Clients |-> [state |-> "none", fd |-> 0]]
  /\ poller = [d \in {Stdin} \cup Fds |-> Nobody]
  /\ open = {}
  /\ net = [d \in Fds |-> "none"]
  /\ attempt = 1
  /\ current = 1
  /\ phase = "poll"
  /\ active = {}
  /\ pending = <<>>
  /\ functors = <<>>
  /\ failed = "none"
-----------------------------------------------------------------------------
(* Connector::connect, for the client "attempt" names *)

LowestFd == {d \in Fds \ open : \A e \in Fds \ open : d <= e}

Connecting(i) ==
  /\ failed = "none"
  /\ attempt = i
  /\ connector[i].state = "kDisconnected"

(* Fault: no limit to the delay. *)
DoubledForever(delay, retries) == delay + retries

(* retryDelayMs_ doubled by so many calls of retry(). *)
Doubled(delay, retries) ==
  IF delay + retries < Len(Delays) THEN delay + retries ELSE Len(Delays)

(* connect() returns, and with it the calls of retry() it was nested in. *)
Returned(c) == [c EXCEPT !.delay = Doubled(c.delay, c.retries), !.retries = 0]

(* One more call of retry(). *)
Nested(c) == [c EXCEPT !.retries = IF @ < Len(Delays) THEN @ + 1 ELSE @]

(* connecting(): wants the channel of the last attempt reset by now. *)
ConnectPends(i) ==
  /\ Connecting(i)
  /\ \E d \in LowestFd :
       /\ open' = open \cup {d}
       /\ net' = [net EXCEPT ![d] = "pending"]
       /\ connector' = [connector EXCEPT
            ![i] = [Returned(@) EXCEPT !.state = "kConnecting", !.channel = d]]
       /\ poller' = [poller EXCEPT ![d] = Owner("connector", i)]
       /\ failed' = IF connector[i].channel # 0 THEN "connecting"
                    ELSE IF poller[d] # Nobody THEN "updateChannel"
                    ELSE failed
  /\ attempt' = 0
  /\ UNCHANGED <<conn, current, loopVars, pending>>

(* Refused at once: retry() closes the socket, sleeps, and is in startInLoop again. *)
ConnectRefused(i) ==
  /\ Connecting(i)
  /\ connector' = [connector EXCEPT ![i] = Nested(@)]
  /\ UNCHANGED <<conn, poller, open, net, attempt, current, loopVars, pending, failed>>

(* Fault: a connect that is not retried leaves its socket open. *)
ConnectFailsLeaks(i) ==
  /\ Connecting(i)
  /\ attempt' = 0
  /\ \E d \in LowestFd : open' = open \cup {d}
  /\ UNCHANGED <<connector, conn, poller, net, current, loopVars, pending, failed>>

(* An error that is not retried: the socket is closed. *)
ConnectFails(i) ==
  /\ Connecting(i)
  /\ connector' = [connector EXCEPT ![i] = Returned(@)]
  /\ attempt' = 0
  /\ UNCHANGED <<conn, poller, open, net, current, loopVars, pending, failed>>
-----------------------------------------------------------------------------
(* The network *)

(* A connect comes to its end. *)
Resolve(d) ==
  /\ failed = "none"
  /\ d \in open /\ net[d] = "pending"
  /\ \E r \in {"ok", "error", "self"} : net' = [net EXCEPT ![d] = r]
  /\ UNCHANGED <<connector, conn, poller, open, attempt, current, loopVars, pending, failed>>

ServerCloses(d) ==
  /\ failed = "none"
  /\ d \in open /\ net[d] = "up"
  /\ net' = [net EXCEPT ![d] = "gone"]
  /\ UNCHANGED <<connector, conn, poller, open, attempt, current, loopVars, pending, failed>>
-----------------------------------------------------------------------------
(* The loop *)

Ready == {poller[d] : d \in {e \in open : net[e] \in {"ok", "error", "self", "gone"}}}

Poll ==
  /\ AtLoop
  /\ phase = "poll"
  /\ \E typed \in SUBSET ({poller[Stdin]} \ {Nobody}) : active' = Ready \cup typed
  /\ phase' = "dispatch"
  /\ UNCHANGED <<connector, conn, poller, open, net, attempt, current, functors, pending, failed>>

SwapFunctors ==
  /\ AtLoop
  /\ phase = "dispatch" /\ active = {}
  /\ phase' = "functors"
  /\ functors' = pending
  /\ pending' = <<>>
  /\ UNCHANGED <<connector, conn, poller, open, net, attempt, current, active, failed>>

Handling(owner) ==
  /\ AtLoop
  /\ phase = "dispatch" /\ owner \in active
  /\ active' = active \ {owner}
  /\ UNCHANGED <<phase, functors>>

(* removeAndResetChannel leaves the reset to a functor, since the channel may be
   handling an event. *)
RemoveAndResetChannel(i) ==
  pending' = Append(pending, Functor("resetChannel", i))

(* The connect failed: handleError, or handleWrite on a self-connect.  retry()
   closes the socket, sleeps and starts again within the handler.  Of an error
   handleWrite hears as well, after handleError: it finds kDisconnected then,
   or the process dead. *)
HandleError(i) ==
  LET d == connector[i].channel IN
  /\ Handling(Owner("connector", i))
  /\ connector[i].state = "kConnecting" /\ net[d] \in {"error", "self"}
  /\ RemoveAndResetChannel(i)
  /\ poller' = [poller EXCEPT ![d] = Nobody]
  /\ open' = open \ {d}
  /\ net' = [net EXCEPT ![d] = "none"]
  /\ connector' = [connector EXCEPT ![i] = [Nested(@) EXCEPT !.state = "kDisconnected"]]
  /\ attempt' = i
  /\ UNCHANGED <<conn, current, failed>>

(* connectEstablished registers both channels of the connection; the connector's
   channel has just left the descriptor. *)
ConnectEstablished(i, d) ==
  /\ poller' = [poller EXCEPT ![d] = Owner("connection", i), ![Stdin] = Owner("keyboard", i)]
  /\ failed' = IF poller[Stdin] # Nobody THEN "updateChannel" ELSE failed

(* onConnection starts the next client from within the handler. *)
StartNext ==
  /\ current' = current + 1
  /\ attempt' = IF current < NumClients THEN current + 1 ELSE 0

(* TcpClient::newConnection, which calls connectEstablished. *)
NewConnection(i, d) ==
  /\ conn' = [conn EXCEPT ![i] = [state |-> "kConnected", fd |-> d]]
  /\ ConnectEstablished(i, d)
  /\ StartNext

(* The connect succeeded. *)
HandleWrite(i) ==
  LET d == connector[i].channel IN
  /\ Handling(Owner("connector", i))
  /\ connector[i].state = "kConnecting" /\ net[d] = "ok"
  /\ net' = [net EXCEPT ![d] = "up"]
  /\ RemoveAndResetChannel(i)
  /\ connector' = [connector EXCEPT ![i].state = "kConnected"]
  /\ NewConnection(i, d)
  /\ UNCHANGED open

(* Fault: handleClose closes the descriptor. *)
HandleCloseCloses(i) ==
  /\ Handling(Owner("connection", i))
  /\ conn' = [conn EXCEPT ![i] = [state |-> "kDisconnected", fd |-> 0]]
  /\ open' = open \ {conn[i].fd}
  /\ net' = [net EXCEPT ![conn[i].fd] = "none"]
  /\ pending' = Append(pending, Functor("connectDestroyed", i))
  /\ UNCHANGED <<connector, poller, attempt, current, failed>>

(* TcpClient::removeConnection; retry_ is never enabled. *)
RemoveConnection(i) == pending' = Append(pending, Functor("connectDestroyed", i))

(* The server closed.  The channel stays in channels_ until connectDestroyed. *)
HandleClose(i) ==
  /\ Handling(Owner("connection", i))
  /\ conn' = [conn EXCEPT ![i].state = "kDisconnected"]
  /\ net' = [net EXCEPT ![conn[i].fd] = "none"]
  /\ RemoveConnection(i)
  /\ UNCHANGED <<connector, poller, open, attempt, current, failed>>

(* The user typed: the session's business. *)
HandleKeyboardInput(i) ==
  /\ Handling(Owner("keyboard", i))
  /\ UNCHANGED <<connector, conn, poller, open, net, attempt, current, pending, failed>>

RunFunctor(op, i) ==
  /\ AtLoop
  /\ phase = "functors" /\ functors # <<>>
  /\ Head(functors) = Functor(op, i)
  /\ functors' = Tail(functors)
  /\ UNCHANGED <<net, attempt, current, phase, active, pending>>

ResetChannel(i) ==
  /\ RunFunctor("resetChannel", i)
  /\ connector' = [connector EXCEPT ![i].channel = 0]
  /\ UNCHANGED <<conn, poller, open, failed>>

ConnectDestroyed(i) ==
  /\ RunFunctor("connectDestroyed", i)
  /\ poller' = [poller EXCEPT ![conn[i].fd] = Nobody]
  /\ UNCHANGED <<connector, conn, open, failed>>

(* The batch is dropped, and with it the last TcpConnectionPtr of a connection
   that was destroyed: ~Socket closes the descriptor, and ~Channel wants both
   channels removed. *)
FunctorsDone ==
  LET gone == {i \in Clients : conn[i].state = "kDisconnected" /\ poller[conn[i].fd] = Nobody} IN
  /\ AtLoop
  /\ phase = "functors" /\ functors = <<>>
  /\ phase' = "poll"
  /\ conn' = [i \in Clients |-> IF i \in gone THEN [state |-> "freed", fd |-> 0] ELSE conn[i]]
  /\ open' = open \ {conn[i].fd : i \in gone}
  /\ failed' = IF \E i \in gone : poller[Stdin] = Owner("keyboard", i) THEN "~Channel" ELSE failed
  /\ UNCHANGED <<connector, poller, net, attempt, current, active, functors, pending>>
-----------------------------------------------------------------------------
Next ==
  \/ \E i \in Clients :
       \/ ConnectPends(i) \/ ConnectRefused(i) \/ ConnectFails(i)
       \/ HandleError(i) \/ HandleWrite(i) \/ HandleClose(i) \/ HandleKeyboardInput(i)
       \/ ResetChannel(i) \/ ConnectDestroyed(i)
  \/ \E d \in Fds : Resolve(d) \/ ServerCloses(d)
  \/ Poll \/ SwapFunctors \/ FunctorsDone

Spec == Init /\ [][Next]_vars
-----------------------------------------------------------------------------
(* Properties *)

Owners == {Nobody} \cup [kind : {"connector", "connection", "keyboard"}, client : Clients]

Functors == [op : {"resetChannel", "connectDestroyed"}, client : Clients]

(* The types of the client's state. *)
TypeOK ==
  /\ connector \in [Clients -> [state : {"kDisconnected", "kConnecting", "kConnected"},
                                channel : Fds \cup {0}, delay : DOMAIN Delays,
                                retries : 0 .. Len(Delays)]]
  /\ conn \in [Clients -> [state : {"none", "kConnected", "kDisconnected", "freed"},
                           fd : Fds \cup {0}]]
  /\ poller \in [{Stdin} \cup Fds -> Owners]
  /\ open \subseteq Fds
  /\ net \in [Fds -> {"none", "pending", "ok", "error", "self", "up", "gone"}]
  /\ attempt \in Clients \cup {0}
  /\ current \in 1 .. NumClients + 1
  /\ phase \in {"poll", "dispatch", "functors"}
  /\ active \subseteq Owners
  /\ pending \in Seq(Functors)
  /\ functors \in Seq(Functors)
  /\ failed \in {"none", "connecting", "updateChannel", "~Channel"}

(* No socket leaks through the retries: what is open belongs to a connect under
   way or to a connection that is not yet freed, and to one of them only. *)
SocketsAccounted ==
  LET trying == {i \in Clients : connector[i].state = "kConnecting"}
      alive  == {i \in Clients : conn[i].fd # 0}
  IN  /\ open = {connector[i].channel : i \in trying} \cup {conn[i].fd : i \in alive}
      /\ \A i \in trying, j \in alive : connector[i].channel # conn[j].fd
      /\ \A i, j \in alive : i # j => conn[i].fd # conn[j].fd

(* While the process runs, what the poller points to is alive, and what epoll
   reported is still in the poller when its turn comes. *)
NoDanglingChannel ==
  failed = "none" =>
    /\ \A i \in Clients, d \in DOMAIN poller :
         /\ poller[d] = Owner("connector", i) => connector[i].channel = d
         /\ poller[d] = Owner("connection", i) => conn[i].fd = d
         /\ poller[d] = Owner("keyboard", i) => conn[i].fd # 0
    /\ active \subseteq {poller[d] : d \in DOMAIN poller}

(* A retry finds the channel of the attempt before it gone: assert(!channel_). *)
RetryFindsNoChannel == failed # "connecting"

(* Both channels of a connection are unregistered when it is freed, as ~Channel
   asserts. *)
ChannelsUnregistered == failed # "~Channel"

(* Connections do not share a descriptor: updateChannel finds it free. *)
OneChannelPerDescriptor == failed # "updateChannel"
=============================================================================
