------------------------------- MODULE Poller -------------------------------
(***************************************************************************)
(* The channels of one loop and the epoll instance behind them: Channel,   *)
(* EPollPoller, and the part of EventLoop that hands events to channels.   *)
(* Everything runs in the loop's thread; what the descriptors are ready    *)
(* for changes behind its back.                                            *)
(*                                                                         *)
(* The owners of channels do with them what their code does: the loop's    *)
(* eventfd, the acceptor of a base loop, connections, and a client's       *)
(* Connector, whose descriptor goes on to a connection.  A callback sees   *)
(* the events epoll_wait reported, whatever the callbacks before it have   *)
(* changed since.                                                          *)
(***************************************************************************)
EXTENDS Naturals, Sequences, FiniteSets

CONSTANTS
  Channels,   \* addresses of Channel objects
  Fds,        \* descriptors
  InitSize,   \* kInitEventListSize
  NoChannel,  \* the null pointer
  Wakeup, First,      \* the channels a loop starts with ...
  WakeupFd, FirstFd   \* ... and their descriptors

ASSUME InitSizeAssumption == InitSize \in Nat \ {0}

ASSUME FixedAssumption ==
  /\ NoChannel \notin Channels
  /\ Wakeup \in Channels /\ First \in Channels \ {Wakeup}
  /\ IsFiniteSet(Fds)
  /\ WakeupFd \in Fds /\ FirstFd \in Fds \ {WakeupFd}

VARIABLES
  role,    \* the loop's: base and pool on a server, or client
  poller,  \* the Channel objects, channels_, and epoll's interest list: see Init
  socket,  \* per descriptor: what is open there
  ready,   \* per descriptor: the events it is ready for
  size,    \* events_.size()
  phase,   \* poll, handle, functors
  active,  \* activeChannels_, each with the flags of revents_ still to be handled
  at       \* the position of currentActiveChannel_ in it

vars == <<role, poller, socket, ready, size, phase, active, at>>

(* In the order in which handleEvent looks at them. *)
Rank == [hup |-> 1, err |-> 2, in |-> 3, out |-> 4]

Events == DOMAIN Rank

(* A Channel: who owns it, fd_, events_, index_, addedToLoop_. *)
Object(use, d) == [use |-> use, fd |-> d, events |-> {}, index |-> "kNew", added |-> FALSE]

NoObject == Object("none", WakeupFd)

(* What update and remove change of a Channel. *)
Registered(o, events, index, added) ==
  [use |-> o.use, fd |-> o.fd, events |-> events, index |-> index, added |-> added]

Unwatched == [chan |-> NoChannel, events |-> {}]

Running == poller.failed = "none"
-----------------------------------------------------------------------------
(* EPollPoller, as functions of its state p *)

Fails(p, ok, where) == IF ok \/ p.failed # "none" THEN p ELSE [p EXCEPT !.failed = where]

(* epoll_ctl.  Adding what is there already and changing what is not there fail,
   which is only printed. *)
EpollCtl(p, op, c) ==
  LET d == p.chan[c].fd
  IN  IF op = "DEL" THEN [p EXCEPT !.interest[d] = Unwatched]
      ELSE IF (op = "ADD") = (p.interest[d] = Unwatched)
           THEN [p EXCEPT !.interest[d] = [chan |-> c, events |-> p.chan[c].events]]
           ELSE p

(* A channel that watches for nothing is taken out of epoll and stays in
   channels_; the next update of it adds it again, whatever it watches for. *)
UpdateChannel(p, c) ==
  LET d     == p.chan[c].fd
      added == [p EXCEPT !.channels[d] = c, !.chan[c].index = "kAdded"]
  IN  CASE p.chan[c].index = "kNew" ->
             Fails(EpollCtl(added, "ADD", c), p.channels[d] = NoChannel, "updateChannel")
        [] p.chan[c].index = "kDeleted" ->
             Fails(EpollCtl(added, "ADD", c), p.channels[d] = c, "updateChannel")
        [] p.chan[c].index = "kAdded" /\ p.chan[c].events = {} ->
             Fails([EpollCtl(p, "DEL", c) EXCEPT !.chan[c].index = "kDeleted"],
                   p.channels[d] = c, "updateChannel")
        [] OTHER ->
             Fails(EpollCtl(p, "MOD", c), p.channels[d] = c, "updateChannel")

(* Channel::update, with the events the caller has set. *)
Watch(p, c, events) ==
  UpdateChannel([p EXCEPT !.chan[c] = Registered(@, events, @.index, TRUE)], c)

EnableReading(p, c)  == Watch(p, c, p.chan[c].events \cup {"in"})
EnableWriting(p, c)  == Watch(p, c, p.chan[c].events \cup {"out"})
DisableWriting(p, c) == Watch(p, c, p.chan[c].events \ {"out"})
DisableAll(p, c)     == Watch(p, c, {})

(* EventLoop::removeChannel: not while the channel still has its turn to come,
   or has had it, in this round. *)
MayRemove(c) ==
  phase = "handle" =>
    active[at].chan = c \/ \A i \in DOMAIN active : active[i].chan # c

(* Channel::remove. *)
Remove(p, c) ==
  LET d  == p.chan[c].fd
      ok == MayRemove(c) /\ p.channels[d] = c /\ p.chan[c].events = {} /\ p.chan[c].index # "kNew"
      q  == IF p.chan[c].index = "kAdded" THEN EpollCtl(p, "DEL", c) ELSE p
  IN  Fails([q EXCEPT !.channels[d] = NoChannel, !.chan[c] = Registered(@, @.events, "kNew", FALSE)],
            ok, "removeChannel")

(* ~Channel: not inside its own handleEvent, and not while it is registered. *)
Destroy(p, c) ==
  LET handled == phase = "handle" /\ active[at].chan = c
  IN  Fails([p EXCEPT !.chan[c] = NoObject],
            ~handled /\ ~p.chan[c].added /\ p.channels[p.chan[c].fd] # c, "~Channel")

Construct(p, c, use, d) == [p EXCEPT !.chan[c] = Object(use, d)]

(* The kernel forgets a descriptor that is closed. *)
CloseFd(p, d) == [p EXCEPT !.interest[d] = Unwatched]

Blank ==
  [chan |-> [c \in Channels |-> NoObject], channels |-> [d \in Fds |-> NoChannel],
   interest |-> [d \in Fds |-> Unwatched], failed |-> "none"]

(* Connector::connecting. *)
Connecting(p, c, d) == EnableWriting(Construct(p, c, "connector", d), c)

(* A loop watches its eventfd from the start; before loop() a server's base loop
   listens, and a client's connects. *)
Init ==
  /\ role \in {"base", "pool", "client"}
  /\ LET p == EnableReading(Construct(Blank, Wakeup, "wakeup", WakeupFd), Wakeup)
     IN  poller = CASE role = "base"   -> EnableReading(Construct(p, First, "listener", FirstFd), First)
                    [] role = "client" -> Connecting(p, First, FirstFd)
                    [] OTHER           -> p
  /\ socket = [d \in Fds |-> CASE d = WakeupFd                   -> "eventfd"
                               [] d = FirstFd /\ role = "base"   -> "listening"
                               [] d = FirstFd /\ role = "client" -> "connecting"
                               [] OTHER                          -> "closed"]
  /\ ready = [d \in Fds |-> {}]
  /\ size = InitSize
  /\ phase = "poll"
  /\ active = <<>>
  /\ at = 1
-----------------------------------------------------------------------------
(* The descriptors *)

Becomes(d, kind, events) ==
  /\ socket' = [socket EXCEPT ![d] = kind]
  /\ ready' = [ready EXCEPT ![d] = events]
  /\ UNCHANGED <<role, poller, size, phase, active, at>>

(* Data, room to write, a peer in the backlog, a wakeup.  A client has one thread,
   and none of its functors posts another: nobody writes its eventfd. *)
Arrives(d) ==
  \/ /\ socket[d] \in {"listening", "up"} \/ (socket[d] = "eventfd" /\ role # "client")
     /\ Becomes(d, socket[d], ready[d] \cup {"in"})
  \/ /\ socket[d] \in {"up", "ended"}
     /\ Becomes(d, socket[d], ready[d] \cup {"out"})

PeerEnds(d) == socket[d] = "up" /\ Becomes(d, "ended", ready[d] \cup {"in"})

PeerResets(d) == socket[d] \in {"up", "ended"} /\ Becomes(d, "ended", Events)

Resolves(d) ==
  /\ socket[d] = "connecting"
  /\ Becomes(d, "up", {"out"}) \/ Becomes(d, "refused", {"out", "err", "hup"})

Environment == Running /\ \E d \in Fds : Arrives(d) \/ PeerEnds(d) \/ PeerResets(d) \/ Resolves(d)
-----------------------------------------------------------------------------
(* EventLoop::loop *)

(* What epoll would report of d: errors and hangups always. *)
Reported(d) ==
  IF poller.interest[d] = Unwatched THEN {}
  ELSE ready[d] \cap (poller.interest[d].events \cup {"hup", "err"})

Orders(n, S) == {s \in [1 .. n -> S] : \A i, j \in 1 .. n : s[i] = s[j] => i = j}

(* Fault: the list stays as long as it is. *)
ResizedNever(n) == size

(* events_ is doubled when it was full. *)
Resized(n) == IF n = size THEN 2 * size ELSE size

(* epoll_wait reports as many as there is room for, in an order of its own;
   fillActiveChannels wants each to be in channels_. *)
Poll ==
  /\ Running /\ phase = "poll"
  /\ LET hits == {d \in Fds : Reported(d) # {}}
         n    == IF Cardinality(hits) < size THEN Cardinality(hits) ELSE size
     IN  /\ \E s \in Orders(n, hits) :
              /\ active' = [i \in 1 .. n |-> [chan    |-> poller.interest[s[i]].chan,
                                              revents |-> Reported(s[i])]]
              /\ poller' = Fails(poller,
                                 \A i \in 1 .. n :
                                   LET c == poller.interest[s[i]].chan
                                   IN  poller.channels[poller.chan[c].fd] = c,
                                 "fillActiveChannels")
         /\ size' = Resized(n)
  /\ at' = 1
  /\ phase' = "handle"
  /\ UNCHANGED <<role, socket, ready>>

(* Fault: currentActiveChannel_ is left where it was. *)
EventsHandledKeeps ==
  /\ Running /\ phase = "handle"
  /\ at > Len(active)
  /\ active' = <<>>
  /\ phase' = "functors"
  /\ UNCHANGED <<role, poller, socket, ready, size, at>>

EventsHandled ==
  /\ Running /\ phase = "handle"
  /\ at > Len(active)
  /\ active' = <<>>
  /\ at' = 1
  /\ phase' = "functors"
  /\ UNCHANGED <<role, poller, socket, ready, size>>

FunctorsDone ==
  /\ Running /\ phase = "functors"
  /\ phase' = "poll"
  /\ UNCHANGED <<role, poller, socket, ready, size, active, at>>

(* The turn of flag e in the handleEvent of channel c; after the last flag comes
   the next channel. *)
Turn(c, e) ==
  /\ Running /\ phase = "handle"
  /\ at <= Len(active)
  /\ active[at].chan = c /\ e \in active[at].revents
  /\ \A other \in active[at].revents : Rank[e] <= Rank[other]
  /\ active' = [active EXCEPT ![at].revents = @ \ {e}]
  /\ at' = IF active[at].revents = {e} THEN at + 1 ELSE at
  /\ UNCHANGED <<role, size, phase>>

Use(c) == poller.chan[c].use

Fd(c) == poller.chan[c].fd

FreeObjects(p) == {c \in Channels \ {Wakeup} : p.chan[c].use = "none"}

(* new Channel: the allocator's choice among the free addresses. *)
NewObject(p) == CHOOSE c \in FreeObjects(p) : TRUE

FreeFds == {d \in Fds : socket[d] = "closed"}

(* The kernel gives the lowest descriptor that is free, if there is one. *)
LowestFd == {d \in FreeFds : \A e \in FreeFds : d <= e}
-----------------------------------------------------------------------------
(* A connection *)

(* handleClose wants a connection that is not closed yet. *)
HandleClose(p, c) == Fails(DisableAll(p, c), p.chan[c].events # {}, "handleClose")

(* Established on d, where nothing has been written yet. *)
NewConnection(p, c, d) == EnableReading(Construct(p, c, "connection", d), c)

(* A hangup without input closes; with input, handleRead finds the end. *)
CloseCallback(c) ==
  /\ Turn(c, "hup")
  /\ poller' = IF Use(c) = "connection" /\ "in" \notin active[at].revents
               THEN HandleClose(poller, c) ELSE poller
  /\ UNCHANGED <<socket, ready>>

(* handleError fetches SO_ERROR, and that clears it. *)
ErrorCallback(c) ==
  /\ Turn(c, "err")
  /\ Use(c) = "connection"
  /\ ready' = [ready EXCEPT ![Fd(c)] = @ \ {"err"}]
  /\ UNCHANGED <<poller, socket>>

(* handleRead: data, of which some may be left, and the callback may send more
   than the socket takes; or the end of the stream, which stays to be read. *)
ReadCallback(c) ==
  /\ Turn(c, "in")
  /\ Use(c) = "connection"
  /\ \/ \E left \in SUBSET ({"in"} \cap ready[Fd(c)]), sends \in BOOLEAN :
          /\ left = {"in"} \/ socket[Fd(c)] = "up"
          /\ ready' = [ready EXCEPT ![Fd(c)] = (@ \ (IF sends THEN {"in", "out"} ELSE {"in"})) \cup left]
          /\ poller' = IF sends THEN EnableWriting(poller, c) ELSE poller
     \/ /\ socket[Fd(c)] = "ended"
        /\ poller' = HandleClose(poller, c)
        /\ UNCHANGED ready
  /\ UNCHANGED socket

(* Fault: handleWrite does not look whether the channel still watches. *)
WriteCallbackBlind(c) ==
  /\ Turn(c, "out")
  /\ Use(c) = "connection"
  /\ poller' = DisableWriting(poller, c)
  /\ UNCHANGED <<socket, ready>>

(* handleWrite: the flag may be older than the end of the connection. *)
WriteCallback(c) ==
  /\ Turn(c, "out")
  /\ Use(c) = "connection"
  /\ \/ /\ "out" \notin poller.chan[c].events
        /\ UNCHANGED <<poller, ready>>
     \/ /\ "out" \in poller.chan[c].events
        /\ \/ ready' = [ready EXCEPT ![Fd(c)] = @ \ {"out"}] /\ UNCHANGED poller
           \/ poller' = DisableWriting(poller, c) /\ UNCHANGED ready
  /\ UNCHANGED socket

InFunctors == Running /\ phase = "functors" /\ UNCHANGED <<role, size, phase, active, at>>

(* connectEstablished, in a loop of the pool. *)
ConnectEstablished ==
  /\ InFunctors /\ role = "pool"
  /\ FreeObjects(poller) # {}
  /\ \E d \in LowestFd :
       /\ poller' = NewConnection(poller, NewObject(poller), d)
       /\ socket' = [socket EXCEPT ![d] = "up"]
       /\ ready' = [ready EXCEPT ![d] = {"out"}]

(* connectDestroyed, and the end of the connection's object and socket. *)
ConnectDestroyed(c) ==
  /\ InFunctors
  /\ Use(c) = "connection" /\ poller.chan[c].events = {}
  /\ poller' = CloseFd(Destroy(Remove(poller, c), c), Fd(c))
  /\ socket' = [socket EXCEPT ![Fd(c)] = "closed"]
  /\ ready' = [ready EXCEPT ![Fd(c)] = {}]
-----------------------------------------------------------------------------
(* The loop's own channels *)

HandleWakeup ==
  /\ Turn(Wakeup, "in")
  /\ ready' = [ready EXCEPT ![WakeupFd] = {}]
  /\ UNCHANGED <<poller, socket>>

(* Acceptor::handleRead: a connection for this loop, for another, or none. *)
HandleAccept ==
  /\ Turn(First, "in")
  /\ Use(First) = "listener"
  /\ \/ /\ FreeObjects(poller) # {}
        /\ \E d \in LowestFd :
             /\ poller' = NewConnection(poller, NewObject(poller), d)
             /\ socket' = [socket EXCEPT ![d] = "up"]
             /\ ready' = [ready EXCEPT ![FirstFd] = {}, ![d] = {"out"}]
     \/ /\ ready' = [ready EXCEPT ![FirstFd] = {}]
        /\ UNCHANGED <<poller, socket>>
-----------------------------------------------------------------------------
(* The Connector of a client *)

(* Fault: the channel is reset in its own handler. *)
RemoveAndResetChannelNow(p, c) == Destroy(Remove(DisableAll(p, c), c), c)

(* removeAndResetChannel; the reset itself is a functor. *)
RemoveAndResetChannel(p, c) == Remove(DisableAll(p, c), c)

(* The socket of an attempt is closed.  The next attempt, which retry makes at
   once, fails the assertion on channel_ (TcpClient) or fails at once itself. *)
Retry(c) ==
  /\ poller' = CloseFd(RemoveAndResetChannel(poller, c), Fd(c))
  /\ socket' = [socket EXCEPT ![Fd(c)] = "closed"]
  /\ ready' = [ready EXCEPT ![Fd(c)] = {}]

(* handleError. *)
ConnectorError(c) ==
  /\ Turn(c, "err")
  /\ Use(c) = "connector"
  /\ Retry(c)

(* The socket goes to a connection. *)
Established(p, c) ==
  LET q == RemoveAndResetChannel(p, c) IN NewConnection(q, NewObject(q), Fd(c))

(* handleWrite: handleError has found out before; or the attempt has failed, or is
   connected to itself; or it has succeeded, and the connection callback may start
   the next client. *)
ConnectorWrite(c) ==
  /\ Turn(c, "out")
  /\ Use(c) = "connector"
  /\ \/ /\ ~poller.chan[c].added
        /\ UNCHANGED <<poller, socket, ready>>
     \/ poller.chan[c].added /\ Retry(c)
     \/ /\ poller.chan[c].added
        /\ FreeObjects(poller) # {}
        /\ poller' = Established(poller, c)
        /\ UNCHANGED <<socket, ready>>
     \/ /\ poller.chan[c].added
        /\ LET p == Established(poller, c)
           IN  /\ FreeObjects(poller) # {} /\ FreeObjects(p) # {}
               /\ \E d \in LowestFd :
                    /\ poller' = Connecting(p, NewObject(p), d)
                    /\ socket' = [socket EXCEPT ![d] = "connecting"]
               /\ UNCHANGED ready

ResetChannel(c) ==
  /\ InFunctors
  /\ Use(c) = "connector" /\ ~poller.chan[c].added
  /\ poller' = Destroy(poller, c)
  /\ UNCHANGED <<socket, ready>>
-----------------------------------------------------------------------------
Callback(c) ==
  \/ CloseCallback(c) \/ ErrorCallback(c) \/ ReadCallback(c) \/ WriteCallback(c)
  \/ ConnectorError(c) \/ ConnectorWrite(c)

Loop ==
  \/ Poll \/ EventsHandled \/ FunctorsDone
  \/ HandleWakeup \/ HandleAccept
  \/ \E c \in Channels : Callback(c)

RunFunctor ==
  \/ ConnectEstablished
  \/ \E c \in Channels : ConnectDestroyed(c) \/ ResetChannel(c)

Next == Environment \/ Loop \/ RunFunctor

Spec == Init /\ [][Next]_vars

(* The loop's thread goes on. *)
FairSpec == Spec /\ WF_vars(Loop)
-----------------------------------------------------------------------------
(* Properties *)

Objects ==
  [use : {"none", "wakeup", "listener", "connection", "connector"}, fd : Fds,
   events : SUBSET Events, index : {"kNew", "kAdded", "kDeleted"}, added : BOOLEAN]

Pollers ==
  [chan : [Channels -> Objects], channels : [Fds -> Channels \cup {NoChannel}],
   interest : [Fds -> [chan : Channels \cup {NoChannel}, events : SUBSET Events]],
   failed : {"none", "updateChannel", "removeChannel", "~Channel", "fillActiveChannels", "handleClose"}]

Sockets == {"eventfd", "listening", "connecting", "refused", "up", "ended", "closed"}

(* The types of the poller's state. *)
TypeOK ==
  /\ role \in {"base", "pool", "client"}
  /\ poller \in Pollers
  /\ socket \in [Fds -> Sockets]
  /\ ready \in [Fds -> SUBSET Events]
  /\ size \in Nat \ {0}
  /\ phase \in {"poll", "handle", "functors"}
  /\ active \in Seq([chan : Channels, revents : SUBSET Events])
  /\ at \in 1 .. Len(active) + 1

(* Channel, EPollPoller, EventLoop and TcpConnection assert nothing in vain, in
   whatever order channels come and go, while flags of one epoll_wait are handled. *)
NoAssertionFails == poller.failed = "none"

(* What epoll watches is what the channels in channels_ want, no more and no
   less, though EPOLL_CTL_ADD, MOD and DEL are chosen by index_ alone, and though
   descriptors are closed and opened again: no event is missed, and a channel that
   wants nothing costs nothing, not even for a hangup. *)
EpollAgrees ==
  \A d \in Fds :
    LET c == poller.channels[d]
    IN  poller.interest[d] =
          IF c = NoChannel \/ poller.chan[c].events = {} THEN Unwatched
          ELSE [chan |-> c, events |-> poller.chan[c].events]

(* A socket that stays ready has its turn, even when more descriptors are ready
   than events_ has room for and epoll prefers the others. *)
ReadyHandled ==
  \A d \in Fds \ {WakeupFd} :
    Reported(d) # {}
      ~> (Reported(d) = {} \/ (phase = "handle" /\ at <= Len(active) /\ Fd(active[at].chan) = d))
=============================================================================
