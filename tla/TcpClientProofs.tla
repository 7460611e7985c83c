-------------------------- MODULE TcpClientProofs --------------------------
(***************************************************************************)
(* Proofs about TcpClient, for any number of clients, any descriptors and  *)
(* any delays: the types, that no socket leaks, and that the poller's      *)
(* pointers do not dangle while the process runs.                          *)
(***************************************************************************)
EXTENDS TcpClient, SequenceTheorems, TLAPS

(* The clients connect one after the other: those before "current" are up, it is
   the one that tries, and those behind it have not begun. *)
InTurn(i) ==
  /\ connector[i].state = "kConnected" <=> i < current
  /\ connector[i].state = "kConnecting" => i = current
  /\ attempt = i => i = current /\ connector[i].state = "kDisconnected"
  /\ i >= current => conn[i] = [state |-> "none", fd |-> 0]

Waits(f) ==
  \/ \E n \in 1 .. Len(functors) : functors[n] = f
  \/ \E n \in 1 .. Len(pending) : pending[n] = f

(* While a reset waits, its connector has no channel registered, and a retry would
   meet the old one.  Who is to be destroyed has closed. *)
FunctorsOK(i) ==
  /\ Waits(Functor("resetChannel", i)) =>
       /\ i <= current
       /\ connector[i].state # "kConnecting"
       /\ attempt = i => connector[i].channel # 0
  /\ Waits(Functor("connectDestroyed", i)) => conn[i].state \in {"kDisconnected", "freed"}

(* What the poller has at a descriptor. *)
PollerOK(d) ==
  \A i \in Clients :
    /\ poller[d] = Owner("connector", i) =>
         connector[i].state = "kConnecting" /\ connector[i].channel = d
    /\ poller[d] = Owner("connection", i) => d # Stdin /\ conn[i].fd = d
    /\ poller[d] = Owner("keyboard", i) => d = Stdin /\ conn[i].fd # 0

(* Where the network has something to report, a channel is registered. *)
Heard ==
  /\ \A d \in Fds : net[d] # "none" => poller[d] # Nobody
  /\ \A i \in Clients :
       /\ conn[i].state = "kDisconnected" => conn[i].fd \in Fds /\ net[conn[i].fd] = "none"
       /\ conn[i].state = "freed" => conn[i].fd = 0

(* An event is of a registered channel, and is handled before the functors. *)
ActiveOK ==
  /\ phase # "dispatch" => active = {}
  /\ active \subseteq {poller[d] : d \in DOMAIN poller} \ {Nobody}

IInv ==
  /\ TypeOK
  /\ SocketsAccounted
  /\ \A i \in Clients : InTurn(i)
  /\ failed = "none" =>
       /\ \A i \in Clients : FunctorsOK(i)
       /\ \A d \in DOMAIN poller : PollerOK(d)
       /\ Heard
       /\ ActiveOK
-----------------------------------------------------------------------------
(* Queues *)

(* Who waits after a functor was posted. *)
LEMMA WaitsAppend ==
  ASSUME pending \in Seq(Functors), NEW g \in Functors, NEW f,
         pending' = Append(pending, g), functors' = functors, Waits(f)'
  PROVE  Waits(f) \/ f = g
  BY AppendProperties, SMT DEF Waits

(* Who waits after a functor was run. *)
LEMMA WaitsTail ==
  ASSUME functors \in Seq(Functors), functors # <<>>, NEW f,
         functors' = Tail(functors), pending' = pending, Waits(f)'
  PROVE  Waits(f)
  BY HeadTailProperties, SMT DEF Waits

(* Who waits after the queue was taken. *)
LEMMA WaitsSwap ==
  ASSUME pending \in Seq(Functors), NEW f,
         functors' = pending, pending' = <<>>, Waits(f)'
  PROVE  Waits(f)
  BY SMT DEF Waits

(* Owners of different kinds or clients are different, and so are functors. *)
LEMMA Names ==
  ASSUME NEW i, NEW j, NEW k, NEW m
  PROVE  /\ Owner(k, i) = Owner(m, j) <=> k = m /\ i = j
         /\ Functor(k, i) = Functor(m, j) <=> k = m /\ i = j
  BY DEF Owner, Functor

LEMMA OwnerTypes ==
  ASSUME NEW i \in Clients
  PROVE  /\ Owner("connector", i) \in Owners \ {Nobody}
         /\ Owner("connection", i) \in Owners \ {Nobody}
         /\ Owner("keyboard", i) \in Owners \ {Nobody}
         /\ Functor("resetChannel", i) \in Functors
         /\ Functor("connectDestroyed", i) \in Functors
  BY DEF Owner, Owners, Nobody, Functor, Functors, Clients

(* What a connector is, and what becomes of it when retry() is called and when
   connect() returns: the delay stays one of Delays, and nothing else changes. *)
Connectors ==
  [state : {"kDisconnected", "kConnecting", "kConnected"}, channel : Fds \cup {0},
   delay : DOMAIN Delays, retries : 0 .. Len(Delays)]

LEMMA RetryTypes ==
  ASSUME NEW c \in Connectors
  PROVE  /\ Returned(c) \in Connectors
         /\ Returned(c).state = c.state /\ Returned(c).channel = c.channel
         /\ Nested(c) \in Connectors
         /\ Nested(c).state = c.state /\ Nested(c).channel = c.channel
<1>1. DOMAIN Delays = 1 .. Len(Delays) /\ Len(Delays) \in Nat
  BY ClientAssumption
<1>2. c.delay \in 1 .. Len(Delays) /\ c.retries \in 0 .. Len(Delays)
  BY <1>1 DEF Connectors
<1>3. Doubled(c.delay, c.retries) \in 1 .. Len(Delays)
  BY <1>1, <1>2 DEF Doubled
<1>4. 0 \in 0 .. Len(Delays) /\ (c.retries < Len(Delays) => c.retries + 1 \in 0 .. Len(Delays))
  BY <1>1, <1>2
<1> QED
  BY <1>1, <1>3, <1>4 DEF Returned, Nested, Connectors

LEMMA InitInvariant == Init => IInv
<1> SUFFICES ASSUME Init PROVE IInv
  OBVIOUS
<1>0. 1 \in Clients /\ 1 \in 1 .. NumClients + 1 /\ 1 \in DOMAIN Delays
  BY ClientAssumption, EmptySeq DEF Clients
<1>1. TypeOK
  BY <1>0, EmptySeq DEF Init, TypeOK, Owners
<1>2. SocketsAccounted
  BY DEF Init, SocketsAccounted
<1>3. ASSUME NEW i \in Clients PROVE InTurn(i)
  BY <1>0, ClientAssumption DEF Init, InTurn, Clients
<1>4. ASSUME NEW i \in Clients PROVE FunctorsOK(i)
  BY DEF Init, FunctorsOK, Waits
<1>5. ASSUME NEW d \in DOMAIN poller PROVE PollerOK(d)
  <2>1. poller[d] = Nobody
    BY DEF Init
  <2> QED
    BY <2>1, OwnerTypes DEF PollerOK
<1>6. Heard /\ ActiveOK
  BY DEF Init, Heard, ActiveOK
<1> QED
  BY <1>1, <1>2, <1>3, <1>4, <1>5, <1>6 DEF IInv
-----------------------------------------------------------------------------
(* Connecting *)

LEMMA PendsInvariant == ASSUME IInv, NEW i \in Clients, ConnectPends(i) PROVE IInv'
<1>1. PICK d \in LowestFd :
        /\ open' = open \cup {d}
        /\ net' = [net EXCEPT ![d] = "pending"]
        /\ connector' = [connector EXCEPT
             ![i] = [Returned(@) EXCEPT !.state = "kConnecting", !.channel = d]]
        /\ poller' = [poller EXCEPT ![d] = Owner("connector", i)]
        /\ failed' = IF connector[i].channel # 0 THEN "connecting"
                     ELSE IF poller[d] # Nobody THEN "updateChannel"
                     ELSE failed
  BY DEF ConnectPends
<1>2. /\ d \in Fds \ open
      /\ attempt = i /\ attempt' = 0 /\ connector[i].state = "kDisconnected" /\ failed = "none"
      /\ UNCHANGED <<conn, current, phase, active, functors, pending>>
  BY DEF ConnectPends, Connecting, LowestFd, loopVars
<1>3. /\ TypeOK
      /\ \A j \in Clients : InTurn(j) /\ FunctorsOK(j)
      /\ SocketsAccounted
      /\ \A e \in DOMAIN poller : PollerOK(e)
      /\ Heard /\ ActiveOK
      /\ DOMAIN poller = {Stdin} \cup Fds /\ DOMAIN poller' = DOMAIN poller
  BY <1>1, <1>2 DEF IInv, TypeOK
<1>t. d # 0 /\ d # Stdin /\ d \in Nat
  BY <1>2, ClientAssumption DEF Fds, Stdin
<1>c. /\ \A j \in Clients \ {i} : connector'[j] = connector[j]
      /\ connector'[i].state = "kConnecting" /\ connector'[i].channel = d
  <2>1. connector[i] \in Connectors
    BY <1>3 DEF TypeOK, Connectors
  <2>2. Returned(connector[i]) \in Connectors
    BY <2>1, RetryTypes
  <2> QED
    BY <1>1, <1>3, <2>2 DEF TypeOK, Connectors
<1>4. TypeOK'
  <2>1. connector' \in [Clients -> [state : {"kDisconnected", "kConnecting", "kConnected"},
                                    channel : Fds \cup {0}, delay : DOMAIN Delays,
                                    retries : 0 .. Len(Delays)]]
    <3>1. connector \in [Clients -> [state : {"kDisconnected", "kConnecting", "kConnected"},
                                     channel : Fds \cup {0}, delay : DOMAIN Delays,
                                     retries : 0 .. Len(Delays)]]
      BY <1>3 DEF TypeOK
    <3>2. connector[i] \in Connectors /\ Returned(connector[i]) \in Connectors
      BY <3>1, RetryTypes DEF Connectors
    <3>3. [Returned(connector[i]) EXCEPT !.state = "kConnecting", !.channel = d] \in Connectors
      BY <1>2, <3>2 DEF Connectors
    <3> QED
      BY <1>1, <3>1, <3>3 DEF Connectors
  <2>4. net' \in [Fds -> {"none", "pending", "ok", "error", "self", "up", "gone"}]
    BY <1>1, <1>2, <1>3 DEF TypeOK
  <2>2. poller' \in [{Stdin} \cup Fds -> Owners]
    BY <1>1, <1>2, <1>3, OwnerTypes DEF TypeOK
  <2>3. failed' \in {"none", "connecting", "updateChannel", "~Channel"}
    BY <1>1, <1>2
  <2> QED
    BY <1>1, <1>2, <1>3, <2>1, <2>2, <2>3, <2>4 DEF TypeOK
<1>5. InTurn(i) /\ i = current /\ conn[i].fd = 0
  BY <1>2, <1>3 DEF InTurn, Clients, TypeOK
<1>6. ASSUME NEW j \in Clients PROVE InTurn(j)'
  BY <1>1, <1>2, <1>3, <1>4, <1>5 DEF InTurn, TypeOK, Clients
<1>7. \A j \in Clients : connector[j].state # "kConnecting"
  BY <1>2, <1>3, <1>5 DEF InTurn
<1>8. SocketsAccounted'
  BY <1>1, <1>2, <1>3, <1>7, <1>t DEF SocketsAccounted, TypeOK
<1>9. SUFFICES ASSUME failed' = "none"
      PROVE /\ \A j \in Clients : FunctorsOK(j)'
            /\ \A e \in DOMAIN poller : PollerOK(e)'
            /\ Heard' /\ ActiveOK'
  BY <1>3, <1>4, <1>6, <1>8 DEF IInv
<1>10. connector[i].channel = 0 /\ poller[d] = Nobody
  BY <1>1, <1>9
<1>11. ASSUME NEW j \in Clients PROVE FunctorsOK(j)'
  <2>1. \A f : Waits(f)' <=> Waits(f)
    BY <1>2 DEF Waits
  <2>2. ~Waits(Functor("resetChannel", i))
    BY <1>2, <1>3, <1>10 DEF FunctorsOK
  <2>3. j # i => connector'[j] = connector[j]
    BY <1>1, <1>3 DEF TypeOK
  <2>4. FunctorsOK(j) /\ conn' = conn /\ current' = current /\ attempt' # j
    BY <1>2, <1>3, ClientAssumption DEF Clients
  <2> QED
    BY <2>1, <2>2, <2>3, <2>4 DEF FunctorsOK
<1>12. ASSUME NEW e \in DOMAIN poller PROVE PollerOK(e)'
  <2>1. CASE e = d
    <3>1. poller'[e] = Owner("connector", i)
      BY <1>1, <1>3, <2>1
    <3>2. ASSUME NEW j \in Clients
          PROVE  /\ poller'[e] = Owner("connector", j) => j = i
                 /\ poller'[e] # Owner("connection", j) /\ poller'[e] # Owner("keyboard", j)
      BY <3>1, Names
    <3> QED
      BY <1>1, <1>3, <2>1, <3>2 DEF PollerOK, TypeOK
  <2>2. CASE e # d
    <3>1. poller'[e] = poller[e] /\ PollerOK(e)
      BY <1>1, <1>3, <2>2
    <3>2. poller[e] # Owner("connector", i)
      BY <1>2, <3>1 DEF PollerOK
    <3> QED
      BY <1>1, <1>2, <1>3, <3>1, <3>2 DEF PollerOK, TypeOK
  <2> QED
    BY <2>1, <2>2
<1>13. Heard'
  <2>1. ASSUME NEW e \in Fds, net'[e] # "none" PROVE poller'[e] # Nobody
    BY <1>1, <1>2, <1>3, <2>1, OwnerTypes DEF Heard, TypeOK
  <2>2. ASSUME NEW j \in Clients, conn[j].state = "kDisconnected"
        PROVE conn[j].fd # d
    BY <1>2, <1>3, <1>t, <2>2 DEF Heard, SocketsAccounted
  <2> QED
    BY <1>1, <1>2, <1>3, <2>1, <2>2 DEF Heard, TypeOK
<1>14. ActiveOK'
  BY <1>1, <1>2, <1>3, <1>10 DEF ActiveOK, TypeOK
<1> QED
  BY <1>11, <1>12, <1>13, <1>14

LEMMA RefusedInvariant == ASSUME IInv, NEW i \in Clients, ConnectRefused(i) PROVE IInv'
<1>1. /\ failed = "none" /\ attempt = i /\ connector[i].state = "kDisconnected"
      /\ connector' = [connector EXCEPT ![i] = Nested(@)]
      /\ UNCHANGED <<conn, poller, open, net, attempt, current, phase, active, functors,
                     pending, failed>>
  BY DEF ConnectRefused, Connecting, loopVars
<1>2. TypeOK /\ connector[i] \in Connectors
  BY DEF IInv, TypeOK, Connectors
<1>3. /\ Nested(connector[i]) \in Connectors
      /\ Nested(connector[i]).state = connector[i].state
      /\ Nested(connector[i]).channel = connector[i].channel
  BY <1>2, RetryTypes
<1>4. /\ \A j \in Clients : /\ connector'[j].state = connector[j].state
                            /\ connector'[j].channel = connector[j].channel
      /\ TypeOK'
  BY <1>1, <1>2, <1>3 DEF TypeOK, Connectors
<1>5. SocketsAccounted'
  BY <1>1, <1>4 DEF IInv, SocketsAccounted
<1>6. \A j \in Clients : InTurn(j)'
  BY <1>1, <1>4 DEF IInv, InTurn
<1>7. (\A j \in Clients : FunctorsOK(j)') /\ (\A d \in DOMAIN poller : PollerOK(d)')
  BY <1>1, <1>4 DEF IInv, FunctorsOK, Waits, PollerOK
<1>8. Heard' /\ ActiveOK'
  BY <1>1 DEF IInv, Heard, ActiveOK
<1> QED
  BY <1>1, <1>4, <1>5, <1>6, <1>7, <1>8 DEF IInv

LEMMA FailsInvariant == ASSUME IInv, NEW i \in Clients, ConnectFails(i) PROVE IInv'
<1>1. /\ failed = "none" /\ attempt = i /\ attempt' = 0
      /\ connector' = [connector EXCEPT ![i] = Returned(@)]
      /\ UNCHANGED <<conn, poller, open, net, current, phase, active, functors,
                     pending, failed>>
  BY DEF ConnectFails, Connecting, loopVars
<1>2. TypeOK /\ connector[i] \in Connectors
  BY DEF IInv, TypeOK, Connectors
<1>3. /\ Returned(connector[i]) \in Connectors
      /\ Returned(connector[i]).state = connector[i].state
      /\ Returned(connector[i]).channel = connector[i].channel
  BY <1>2, RetryTypes
<1>4. /\ \A j \in Clients : /\ connector'[j].state = connector[j].state
                            /\ connector'[j].channel = connector[j].channel
      /\ TypeOK'
  BY <1>1, <1>2, <1>3 DEF TypeOK, Connectors
<1>5. SocketsAccounted'
  BY <1>1, <1>4 DEF IInv, SocketsAccounted
<1>6. 0 \notin Clients
  BY ClientAssumption DEF Clients
<1>7. \A j \in Clients : InTurn(j)' /\ FunctorsOK(j)'
  BY <1>1, <1>4, <1>6 DEF IInv, InTurn, FunctorsOK, Waits
<1>8. (\A d \in DOMAIN poller : PollerOK(d)') /\ Heard' /\ ActiveOK'
  BY <1>1, <1>4 DEF IInv, PollerOK, Heard, ActiveOK
<1> QED
  BY <1>1, <1>4, <1>5, <1>7, <1>8 DEF IInv
-----------------------------------------------------------------------------
(* The network *)

LEMMA NetInvariant ==
  ASSUME IInv, NEW d \in Fds, Resolve(d) \/ ServerCloses(d)
  PROVE  IInv'
<1>1. PICK r \in {"ok", "error", "self", "gone"} : net' = [net EXCEPT ![d] = r]
  BY DEF Resolve, ServerCloses
<1>2. /\ failed = "none" /\ d \in open /\ net[d] # "none"
      /\ UNCHANGED <<connector, conn, poller, open, attempt, current, phase, active, functors,
                     pending, failed>>
  BY DEF Resolve, ServerCloses, loopVars
<1>3. TypeOK' /\ SocketsAccounted'
  BY <1>1, <1>2 DEF IInv, TypeOK, SocketsAccounted
<1>4. \A j \in Clients : InTurn(j)' /\ FunctorsOK(j)'
  BY <1>2 DEF IInv, InTurn, FunctorsOK, Waits
<1>5. (\A e \in DOMAIN poller : PollerOK(e)') /\ ActiveOK'
  BY <1>2 DEF IInv, PollerOK, ActiveOK
<1>6. Heard'
  <2>1. ASSUME NEW e \in Fds, net'[e] # "none" PROVE poller'[e] # Nobody
    BY <1>1, <1>2, <2>1 DEF IInv, Heard, TypeOK
  <2>2. ASSUME NEW j \in Clients, conn[j].state = "kDisconnected"
        PROVE  conn[j].fd \in Fds /\ net'[conn[j].fd] = "none"
    BY <1>1, <1>2, <2>2 DEF IInv, Heard, TypeOK
  <2> QED
    BY <1>2, <2>1, <2>2 DEF IInv, Heard
<1> QED
  BY <1>2, <1>3, <1>4, <1>5, <1>6 DEF IInv
-----------------------------------------------------------------------------
(* The loop *)

LEMMA PollInvariant == ASSUME IInv, Poll PROVE IInv'
<1>1. PICK typed \in SUBSET ({poller[Stdin]} \ {Nobody}) : active' = Ready \cup typed
  BY DEF Poll
<1>2. /\ failed = "none" /\ phase = "poll" /\ phase' = "dispatch"
      /\ UNCHANGED <<connector, conn, poller, open, net, attempt, current, functors,
                     pending, failed>>
  BY DEF Poll, AtLoop
<1>3. TypeOK /\ Heard /\ DOMAIN poller = {Stdin} \cup Fds
  BY <1>2 DEF IInv, TypeOK
<1>4. active' \subseteq {poller[d] : d \in DOMAIN poller} \ {Nobody}
  <2>1. Ready \subseteq {poller[d] : d \in DOMAIN poller} \ {Nobody}
    BY <1>3 DEF Ready, Heard, TypeOK
  <2> QED
    BY <1>1, <1>3, <2>1
<1>5. TypeOK' /\ SocketsAccounted'
  BY <1>2, <1>3, <1>4 DEF IInv, TypeOK, SocketsAccounted
<1>6. \A j \in Clients : InTurn(j)' /\ FunctorsOK(j)'
  BY <1>2 DEF IInv, InTurn, FunctorsOK, Waits
<1>7. (\A e \in DOMAIN poller : PollerOK(e)') /\ ActiveOK' /\ Heard'
  BY <1>2, <1>4 DEF IInv, PollerOK, ActiveOK, Heard
<1> QED
  BY <1>2, <1>5, <1>6, <1>7 DEF IInv

LEMMA SwapInvariant == ASSUME IInv, SwapFunctors PROVE IInv'
<1>1. /\ failed = "none" /\ active = {} /\ phase' = "functors"
      /\ functors' = pending /\ pending' = <<>>
      /\ UNCHANGED <<connector, conn, poller, open, net, attempt, current, active, failed>>
  BY DEF SwapFunctors, AtLoop
<1>2. TypeOK' /\ SocketsAccounted'
  BY <1>1, EmptySeq DEF IInv, TypeOK, SocketsAccounted
<1>3. \A f : Waits(f)' => Waits(f)
  BY <1>1, WaitsSwap DEF IInv, TypeOK
<1>4. \A j \in Clients : InTurn(j)' /\ FunctorsOK(j)'
  BY <1>1, <1>3 DEF IInv, InTurn, FunctorsOK
<1>5. (\A e \in DOMAIN poller : PollerOK(e)') /\ ActiveOK' /\ Heard'
  BY <1>1 DEF IInv, PollerOK, ActiveOK, Heard
<1> QED
  BY <1>1, <1>2, <1>4, <1>5 DEF IInv

LEMMA KeyboardInvariant == ASSUME IInv, NEW i \in Clients, HandleKeyboardInput(i) PROVE IInv'
<1>1. /\ failed = "none" /\ phase = "dispatch" /\ active' \subseteq active
      /\ UNCHANGED <<connector, conn, poller, open, net, attempt, current, phase, functors,
                     pending, failed>>
  BY DEF HandleKeyboardInput, Handling, AtLoop
<1>2. TypeOK' /\ SocketsAccounted'
  BY <1>1 DEF IInv, TypeOK, SocketsAccounted
<1>3. \A j \in Clients : InTurn(j)' /\ FunctorsOK(j)'
  BY <1>1 DEF IInv, InTurn, FunctorsOK, Waits
<1>4. (\A e \in DOMAIN poller : PollerOK(e)') /\ ActiveOK' /\ Heard'
  BY <1>1 DEF IInv, PollerOK, ActiveOK, Heard
<1> QED
  BY <1>1, <1>2, <1>3, <1>4 DEF IInv
-----------------------------------------------------------------------------
(* The handlers of the connector and of the connection *)

(* A connector that is heard is the one that tries, by its registered channel. *)
LEMMA HeardConnector ==
  ASSUME IInv, NEW i \in Clients, Handling(Owner("connector", i))
  PROVE  /\ i = current /\ connector[i].state = "kConnecting"
         /\ connector[i].channel \in Fds
         /\ poller[connector[i].channel] = Owner("connector", i)
         /\ conn[i] = [state |-> "none", fd |-> 0]
         /\ ~Waits(Functor("resetChannel", i))
         /\ \A j \in Clients : connector[j].state = "kConnecting" => j = i
         /\ \A j \in Clients : conn[j].fd # connector[i].channel
<1>1. /\ failed = "none" /\ Owner("connector", i) \in active
      /\ DOMAIN poller = {Stdin} \cup Fds /\ TypeOK
      /\ \A j \in Clients : InTurn(j) /\ FunctorsOK(j)
  BY DEF IInv, TypeOK, Handling, AtLoop
<1>2. PICK d \in DOMAIN poller : poller[d] = Owner("connector", i)
  BY <1>1 DEF IInv, ActiveOK
<1>3. connector[i].state = "kConnecting" /\ connector[i].channel = d
  BY <1>1, <1>2 DEF IInv, PollerOK
<1>4. i = current /\ conn[i] = [state |-> "none", fd |-> 0] /\ ~Waits(Functor("resetChannel", i))
  BY <1>1, <1>3 DEF InTurn, FunctorsOK, TypeOK, Clients
<1>5. d \in open
  BY <1>3 DEF IInv, SocketsAccounted
<1>6. d \in Fds /\ d # 0
  BY <1>1, <1>5 DEF TypeOK, Fds
<1>7. ASSUME NEW j \in Clients PROVE conn[j].fd # d
  BY <1>3, <1>6, <1>7 DEF IInv, SocketsAccounted
<1> QED
  BY <1>1, <1>2, <1>3, <1>4, <1>6, <1>7 DEF InTurn

LEMMA ErrorInvariant == ASSUME IInv, NEW i \in Clients, HandleError(i) PROVE IInv'
<1> DEFINE d == connector[i].channel
<1>1. /\ failed = "none" /\ phase = "dispatch" /\ attempt = 0
      /\ active' = active \ {Owner("connector", i)}
      /\ pending' = Append(pending, Functor("resetChannel", i))
      /\ poller' = [poller EXCEPT ![d] = Nobody]
      /\ open' = open \ {d}
      /\ net' = [net EXCEPT ![d] = "none"]
      /\ connector' = [connector EXCEPT ![i] = [Nested(@) EXCEPT !.state = "kDisconnected"]]
      /\ attempt' = i
      /\ UNCHANGED <<conn, current, phase, functors, failed>>
  BY DEF HandleError, Handling, AtLoop, RemoveAndResetChannel
<1>2. /\ i = current /\ connector[i].state = "kConnecting" /\ d \in Fds
      /\ poller[d] = Owner("connector", i) /\ ~Waits(Functor("resetChannel", i))
      /\ \A j \in Clients : connector[j].state = "kConnecting" => j = i
      /\ \A j \in Clients : conn[j].fd # d
  BY HeardConnector DEF HandleError
<1>3. /\ TypeOK /\ SocketsAccounted /\ Heard /\ ActiveOK
      /\ \A j \in Clients : InTurn(j) /\ FunctorsOK(j)
      /\ \A e \in DOMAIN poller : PollerOK(e)
      /\ DOMAIN poller = {Stdin} \cup Fds /\ DOMAIN poller' = DOMAIN poller
  BY <1>1 DEF IInv, TypeOK
<1>4. connector[i] \in Connectors
  BY <1>3 DEF TypeOK, Connectors
<1>5. Nested(connector[i]) \in Connectors /\ Nested(connector[i]).channel = d
  BY <1>4, RetryTypes
<1>d. d # 0
  BY <1>2 DEF Fds
<1> HIDE DEF d
<1>6. /\ \A j \in Clients \ {i} : connector'[j] = connector[j]
      /\ connector'[i].state = "kDisconnected" /\ connector'[i].channel = d
      /\ connector' \in [Clients -> [state : {"kDisconnected", "kConnecting", "kConnected"},
                                     channel : Fds \cup {0}, delay : DOMAIN Delays,
                                     retries : 0 .. Len(Delays)]]
  <2>1. connector \in [Clients -> [state : {"kDisconnected", "kConnecting", "kConnected"},
                                   channel : Fds \cup {0}, delay : DOMAIN Delays,
                                   retries : 0 .. Len(Delays)]]
    BY <1>3 DEF TypeOK
  <2> QED
    BY <1>1, <1>5, <2>1 DEF Connectors
<1>7. TypeOK'
  BY <1>1, <1>3, <1>6, OwnerTypes, AppendProperties DEF TypeOK, Owners, Nobody, Owner
<1>8. SocketsAccounted'
  BY <1>1, <1>2, <1>3, <1>6 DEF SocketsAccounted, d
<1>9. ASSUME NEW j \in Clients PROVE InTurn(j)'
  BY <1>1, <1>2, <1>3, <1>6 DEF InTurn, TypeOK
<1>10. ASSUME NEW j \in Clients PROVE FunctorsOK(j)'
  <2>1. ASSUME Waits(Functor("connectDestroyed", j))'
        PROVE  Waits(Functor("connectDestroyed", j))
    BY <1>1, <1>3, <2>1, WaitsAppend, OwnerTypes, Names DEF TypeOK
  <2>2. ASSUME j # i, Waits(Functor("resetChannel", j))'
        PROVE  Waits(Functor("resetChannel", j))
    BY <1>1, <1>3, <2>2, WaitsAppend, OwnerTypes, Names DEF TypeOK
  <2>3. CASE j = i
    BY <1>1, <1>2, <1>3, <1>6, <1>d, <2>1, <2>3 DEF FunctorsOK, Clients, TypeOK
  <2>4. CASE j # i
    BY <1>1, <1>3, <1>6, <2>1, <2>2, <2>4 DEF FunctorsOK
  <2> QED
    BY <2>3, <2>4
<1>11. ASSUME NEW e \in DOMAIN poller PROVE PollerOK(e)'
  <2>1. CASE e = d
    <3>1. poller'[e] = Nobody
      BY <1>1, <1>3, <2>1
    <3> QED
      BY <3>1, OwnerTypes DEF PollerOK
  <2>2. CASE e # d
    <3>1. poller'[e] = poller[e] /\ PollerOK(e)
      BY <1>1, <1>3, <2>2
    <3>2. poller[e] # Owner("connector", i)
      BY <2>2, <3>1 DEF PollerOK, d
    <3> QED
      BY <1>1, <1>6, <3>1, <3>2 DEF PollerOK
  <2> QED
    BY <2>1, <2>2
<1>12. Heard'
  <2>1. ASSUME NEW e \in Fds, net'[e] # "none" PROVE poller'[e] # Nobody
    BY <1>1, <1>2, <1>3, <2>1 DEF Heard, TypeOK
  <2>2. ASSUME NEW j \in Clients, conn[j].state = "kDisconnected"
        PROVE  conn[j].fd \in Fds /\ net'[conn[j].fd] = "none"
    BY <1>1, <1>3, <2>2 DEF Heard, TypeOK
  <2> QED
    BY <1>1, <1>3, <2>1, <2>2 DEF Heard
<1>13. ActiveOK'
  BY <1>1, <1>2, <1>3 DEF ActiveOK
<1> QED
  BY <1>1, <1>3, <1>7, <1>8, <1>9, <1>10, <1>11, <1>12, <1>13 DEF IInv

LEMMA WriteInvariant == ASSUME IInv, NEW i \in Clients, HandleWrite(i) PROVE IInv'
<1> DEFINE d == connector[i].channel
<1>1. /\ failed = "none" /\ phase = "dispatch" /\ attempt = 0
      /\ active' = active \ {Owner("connector", i)}
      /\ pending' = Append(pending, Functor("resetChannel", i))
      /\ poller' = [poller EXCEPT ![d] = Owner("connection", i), ![Stdin] = Owner("keyboard", i)]
      /\ net' = [net EXCEPT ![d] = "up"]
      /\ connector' = [connector EXCEPT ![i].state = "kConnected"]
      /\ conn' = [conn EXCEPT ![i] = [state |-> "kConnected", fd |-> d]]
      /\ current' = current + 1
      /\ attempt' = IF current < NumClients THEN current + 1 ELSE 0
      /\ failed' = IF poller[Stdin] # Nobody THEN "updateChannel" ELSE failed
      /\ UNCHANGED <<open, phase, functors>>
  BY DEF HandleWrite, Handling, AtLoop, RemoveAndResetChannel, NewConnection,
         ConnectEstablished, StartNext
<1>2. /\ i = current /\ connector[i].state = "kConnecting" /\ d \in Fds
      /\ poller[d] = Owner("connector", i) /\ ~Waits(Functor("resetChannel", i))
      /\ \A j \in Clients : connector[j].state = "kConnecting" => j = i
      /\ \A j \in Clients : conn[j].fd # d
      /\ conn[i] = [state |-> "none", fd |-> 0]
  BY HeardConnector DEF HandleWrite
<1>3. /\ TypeOK /\ SocketsAccounted /\ Heard /\ ActiveOK
      /\ \A j \in Clients : InTurn(j) /\ FunctorsOK(j)
      /\ \A e \in DOMAIN poller : PollerOK(e)
      /\ DOMAIN poller = {Stdin} \cup Fds /\ DOMAIN poller' = DOMAIN poller
  BY <1>1 DEF IInv, TypeOK
<1>d. d # Stdin /\ i \in 1 .. NumClients /\ NumClients \in Nat /\ Stdin = 0
  BY <1>2, ClientAssumption DEF Fds, Stdin, Clients
<1> HIDE DEF d
<1>6. /\ \A j \in Clients \ {i} : connector'[j] = connector[j] /\ conn'[j] = conn[j]
      /\ connector'[i].state = "kConnected" /\ connector'[i].channel = d
      /\ conn'[i] = [state |-> "kConnected", fd |-> d]
      /\ connector' \in [Clients -> [state : {"kDisconnected", "kConnecting", "kConnected"},
                                     channel : Fds \cup {0}, delay : DOMAIN Delays,
                                     retries : 0 .. Len(Delays)]]
  <2>1. /\ connector \in [Clients -> Connectors]
        /\ conn \in [Clients -> [state : {"none", "kConnected", "kDisconnected", "freed"},
                                 fd : Fds \cup {0}]]
    BY <1>3 DEF TypeOK, Connectors
  <2>2. [connector[i] EXCEPT !.state = "kConnected"] \in Connectors
    BY <2>1 DEF Connectors
  <2>3. connector' \in [Clients -> Connectors]
    BY <1>1, <2>1, <2>2
  <2>4. connector'[i].state = "kConnected" /\ connector'[i].channel = d
    BY <1>1, <2>1 DEF d, Connectors
  <2> QED
    BY <1>1, <2>1, <2>3, <2>4 DEF Connectors
<1>7. TypeOK'
  <2>1. poller' \in [{Stdin} \cup Fds -> Owners]
    BY <1>1, <1>3, OwnerTypes DEF TypeOK
  <2>2. pending' \in Seq(Functors)
    BY <1>1, <1>3, OwnerTypes, AppendProperties DEF TypeOK
  <2>3. current' \in 1 .. NumClients + 1 /\ attempt' \in Clients \cup {0}
    BY <1>1, <1>2, <1>d DEF Clients
  <2>4. conn' \in [Clients -> [state : {"none", "kConnected", "kDisconnected", "freed"},
                               fd : Fds \cup {0}]]
    BY <1>1, <1>2, <1>3 DEF TypeOK
  <2>5. /\ net' \in [Fds -> {"none", "pending", "ok", "error", "self", "up", "gone"}]
        /\ open' \subseteq Fds /\ active' \subseteq Owners /\ functors' \in Seq(Functors)
        /\ phase' \in {"poll", "dispatch", "functors"}
        /\ failed' \in {"none", "connecting", "updateChannel", "~Channel"}
    BY <1>1, <1>3 DEF TypeOK
  <2> QED
    BY <1>6, <2>1, <2>2, <2>3, <2>4, <2>5 DEF TypeOK
<1>8. SocketsAccounted'
  BY <1>1, <1>2, <1>3, <1>6, <1>d DEF SocketsAccounted, d
<1>9. ASSUME NEW j \in Clients PROVE InTurn(j)'
  <2>1. InTurn(j) /\ current \in 1 .. NumClients + 1 /\ j \in Nat
    BY <1>3, <1>d DEF TypeOK, Clients
  <2>2. i = current /\ current' = current + 1
    BY <1>1, <1>2
  <2>3. attempt' = j => j = current'
    BY <1>1, <1>2, <1>d DEF Clients
  <2>4. j # i => connector[j].state # "kConnecting"
    BY <2>1, <2>2 DEF InTurn
  <2>5. CASE j = i
    BY <1>6, <2>1, <2>2, <2>3, <2>5 DEF InTurn
  <2>6. CASE j # i
    <3>1. connector'[j] = connector[j] /\ conn'[j] = conn[j]
      BY <1>6, <2>6
    <3>2. j < current' <=> j < current
      BY <2>1, <2>2, <2>6
    <3>3. connector[j].state \in {"kDisconnected", "kConnecting", "kConnected"}
      BY <1>3 DEF TypeOK
    <3> QED
      BY <2>1, <2>2, <2>3, <2>4, <3>1, <3>2, <3>3 DEF InTurn
  <2> QED
    BY <2>5, <2>6
<1>10. SUFFICES ASSUME failed' = "none"
       PROVE /\ \A j \in Clients : FunctorsOK(j)'
             /\ \A e \in DOMAIN poller : PollerOK(e)'
             /\ Heard' /\ ActiveOK'
  BY <1>3, <1>7, <1>8, <1>9 DEF IInv
<1>s. poller[Stdin] = Nobody
  BY <1>1, <1>10
<1>11. ASSUME NEW j \in Clients PROVE FunctorsOK(j)'
  <2>1. ASSUME Waits(Functor("connectDestroyed", j))'
        PROVE  Waits(Functor("connectDestroyed", j))
    BY <1>1, <1>3, <2>1, WaitsAppend, OwnerTypes, Names DEF TypeOK
  <2>2. ASSUME j # i, Waits(Functor("resetChannel", j))'
        PROVE  Waits(Functor("resetChannel", j))
    BY <1>1, <1>3, <2>2, WaitsAppend, OwnerTypes, Names DEF TypeOK
  <2>3. CASE j = i
    <3>1. i <= current' /\ attempt' # i
      BY <1>1, <1>2, <1>d
    <3>2. ~Waits(Functor("connectDestroyed", i))
      BY <1>2, <1>3 DEF FunctorsOK
    <3> QED
      BY <1>6, <2>1, <2>3, <3>1, <3>2 DEF FunctorsOK
  <2>4. CASE j # i
    BY <1>1, <1>2, <1>3, <1>6, <1>d, <2>1, <2>2, <2>4 DEF FunctorsOK, Clients
  <2> QED
    BY <2>3, <2>4
<1>12. ASSUME NEW e \in DOMAIN poller PROVE PollerOK(e)'
  <2>1. CASE e = d
    <3>1. poller'[e] = Owner("connection", i)
      BY <1>1, <1>3, <1>d, <2>1
    <3>2. ASSUME NEW j \in Clients
          PROVE  /\ poller'[e] = Owner("connection", j) => j = i
                 /\ poller'[e] # Owner("connector", j) /\ poller'[e] # Owner("keyboard", j)
      BY <3>1, Names
    <3> QED
      BY <1>6, <1>d, <2>1, <3>2 DEF PollerOK
  <2>2. CASE e = Stdin
    <3>1. poller'[e] = Owner("keyboard", i)
      BY <1>1, <1>3, <1>d, <2>2
    <3>2. ASSUME NEW j \in Clients
          PROVE  /\ poller'[e] = Owner("keyboard", j) => j = i
                 /\ poller'[e] # Owner("connector", j) /\ poller'[e] # Owner("connection", j)
      BY <3>1, Names
    <3> QED
      BY <1>6, <1>d, <2>2, <3>2 DEF PollerOK
  <2>3. CASE e # d /\ e # Stdin
    <3>1. poller'[e] = poller[e] /\ PollerOK(e)
      BY <1>1, <1>3, <2>3
    <3>2. /\ poller[e] # Owner("connector", i)
          /\ poller[e] # Owner("connection", i) /\ poller[e] # Owner("keyboard", i)
      BY <1>2, <1>d, <2>3, <3>1 DEF PollerOK, d
    <3> QED
      BY <1>1, <1>6, <3>1, <3>2 DEF PollerOK
  <2> QED
    BY <2>1, <2>2, <2>3
<1>13. Heard'
  <2>1. ASSUME NEW e \in Fds, net'[e] # "none" PROVE poller'[e] # Nobody
    BY <1>1, <1>2, <1>3, <1>d, <2>1, OwnerTypes DEF Heard, TypeOK, Fds
  <2>2. ASSUME NEW j \in Clients, conn'[j].state = "kDisconnected"
        PROVE  conn'[j].fd \in Fds /\ net'[conn'[j].fd] = "none"
    BY <1>1, <1>2, <1>3, <1>6, <2>2 DEF Heard, TypeOK
  <2>3. ASSUME NEW j \in Clients, conn'[j].state = "freed" PROVE conn'[j].fd = 0
    BY <1>3, <1>6, <2>3 DEF Heard
  <2> QED
    BY <2>1, <2>2, <2>3 DEF Heard
<1>14. ActiveOK'
  BY <1>1, <1>2, <1>3, <1>s DEF ActiveOK, Fds, Stdin
<1> QED
  BY <1>11, <1>12, <1>13, <1>14

LEMMA CloseInvariant == ASSUME IInv, NEW i \in Clients, HandleClose(i) PROVE IInv'
<1>1. /\ failed = "none" /\ phase = "dispatch" /\ Owner("connection", i) \in active
      /\ active' = active \ {Owner("connection", i)}
      /\ conn' = [conn EXCEPT ![i].state = "kDisconnected"]
      /\ net' = [net EXCEPT ![conn[i].fd] = "none"]
      /\ pending' = Append(pending, Functor("connectDestroyed", i))
      /\ UNCHANGED <<connector, poller, open, attempt, current, phase, functors, failed>>
  BY DEF HandleClose, Handling, AtLoop, RemoveConnection
<1>2. /\ TypeOK /\ SocketsAccounted /\ Heard /\ ActiveOK
      /\ \A j \in Clients : InTurn(j) /\ FunctorsOK(j)
      /\ \A e \in DOMAIN poller : PollerOK(e)
      /\ DOMAIN poller = {Stdin} \cup Fds /\ DOMAIN poller' = DOMAIN poller
  BY <1>1 DEF IInv, TypeOK
<1>3. conn[i].fd \in Fds
  <2>1. PICK d \in DOMAIN poller : poller[d] = Owner("connection", i)
    BY <1>1, <1>2 DEF ActiveOK
  <2> QED
    BY <1>2, <2>1 DEF PollerOK
<1>4. /\ \A j \in Clients \ {i} : conn'[j] = conn[j]
      /\ conn'[i].state = "kDisconnected" /\ \A j \in Clients : conn'[j].fd = conn[j].fd
  BY <1>1, <1>2 DEF TypeOK
<1>5. TypeOK'
  <2>1. pending' \in Seq(Functors)
    BY <1>1, <1>2, OwnerTypes, AppendProperties DEF TypeOK
  <2>2. /\ conn' \in [Clients -> [state : {"none", "kConnected", "kDisconnected", "freed"},
                                  fd : Fds \cup {0}]]
        /\ net' \in [Fds -> {"none", "pending", "ok", "error", "self", "up", "gone"}]
    BY <1>1, <1>2 DEF TypeOK
  <2>3. /\ active' \subseteq Owners
        /\ UNCHANGED <<connector, poller, open, attempt, current, phase, functors, failed>>
    BY <1>1, <1>2 DEF TypeOK
  <2> QED
    BY <1>2, <2>1, <2>2, <2>3 DEF TypeOK
<1>6. SocketsAccounted'
  BY <1>1, <1>2, <1>4 DEF SocketsAccounted
<1>7. ASSUME NEW j \in Clients PROVE InTurn(j)'
  BY <1>1, <1>2, <1>3, <1>4 DEF InTurn, Fds, TypeOK
<1>w. pending \in Seq(Functors)
  BY <1>2 DEF TypeOK
<1>8. ASSUME NEW j \in Clients PROVE FunctorsOK(j)'
  <2>1. ASSUME Waits(Functor("resetChannel", j))'
        PROVE  Waits(Functor("resetChannel", j))
    BY <1>1, <1>w, <2>1, WaitsAppend, OwnerTypes, Names
  <2>2. ASSUME j # i, Waits(Functor("connectDestroyed", j))'
        PROVE  Waits(Functor("connectDestroyed", j))
    BY <1>1, <1>w, <2>2, WaitsAppend, OwnerTypes, Names
  <2> QED
    BY <1>1, <1>2, <1>4, <2>1, <2>2 DEF FunctorsOK
<1>9. ASSUME NEW e \in DOMAIN poller PROVE PollerOK(e)'
  BY <1>1, <1>2, <1>4 DEF PollerOK
<1>10. Heard'
  <2>1. ASSUME NEW e \in Fds, net'[e] # "none" PROVE poller'[e] # Nobody
    BY <1>1, <1>2, <2>1 DEF Heard, TypeOK
  <2>2. ASSUME NEW j \in Clients, conn'[j].state = "kDisconnected"
        PROVE  conn'[j].fd \in Fds /\ net'[conn'[j].fd] = "none"
    BY <1>1, <1>2, <1>3, <1>4, <2>2 DEF Heard, TypeOK
  <2>3. ASSUME NEW j \in Clients, conn'[j].state = "freed" PROVE conn'[j].fd = 0
    BY <1>2, <1>4, <2>3 DEF Heard
  <2> QED
    BY <2>1, <2>2, <2>3 DEF Heard
<1>11. ActiveOK'
  BY <1>1, <1>2 DEF ActiveOK
<1> QED
  BY <1>1, <1>2, <1>5, <1>6, <1>7, <1>8, <1>9, <1>10, <1>11 DEF IInv
-----------------------------------------------------------------------------
(* The functors *)

(* What a functor leaves alone, and that it waited. *)
LEMMA FunctorRan ==
  ASSUME IInv, NEW op \in {"resetChannel", "connectDestroyed"}, NEW i \in Clients,
         RunFunctor(op, i)
  PROVE  /\ failed = "none" /\ attempt = 0 /\ active = {} /\ Waits(Functor(op, i))
         /\ functors' \in Seq(Functors)
         /\ \A f : Waits(f)' => Waits(f)
         /\ UNCHANGED <<net, attempt, current, phase, active, pending>>
<1>1. /\ failed = "none" /\ attempt = 0 /\ phase = "functors" /\ functors # <<>>
      /\ Head(functors) = Functor(op, i) /\ functors' = Tail(functors)
      /\ UNCHANGED <<net, attempt, current, phase, active, pending>>
  BY DEF RunFunctor, AtLoop
<1>2. functors \in Seq(Functors) /\ active = {}
  BY <1>1 DEF IInv, TypeOK, ActiveOK
<1>3. functors' \in Seq(Functors) /\ 1 \in 1 .. Len(functors) /\ functors[1] = Functor(op, i)
  BY <1>1, <1>2, HeadTailProperties
<1>4. \A f : Waits(f)' => Waits(f)
  BY <1>1, <1>2, WaitsTail
<1> QED
  BY <1>1, <1>2, <1>3, <1>4 DEF Waits

LEMMA ResetInvariant == ASSUME IInv, NEW i \in Clients, ResetChannel(i) PROVE IInv'
<1>1. /\ connector' = [connector EXCEPT ![i].channel = 0]
      /\ UNCHANGED <<conn, poller, open, failed>>
  BY DEF ResetChannel
<1>2. /\ failed = "none" /\ attempt = 0 /\ active = {} /\ Waits(Functor("resetChannel", i))
      /\ functors' \in Seq(Functors) /\ \A f : Waits(f)' => Waits(f)
      /\ UNCHANGED <<net, attempt, current, phase, active, pending>>
  BY FunctorRan DEF ResetChannel
<1>3. /\ TypeOK /\ SocketsAccounted /\ Heard /\ ActiveOK
      /\ \A j \in Clients : InTurn(j) /\ FunctorsOK(j)
      /\ \A e \in DOMAIN poller : PollerOK(e)
  BY <1>2 DEF IInv
<1>4. connector[i].state # "kConnecting" /\ 0 \notin Clients
  BY <1>2, <1>3 DEF FunctorsOK, Clients
<1>5. /\ \A j \in Clients \ {i} : connector'[j] = connector[j]
      /\ connector'[i].state = connector[i].state
  BY <1>1, <1>3 DEF TypeOK
<1>6. TypeOK'
  BY <1>1, <1>2, <1>3 DEF TypeOK
<1>7. SocketsAccounted'
  BY <1>1, <1>3, <1>4, <1>5 DEF SocketsAccounted
<1>8. ASSUME NEW j \in Clients PROVE InTurn(j)' /\ FunctorsOK(j)'
  BY <1>1, <1>2, <1>3, <1>4, <1>5 DEF InTurn, FunctorsOK
<1>9. ASSUME NEW e \in DOMAIN poller PROVE PollerOK(e)'
  BY <1>1, <1>3, <1>4, <1>5 DEF PollerOK
<1>10. Heard' /\ ActiveOK'
  BY <1>1, <1>2, <1>3 DEF Heard, ActiveOK
<1> QED
  BY <1>1, <1>6, <1>7, <1>8, <1>9, <1>10 DEF IInv

LEMMA DestroyedInvariant == ASSUME IInv, NEW i \in Clients, ConnectDestroyed(i) PROVE IInv'
<1>1. /\ poller' = [poller EXCEPT ![conn[i].fd] = Nobody]
      /\ UNCHANGED <<connector, conn, open, failed>>
  BY DEF ConnectDestroyed
<1>2. /\ failed = "none" /\ active = {} /\ Waits(Functor("connectDestroyed", i))
      /\ functors' \in Seq(Functors) /\ \A f : Waits(f)' => Waits(f)
      /\ UNCHANGED <<net, attempt, current, phase, active, pending>>
  BY FunctorRan DEF ConnectDestroyed
<1>3. /\ TypeOK /\ SocketsAccounted /\ Heard /\ ActiveOK
      /\ \A j \in Clients : InTurn(j) /\ FunctorsOK(j)
      /\ \A e \in DOMAIN poller : PollerOK(e)
      /\ DOMAIN poller = {Stdin} \cup Fds /\ DOMAIN poller' = DOMAIN poller
  BY <1>1, <1>2 DEF IInv, TypeOK
<1>4. TypeOK'
  BY <1>1, <1>2, <1>3 DEF TypeOK, Owners, Nobody, Owner
<1>5. SocketsAccounted'
  BY <1>1, <1>3 DEF SocketsAccounted
<1>6. ASSUME NEW j \in Clients PROVE InTurn(j)' /\ FunctorsOK(j)'
  BY <1>1, <1>2, <1>3 DEF InTurn, FunctorsOK
<1>7. ASSUME NEW e \in DOMAIN poller PROVE PollerOK(e)'
  <2>1. poller'[e] = poller[e] \/ poller'[e] = Nobody
    BY <1>1, <1>3
  <2> QED
    BY <1>1, <1>3, <2>1, OwnerTypes DEF PollerOK
<1>8. Heard'
  <2>1. conn[i].state = "freed" => conn[i].fd \notin Fds
    BY <1>3 DEF Heard, Fds
  <2>2. conn[i].fd \in Fds => net[conn[i].fd] = "none"
    BY <1>2, <1>3, <2>1 DEF Heard, FunctorsOK
  <2> QED
    BY <1>1, <1>2, <1>3, <2>2 DEF Heard
<1>9. ActiveOK'
  BY <1>1, <1>2, <1>3 DEF ActiveOK
<1> QED
  BY <1>1, <1>3, <1>4, <1>5, <1>6, <1>7, <1>8, <1>9 DEF IInv

(* A connection that is freed has left the poller, and takes its own descriptor
   with it only. *)
LEMMA DoneInvariant == ASSUME IInv, FunctorsDone PROVE IInv'
<1> DEFINE gone == {i \in Clients : conn[i].state = "kDisconnected" /\ poller[conn[i].fd] = Nobody}
<1>1. /\ failed = "none" /\ phase = "functors" /\ phase' = "poll"
      /\ conn' = [i \in Clients |-> IF i \in gone THEN [state |-> "freed", fd |-> 0] ELSE conn[i]]
      /\ open' = open \ {conn[i].fd : i \in gone}
      /\ failed' = IF \E i \in gone : poller[Stdin] = Owner("keyboard", i) THEN "~Channel" ELSE failed
      /\ UNCHANGED <<connector, poller, net, attempt, current, active, functors, pending>>
  BY DEF FunctorsDone, AtLoop
<1>2. /\ TypeOK /\ SocketsAccounted /\ Heard /\ ActiveOK
      /\ \A j \in Clients : InTurn(j) /\ FunctorsOK(j)
      /\ \A e \in DOMAIN poller : PollerOK(e)
  BY <1>1 DEF IInv
<1>3. \A j \in gone : /\ j \in Clients /\ conn[j].state = "kDisconnected"
                      /\ conn[j].fd \in Fds /\ poller[conn[j].fd] = Nobody
  BY <1>2 DEF Heard
<1> HIDE DEF gone
<1>4. \A j \in Clients : /\ j \notin gone => conn'[j] = conn[j]
                         /\ j \in gone => conn'[j].state = "freed" /\ conn'[j].fd = 0
  BY <1>1
<1>z. 0 \notin Fds
  BY DEF Fds
<1>5. TypeOK'
  <2>1. conn' \in [Clients -> [state : {"none", "kConnected", "kDisconnected", "freed"},
                               fd : Fds \cup {0}]]
    BY <1>1, <1>2 DEF TypeOK
  <2> QED
    BY <1>1, <1>2, <2>1 DEF TypeOK
<1>6. SocketsAccounted'
  BY <1>1, <1>2, <1>3, <1>4, <1>z DEF SocketsAccounted
<1>7. ASSUME NEW j \in Clients PROVE InTurn(j)'
  BY <1>1, <1>2, <1>3, <1>4 DEF InTurn, TypeOK
<1>8. SUFFICES ASSUME failed' = "none"
      PROVE /\ \A j \in Clients : FunctorsOK(j)'
            /\ \A e \in DOMAIN poller : PollerOK(e)'
            /\ Heard' /\ ActiveOK'
  BY <1>1, <1>5, <1>6, <1>7 DEF IInv
<1>9. ASSUME NEW j \in Clients PROVE FunctorsOK(j)'
  BY <1>1, <1>2, <1>4 DEF FunctorsOK, Waits
<1>10. ASSUME NEW e \in DOMAIN poller PROVE PollerOK(e)'
  <2>1. ASSUME NEW j \in gone
        PROVE poller[e] # Owner("connection", j) /\ poller[e] # Owner("keyboard", j)
    BY <1>1, <1>2, <1>3, <1>8, OwnerTypes DEF PollerOK
  <2> QED
    BY <1>1, <1>2, <1>4, <2>1 DEF PollerOK
<1>11. Heard' /\ ActiveOK'
  BY <1>1, <1>2, <1>4 DEF Heard, ActiveOK
<1> QED
  BY <1>9, <1>10, <1>11
-----------------------------------------------------------------------------
LEMMA StepInvariant == IInv /\ [Next]_vars => IInv'
<1> SUFFICES ASSUME IInv, [Next]_vars PROVE IInv'
  OBVIOUS
<1>1. ASSUME NEW i \in Clients, ConnectPends(i) PROVE IInv'
  BY <1>1, PendsInvariant
<1>2. ASSUME NEW i \in Clients, ConnectRefused(i) PROVE IInv'
  BY <1>2, RefusedInvariant
<1>3. ASSUME NEW i \in Clients, ConnectFails(i) PROVE IInv'
  BY <1>3, FailsInvariant
<1>4. ASSUME NEW i \in Clients, HandleError(i) PROVE IInv'
  BY <1>4, ErrorInvariant
<1>5. ASSUME NEW i \in Clients, HandleWrite(i) PROVE IInv'
  BY <1>5, WriteInvariant
<1>6. ASSUME NEW i \in Clients, HandleClose(i) PROVE IInv'
  BY <1>6, CloseInvariant
<1>7. ASSUME NEW i \in Clients, HandleKeyboardInput(i) PROVE IInv'
  BY <1>7, KeyboardInvariant
<1>8. ASSUME NEW i \in Clients, ResetChannel(i) PROVE IInv'
  BY <1>8, ResetInvariant
<1>9. ASSUME NEW i \in Clients, ConnectDestroyed(i) PROVE IInv'
  BY <1>9, DestroyedInvariant
<1>10. ASSUME NEW d \in Fds, Resolve(d) \/ ServerCloses(d) PROVE IInv'
  BY <1>10, NetInvariant
<1>11. CASE Poll
  BY <1>11, PollInvariant
<1>12. CASE SwapFunctors
  BY <1>12, SwapInvariant
<1>13. CASE FunctorsDone
  BY <1>13, DoneInvariant
<1>14. CASE UNCHANGED vars
  BY <1>14 DEF vars, loopVars, IInv, TypeOK, SocketsAccounted, InTurn, FunctorsOK, Waits,
               PollerOK, Heard, ActiveOK
<1> QED
  BY <1>1, <1>2, <1>3, <1>4, <1>5, <1>6, <1>7, <1>8, <1>9, <1>10, <1>11, <1>12, <1>13, <1>14
     DEF Next

(* The inductive invariant holds of every reachable state. *)
THEOREM Inductive == Spec => []IInv
<1> QED
  BY InitInvariant, StepInvariant, PTL DEF Spec

(* The types of the client's state. *)
THEOREM TypeCorrect == Spec => []TypeOK
<1>1. IInv => TypeOK
  BY DEF IInv
<1> QED
  BY <1>1, Inductive, PTL

(* However often connects are refused and retried, and connections lost, the
   sockets that are open are those of the connect under way and of the connections
   that are not yet freed. *)
THEOREM NoSocketLeaks == Spec => []SocketsAccounted
<1>1. IInv => SocketsAccounted
  BY DEF IInv
<1> QED
  BY <1>1, Inductive, PTL

(* While the process runs, what the poller points to is alive, and what epoll
   reported is still registered when its turn comes. *)
THEOREM ChannelsLive == Spec => []NoDanglingChannel
<1>1. IInv => NoDanglingChannel
  BY DEF IInv, NoDanglingChannel, PollerOK, ActiveOK
<1> QED
  BY <1>1, Inductive, PTL
=============================================================================
