--------------------------- MODULE TcpServerProofs ---------------------------
(***************************************************************************)
(* Proofs about TcpServer, for any connections, loops, thread pools and    *)
(* descriptors: the types, that no assertion fails, that the pollers'      *)
(* pointers do not dangle, and that every connection lives as              *)
(* ConnectionLife says.                                                    *)
(***************************************************************************)
EXTENDS TcpServer, SequenceTheorems, TLAPS

Up == {"kConnected", "kDisconnecting"}

(* Of the batch b, of which r functors have run, and of the queue q behind it:
   functor f has still to run; it has at most once. *)
Owed(b, r, q, f) ==
  \/ \E i \in 1 .. Len(b) : r < i /\ b[i] = f
  \/ \E i \in 1 .. Len(q) : q[i] = f

Single(b, r, q, f) ==
  /\ \A i, j \in 1 .. Len(b) : r < i /\ r < j /\ b[i] = f /\ b[j] = f => i = j
  /\ \A i, j \in 1 .. Len(q) : q[i] = f /\ q[j] = f => i = j
  /\ \A i \in 1 .. Len(b), j \in 1 .. Len(q) : ~(r < i /\ b[i] = f /\ q[j] = f)

Owes(l, f) == Owed(functors[l], ran[l], pending[l], f)

Once(l, f) == Single(functors[l], ran[l], pending[l], f)

Typed ==
  /\ TypeOK
  /\ calls \in [Conns -> Seq({"UP", "DOWN"})]
  /\ ran \in [Loops -> Nat]
  /\ pool # <<>> => nextLoop \in 1 .. Len(pool)

(* A loop has events only while it dispatches, and a batch only while it runs it. *)
LoopOK(l) ==
  /\ phase[l] # "dispatch" => active[l] = {}
  /\ phase[l] # "functors" => functors[l] = <<>>

(* An event is of a registered channel of this loop, and one to read of a
   connection that has not closed yet. *)
ActiveOK(l) ==
  \A e \in active[l] : e.conn # NoConn =>
    /\ e.conn \in Conns
    /\ Alive(e.conn) /\ conn[e.conn].loop = l /\ conn[e.conn].index # "kNew"
    /\ e.what = "in" => conn[e.conn].state \in Up

PollerOK(l) ==
  \A d \in Fds : poller[l][d] # NoConn =>
    LET k == poller[l][d]
    IN  Alive(k) /\ conn[k].loop = l /\ conn[k].fd = d /\ conn[k].index # "kNew"

Registered(k) == poller[conn[k].loop][conn[k].fd] = k

Destroy(k) == Functor("connectDestroyed", k)

(* What the state of a connection says of its channel, of connections_, of what
   the user heard, and of the functors that must still come. *)
ConnOK(k) ==
  /\ peer[k] \in {"none", "waiting", "refused"} => conn[k].state = "none"
  /\ conn[k].state = "none" => k \notin inMap /\ calls[k] = <<>>
  /\ conn[k].state = "kConnecting" =>
       /\ k \in inMap /\ calls[k] = <<>>
       /\ conn[k].index = "kNew" /\ ~conn[k].reading /\ ~conn[k].writing
  /\ conn[k].state \in Up =>
       /\ k \in inMap /\ calls[k] = <<"UP">>
       /\ conn[k].index = "kAdded" /\ conn[k].reading /\ Registered(k)
  /\ conn[k].state = "kDisconnected" =>
       /\ calls[k] = <<"UP", "DOWN">>
       /\ ~conn[k].reading /\ ~conn[k].writing
       /\ \/ conn[k].index = "kNew" /\ k \notin inMap
          \/ /\ conn[k].index = "kDeleted" /\ Registered(k)
             /\ k \in inMap \/ Owes(conn[k].loop, Destroy(k))
  /\ conn[k].state = "freed" => k \notin inMap

(* What a functor that waits in the queue of loop l says of its connection. *)
WaitingOK(l, k) ==
  /\ Owes(l, Functor("connectEstablished", k)) => conn[k].state = "kConnecting" /\ conn[k].loop = l
  /\ Owes(l, Functor("removeConnectionInLoop", k)) =>
       l = Base /\ conn[k].state = "kDisconnected" /\ k \in inMap
  /\ Owes(l, Destroy(k)) =>
       /\ conn[k].loop = l /\ conn[k].state = "kDisconnected" /\ k \notin inMap
       /\ conn[k].index = "kDeleted"
  /\ Owes(l, Functor("forceCloseInLoop", k)) =>
       conn[k].loop = l /\ conn[k].state \in Up \cup {"kDisconnected"}
  /\ \A op \in {"connectEstablished", "removeConnectionInLoop", "connectDestroyed"} :
       Once(l, Functor(op, k))

(* A functor keeps its connection alive, one that has run as well. *)
HeldOK(l, k) == Occurs(k, functors[l]) \/ Occurs(k, pending[l]) => Alive(k)

FdsDiffer == \A j, k \in Conns : conn[j].fd = conn[k].fd /\ j # k => conn[j].fd = 0

IInv ==
  /\ Typed
  /\ NoAssertionFails
  /\ \A l \in Loops : LoopOK(l) /\ ActiveOK(l) /\ PollerOK(l)
  /\ \A k \in Conns : ConnOK(k)
  /\ \A l \in Loops, k \in Conns : WaitingOK(l, k) /\ HeldOK(l, k)
  /\ FdsDiffer
-----------------------------------------------------------------------------
(* What still has to run, under the operations on the queues. *)

(* The batch's next functor has run. *)
LEMMA OwedRun ==
  ASSUME NEW S, NEW b \in Seq(S), NEW q \in Seq(S), NEW r \in Nat, r < Len(b)
  PROVE  \A f : /\ Owed(b, r + 1, q, f) => Owed(b, r, q, f)
                /\ Owed(b, r, q, f) => f = b[r + 1] \/ Owed(b, r + 1, q, f)
                /\ Single(b, r, q, f) => Single(b, r + 1, q, f)
                /\ Single(b, r, q, b[r + 1]) => ~Owed(b, r + 1, q, b[r + 1])
                /\ Owed(b, r, q, b[r + 1])
<1>1. Len(b) \in Nat /\ Len(q) \in Nat
  OBVIOUS
<1> QED
  BY <1>1 DEF Owed, Single

(* The batch is done, or there was none, and the queue takes its place. *)
LEMMA OwedSwap ==
  ASSUME NEW S, NEW b \in Seq(S), NEW q \in Seq(S), NEW r \in Nat, r >= Len(b)
  PROVE  \A f : /\ Owed(q, 0, <<>>, f) <=> Owed(b, r, q, f)
                /\ Owed(<<>>, 0, q, f) <=> Owed(b, r, q, f)
                /\ Single(b, r, q, f) => Single(q, 0, <<>>, f) /\ Single(<<>>, 0, q, f)
<1>1. Len(b) \in Nat /\ Len(q) \in Nat /\ Len(<<>>) = 0
  OBVIOUS
<1> QED
  BY <1>1 DEF Owed, Single

(* Functor g is queued. *)
LEMMA OwedAppend ==
  ASSUME NEW S, NEW b \in Seq(S), NEW q \in Seq(S), NEW r \in Nat, NEW g \in S
  PROVE  \A f : /\ Owed(b, r, Append(q, g), f) <=> Owed(b, r, q, f) \/ f = g
                /\ Single(b, r, q, f) /\ (f # g \/ ~Owed(b, r, q, f))
                     => Single(b, r, Append(q, g), f)
<1>1. Len(b) \in Nat /\ Len(q) \in Nat
  OBVIOUS
<1>2. /\ Len(Append(q, g)) = Len(q) + 1
      /\ \A i \in 1 .. Len(q) : Append(q, g)[i] = q[i]
      /\ Append(q, g)[Len(q) + 1] = g
  BY AppendProperties
<1> DEFINE s == Append(q, g)
<1>3. /\ Len(s) = Len(q) + 1
      /\ \A i \in 1 .. Len(q) : s[i] = q[i]
      /\ s[Len(q) + 1] = g
  BY <1>2
<1> HIDE DEF s
<1>4. \A i \in 1 .. Len(s) : i \in 1 .. Len(q) \/ i = Len(q) + 1
  BY <1>1, <1>3
<1>5. \A i \in 1 .. Len(q) : i \in 1 .. Len(s)
  BY <1>1, <1>3
<1>6. Len(q) + 1 \in 1 .. Len(s)
  BY <1>1, <1>3
<1>7. ASSUME NEW f PROVE Owed(b, r, s, f) <=> Owed(b, r, q, f) \/ f = g
  BY <1>3, <1>4, <1>5, <1>6 DEF Owed
<1>8. ASSUME NEW f, Single(b, r, q, f), f # g \/ ~Owed(b, r, q, f)
      PROVE  Single(b, r, s, f)
  BY <1>3, <1>4, <1>8 DEF Owed, Single
<1> QED
  BY <1>7, <1>8 DEF s

(* The queue q grows to s, by copies of functor g only. *)
Grows(q, s, g) ==
  /\ \A i \in 1 .. Len(q) : i \in 1 .. Len(s) /\ s[i] = q[i]
  /\ \A i \in 1 .. Len(s) : i \in 1 .. Len(q) \/ s[i] = g

LEMMA CopiesGrow ==
  ASSUME NEW S, NEW q \in Seq(S), NEW g \in S, NEW n \in Nat
  PROVE  /\ q \o [i \in 1 .. n |-> g] \in Seq(S)
         /\ Grows(q, q \o [i \in 1 .. n |-> g], g)
<1> DEFINE c == [i \in 1 .. n |-> g]
           s == q \o c
<1>1. c \in Seq(S) /\ Len(c) = n /\ \A i \in 1 .. n : c[i] = g
  OBVIOUS
<1> HIDE DEF c
<1>2. /\ s \in Seq(S) /\ Len(s) = Len(q) + Len(c)
      /\ \A i \in 1 .. Len(q) + Len(c) : s[i] = IF i <= Len(q) THEN q[i] ELSE c[i - Len(q)]
  BY <1>1, ConcatProperties
<1>3. Len(q) \in Nat
  OBVIOUS
<1> HIDE DEF s
<1>4. ASSUME NEW i \in 1 .. Len(s), i > Len(q) PROVE s[i] = g
  <2>1. i - Len(q) \in 1 .. n /\ s[i] = c[i - Len(q)]
    BY <1>1, <1>2, <1>3, <1>4
  <2> QED
    BY <1>1, <2>1
<1>5. Grows(q, s, g)
  BY <1>1, <1>2, <1>3, <1>4 DEF Grows
<1> QED
  BY <1>2, <1>5 DEF s, c

LEMMA OwedGrows ==
  ASSUME NEW b, NEW q, NEW r, NEW g, NEW s, Grows(q, s, g), NEW f
  PROVE  /\ Owed(b, r, q, f) => Owed(b, r, s, f)
         /\ Owed(b, r, s, f) => Owed(b, r, q, f) \/ f = g
         /\ Single(b, r, q, f) /\ f # g => Single(b, r, s, f)
  BY DEF Grows, Owed, Single
-----------------------------------------------------------------------------
(* What the assumption says of loops and descriptors. *)
LEMMA Server ==
  /\ NoConn \notin Conns /\ MaxFrames \in Nat /\ MaxFd \in Nat
  /\ Fds \subseteq Nat /\ 0 \notin Fds
  /\ \A p \in Pools : LoopsOf(p) \subseteq Loops /\ Base \in Loops /\ p \in Seq(Loops)
  BY ServerAssumption DEF Fds, Loops, LoopsOf

(* What loop l owes once the step has run what it runs, before it queues anything. *)
StillOwes(l, f) == Owed(functors[l], ran'[l], pending[l], f)

StillOnce(l, f) == Single(functors[l], ran'[l], pending[l], f)

(* How functors and what has run of them may have changed before a step queues
   functors: of one connection k, one functor may have run. *)
Advanced(k) ==
  /\ functors' = functors
  /\ ran' \in [Loops -> Nat]
  /\ \A l \in Loops : ran'[l] \in 0 .. Len(functors[l])
  /\ \A l \in Loops : \A f :
       /\ StillOwes(l, f) => Owes(l, f)
       /\ Once(l, f) => StillOnce(l, f)
       /\ Owes(l, f) /\ f.conn # k => StillOwes(l, f)

LEMMA NothingRan ==
  ASSUME Typed, NEW k, functors' = functors, ran' = ran PROVE Advanced(k)
  BY DEF Typed, TypeOK, Advanced, StillOwes, StillOnce, Owes, Once

LEMMA FunctorRan ==
  ASSUME Typed, NEW l \in Loops, NEW op, NEW k, RunFunctor(l, op, k)
  PROVE  /\ Advanced(k)
         /\ Owes(l, Functor(op, k))
         /\ \A m \in Loops : \A f : Owes(m, f) => StillOwes(m, f) \/ (m = l /\ f = Functor(op, k))
         /\ Once(l, Functor(op, k)) => ~StillOwes(l, Functor(op, k))
<1> DEFINE g == Functor(op, k)
<1>1. /\ functors' = functors /\ ran' = [ran EXCEPT ![l] = @ + 1]
      /\ ran[l] < Len(functors[l]) /\ functors[l][ran[l] + 1] = g
  BY DEF RunFunctor
<1>2. /\ functors \in [Loops -> Seq(Functors)] /\ pending \in [Loops -> Seq(Functors)]
      /\ ran \in [Loops -> Nat] /\ \A m \in Loops : ran[m] \in 0 .. Len(functors[m])
  BY DEF Typed, TypeOK
<1>3. /\ ran' \in [Loops -> Nat] /\ ran'[l] = ran[l] + 1
      /\ \A m \in Loops : m # l => ran'[m] = ran[m]
  BY <1>1, <1>2
<1>4. \A m \in Loops : ran'[m] \in 0 .. Len(functors[m])
  <2>1. Len(functors[l]) \in Nat /\ ran[l] \in Nat
    BY <1>2
  <2> QED
    BY <1>1, <1>2, <1>3, <2>1
<1>5. \A f : /\ StillOwes(l, f) => Owes(l, f)
             /\ Owes(l, f) => f = g \/ StillOwes(l, f)
             /\ Once(l, f) => StillOnce(l, f)
             /\ Once(l, g) => ~StillOwes(l, g)
             /\ Owes(l, g)
  <2>1. /\ functors[l] \in Seq(Functors) /\ pending[l] \in Seq(Functors) /\ ran[l] \in Nat
    BY <1>2
  <2> QED
    BY <1>1, <1>3, <2>1, OwedRun DEF StillOwes, StillOnce, Owes, Once
<1>6. \A m \in Loops : m # l => \A f :
        /\ StillOwes(m, f) <=> Owes(m, f)
        /\ Once(m, f) <=> StillOnce(m, f)
  BY <1>3 DEF StillOwes, StillOnce, Owes, Once
<1>7. g.conn = k
  BY DEF Functor
<1> QED
  BY <1>1, <1>3, <1>4, <1>5, <1>6, <1>7 DEF Advanced

(* A step that queues nothing. *)
LEMMA NothingQueued ==
  ASSUME NEW k, Advanced(k), pending' = pending
  PROVE  \A l \in Loops : \A f :
           /\ Owes(l, f)' <=> StillOwes(l, f)
           /\ Once(l, f)' <=> StillOnce(l, f)
  BY DEF Advanced, StillOwes, StillOnce, Owes, Once

(* A step that queues one functor. *)
LEMMA OneQueued ==
  ASSUME Typed, NEW k, Advanced(k), NEW m \in Loops, NEW g \in Functors,
         pending' = [pending EXCEPT ![m] = Append(@, g)]
  PROVE  /\ pending' \in [Loops -> Seq(Functors)]
         /\ \A l \in Loops : \A f :
              /\ Owes(l, f)' <=> StillOwes(l, f) \/ (l = m /\ f = g)
              /\ StillOnce(l, f) /\ ~(l = m /\ f = g /\ StillOwes(m, g))
                   => Once(l, f)'
         /\ \A l \in Loops, j \in Conns :
              Occurs(j, pending'[l]) => Occurs(j, pending[l]) \/ (l = m /\ j = g.conn)
<1>1. /\ functors \in [Loops -> Seq(Functors)] /\ pending \in [Loops -> Seq(Functors)]
      /\ ran' \in [Loops -> Nat] /\ functors' = functors
  BY DEF Typed, TypeOK, Advanced
<1>2. /\ pending'[m] = Append(pending[m], g) /\ pending[m] \in Seq(Functors)
      /\ \A l \in Loops : l # m => pending'[l] = pending[l]
  BY <1>1
<1>3. pending' \in [Loops -> Seq(Functors)]
  BY <1>1, AppendProperties
<1>4. \A f : /\ Owes(m, f)' <=> StillOwes(m, f) \/ f = g
             /\ StillOnce(m, f) /\ (f # g \/ ~StillOwes(m, f)) => Once(m, f)'
  <2>1. functors[m] \in Seq(Functors) /\ ran'[m] \in Nat
    BY <1>1
  <2> QED
    BY <1>1, <1>2, <2>1, OwedAppend DEF Owes, Once, StillOwes, StillOnce
<1>5. \A l \in Loops : l # m => \A f : (Owes(l, f)' <=> StillOwes(l, f)) /\ (Once(l, f)' <=> StillOnce(l, f))
  BY <1>1, <1>2 DEF Owes, Once, StillOwes, StillOnce
<1>6. \A j \in Conns : Occurs(j, pending'[m]) => Occurs(j, pending[m]) \/ j = g.conn
  <2>1. /\ Len(Append(pending[m], g)) = Len(pending[m]) + 1
        /\ DOMAIN Append(pending[m], g) = 1 .. Len(pending[m]) + 1
        /\ DOMAIN pending[m] = 1 .. Len(pending[m]) /\ Len(pending[m]) \in Nat
        /\ \A i \in 1 .. Len(pending[m]) : Append(pending[m], g)[i] = pending[m][i]
        /\ Append(pending[m], g)[Len(pending[m]) + 1] = g
    BY <1>2, AppendProperties, LenProperties
  <2> QED
    BY <1>2, <2>1 DEF Occurs
<1> QED
  BY <1>2, <1>3, <1>4, <1>5, <1>6

(* A step that queues several copies of one functor. *)
LEMMA CopiesQueued ==
  ASSUME Typed, NEW k, Advanced(k), NEW m \in Loops, NEW g \in Functors, NEW n \in Nat,
         pending' = [pending EXCEPT ![m] = @ \o [i \in 1 .. n |-> g]]
  PROVE  /\ pending' \in [Loops -> Seq(Functors)]
         /\ \A l \in Loops : \A f :
              /\ StillOwes(l, f) => Owes(l, f)'
              /\ Owes(l, f)' => StillOwes(l, f) \/ (l = m /\ f = g)
              /\ StillOnce(l, f) /\ f # g => Once(l, f)'
         /\ \A l \in Loops, j \in Conns :
              Occurs(j, pending'[l]) => Occurs(j, pending[l]) \/ (l = m /\ j = g.conn)
<1> DEFINE s == pending[m] \o [i \in 1 .. n |-> g]
<1>1. /\ functors \in [Loops -> Seq(Functors)] /\ pending \in [Loops -> Seq(Functors)]
      /\ ran' \in [Loops -> Nat] /\ functors' = functors
  BY DEF Typed, TypeOK, Advanced
<1>2. pending' = [pending EXCEPT ![m] = s] /\ pending[m] \in Seq(Functors)
  BY <1>1
<1>3. s \in Seq(Functors) /\ Grows(pending[m], s, g)
  BY <1>2, CopiesGrow
<1> HIDE DEF s
<1>4. /\ pending' \in [Loops -> Seq(Functors)] /\ pending'[m] = s
      /\ \A l \in Loops : l # m => pending'[l] = pending[l]
  BY <1>1, <1>2, <1>3
<1>5. \A f :
        /\ StillOwes(m, f) => Owes(m, f)'
        /\ Owes(m, f)' => StillOwes(m, f) \/ f = g
        /\ StillOnce(m, f) /\ f # g => Once(m, f)'
  BY <1>1, <1>3, <1>4, OwedGrows DEF Owes, Once, StillOwes, StillOnce
<1>6. \A l \in Loops : l # m => \A f :
        (Owes(l, f)' <=> StillOwes(l, f)) /\ (Once(l, f)' <=> StillOnce(l, f))
  BY <1>1, <1>4 DEF Owes, Once, StillOwes, StillOnce
<1>7. \A j \in Conns : Occurs(j, s) => Occurs(j, pending[m]) \/ j = g.conn
  <2>1. DOMAIN s = 1 .. Len(s) /\ DOMAIN pending[m] = 1 .. Len(pending[m])
    BY <1>2, <1>3, LenProperties
  <2> QED
    BY <1>3, <2>1 DEF Occurs, Grows
<1> QED
  BY <1>4, <1>5, <1>6, <1>7
-----------------------------------------------------------------------------
(* Steps of one connection k leave the others alone. *)

(* What is queued of the other connections. *)
QueuesOfOthers(k) ==
  /\ functors' = functors
  /\ \A l \in Loops, j \in Conns : j # k => \A op :
       /\ Owes(l, Functor(op, j))' <=> Owes(l, Functor(op, j))
       /\ Once(l, Functor(op, j)) => Once(l, Functor(op, j))'
  /\ \A l \in Loops, j \in Conns : Occurs(j, pending'[l]) => Occurs(j, pending[l]) \/ j = k

LEMMA OthersAdvance ==
  ASSUME NEW k, Advanced(k), NEW l \in Loops, NEW j \in Conns \ {k}, NEW op
  PROVE  /\ StillOwes(l, Functor(op, j)) <=> Owes(l, Functor(op, j))
         /\ Once(l, Functor(op, j)) => StillOnce(l, Functor(op, j))
<1>1. Functor(op, j).conn = j
  BY DEF Functor
<1> QED
  BY <1>1 DEF Advanced

LEMMA NoneOfOthers ==
  ASSUME NEW k, Advanced(k), pending' = pending PROVE QueuesOfOthers(k)
<1>1. ASSUME NEW l \in Loops, NEW j \in Conns \ {k}, NEW o
      PROVE  /\ Owes(l, Functor(o, j))' <=> Owes(l, Functor(o, j))
             /\ Once(l, Functor(o, j)) => Once(l, Functor(o, j))'
  BY NothingQueued, OthersAdvance
<1> QED
  BY <1>1 DEF QueuesOfOthers, Advanced

LEMMA OneOfOthers ==
  ASSUME Typed, NEW k \in Conns, Advanced(k), NEW m \in Loops, NEW op, Functor(op, k) \in Functors,
         pending' = [pending EXCEPT ![m] = Append(@, Functor(op, k))]
  PROVE  QueuesOfOthers(k)
<1>1. Functor(op, k).conn = k
  BY DEF Functor
<1>2. /\ \A l \in Loops : \A f :
             /\ Owes(l, f)' <=> StillOwes(l, f) \/ (l = m /\ f = Functor(op, k))
             /\ StillOnce(l, f) /\ f # Functor(op, k) => Once(l, f)'
      /\ \A l \in Loops, j \in Conns : Occurs(j, pending'[l]) => Occurs(j, pending[l]) \/ j = k
  BY <1>1, OneQueued
<1>3. ASSUME NEW l \in Loops, NEW j \in Conns \ {k}, NEW o
      PROVE  /\ Owes(l, Functor(o, j))' <=> Owes(l, Functor(o, j))
             /\ Once(l, Functor(o, j)) => Once(l, Functor(o, j))'
  <2>1. Functor(o, j) # Functor(op, k)
    BY DEF Functor
  <2>2. /\ StillOwes(l, Functor(o, j)) <=> Owes(l, Functor(o, j))
        /\ Once(l, Functor(o, j)) => StillOnce(l, Functor(o, j))
    BY OthersAdvance
  <2> QED
    BY <1>2, <2>1, <2>2
<1> QED
  BY <1>2, <1>3 DEF QueuesOfOthers, Advanced

LEMMA CopiesOfOthers ==
  ASSUME Typed, NEW k \in Conns, Advanced(k), NEW m \in Loops, NEW op, Functor(op, k) \in Functors,
         NEW n \in Nat,
         pending' = [pending EXCEPT ![m] = @ \o [i \in 1 .. n |-> Functor(op, k)]]
  PROVE  QueuesOfOthers(k)
<1>1. Functor(op, k).conn = k
  BY DEF Functor
<1>2. /\ \A l \in Loops : \A f :
             /\ StillOwes(l, f) => Owes(l, f)'
             /\ Owes(l, f)' => StillOwes(l, f) \/ (l = m /\ f = Functor(op, k))
             /\ StillOnce(l, f) /\ f # Functor(op, k) => Once(l, f)'
      /\ \A l \in Loops, j \in Conns : Occurs(j, pending'[l]) => Occurs(j, pending[l]) \/ j = k
  BY <1>1, CopiesQueued
<1>3. ASSUME NEW l \in Loops, NEW j \in Conns \ {k}, NEW o
      PROVE  /\ Owes(l, Functor(o, j))' <=> Owes(l, Functor(o, j))
             /\ Once(l, Functor(o, j)) => Once(l, Functor(o, j))'
  <2>1. Functor(o, j) # Functor(op, k)
    BY DEF Functor
  <2>2. /\ StillOwes(l, Functor(o, j)) <=> Owes(l, Functor(o, j))
        /\ Once(l, Functor(o, j)) => StillOnce(l, Functor(o, j))
    BY OthersAdvance
  <2> QED
    BY <1>2, <2>1, <2>2
<1> QED
  BY <1>2, <1>3 DEF QueuesOfOthers, Advanced

(* A step that changes connection k and what is queued of it keeps what the
   invariant says of the others. *)
LEMMA OthersKeep ==
  ASSUME IInv, NEW k \in Conns,
         QueuesOfOthers(k),
         \A j \in Conns \ {k} :
           /\ conn'[j] = conn[j] /\ peer'[j] = peer[j] /\ calls'[j] = calls[j]
           /\ j \in inMap' <=> j \in inMap
           /\ Alive(j) /\ Registered(j) => Registered(j)',
         Alive(k)'
  PROVE  /\ \A j \in Conns \ {k} : ConnOK(j)' /\ \A l \in Loops : WaitingOK(l, j)'
         /\ \A l \in Loops, j \in Conns : HeldOK(l, j)'
<1>1. ASSUME NEW j \in Conns \ {k}, NEW l \in Loops PROVE WaitingOK(l, j)'
  BY <1>1 DEF IInv, WaitingOK, QueuesOfOthers, Destroy
<1>2. ASSUME NEW j \in Conns \ {k} PROVE ConnOK(j)'
  <2>1. conn[j].loop \in Loops
    BY DEF IInv, Typed, TypeOK, Connections
  <2>2. Owes(conn[j].loop, Destroy(j)) => Owes(conn[j].loop, Destroy(j))'
    BY <2>1 DEF QueuesOfOthers, Destroy
  <2> QED
    BY <2>2 DEF IInv, ConnOK, Alive, Up
<1>3. ASSUME NEW l \in Loops, NEW j \in Conns PROVE HeldOK(l, j)'
  BY <1>3 DEF IInv, HeldOK, QueuesOfOthers, Alive
<1> QED
  BY <1>1, <1>2, <1>3
-----------------------------------------------------------------------------
(* One lemma per action. *)

LEMMA InitInvariant == Init => IInv
<1> SUFFICES ASSUME Init PROVE IInv
  OBVIOUS
<1>1. <<>> \in Seq(Functors) /\ <<>> \in Seq({"UP", "DOWN"}) /\ Len(<<>>) = 0 /\ DOMAIN <<>> = {}
  BY EmptySeq
<1>2. Base \in Loops /\ pool \in Seq(Loops)
  BY Server DEF Init
<1>3. conn \in [Conns -> Connections] /\ \A k \in Conns : ~Alive(k) /\ conn[k].fd = 0
  BY <1>2 DEF Init, Connections, Unborn, Alive
<1>d. 1 \in Fds
  BY Server DEF Init, Fds
<1>4. TypeOK
  BY <1>1, <1>3, <1>d, Server DEF Init, TypeOK
<1>5. Typed
  <2>1. pool # <<>> => 1 \in 1 .. Len(pool)
    BY <1>2, EmptySeq
  <2> QED
    BY <1>1, <1>4, <2>1 DEF Init, Typed
<1>6. ASSUME NEW l \in Loops PROVE LoopOK(l) /\ ActiveOK(l) /\ PollerOK(l)
  BY DEF Init, LoopOK, ActiveOK, PollerOK
<1>7. ASSUME NEW l \in Loops PROVE \A f : ~Owes(l, f) /\ Once(l, f)
  BY <1>1 DEF Init, Owes, Once, Owed, Single
<1>8. ASSUME NEW k \in Conns PROVE ConnOK(k)
  BY DEF Init, ConnOK, Unborn, Up
<1>9. ASSUME NEW l \in Loops, NEW k \in Conns PROVE WaitingOK(l, k) /\ HeldOK(l, k)
  BY <1>1, <1>7 DEF Init, WaitingOK, HeldOK, Occurs
<1>10. FdsDiffer
  BY <1>3 DEF FdsDiffer
<1> QED
  BY <1>5, <1>6, <1>8, <1>9, <1>10 DEF IInv, Init, NoAssertionFails

(* A peer connects, closes or is refused: only peer changes, and the event is handled. *)
LEMMA PeerInvariant ==
  ASSUME IInv, NEW k \in Conns, Connect(k) \/ PeerCloses(k)
  PROVE  IInv'
<1>1. /\ \/ peer[k] = "none" /\ peer' = [peer EXCEPT ![k] = "waiting"]
         \/ peer[k] = "open" /\ peer' = [peer EXCEPT ![k] = "closed"]
      /\ UNCHANGED <<pool, maxFd, idleFd, refusing, other, conn, inMap, poller, nextLoop, phase,
                     active, functors, ran, pending, calls, failed>>
  BY DEF Connect, PeerCloses, config, acceptor, loopVars
<1>3. Typed'
  BY <1>1 DEF IInv, Typed, TypeOK, Alive
<1>4. \A l \in Loops : \A f : (Owes(l, f)' <=> Owes(l, f)) /\ (Once(l, f)' <=> Once(l, f))
  BY <1>1 DEF Owes, Once
<1>5. ASSUME NEW l \in Loops PROVE LoopOK(l)' /\ ActiveOK(l)' /\ PollerOK(l)'
  BY <1>1 DEF IInv, LoopOK, ActiveOK, PollerOK, Alive
<1>6. ASSUME NEW j \in Conns PROVE ConnOK(j)'
  BY <1>1, <1>4 DEF IInv, Typed, TypeOK, ConnOK, Registered, Owes
<1>7. ASSUME NEW l \in Loops, NEW j \in Conns PROVE WaitingOK(l, j)' /\ HeldOK(l, j)'
  BY <1>1, <1>4 DEF IInv, WaitingOK, HeldOK, Alive, Occurs, Owes, Once
<1> QED
  BY <1>1, <1>3, <1>5, <1>6, <1>7 DEF IInv, FdsDiffer, NoAssertionFails

(* The calls that turn a peer away, and the descriptors of sessions, touch neither
   the connections nor what waits for them. *)
LEMMA AcceptorInvariant ==
  ASSUME IInv,
         \/ CloseIdle \/ IdleAccept \/ IdleClose \/ IdleOpen
         \/ \E k \in Conns : SessionOpens(k) \/ SessionCloses(k)
  PROVE  IInv'
<1>1. UNCHANGED <<pool, maxFd, conn, inMap, poller, nextLoop, phase, functors, ran, pending, calls,
                  failed>>
  BY DEF CloseIdle, IdleAccept, IdleClose, IdleOpen, SessionOpens, SessionCloses, Refusing,
         SessionRuns, config, loopVars
<1>2. Typed /\ maxFd \in Fds /\ LowestFd \subseteq Fds
  <2>1. Typed /\ maxFd \in Fds
    BY DEF IInv, Typed, TypeOK
  <2> QED
    BY <2>1, Server DEF LowestFd, FreeFds, Fds
<1>3. idleFd' \in Fds \cup {0} /\ other' \subseteq Fds /\ refusing' \in {"no", "accept", "close", "open"}
  <2>1. /\ idleFd \in Fds \cup {0} /\ other \subseteq Fds
        /\ refusing \in {"no", "accept", "close", "open"}
    BY <1>2 DEF Typed, TypeOK
  <2>2. CASE CloseIdle \/ IdleClose
    BY <2>1, <2>2 DEF CloseIdle, IdleClose
  <2>3. CASE IdleAccept
    BY <1>2, <2>1, <2>3 DEF IdleAccept, Opened
  <2>4. CASE IdleOpen
    BY <1>2, <2>1, <2>4 DEF IdleOpen, Opened
  <2>5. CASE \E k \in Conns : SessionOpens(k) \/ SessionCloses(k)
    BY <1>2, <2>1, <2>5 DEF SessionOpens, SessionCloses, SessionRuns
  <2> QED
    BY <2>2, <2>3, <2>4, <2>5
<1>4. /\ active' \in [Loops -> SUBSET [conn : Conns \cup {NoConn}, what : {"in", "out"}]]
      /\ \A l \in Loops : active'[l] \subseteq active[l]
  <2>1. active \in [Loops -> SUBSET [conn : Conns \cup {NoConn}, what : {"in", "out"}]]
    BY <1>2 DEF Typed, TypeOK
  <2>2. active' = active \/ active' = [active EXCEPT ![Base] = @ \ {Event(NoConn, "in")}]
    BY DEF CloseIdle, IdleAccept, IdleClose, IdleOpen, SessionOpens, SessionCloses, SessionRuns,
           loopVars
  <2>3. CASE active' = active
    BY <2>1, <2>3
  <2>4. CASE active' = [active EXCEPT ![Base] = @ \ {Event(NoConn, "in")}]
    BY <2>1, <2>4
  <2> QED
    BY <2>2, <2>3, <2>4
<1>5. /\ peer' \in [Conns -> {"none", "waiting", "open", "closed", "refused"}]
      /\ \A k \in Conns : peer'[k] # peer[k] => peer[k] = "waiting" /\ peer'[k] = "refused"
  <2>1. peer \in [Conns -> {"none", "waiting", "open", "closed", "refused"}]
    BY <1>2 DEF Typed, TypeOK
  <2>2. \/ peer' = peer
        \/ \E k \in Conns : peer[k] = "waiting" /\ peer' = [peer EXCEPT ![k] = "refused"]
    BY DEF CloseIdle, IdleAccept, IdleClose, IdleOpen, SessionOpens, SessionCloses, SessionRuns,
           FirstWaiting
  <2>3. CASE peer' = peer
    BY <2>1, <2>3
  <2>4. ASSUME NEW k \in Conns, peer[k] = "waiting", peer' = [peer EXCEPT ![k] = "refused"]
        PROVE  /\ peer' \in [Conns -> {"none", "waiting", "open", "closed", "refused"}]
               /\ \A j \in Conns : peer'[j] # peer[j] => peer[j] = "waiting" /\ peer'[j] = "refused"
    BY <2>1, <2>4
  <2> QED
    BY <2>2, <2>3, <2>4
<1>6. Typed'
  BY <1>1, <1>2, <1>3, <1>4, <1>5 DEF Typed, TypeOK, Alive
<1>7. \A l \in Loops : \A f : (Owes(l, f)' <=> Owes(l, f)) /\ (Once(l, f)' <=> Once(l, f))
  BY <1>1 DEF Owes, Once
<1>8. ASSUME NEW l \in Loops PROVE LoopOK(l)' /\ ActiveOK(l)' /\ PollerOK(l)'
  BY <1>1, <1>4 DEF IInv, LoopOK, ActiveOK, PollerOK, Alive
<1>9. ASSUME NEW j \in Conns PROVE ConnOK(j)'
  BY <1>1, <1>5 DEF IInv, ConnOK, Registered, Owes
<1>10. ASSUME NEW l \in Loops, NEW j \in Conns PROVE WaitingOK(l, j)' /\ HeldOK(l, j)'
  BY <1>1, <1>7 DEF IInv, WaitingOK, HeldOK, Alive, Occurs
<1> QED
  BY <1>1, <1>6, <1>8, <1>9, <1>10 DEF IInv, FdsDiffer, NoAssertionFails

(* A loop polls: what is ready watches, so it has not closed. *)
LEMMA PollInvariant == ASSUME IInv, NEW l \in Loops, Poll(l) PROVE IInv'
<1>1. /\ phase[l] = "poll" /\ phase' = [phase EXCEPT ![l] = "dispatch"]
      /\ UNCHANGED <<pool, maxFd, idleFd, refusing, other, conn, peer, inMap, poller, nextLoop, functors, ran, pending, calls, failed>>
  BY DEF Poll, config, acceptor
<1>2. PICK ins \in SUBSET (Conns \cup {NoConn}), room \in SUBSET Conns :
        /\ active' = [active EXCEPT ![l] = {Event(k, "in") : k \in ins} \cup {Event(k, "out") : k \in room}]
        /\ \A k \in ins : k # NoConn => Watched(k, l) /\ conn[k].reading
        /\ \A k \in room : Watched(k, l) /\ k \in Conns
  <2> DEFINE ended  == {k \in Conns : Watched(k, l) /\ conn[k].reading /\ peer[k] = "closed"}
             inputs == {k \in Conns : Watched(k, l) /\ conn[k].reading /\ peer[k] = "open"}
             roomy  == {k \in Conns : Watched(k, l) /\ conn[k].writing}
             queued == IF l = Base /\ \E k \in Conns : peer[k] = "waiting" THEN {NoConn} ELSE {}
  <2>1. PICK data \in SUBSET inputs, room \in SUBSET roomy :
          active' = [active EXCEPT ![l] = {Event(k, "in") : k \in queued \cup ended \cup data}
                                             \cup {Event(k, "out") : k \in room}]
    BY DEF Poll
  <2> DEFINE ins == queued \cup ended \cup data
  <2>2. ins \in SUBSET (Conns \cup {NoConn}) /\ room \in SUBSET Conns
    OBVIOUS
  <2>3. /\ \A k \in ins : k # NoConn => Watched(k, l) /\ conn[k].reading
        /\ \A k \in room : Watched(k, l) /\ k \in Conns
    OBVIOUS
  <2>4. active' = [active EXCEPT ![l] = {Event(k, "in") : k \in ins} \cup {Event(k, "out") : k \in room}]
    BY <2>1
  <2> HIDE DEF ins
  <2> QED
    BY <2>2, <2>3, <2>4
<1>3. /\ \A m \in Loops : m # l => active'[m] = active[m] /\ phase'[m] = phase[m]
      /\ phase'[l] = "dispatch"
      /\ \A e \in active'[l] :
           \/ e.what = "in" /\ e.conn \in ins
           \/ e.what = "out" /\ e.conn \in room
  BY <1>1, <1>2 DEF Event, IInv, Typed, TypeOK
<1>4. Typed'
  <2>1. {Event(k, "in") : k \in ins} \cup {Event(k, "out") : k \in room}
          \in SUBSET [conn : Conns \cup {NoConn}, what : {"in", "out"}]
    BY DEF Event
  <2>2. active' \in [Loops -> SUBSET [conn : Conns \cup {NoConn}, what : {"in", "out"}]]
    BY <1>2, <2>1 DEF IInv, Typed, TypeOK
  <2>3. phase' \in [Loops -> {"poll", "dispatch", "functors"}]
    BY <1>1 DEF IInv, Typed, TypeOK
  <2> QED
    BY <1>1, <2>2, <2>3 DEF IInv, Typed, TypeOK, Alive
<1>5. ASSUME NEW m \in Loops PROVE LoopOK(m)'
  BY <1>1, <1>3 DEF IInv, LoopOK
<1>6. ASSUME NEW k \in Conns, Watched(k, l)
      PROVE  /\ Alive(k) /\ conn[k].loop = l /\ conn[k].index # "kNew"
             /\ conn[k].reading => conn[k].state \in Up
  BY <1>6 DEF IInv, Typed, TypeOK, Connections, ConnOK, Watched, Alive, Up
<1>7. ASSUME NEW m \in Loops PROVE ActiveOK(m)'
  <2>1. CASE m = l
    BY <1>1, <1>2, <1>3, <1>6, <2>1 DEF ActiveOK, Alive
  <2>2. CASE m # l
    BY <1>1, <1>3, <2>2 DEF IInv, ActiveOK, Alive
  <2> QED
    BY <2>1, <2>2
<1>8. ASSUME NEW m \in Loops PROVE PollerOK(m)'
  BY <1>1 DEF IInv, PollerOK, Alive
<1>9. \A m \in Loops : \A f : (Owes(m, f)' <=> Owes(m, f)) /\ (Once(m, f)' <=> Once(m, f))
  BY <1>1 DEF Owes, Once
<1>10. ASSUME NEW j \in Conns PROVE ConnOK(j)'
  BY <1>1, <1>9 DEF IInv, ConnOK, Registered, Owes
<1>11. ASSUME NEW m \in Loops, NEW j \in Conns PROVE WaitingOK(m, j)' /\ HeldOK(m, j)'
  BY <1>1, <1>9 DEF IInv, WaitingOK, HeldOK, Alive, Occurs
<1> QED
  BY <1>1, <1>4, <1>5, <1>7, <1>8, <1>10, <1>11 DEF IInv, FdsDiffer, NoAssertionFails

(* The queue becomes the batch, and still holds what it held. *)
LEMMA SwapInvariant == ASSUME IInv, NEW l \in Loops, SwapFunctors(l) PROVE IInv'
<1>1. /\ phase[l] = "dispatch" /\ active[l] = {}
      /\ functors' = [functors EXCEPT ![l] = pending[l]]
      /\ pending' = [pending EXCEPT ![l] = <<>>]
      /\ ran' = [ran EXCEPT ![l] = 0]
      /\ phase' = [phase EXCEPT ![l] = "functors"]
      /\ UNCHANGED <<pool, maxFd, idleFd, refusing, other, conn, peer, inMap, poller, nextLoop, active, calls, failed>>
  BY DEF SwapFunctors, config, acceptor
<1>2. /\ functors \in [Loops -> Seq(Functors)] /\ pending \in [Loops -> Seq(Functors)]
      /\ ran \in [Loops -> Nat] /\ phase \in [Loops -> {"poll", "dispatch", "functors"}]
      /\ functors[l] = <<>>
  BY <1>1 DEF IInv, Typed, TypeOK, LoopOK
<1>3. /\ functors'[l] = pending[l] /\ pending'[l] = <<>> /\ ran'[l] = 0 /\ phase'[l] = "functors"
      /\ \A m \in Loops : m # l => /\ functors'[m] = functors[m] /\ pending'[m] = pending[m]
                                   /\ ran'[m] = ran[m] /\ phase'[m] = phase[m]
  BY <1>1, <1>2
<1>4. \A m \in Loops : \A f : (Owes(m, f)' <=> Owes(m, f)) /\ (Once(m, f) => Once(m, f)')
  <2>1. \A f : (Owes(l, f)' <=> Owes(l, f)) /\ (Once(l, f) => Once(l, f)')
    <3>1. ran[l] >= Len(functors[l])
      BY <1>2, EmptySeq
    <3> QED
      BY <1>2, <1>3, <3>1, OwedSwap DEF Owes, Once
  <2> QED
    BY <1>3, <2>1 DEF Owes, Once
<1>5. Typed'
  <2>1. <<>> \in Seq(Functors) /\ Len(pending[l]) \in Nat
    BY <1>2
  <2>2. /\ functors' \in [Loops -> Seq(Functors)] /\ pending' \in [Loops -> Seq(Functors)]
        /\ ran' \in [Loops -> Nat] /\ phase' \in [Loops -> {"poll", "dispatch", "functors"}]
    BY <1>1, <1>2, <2>1
  <2>3. \A m \in Loops : ran'[m] \in 0 .. Len(functors'[m])
    <3>1. ran'[l] \in 0 .. Len(functors'[l])
      BY <1>3, <2>1
    <3>2. \A m \in Loops : ran[m] \in 0 .. Len(functors[m])
      BY DEF IInv, Typed, TypeOK
    <3> QED
      BY <1>3, <3>1, <3>2
  <2> QED
    BY <1>1, <2>2, <2>3 DEF IInv, Typed, TypeOK, Alive
<1>6. ASSUME NEW m \in Loops PROVE LoopOK(m)' /\ ActiveOK(m)' /\ PollerOK(m)'
  BY <1>1, <1>3 DEF IInv, LoopOK, ActiveOK, PollerOK, Alive
<1>7. ASSUME NEW j \in Conns PROVE ConnOK(j)'
  <2>1. conn[j].loop \in Loops
    BY DEF IInv, Typed, TypeOK, Connections
  <2>2. Owes(conn[j].loop, Destroy(j)) => Owes(conn[j].loop, Destroy(j))'
    BY <1>1, <1>4, <2>1
  <2> QED
    BY <1>1, <2>2 DEF IInv, ConnOK, Registered
<1>8. ASSUME NEW m \in Loops, NEW j \in Conns PROVE WaitingOK(m, j)'
  BY <1>1, <1>4 DEF IInv, WaitingOK
<1>9. ASSUME NEW m \in Loops, NEW j \in Conns PROVE HeldOK(m, j)'
  <2>1. ~Occurs(j, <<>>)
    BY EmptySeq DEF Occurs
  <2> QED
    BY <1>1, <1>3, <2>1 DEF IInv, HeldOK, Alive
<1> QED
  BY <1>1, <1>5, <1>6, <1>7, <1>8, <1>9 DEF IInv, FdsDiffer, NoAssertionFails

(* The batch goes, and the connections that nothing else holds with it: those have
   been destroyed, for what else could bring them to that still waits. *)
LEMMA DoneInvariant == ASSUME IInv, NEW l \in Loops, FunctorsDone(l) PROVE IInv'
<1> DEFINE S == {k \in Conns : Occurs(k, functors[l]) /\ Alive(k) /\ ~HeldElsewhere(k, l)}
<1>1. /\ phase[l] = "functors" /\ ran[l] = Len(functors[l])
      /\ Destruct(S)
      /\ functors' = [functors EXCEPT ![l] = <<>>]
      /\ ran' = [ran EXCEPT ![l] = 0]
      /\ phase' = [phase EXCEPT ![l] = "poll"]
      /\ UNCHANGED <<pool, maxFd, idleFd, refusing, other, peer, inMap, poller, nextLoop, active, pending, calls>>
  BY DEF FunctorsDone, config, acceptor
<1>2. /\ functors \in [Loops -> Seq(Functors)] /\ pending \in [Loops -> Seq(Functors)]
      /\ ran \in [Loops -> Nat] /\ phase \in [Loops -> {"poll", "dispatch", "functors"}]
      /\ conn \in [Conns -> Connections]
  BY DEF IInv, Typed, TypeOK
<1>3. /\ functors'[l] = <<>> /\ ran'[l] = 0 /\ phase'[l] = "poll"
      /\ \A m \in Loops : m # l => functors'[m] = functors[m] /\ ran'[m] = ran[m] /\ phase'[m] = phase[m]
  BY <1>1, <1>2
<1>4. \A m \in Loops : \A f : (Owes(m, f)' <=> Owes(m, f)) /\ (Once(m, f) => Once(m, f)')
  <2>1. \A f : (Owes(l, f)' <=> Owes(l, f)) /\ (Once(l, f) => Once(l, f)')
    <3>1. ran[l] >= Len(functors[l]) /\ Len(functors[l]) \in Nat /\ pending'[l] = pending[l]
      BY <1>1, <1>2
    <3> QED
      BY <1>2, <1>3, <3>1, OwedSwap DEF Owes, Once
  <2> QED
    BY <1>1, <1>3, <2>1 DEF Owes, Once
<1>5. ASSUME NEW k \in Conns, NEW m \in Loops, NEW f, Owes(m, f), f.conn = k
      PROVE  Occurs(k, pending[m]) \/ (m # l /\ Occurs(k, functors[m]))
  <2>1. /\ DOMAIN functors[m] = 1 .. Len(functors[m]) /\ DOMAIN pending[m] = 1 .. Len(pending[m])
        /\ Len(functors[m]) \in Nat
    BY <1>2
  <2> QED
    BY <1>1, <1>5, <2>1 DEF Owes, Owed, Occurs
<1>6. ASSUME NEW k \in S
      PROVE  /\ conn[k].state = "kDisconnected" /\ conn[k].index = "kNew" /\ k \notin inMap
             /\ \A m \in Loops : \A f : f.conn = k => ~Owes(m, f)
             /\ \A m \in Loops : ~Occurs(k, pending[m]) /\ (m # l => ~Occurs(k, functors[m]))
  <2>1. /\ k \in Conns /\ Alive(k) /\ k \notin inMap
        /\ \A m \in Loops : ~Occurs(k, pending[m]) /\ (m # l => ~Occurs(k, functors[m]))
    BY <1>6 DEF HeldElsewhere
  <2>2. \A m \in Loops : \A f : f.conn = k => ~Owes(m, f)
    BY <1>5, <2>1
  <2>3. conn[k].state \in {"kConnecting", "kDisconnected"} \cup Up /\ conn[k].loop \in Loops
    BY <1>2, <2>1 DEF Alive, Connections, Up
  <2>4. Destroy(k).conn = k
    BY DEF Destroy, Functor
  <2>5. ~Owes(conn[k].loop, Destroy(k))
    BY <2>2, <2>3, <2>4
  <2>6. ConnOK(k)
    BY <2>1 DEF IInv
  <2> QED
    BY <2>1, <2>2, <2>3, <2>5, <2>6 DEF ConnOK
<1>7. /\ conn' = [k \in Conns |-> IF k \in S THEN [conn[k] EXCEPT !.state = "freed", !.fd = 0] ELSE conn[k]]
      /\ failed' = "none"
  BY <1>1, <1>6 DEF Destruct, IInv, NoAssertionFails
<1> HIDE DEF S
<1>8. /\ S \subseteq Conns
      /\ \A k \in S : conn'[k] = [conn[k] EXCEPT !.state = "freed", !.fd = 0] /\ ~Alive(k)'
      /\ \A k \in Conns \ S : conn'[k] = conn[k] /\ (Alive(k)' <=> Alive(k))
      /\ conn' \in [Conns -> Connections]
  <2>1. S \subseteq Conns /\ \A k \in S : [conn[k] EXCEPT !.state = "freed", !.fd = 0] \in Connections
    BY <1>2 DEF S, Connections
  <2>2. /\ \A k \in S : conn'[k] = [conn[k] EXCEPT !.state = "freed", !.fd = 0]
        /\ \A k \in Conns \ S : conn'[k] = conn[k]
    BY <1>7, <2>1
  <2>3. conn' \in [Conns -> Connections]
    BY <1>2, <1>7, <2>1
  <2>4. \A k \in S : [conn[k] EXCEPT !.state = "freed", !.fd = 0].state = "freed"
    BY <1>2, <2>1 DEF Connections
  <2> QED
    BY <2>1, <2>2, <2>3, <2>4 DEF Alive
<1>9. \A k \in S : conn'[k].state = "freed" /\ conn'[k].fd = 0
  BY <1>2, <1>8 DEF Connections
<1>10. Typed'
  <2>1. \A k \in Conns : conn'[k].fd # 0 <=> Alive(k)'
    BY <1>8, <1>9 DEF IInv, Typed, TypeOK
  <2>2. <<>> \in Seq(Functors) /\ Len(<<>>) = 0
    BY EmptySeq
  <2>3. /\ functors' \in [Loops -> Seq(Functors)]
        /\ ran' \in [Loops -> Nat] /\ phase' \in [Loops -> {"poll", "dispatch", "functors"}]
    BY <1>1, <1>2, <2>2
  <2>4. \A m \in Loops : ran'[m] \in 0 .. Len(functors'[m])
    <3>1. \A m \in Loops : ran[m] \in 0 .. Len(functors[m])
      BY DEF IInv, Typed, TypeOK
    <3> QED
      BY <1>3, <2>2, <3>1
  <2> QED
    BY <1>1, <1>8, <2>1, <2>3, <2>4 DEF IInv, Typed, TypeOK
<1>11. ASSUME NEW m \in Loops PROVE LoopOK(m)' /\ ActiveOK(m)' /\ PollerOK(m)'
  <2>1. LoopOK(m)'
    BY <1>1, <1>3 DEF IInv, LoopOK
  <2>2. ActiveOK(m)'
    <3>1. ASSUME NEW e \in active[m], e.conn # NoConn
          PROVE  /\ e.conn \in Conns /\ conn'[e.conn] = conn[e.conn]
                 /\ Alive(e.conn) /\ conn[e.conn].loop = m /\ conn[e.conn].index # "kNew"
                 /\ e.what = "in" => conn[e.conn].state \in Up
      BY <1>6, <1>8, <3>1 DEF IInv, ActiveOK
    <3> QED
      BY <1>1, <3>1 DEF ActiveOK, Alive
  <2>3. PollerOK(m)'
    <3>1. poller[m] \in [Fds -> Conns \cup {NoConn}]
      BY DEF IInv, Typed, TypeOK
    <3>2. ASSUME NEW d \in Fds, poller[m][d] # NoConn
          PROVE  LET k == poller[m][d]
                 IN  Alive(k) /\ conn[k].loop = m /\ conn[k].fd = d /\ conn[k].index # "kNew"
                     /\ conn'[k] = conn[k]
      <4> DEFINE k == poller[m][d]
      <4>1. k \in Conns
        BY <3>1, <3>2
      <4>2. Alive(k) /\ conn[k].loop = m /\ conn[k].fd = d /\ conn[k].index # "kNew"
        BY <3>2 DEF IInv, PollerOK
      <4> HIDE DEF k
      <4>3. conn'[k] = conn[k]
        BY <1>6, <1>8, <4>1, <4>2
      <4> QED
        BY <4>2, <4>3 DEF k
    <3> QED
      BY <1>1, <3>2 DEF PollerOK, Alive
  <2> QED
    BY <2>1, <2>2, <2>3
<1>12. ASSUME NEW j \in Conns PROVE ConnOK(j)'
  <2>1. CASE j \in S
    BY <1>1, <1>6, <1>9, <2>1 DEF IInv, ConnOK, Up
  <2>2. CASE j \notin S
    <3>1. conn[j].loop \in Loops /\ conn'[j] = conn[j]
      BY <1>2, <1>8, <2>2 DEF Connections
    <3>2. Owes(conn[j].loop, Destroy(j)) => Owes(conn[j].loop, Destroy(j))'
      BY <1>4, <3>1
    <3> QED
      BY <1>1, <3>1, <3>2 DEF IInv, ConnOK, Registered
  <2> QED
    BY <2>1, <2>2
<1>13. ASSUME NEW m \in Loops, NEW j \in Conns PROVE WaitingOK(m, j)'
  <2>1. CASE j \in S
    <3>1. \A op : ~Owes(m, Functor(op, j))'
      BY <1>4, <1>6, <2>1 DEF Functor
    <3> QED
      BY <1>4, <3>1 DEF IInv, WaitingOK, Destroy
  <2>2. CASE j \notin S
    <3>1. conn'[j] = conn[j]
      BY <1>8, <2>2
    <3> QED
      BY <1>1, <1>4, <3>1 DEF IInv, WaitingOK
  <2> QED
    BY <2>1, <2>2
<1>14. ASSUME NEW m \in Loops, NEW j \in Conns PROVE HeldOK(m, j)'
  <2>1. ~Occurs(j, <<>>)
    BY EmptySeq DEF Occurs
  <2> QED
    BY <1>1, <1>3, <1>6, <1>8, <2>1 DEF IInv, HeldOK
<1>15. FdsDiffer'
  BY <1>8, <1>9 DEF IInv, FdsDiffer
<1> QED
  BY <1>7, <1>10, <1>11, <1>12, <1>13, <1>14, <1>15 DEF IInv, NoAssertionFails
-----------------------------------------------------------------------------
(* Steps of the channel of one connection. *)

LEMMA FunctorTypes ==
  /\ \A k \in Conns : /\ Functor("connectEstablished", k) \in Functors
                      /\ Functor("removeConnectionInLoop", k) \in Functors
                      /\ Functor("connectDestroyed", k) \in Functors
                      /\ Functor("forceCloseInLoop", k) \in Functors
  /\ \A o, p, j, k : Functor(o, j) = Functor(p, k) => o = p /\ j = k
<1>1. \A o, p, j, k : Functor(o, j) = Functor(p, k) => o = p /\ j = k
  <2> TAKE o, p, j, k
  <2>1. Functor(o, j).op = o /\ Functor(o, j).conn = j /\ Functor(p, k).op = p /\ Functor(p, k).conn = k
    BY DEF Functor
  <2> QED
    BY <2>1
<1> QED
  BY <1>1 DEF Functor, Functors

(* The callback and handleWrite change a connection that is up, and may queue
   calls of forceClose. *)
LEMMA ChannelInvariant ==
  ASSUME IInv, NEW l \in Loops, NEW k \in Conns, NEW what, Handling(l, k, what),
         UNCHANGED <<inMap, calls, failed>>,
         NEW c \in Connections, conn' = [conn EXCEPT ![k] = c],
         c = conn[k] \/ (conn[k].state \in Up /\ c.state \in Up),
         c.loop = conn[k].loop, c.fd = conn[k].fd, c.index = conn[k].index, c.reading = conn[k].reading,
         \/ pending' = pending
         \/ /\ c.state \in Up
            /\ \E n \in Nat : pending' = [pending EXCEPT ![c.loop] =
                                             @ \o [i \in 1 .. n |-> Functor("forceCloseInLoop", k)]]
  PROVE  IInv'
<1> DEFINE g == Functor("forceCloseInLoop", k)
<1>1. /\ phase[l] = "dispatch" /\ Event(k, what) \in active[l]
      /\ active' = [active EXCEPT ![l] = @ \ {Event(k, what)}]
      /\ UNCHANGED <<peer, poller, pool, maxFd, idleFd, refusing, other, nextLoop, phase, functors, ran>>
  BY DEF Handling, config, acceptor
<1>2. /\ Typed /\ conn[k].loop = l /\ Alive(k) /\ c.loop = l /\ g \in Functors /\ g.conn = k
  <2>1. Event(k, what).conn = k /\ k # NoConn
    BY Server DEF Event
  <2>2. Typed /\ conn[k].loop = l /\ Alive(k)
    BY <1>1, <2>1 DEF IInv, ActiveOK
  <2> QED
    BY <2>2, FunctorTypes DEF Functor
<1>3. Advanced(k)
  BY <1>1, <1>2, NothingRan
<1>4. /\ QueuesOfOthers(k)
      /\ pending' \in [Loops -> Seq(Functors)]
      /\ \A m \in Loops : \A f :
           /\ Owes(m, f) => Owes(m, f)'
           /\ Owes(m, f)' => Owes(m, f) \/ (m = l /\ f = g /\ c.state \in Up)
           /\ Once(m, f) /\ f # g => Once(m, f)'
  <2>1. \A m \in Loops : \A f : (StillOwes(m, f) <=> Owes(m, f)) /\ (StillOnce(m, f) <=> Once(m, f))
    BY <1>1 DEF StillOwes, StillOnce, Owes, Once
  <2>2. CASE pending' = pending
    BY <1>2, <1>3, <2>1, <2>2, NoneOfOthers, NothingQueued DEF Typed, TypeOK
  <2>3. ASSUME NEW n \in Nat, c.state \in Up,
               pending' = [pending EXCEPT ![l] = @ \o [i \in 1 .. n |-> g]]
        PROVE  <1>4!1 /\ <1>4!2 /\ <1>4!3
    <3>1. QueuesOfOthers(k)
      BY <1>2, <1>3, <2>3, CopiesOfOthers
    <3> HIDE DEF g
    <3>2. /\ pending' \in [Loops -> Seq(Functors)]
          /\ \A m \in Loops : \A f :
               /\ StillOwes(m, f) => Owes(m, f)'
               /\ Owes(m, f)' => StillOwes(m, f) \/ (m = l /\ f = g)
               /\ StillOnce(m, f) /\ f # g => Once(m, f)'
      BY <1>2, <1>3, <2>3, CopiesQueued
    <3> QED
      BY <2>1, <2>3, <3>1, <3>2
  <2> QED
    BY <1>2, <2>2, <2>3
<1>5. /\ conn' \in [Conns -> Connections] /\ conn'[k] = c
      /\ \A j \in Conns \ {k} : conn'[j] = conn[j]
  BY <1>2 DEF Typed, TypeOK
<1>6. Alive(k)' /\ \A j \in Conns : (Alive(j)' <=> Alive(j)) /\ conn'[j].fd = conn[j].fd
                                  /\ conn'[j].loop = conn[j].loop /\ conn'[j].index = conn[j].index
  BY <1>2, <1>5 DEF Alive, Up
<1>7. Typed'
  <2>1. active' \in [Loops -> SUBSET [conn : Conns \cup {NoConn}, what : {"in", "out"}]]
    BY <1>1, <1>2 DEF Typed, TypeOK
  <2> QED
    BY <1>1, <1>2, <1>4, <1>5, <1>6, <2>1 DEF Typed, TypeOK
<1>8. ASSUME NEW m \in Loops PROVE LoopOK(m)' /\ ActiveOK(m)' /\ PollerOK(m)'
  <2>1. LoopOK(m)' /\ active'[m] \subseteq active[m]
    BY <1>1, <1>2 DEF IInv, LoopOK, Typed, TypeOK
  <2>2. ActiveOK(m)'
    BY <1>5, <1>6, <2>1 DEF IInv, ActiveOK
  <2>3. PollerOK(m)'
    BY <1>1, <1>2, <1>6 DEF IInv, PollerOK, Typed, TypeOK
  <2> QED
    BY <2>1, <2>2, <2>3
<1>9. /\ \A j \in Conns \ {k} : ConnOK(j)' /\ \A m \in Loops : WaitingOK(m, j)'
      /\ \A m \in Loops, j \in Conns : HeldOK(m, j)'
  <2>1. \A j \in Conns \ {k} : Registered(j) => Registered(j)'
    BY <1>1, <1>5 DEF Registered
  <2> QED
    BY <1>1, <1>4, <1>5, <1>6, <2>1, OthersKeep
<1>10. ConnOK(k)'
  <2>1. Registered(k)' <=> Registered(k)
    BY <1>1, <1>6 DEF Registered
  <2>2. Owes(l, Destroy(k)) => Owes(l, Destroy(k))'
    BY <1>4, <1>2
  <2> QED
    BY <1>1, <1>2, <1>5, <2>1, <2>2 DEF IInv, ConnOK, Up
<1>11. ASSUME NEW m \in Loops PROVE WaitingOK(m, k)'
  <2>1. /\ Owes(m, Functor("connectEstablished", k))' => Owes(m, Functor("connectEstablished", k))
        /\ Owes(m, Functor("removeConnectionInLoop", k))' => Owes(m, Functor("removeConnectionInLoop", k))
        /\ Owes(m, Destroy(k))' => Owes(m, Destroy(k))
        /\ Owes(m, g)' => Owes(m, g) \/ (m = l /\ c.state \in Up)
        /\ \A op \in {"connectEstablished", "removeConnectionInLoop", "connectDestroyed"} :
             Once(m, Functor(op, k)) => Once(m, Functor(op, k))'
    BY <1>4, FunctorTypes DEF Destroy
  <2> QED
    BY <1>2, <1>5, <2>1 DEF IInv, WaitingOK, Up
<1>12. FdsDiffer'
  BY <1>6 DEF IInv, FdsDiffer
<1> QED
  BY <1>7, <1>8, <1>9, <1>10, <1>11, <1>12 DEF IInv, NoAssertionFails

(* handleClose of a connection that is up: the way it leaves the server begins. *)
LEMMA CloseInvariant ==
  ASSUME IInv, NEW l \in Loops, NEW k \in Conns, conn[k].loop = l, conn[k].state \in Up,
         Advanced(k), HandleClose(k),
         UNCHANGED <<peer, poller, pool, maxFd, idleFd, refusing, other, nextLoop, phase>>,
         active' \in [Loops -> SUBSET [conn : Conns \cup {NoConn}, what : {"in", "out"}]],
         \A m \in Loops : active'[m] \subseteq active[m],
         \A e \in active'[l] : e.conn = k => e.what # "in"
  PROVE  IInv'
<1>1. /\ Typed /\ Base \in Loops
      /\ k \in inMap /\ calls[k] = <<"UP">> /\ conn[k].index = "kAdded" /\ Registered(k) /\ Alive(k)
      /\ \A m \in Loops : /\ ~Owes(m, Functor("connectEstablished", k))
                          /\ ~Owes(m, Functor("removeConnectionInLoop", k))
                          /\ ~Owes(m, Destroy(k))
  <2>1. Typed /\ Base \in Loops
    BY Server DEF IInv, Typed, TypeOK
  <2>2. ConnOK(k) /\ Alive(k)
    BY DEF IInv, Alive, Up
  <2>3. ASSUME NEW m \in Loops
        PROVE  /\ ~Owes(m, Functor("connectEstablished", k))
               /\ ~Owes(m, Functor("removeConnectionInLoop", k))
               /\ ~Owes(m, Destroy(k))
    <3>1. WaitingOK(m, k)
      BY DEF IInv
    <3> QED
      BY <3>1 DEF WaitingOK, Up
  <2> QED
    BY <2>1, <2>2, <2>3 DEF ConnOK, Up
<1>2. /\ conn' \in [Conns -> Connections]
      /\ \A j \in Conns \ {k} : conn'[j] = conn[j]
      /\ conn'[k].state = "kDisconnected" /\ conn'[k].index = "kDeleted"
      /\ conn'[k].loop = l /\ conn'[k].fd = conn[k].fd
      /\ conn'[k].reading = FALSE /\ conn'[k].writing = FALSE
  <2> DEFINE c == DisabledAll([conn[k] EXCEPT !.state = "kDisconnected"])
  <2>1. conn \in [Conns -> Connections] /\ conn[k] \in Connections
    BY <1>1 DEF Typed, TypeOK
  <2>2. /\ c \in Connections /\ c.state = "kDisconnected" /\ c.index = "kDeleted"
        /\ c.loop = l /\ c.fd = conn[k].fd /\ c.reading = FALSE /\ c.writing = FALSE
    BY <1>1, <2>1 DEF DisabledAll, Connections
  <2>3. conn' = [conn EXCEPT ![k] = c]
    BY DEF HandleClose
  <2> HIDE DEF c
  <2> QED
    BY <2>1, <2>2, <2>3
<1>3. PICK op \in {"removeConnectionInLoop", "connectDestroyed"} :
        /\ pending' = [pending EXCEPT ![Base] = Append(@, Functor(op, k))]
        /\ \/ op = "removeConnectionInLoop" /\ l # Base /\ inMap' = inMap
           \/ op = "connectDestroyed" /\ l = Base /\ inMap' = inMap \ {k}
  BY DEF HandleClose, RemoveConnectionInLoop
<1>4. calls' \in [Conns -> Seq({"UP", "DOWN"})] /\ calls'[k] = <<"UP", "DOWN">>
      /\ \A j \in Conns \ {k} : calls'[j] = calls[j]
  <2>1. calls' = [calls EXCEPT ![k] = Append(@, "DOWN")] /\ calls \in [Conns -> Seq({"UP", "DOWN"})]
    BY <1>1 DEF HandleClose, Typed
  <2>2. Append(<<"UP">>, "DOWN") = <<"UP", "DOWN">>
    <3>1. /\ <<"UP">> \in Seq({"UP", "DOWN"}) /\ Len(<<"UP">>) = 1 /\ <<"UP">>[1] = "UP"
          /\ <<"UP", "DOWN">> \in Seq({"UP", "DOWN"}) /\ Len(<<"UP", "DOWN">>) = 2
          /\ <<"UP", "DOWN">>[1] = "UP" /\ <<"UP", "DOWN">>[2] = "DOWN"
      OBVIOUS
    <3> DEFINE a == Append(<<"UP">>, "DOWN")
               b == <<"UP", "DOWN">>
    <3>2. /\ a \in Seq({"UP", "DOWN"}) /\ Len(a) = 2 /\ a[1] = "UP" /\ a[2] = "DOWN"
      BY <3>1, AppendProperties
    <3>3. b \in Seq({"UP", "DOWN"}) /\ Len(b) = 2 /\ b[1] = "UP" /\ b[2] = "DOWN"
      BY <3>1
    <3> HIDE DEF a, b
    <3>4. \A i \in 1 .. 2 : i = 1 \/ i = 2
      OBVIOUS
    <3>5. Len(a) = Len(b) /\ \A i \in 1 .. Len(a) : a[i] = b[i]
      BY <3>2, <3>3, <3>4
    <3>6. a = b
      BY <3>2, <3>3, <3>5, SeqEqual
    <3> QED
      BY <3>6 DEF a, b
  <2>3. <<"UP", "DOWN">> \in Seq({"UP", "DOWN"})
    OBVIOUS
  <2> QED
    BY <1>1, <2>1, <2>2, <2>3
<1>5. failed' = "none"
  BY <1>1 DEF HandleClose, IInv, NoAssertionFails, Up
<1> DEFINE g == Functor(op, k)
<1>6. g \in Functors /\ g.conn = k
  BY FunctorTypes DEF Functor
<1>7. QueuesOfOthers(k)
  BY <1>1, <1>3, <1>6, OneOfOthers
<1>8. /\ pending' \in [Loops -> Seq(Functors)]
      /\ \A m \in Loops : \A f :
           /\ Owes(m, f)' => Owes(m, f) \/ (m = Base /\ f = g)
           /\ Once(m, f) /\ ~Owes(m, f) => Once(m, f)'
           /\ Once(m, f) /\ f # g => Once(m, f)'
           /\ Owes(Base, g)'
  <2> HIDE DEF g
  <2>1. pending' = [pending EXCEPT ![Base] = Append(@, g)]
    BY <1>3 DEF g
  <2>2. /\ pending' \in [Loops -> Seq(Functors)]
        /\ \A m \in Loops : \A f :
             /\ Owes(m, f)' <=> StillOwes(m, f) \/ (m = Base /\ f = g)
             /\ StillOnce(m, f) /\ ~(m = Base /\ f = g /\ StillOwes(Base, g)) => Once(m, f)'
    BY <1>1, <1>6, <2>1, OneQueued
  <2> QED
    BY <1>1, <2>2 DEF Advanced
<1> HIDE DEF g
<1>9. /\ Alive(k)'
      /\ \A j \in Conns :
           /\ Alive(j)' <=> Alive(j)
           /\ conn'[j].fd = conn[j].fd /\ conn'[j].loop = conn[j].loop
           /\ conn[j].index # "kNew" => conn'[j].index # "kNew"
  BY <1>1, <1>2 DEF Alive
<1>10. Typed'
  BY <1>1, <1>2, <1>3, <1>4, <1>8, <1>9 DEF Typed, TypeOK, Advanced
<1>11. ASSUME NEW m \in Loops PROVE LoopOK(m)' /\ ActiveOK(m)' /\ PollerOK(m)'
  <2>1. LoopOK(m)'
    BY DEF IInv, LoopOK, Advanced
  <2>2. ActiveOK(m)'
    <3>1. ASSUME NEW e \in active'[m], e.conn # NoConn
          PROVE  /\ e.conn \in Conns
                 /\ Alive(e.conn) /\ conn[e.conn].loop = m /\ conn[e.conn].index # "kNew"
                 /\ e.what = "in" => conn[e.conn].state \in Up /\ e.conn # k
      BY <3>1 DEF IInv, ActiveOK
    <3> QED
      BY <1>2, <1>9, <3>1 DEF ActiveOK
  <2>3. PollerOK(m)'
    <3>1. ASSUME NEW d \in Fds, poller[m][d] # NoConn
          PROVE  /\ poller[m][d] \in Conns
                 /\ LET j == poller[m][d]
                    IN  Alive(j) /\ conn[j].loop = m /\ conn[j].fd = d /\ conn[j].index # "kNew"
      BY <1>1, <3>1 DEF IInv, PollerOK, Typed, TypeOK
    <3> QED
      BY <1>9, <3>1 DEF PollerOK
  <2> QED
    BY <2>1, <2>2, <2>3
<1>12. /\ \A j \in Conns \ {k} : ConnOK(j)' /\ \A m \in Loops : WaitingOK(m, j)'
       /\ \A m \in Loops, j \in Conns : HeldOK(m, j)'
  <2>1. \A j \in Conns \ {k} : Registered(j) => Registered(j)'
    BY <1>2 DEF Registered
  <2> QED
    BY <1>2, <1>3, <1>4, <1>7, <1>9, <2>1, OthersKeep
<1>13. ConnOK(k)'
  <2>1. Registered(k)'
    BY <1>1, <1>2 DEF Registered
  <2>2. k \in inMap' \/ Owes(conn[k].loop, Destroy(k))'
    BY <1>1, <1>2, <1>3, <1>8 DEF Destroy, g
  <2>3. peer[k] \notin {"none", "waiting", "refused"}
    BY DEF IInv, ConnOK, Up
  <2> QED
    BY <1>2, <1>4, <2>1, <2>2, <2>3 DEF ConnOK, Up
<1>14. ASSUME NEW m \in Loops PROVE WaitingOK(m, k)'
  <2>1. WaitingOK(m, k)
    BY DEF IInv
  <2>2. ASSUME Owes(m, Functor("connectEstablished", k))' PROVE FALSE
    BY <1>1, <1>3, <1>8, <2>2, FunctorTypes DEF g
  <2>3. ASSUME Owes(m, Functor("removeConnectionInLoop", k))'
        PROVE  m = Base /\ k \in inMap'
    BY <1>1, <1>3, <1>8, <2>3, FunctorTypes DEF g
  <2>4. ASSUME Owes(m, Destroy(k))'
        PROVE  m = l /\ k \notin inMap'
    BY <1>1, <1>3, <1>8, <2>4, FunctorTypes DEF g, Destroy
  <2>5. ASSUME Owes(m, Functor("forceCloseInLoop", k))' PROVE m = l
    BY <1>3, <1>8, <2>1, <2>5, FunctorTypes DEF g, WaitingOK
  <2>6. \A o \in {"connectEstablished", "removeConnectionInLoop", "connectDestroyed"} :
          Once(m, Functor(o, k))'
    BY <1>1, <1>8, <2>1 DEF WaitingOK, Destroy
  <2> QED
    BY <1>2, <2>2, <2>3, <2>4, <2>5, <2>6 DEF WaitingOK
<1>15. FdsDiffer'
  BY <1>9 DEF IInv, FdsDiffer
<1> QED
  BY <1>5, <1>10, <1>11, <1>12, <1>13, <1>14, <1>15 DEF IInv, NoAssertionFails

LEMMA ReadEndInvariant ==
  ASSUME IInv, NEW l \in Loops, NEW k \in Conns, HandleReadEnd(l, k) PROVE IInv'
<1>1. /\ Event(k, "in") \in active[l] /\ active' = [active EXCEPT ![l] = @ \ {Event(k, "in")}]
      /\ UNCHANGED <<peer, poller, pool, maxFd, idleFd, refusing, other, nextLoop, phase, functors, ran>>
      /\ HandleClose(k)
  BY DEF HandleReadEnd, Handling, config, acceptor
<1>2. Event(k, "in").conn = k /\ Event(k, "in").what = "in" /\ k # NoConn
  BY Server DEF Event
<1>3. conn[k].loop = l /\ conn[k].state \in Up
  BY <1>1, <1>2 DEF IInv, ActiveOK
<1>4. active \in [Loops -> SUBSET [conn : Conns \cup {NoConn}, what : {"in", "out"}]]
  BY DEF IInv, Typed, TypeOK
<1>5. /\ active' \in [Loops -> SUBSET [conn : Conns \cup {NoConn}, what : {"in", "out"}]]
      /\ \A m \in Loops : active'[m] \subseteq active[m]
      /\ \A e \in active'[l] : e.conn = k => e.what # "in"
  BY <1>1, <1>4 DEF Event
<1>6. Advanced(k)
  BY <1>1, NothingRan DEF IInv
<1> QED
  BY <1>1, <1>3, <1>5, <1>6, CloseInvariant

LEMMA ReadDataInvariant ==
  ASSUME IInv, NEW l \in Loops, NEW k \in Conns, HandleReadData(l, k) PROVE IInv'
<1>1. Handling(l, k, "in") /\ Callback(k) /\ UNCHANGED <<inMap, calls, failed>>
  BY DEF HandleReadData
<1>2. conn \in [Conns -> Connections] /\ conn[k] \in Connections
  BY DEF IInv, Typed, TypeOK
<1>3. CASE UNCHANGED <<conn, pending>>
  BY <1>1, <1>2, <1>3, ChannelInvariant
<1>4. ASSUME NEW c \in Connections, conn[k].state \in Up, c.state \in Up, conn' = [conn EXCEPT ![k] = c],
             c.loop = conn[k].loop, c.fd = conn[k].fd, c.index = conn[k].index,
             c.reading = conn[k].reading,
             \/ pending' = pending
             \/ \E n \in Nat : pending' = [pending EXCEPT ![c.loop] =
                                            @ \o [i \in 1 .. n |-> Functor("forceCloseInLoop", k)]]
      PROVE  IInv'
  BY <1>1, <1>4, ChannelInvariant
<1>5. CASE conn[k].state = "kConnected" /\ conn' = [conn EXCEPT ![k].writing = TRUE] /\ UNCHANGED pending
  <2> DEFINE c == [conn[k] EXCEPT !.writing = TRUE]
  <2>1. /\ c \in Connections /\ c.state = "kConnected" /\ c.loop = conn[k].loop /\ c.fd = conn[k].fd
        /\ c.index = conn[k].index /\ c.reading = conn[k].reading /\ conn' = [conn EXCEPT ![k] = c]
    BY <1>2, <1>5 DEF Connections
  <2> HIDE DEF c
  <2> QED
    BY <1>4, <1>5, <2>1 DEF Up
<1>6. CASE /\ conn[k].state = "kConnected"
           /\ conn' = [conn EXCEPT ![k] = ShutdownInLoop([@ EXCEPT !.state = "kDisconnecting"])]
           /\ UNCHANGED pending
  <2> DEFINE c == ShutdownInLoop([conn[k] EXCEPT !.state = "kDisconnecting"])
  <2>1. /\ c \in Connections /\ c.state = "kDisconnecting" /\ c.loop = conn[k].loop /\ c.fd = conn[k].fd
        /\ c.index = conn[k].index /\ c.reading = conn[k].reading /\ conn' = [conn EXCEPT ![k] = c]
    BY <1>2, <1>6 DEF Connections, ShutdownInLoop
  <2> HIDE DEF c
  <2> QED
    BY <1>4, <1>6, <2>1 DEF Up
<1>7. CASE /\ conn[k].state \in {"kConnected", "kDisconnecting"}
           /\ conn' = [conn EXCEPT ![k].state = "kDisconnecting"]
           /\ \E n \in 1 .. MaxFrames :
                pending' = [pending EXCEPT ![conn[k].loop] =
                              @ \o [i \in 1 .. n |-> Functor("forceCloseInLoop", k)]]
  <2> DEFINE c == [conn[k] EXCEPT !.state = "kDisconnecting"]
  <2>1. /\ c \in Connections /\ c.state = "kDisconnecting" /\ c.loop = conn[k].loop /\ c.fd = conn[k].fd
        /\ c.index = conn[k].index /\ c.reading = conn[k].reading /\ conn' = [conn EXCEPT ![k] = c]
    BY <1>2, <1>7 DEF Connections
  <2> HIDE DEF c
  <2>2. \E n \in Nat : pending' = [pending EXCEPT ![c.loop] =
                                     @ \o [i \in 1 .. n |-> Functor("forceCloseInLoop", k)]]
    <3>1. PICK n \in 1 .. MaxFrames :
            pending' = [pending EXCEPT ![conn[k].loop] =
                          @ \o [i \in 1 .. n |-> Functor("forceCloseInLoop", k)]]
      BY <1>7
    <3>2. n \in Nat
      BY Server
    <3> QED
      BY <2>1, <3>1, <3>2
  <2> QED
    BY <1>4, <1>7, <2>1, <2>2 DEF Up
<1> QED
  BY <1>1, <1>3, <1>5, <1>6, <1>7 DEF Callback

LEMMA WriteInvariant ==
  ASSUME IInv, NEW l \in Loops, NEW k \in Conns, HandleWrite(l, k) PROVE IInv'
<1>1. Handling(l, k, "out") /\ UNCHANGED <<inMap, calls, failed, pending>>
  BY DEF HandleWrite
<1>2. conn \in [Conns -> Connections] /\ conn[k] \in Connections
  BY DEF IInv, Typed, TypeOK
<1>3. CASE conn' = conn
  BY <1>1, <1>2, <1>3, ChannelInvariant
<1>4. CASE conn[k].writing /\ conn' # conn
  <2> DEFINE drained == [conn[k] EXCEPT !.writing = FALSE]
             c == IF conn[k].state = "kDisconnecting" THEN ShutdownInLoop(drained) ELSE drained
  <2>1. conn' = [conn EXCEPT ![k] = c]
    BY <1>4 DEF HandleWrite
  <2>2. conn[k].state \in Up
    <3>1. Event(k, "out").conn = k /\ k # NoConn
      BY Server DEF Event
    <3>2. Alive(k)
      BY <1>1, <3>1 DEF IInv, ActiveOK, Handling
    <3> QED
      BY <1>2, <1>4, <3>2 DEF IInv, ConnOK, Alive, Connections, Up
  <2>3. /\ c \in Connections /\ c.state = conn[k].state /\ c.loop = conn[k].loop /\ c.fd = conn[k].fd
        /\ c.index = conn[k].index /\ c.reading = conn[k].reading
    BY <1>2 DEF Connections, ShutdownInLoop
  <2> HIDE DEF c
  <2> QED
    BY <1>1, <2>1, <2>2, <2>3, ChannelInvariant
<1> QED
  BY <1>3, <1>4 DEF HandleWrite
-----------------------------------------------------------------------------
(* Accepting and establishing. *)

LEMMA RoundRobinTypes ==
  ASSUME Typed
  PROVE  /\ NextLoop \in Loops /\ Base \in Loops
         /\ RoundRobin \in Nat \ {0} /\ (pool # <<>> => RoundRobin \in 1 .. Len(pool))
<1>1. pool \in Seq(Loops) /\ Base \in Loops
  BY Server DEF Typed, TypeOK
<1>2. CASE pool = <<>>
  BY <1>1, <1>2 DEF NextLoop, RoundRobin
<1>3. CASE pool # <<>>
  <2>1. Len(pool) \in Nat \ {0} /\ nextLoop \in 1 .. Len(pool) /\ pool[nextLoop] \in Loops
    BY <1>1, <1>3, EmptySeq DEF Typed
  <2>2. nextLoop % Len(pool) \in 0 .. Len(pool) - 1
    BY <2>1
  <2> QED
    BY <1>1, <1>3, <2>1, <2>2 DEF NextLoop, RoundRobin
<1> QED
  BY <1>2, <1>3

(* connectEstablished of a connection that is known to no loop yet. *)
LEMMA EstablishInvariant ==
  ASSUME IInv, NEW k \in Conns, NEW c \in Connections, Establish(k, c),
         c.state = "kConnecting", c.loop \in Loops, c.fd \in Fds,
         conn[k].state = "none" \/ conn[k] = c,
         \A j \in Conns \ {k} : conn[j].fd # c.fd,
         Advanced(k), UNCHANGED <<pool, maxFd, idleFd, refusing, other, phase, pending>>,
         \A m \in Loops : ~StillOwes(m, Functor("connectEstablished", k)),
         nextLoop' \in Nat \ {0} /\ (pool # <<>> => nextLoop' \in 1 .. Len(pool)),
         inMap' = inMap \cup {k},
         peer' = [peer EXCEPT ![k] = "open"] \/ (peer' = peer /\ conn[k] = c),
         active' \in [Loops -> SUBSET [conn : Conns \cup {NoConn}, what : {"in", "out"}]],
         \A m \in Loops : active'[m] \subseteq active[m]
  PROVE  IInv'
<1>1. /\ Typed /\ calls[k] = <<>> /\ (Alive(k) => conn[k].index = "kNew")
      /\ conn[k] = c => peer[k] \notin {"none", "waiting", "refused"}
      /\ \A m \in Loops : /\ ~Owes(m, Functor("removeConnectionInLoop", k))
                          /\ ~Owes(m, Destroy(k))
                          /\ ~Owes(m, Functor("forceCloseInLoop", k))
  <2>1. Typed /\ ConnOK(k)
    BY DEF IInv
  <2>2. ASSUME NEW m \in Loops
        PROVE  /\ ~Owes(m, Functor("removeConnectionInLoop", k))
               /\ ~Owes(m, Destroy(k))
               /\ ~Owes(m, Functor("forceCloseInLoop", k))
    <3>1. WaitingOK(m, k)
      BY DEF IInv
    <3> QED
      BY <3>1 DEF WaitingOK, Up
  <2> QED
    BY <2>1, <2>2 DEF ConnOK, Alive
<1>2. poller[c.loop][c.fd] = NoConn
  <2> SUFFICES ASSUME poller[c.loop][c.fd] # NoConn PROVE FALSE
    OBVIOUS
  <2> DEFINE j == poller[c.loop][c.fd]
  <2>1. j \in Conns
    BY <1>1 DEF Typed, TypeOK
  <2>2. Alive(j) /\ conn[j].fd = c.fd /\ conn[j].index # "kNew"
    BY DEF IInv, PollerOK
  <2> HIDE DEF j
  <2> QED
    BY <1>1, <2>1, <2>2
<1> DEFINE new == [c EXCEPT !.state = "kConnected", !.index = "kAdded", !.reading = TRUE]
<1>3. /\ new \in Connections /\ new.state = "kConnected" /\ new.index = "kAdded" /\ new.reading = TRUE
      /\ new.loop = c.loop /\ new.fd = c.fd
      /\ conn' = [conn EXCEPT ![k] = new]
  BY DEF Connections, Establish
<1> HIDE DEF new
<1>4. /\ conn' \in [Conns -> Connections] /\ conn'[k] = new
      /\ \A j \in Conns \ {k} : conn'[j] = conn[j]
  BY <1>1, <1>3 DEF Typed, TypeOK
<1>5. /\ poller' = [poller EXCEPT ![c.loop][c.fd] = k]
      /\ poller' \in [Loops -> [Fds -> Conns \cup {NoConn}]]
      /\ poller'[c.loop][c.fd] = k
      /\ \A m \in Loops, d \in Fds : m # c.loop \/ d # c.fd => poller'[m][d] = poller[m][d]
  <2>1. poller \in [Loops -> [Fds -> Conns \cup {NoConn}]]
    BY <1>1 DEF Typed, TypeOK
  <2> QED
    BY <2>1 DEF Establish
<1>6. /\ calls' \in [Conns -> Seq({"UP", "DOWN"})] /\ calls'[k] = <<"UP">>
      /\ \A j \in Conns \ {k} : calls'[j] = calls[j]
  <2>1. calls' = [calls EXCEPT ![k] = Append(@, "UP")] /\ calls \in [Conns -> Seq({"UP", "DOWN"})]
    BY <1>1 DEF Establish, Typed
  <2>2. Append(<<>>, "UP") = <<"UP">> /\ <<"UP">> \in Seq({"UP", "DOWN"})
    OBVIOUS
  <2> QED
    BY <1>1, <2>1, <2>2
<1>7. failed' = "none"
  BY <1>2 DEF Establish, IInv, NoAssertionFails
<1>8. QueuesOfOthers(k)
  BY NoneOfOthers
<1>9. \A m \in Loops : \A f : (Owes(m, f)' => Owes(m, f)) /\ (Once(m, f) => Once(m, f)')
                             /\ (Owes(m, f)' => StillOwes(m, f))
  BY NothingQueued DEF Advanced
<1>10. \A m \in Loops : /\ ~Owes(m, Functor("connectEstablished", k))'
                        /\ ~Owes(m, Functor("removeConnectionInLoop", k))'
                        /\ ~Owes(m, Destroy(k))'
                        /\ ~Owes(m, Functor("forceCloseInLoop", k))'
  BY <1>1, <1>9 DEF Destroy
<1>11. Alive(k)' /\ \A j \in Conns \ {k} : Alive(j)' <=> Alive(j)
  BY <1>3, <1>4 DEF Alive
<1>12. /\ peer' \in [Conns -> {"none", "waiting", "open", "closed", "refused"}]
       /\ peer'[k] \notin {"none", "waiting", "refused"}
       /\ \A j \in Conns \ {k} : peer'[j] = peer[j]
  BY <1>1 DEF Typed, TypeOK
<1>13. Typed'
  <2>1. \A j \in Conns : conn'[j].fd # 0 <=> Alive(j)'
    BY <1>1, <1>3, <1>4, <1>11, Server DEF Typed, TypeOK
  <2> QED
    BY <1>1, <1>4, <1>5, <1>6, <1>12, <2>1 DEF Typed, TypeOK, Advanced
<1>14. ASSUME NEW m \in Loops PROVE LoopOK(m)' /\ ActiveOK(m)' /\ PollerOK(m)'
  <2>1. LoopOK(m)'
    BY DEF IInv, LoopOK, Advanced
  <2>2. ActiveOK(m)'
    <3>1. ASSUME NEW e \in active'[m], e.conn # NoConn
          PROVE  /\ e.conn \in Conns \ {k}
                 /\ Alive(e.conn) /\ conn[e.conn].loop = m /\ conn[e.conn].index # "kNew"
                 /\ e.what = "in" => conn[e.conn].state \in Up
      BY <1>1, <3>1 DEF IInv, ActiveOK
    <3> QED
      BY <1>4, <1>11, <3>1 DEF ActiveOK
  <2>3. PollerOK(m)'
    <3>1. ASSUME NEW d \in Fds, poller[m][d] # NoConn
          PROVE  /\ poller[m][d] \in Conns \ {k}
                 /\ LET j == poller[m][d]
                    IN  Alive(j) /\ conn[j].loop = m /\ conn[j].fd = d /\ conn[j].index # "kNew"
      BY <1>1, <3>1 DEF IInv, PollerOK, Typed, TypeOK
    <3>2. ASSUME NEW d \in Fds, NEW j, poller'[m][d] = j, j # NoConn
          PROVE  Alive(j)' /\ conn'[j].loop = m /\ conn'[j].fd = d /\ conn'[j].index # "kNew"
      <4>1. CASE m = c.loop /\ d = c.fd
        BY <1>3, <1>4, <1>5, <1>11, <3>2, <4>1
      <4>2. CASE m # c.loop \/ d # c.fd
        BY <1>4, <1>5, <1>11, <3>1, <3>2, <4>2
      <4> QED
        BY <4>1, <4>2
    <3> QED
      BY <3>2 DEF PollerOK, Alive
  <2> QED
    BY <2>1, <2>2, <2>3
<1>15. /\ \A j \in Conns \ {k} : ConnOK(j)' /\ \A m \in Loops : WaitingOK(m, j)'
       /\ \A m \in Loops, j \in Conns : HeldOK(m, j)'
  <2>1. ASSUME NEW j \in Conns \ {k}, Alive(j), Registered(j) PROVE Registered(j)'
    <3>1. conn[j].loop \in Loops /\ conn[j].fd \in Fds
      BY <1>1, <2>1 DEF Typed, TypeOK, Connections
    <3> QED
      BY <1>4, <1>5, <2>1, <3>1 DEF Registered
  <2> QED
    BY <1>4, <1>6, <1>8, <1>11, <1>12, <2>1, OthersKeep
<1>16. ConnOK(k)'
  <2>1. Registered(k)'
    BY <1>3, <1>4, <1>5 DEF Registered
  <2> QED
    BY <1>3, <1>4, <1>6, <1>12, <2>1 DEF ConnOK, Up
<1>17. ASSUME NEW m \in Loops PROVE WaitingOK(m, k)'
  <2>1. WaitingOK(m, k)
    BY DEF IInv
  <2> QED
    BY <1>9, <1>10, <2>1 DEF WaitingOK
<1>18. FdsDiffer'
  BY <1>3, <1>4 DEF IInv, FdsDiffer
<1> QED
  BY <1>7, <1>13, <1>14, <1>15, <1>16, <1>17, <1>18 DEF IInv, NoAssertionFails

LEMMA NewConnectionInvariant ==
  ASSUME IInv, NEW k \in Conns, NewConnection(k) PROVE IInv'
<1>1. PICK d \in LowestFd :
        LET new == [Unborn EXCEPT !.state = "kConnecting", !.loop = NextLoop, !.fd = d]
        IN  \/ /\ NextLoop = Base
               /\ Establish(k, new)
               /\ UNCHANGED pending
            \/ /\ NextLoop # Base
               /\ conn' = [conn EXCEPT ![k] = new]
               /\ pending' = [pending EXCEPT ![NextLoop] = Append(@, Functor("connectEstablished", k))]
               /\ UNCHANGED <<calls, poller, failed>>
  BY DEF NewConnection
<1>2. /\ peer[k] = "waiting" /\ peer' = [peer EXCEPT ![k] = "open"]
      /\ active' = [active EXCEPT ![Base] = @ \ {Event(NoConn, "in")}]
      /\ inMap' = inMap \cup {k} /\ nextLoop' = RoundRobin
      /\ UNCHANGED <<pool, maxFd, idleFd, refusing, other, phase, functors, ran>>
  BY DEF NewConnection, Accepting, FirstWaiting, config, acceptor
<1>3. /\ Typed /\ NextLoop \in Loops /\ Base \in Loops
      /\ nextLoop' \in Nat \ {0} /\ (pool # <<>> => nextLoop' \in 1 .. Len(pool))
  BY <1>2, RoundRobinTypes DEF IInv
<1>4. /\ active' \in [Loops -> SUBSET [conn : Conns \cup {NoConn}, what : {"in", "out"}]]
      /\ \A m \in Loops : active'[m] \subseteq active[m]
  <2>1. active \in [Loops -> SUBSET [conn : Conns \cup {NoConn}, what : {"in", "out"}]]
    BY <1>3 DEF Typed, TypeOK
  <2> QED
    BY <1>2, <2>1
<1>5. d \in Fds /\ \A j \in Conns : conn[j].fd # d
  <2>1. d \in 1 .. maxFd /\ \A j \in Conns : conn[j].fd # d
    BY DEF LowestFd, FreeFds
  <2>2. maxFd \in Fds
    BY <1>3 DEF Typed, TypeOK
  <2> QED
    BY <2>1, <2>2, Server DEF Fds
<1>6. /\ conn[k].state = "none" /\ calls[k] = <<>> /\ k \notin inMap /\ ~Alive(k)
      /\ \A m \in Loops : /\ ~Owes(m, Functor("connectEstablished", k))
                          /\ ~Owes(m, Functor("removeConnectionInLoop", k))
                          /\ ~Owes(m, Destroy(k))
                          /\ ~Owes(m, Functor("forceCloseInLoop", k))
  <2>1. conn[k].state = "none" /\ calls[k] = <<>> /\ k \notin inMap
    BY <1>2 DEF IInv, ConnOK
  <2>2. ASSUME NEW m \in Loops
        PROVE  /\ ~Owes(m, Functor("connectEstablished", k))
               /\ ~Owes(m, Functor("removeConnectionInLoop", k))
               /\ ~Owes(m, Destroy(k))
               /\ ~Owes(m, Functor("forceCloseInLoop", k))
    <3>1. WaitingOK(m, k)
      BY DEF IInv
    <3> QED
      BY <2>1, <3>1 DEF WaitingOK, Up
  <2> QED
    BY <2>1, <2>2 DEF Alive
<1>7. Advanced(k)
  BY <1>2, <1>3, NothingRan
<1> DEFINE new == [Unborn EXCEPT !.state = "kConnecting", !.loop = NextLoop, !.fd = d]
<1>8. /\ new \in Connections /\ new.state = "kConnecting" /\ new.index = "kNew"
      /\ new.reading = FALSE /\ new.writing = FALSE /\ new.loop = NextLoop /\ new.fd = d
  BY <1>3, <1>5 DEF Unborn, Connections
<1>9. CASE NextLoop = Base /\ Establish(k, new) /\ UNCHANGED pending
  <2>1. \A m \in Loops : ~StillOwes(m, Functor("connectEstablished", k))
    BY <1>6, <1>7 DEF Advanced
  <2> HIDE DEF new
  <2> QED
    BY <1>2, <1>3, <1>4, <1>5, <1>6, <1>7, <1>8, <1>9, <2>1, EstablishInvariant
<1>10. CASE /\ NextLoop # Base
            /\ conn' = [conn EXCEPT ![k] = new]
            /\ pending' = [pending EXCEPT ![NextLoop] = Append(@, Functor("connectEstablished", k))]
            /\ UNCHANGED <<calls, poller, failed>>
  <2> HIDE DEF new
  <2> DEFINE l == NextLoop
             g == Functor("connectEstablished", k)
  <2>1. /\ conn' \in [Conns -> Connections] /\ conn'[k] = new
        /\ \A j \in Conns \ {k} : conn'[j] = conn[j]
    BY <1>3, <1>8, <1>10 DEF Typed, TypeOK
  <2>2. Alive(k)' /\ \A j \in Conns \ {k} : Alive(j)' <=> Alive(j)
    BY <1>8, <2>1 DEF Alive
  <2>3. g \in Functors /\ l \in Loops /\ pending' = [pending EXCEPT ![l] = Append(@, g)]
    BY <1>3, <1>10, FunctorTypes
  <2>4. QueuesOfOthers(k)
    BY <1>3, <1>7, <2>3, OneOfOthers
  <2> HIDE DEF l, g
  <2>5. /\ pending' \in [Loops -> Seq(Functors)]
        /\ \A m \in Loops : \A f :
             /\ Owes(m, f)' => Owes(m, f) \/ (m = l /\ f = g)
             /\ Once(m, f) /\ ~Owes(m, f) => Once(m, f)'
    <3>1. \A m \in Loops : \A f :
             /\ Owes(m, f)' <=> StillOwes(m, f) \/ (m = l /\ f = g)
             /\ StillOnce(m, f) /\ ~(m = l /\ f = g /\ StillOwes(l, g)) => Once(m, f)'
      BY <1>3, <1>7, <2>3, OneQueued
    <3>2. pending' \in [Loops -> Seq(Functors)]
      BY <1>3, <1>7, <2>3, OneQueued
    <3> QED
      BY <1>7, <2>3, <3>1, <3>2 DEF Advanced
  <2>6. Typed'
    <3>1. \A j \in Conns : conn'[j].fd # 0 <=> Alive(j)'
      BY <1>3, <1>5, <1>8, <2>1, <2>2, Server DEF Typed, TypeOK
    <3>2. peer' \in [Conns -> {"none", "waiting", "open", "closed", "refused"}]
      BY <1>2, <1>3 DEF Typed, TypeOK
    <3> QED
      BY <1>2, <1>3, <1>4, <1>10, <2>1, <2>5, <3>1, <3>2 DEF Typed, TypeOK
  <2>7. ASSUME NEW m \in Loops PROVE LoopOK(m)' /\ ActiveOK(m)' /\ PollerOK(m)'
    <3>1. LoopOK(m)'
      BY <1>2, <1>4 DEF IInv, LoopOK
    <3>2. ActiveOK(m)'
      <4>1. ASSUME NEW e \in active'[m], e.conn # NoConn
            PROVE  /\ e.conn \in Conns \ {k}
                   /\ Alive(e.conn) /\ conn[e.conn].loop = m /\ conn[e.conn].index # "kNew"
                   /\ e.what = "in" => conn[e.conn].state \in Up
        BY <1>4, <1>6, <4>1 DEF IInv, ActiveOK
      <4> QED
        BY <2>1, <2>2, <4>1 DEF ActiveOK
    <3>3. PollerOK(m)'
      <4>1. ASSUME NEW e \in Fds, poller[m][e] # NoConn
            PROVE  /\ poller[m][e] \in Conns \ {k}
                   /\ LET j == poller[m][e]
                      IN  Alive(j) /\ conn[j].loop = m /\ conn[j].fd = e /\ conn[j].index # "kNew"
        BY <1>3, <1>6, <4>1 DEF IInv, PollerOK, Typed, TypeOK
      <4> QED
        BY <1>10, <2>1, <2>2, <4>1 DEF PollerOK
    <3> QED
      BY <3>1, <3>2, <3>3
  <2>8. /\ \A j \in Conns \ {k} : ConnOK(j)' /\ \A m \in Loops : WaitingOK(m, j)'
        /\ \A m \in Loops, j \in Conns : HeldOK(m, j)'
    <3>1. \A j \in Conns \ {k} : Registered(j) => Registered(j)'
      BY <1>10, <2>1 DEF Registered
    <3>2. \A j \in Conns \ {k} : peer'[j] = peer[j]
      BY <1>2, <1>3 DEF Typed, TypeOK
    <3> QED
      BY <1>2, <1>10, <2>1, <2>2, <2>4, <3>1, <3>2, OthersKeep
  <2>9. ConnOK(k)'
    <3>1. peer'[k] = "open"
      BY <1>2, <1>3 DEF Typed, TypeOK
    <3> QED
      BY <1>2, <1>6, <1>8, <1>10, <2>1, <3>1 DEF ConnOK, Up
  <2>10. ASSUME NEW m \in Loops PROVE WaitingOK(m, k)'
    <3>1. WaitingOK(m, k)
      BY DEF IInv
    <3>2. /\ Owes(m, Functor("connectEstablished", k))' => m = l
          /\ ~Owes(m, Functor("removeConnectionInLoop", k))'
          /\ ~Owes(m, Destroy(k))'
          /\ ~Owes(m, Functor("forceCloseInLoop", k))'
      BY <1>6, <2>5, FunctorTypes DEF g, Destroy
    <3>3. \A op \in {"connectEstablished", "removeConnectionInLoop", "connectDestroyed"} :
            Once(m, Functor(op, k))'
      BY <1>6, <2>5, <3>1 DEF WaitingOK, Destroy
    <3> QED
      BY <1>8, <2>1, <3>2, <3>3 DEF WaitingOK, l
  <2>11. FdsDiffer'
    BY <1>5, <1>8, <2>1 DEF IInv, FdsDiffer
  <2> QED
    BY <1>10, <2>6, <2>7, <2>8, <2>9, <2>10, <2>11 DEF IInv, NoAssertionFails
<1> QED
  BY <1>1, <1>9, <1>10

LEMMA EstablishedInvariant ==
  ASSUME IInv, NEW l \in Loops, NEW k \in Conns, ConnectEstablished(l, k) PROVE IInv'
<1> DEFINE g == Functor("connectEstablished", k)
<1>1. /\ RunFunctor(l, "connectEstablished", k)
      /\ Establish(k, conn[k])
      /\ UNCHANGED <<inMap, pending, peer, pool, maxFd, idleFd, refusing, other, nextLoop, phase, active, functors>>
  BY DEF ConnectEstablished, RunFunctor, config, acceptor
<1>2. Typed /\ WaitingOK(l, k) /\ ConnOK(k)
  BY DEF IInv
<1>3. /\ Advanced(k) /\ Owes(l, g)
      /\ \A m \in Loops : \A f : Owes(m, f) => StillOwes(m, f) \/ (m = l /\ f = g)
      /\ Once(l, g) => ~StillOwes(l, g)
  BY <1>1, <1>2, FunctorRan
<1>4. conn[k].state = "kConnecting" /\ conn[k].loop = l /\ Once(l, g)
  BY <1>2, <1>3 DEF WaitingOK
<1>5. k \in inMap
  BY <1>2, <1>4 DEF ConnOK
<1>6. conn[k] \in Connections /\ conn[k].fd \in Fds
  BY <1>2, <1>4 DEF Typed, TypeOK, Connections, Alive
<1>7. \A j \in Conns \ {k} : conn[j].fd # conn[k].fd
  BY <1>6, Server DEF IInv, FdsDiffer
<1>8. ASSUME NEW m \in Loops PROVE ~StillOwes(m, g)
  <2>1. CASE m = l
    BY <1>3, <1>4, <2>1
  <2>2. CASE m # l
    <3>1. ~Owes(m, g)
      BY <1>4, <2>2 DEF IInv, WaitingOK
    <3> QED
      BY <1>3, <3>1 DEF Advanced
  <2> QED
    BY <2>1, <2>2
<1>9. /\ active' \in [Loops -> SUBSET [conn : Conns \cup {NoConn}, what : {"in", "out"}]]
      /\ \A m \in Loops : active'[m] \subseteq active[m]
      /\ nextLoop' \in Nat \ {0} /\ (pool # <<>> => nextLoop' \in 1 .. Len(pool))
      /\ inMap' = inMap \cup {k}
  BY <1>1, <1>2, <1>5 DEF Typed, TypeOK
<1> QED
  BY <1>1, <1>3, <1>4, <1>6, <1>7, <1>8, <1>9, EstablishInvariant
-----------------------------------------------------------------------------
(* The way out: removeConnectionInLoop, connectDestroyed and forceCloseInLoop. *)

LEMMA RemoveInvariant ==
  ASSUME IInv, NEW l \in Loops, NEW k \in Conns, RemoveConnection(l, k) PROVE IInv'
<1> DEFINE g == Functor("removeConnectionInLoop", k)
           h == Functor("connectDestroyed", k)
           to == conn[k].loop
<1>1. /\ RunFunctor(l, "removeConnectionInLoop", k)
      /\ inMap' = inMap \ {k}
      /\ pending' = [pending EXCEPT ![to] = Append(@, h)]
      /\ failed' = IF k \notin inMap THEN "removeConnectionInLoop" ELSE failed
      /\ UNCHANGED <<conn, poller, calls, peer, pool, maxFd, idleFd, refusing, other, nextLoop, phase, active, functors>>
  BY DEF RemoveConnection, RemoveConnectionInLoop, RunFunctor, config, acceptor
<1>2. Typed /\ WaitingOK(l, k) /\ ConnOK(k) /\ to \in Loops /\ h \in Functors /\ g # h
  BY FunctorTypes DEF IInv, Typed, TypeOK, Connections
<1>3. /\ Advanced(k) /\ Owes(l, g)
      /\ Once(l, g) => ~StillOwes(l, g)
  BY <1>1, <1>2, FunctorRan
<1>4. /\ l = Base /\ conn[k].state = "kDisconnected" /\ k \in inMap /\ Once(l, g) /\ Alive(k)
      /\ conn[k].index = "kDeleted"
  BY <1>2, <1>3 DEF WaitingOK, ConnOK, Alive
<1>5. QueuesOfOthers(k)
  BY <1>1, <1>2, <1>3, OneOfOthers
<1>6. /\ pending' \in [Loops -> Seq(Functors)]
      /\ \A m \in Loops : \A f :
           /\ Owes(m, f)' <=> StillOwes(m, f) \/ (m = to /\ f = h)
           /\ StillOnce(m, f) /\ ~(m = to /\ f = h /\ StillOwes(to, h)) => Once(m, f)'
  <2> HIDE DEF h, to
  <2> QED
    BY <1>1, <1>2, <1>3, OneQueued
<1>7. Typed'
  BY <1>1, <1>2, <1>3, <1>6 DEF Typed, TypeOK, Advanced, Alive
<1>8. ASSUME NEW m \in Loops PROVE LoopOK(m)' /\ ActiveOK(m)' /\ PollerOK(m)'
  BY <1>1 DEF IInv, LoopOK, ActiveOK, PollerOK, Alive
<1>9. /\ \A j \in Conns \ {k} : ConnOK(j)' /\ \A m \in Loops : WaitingOK(m, j)'
      /\ \A m \in Loops, j \in Conns : HeldOK(m, j)'
  <2>1. Alive(k)' /\ \A j \in Conns \ {k} : Registered(j) => Registered(j)'
    BY <1>1, <1>4 DEF Alive, Registered
  <2> QED
    BY <1>1, <1>5, <2>1, OthersKeep
<1>10. ConnOK(k)'
  <2>1. Owes(conn[k].loop, Destroy(k))'
    BY <1>1, <1>2, <1>6 DEF Destroy
  <2> QED
    BY <1>1, <1>2, <1>4, <2>1 DEF ConnOK, Registered, Up
<1>11. ASSUME NEW m \in Loops PROVE WaitingOK(m, k)'
  <2>1. WaitingOK(m, k) /\ ~Owes(m, h)
    BY <1>4 DEF IInv, WaitingOK, Destroy
  <2>2. ~StillOwes(m, h) /\ ~StillOwes(m, g)
    <3>1. m # l => ~Owes(m, g)
      BY <1>4, <2>1 DEF WaitingOK
    <3> QED
      BY <1>3, <1>4, <2>1, <3>1 DEF Advanced
  <2>3. /\ Owes(m, Functor("connectEstablished", k))' => Owes(m, Functor("connectEstablished", k))
        /\ Owes(m, Functor("forceCloseInLoop", k))' => Owes(m, Functor("forceCloseInLoop", k))
        /\ ~Owes(m, g)'
        /\ Owes(m, Destroy(k))' => m = to
    BY <1>3, <1>6, <2>2, FunctorTypes DEF Advanced, Destroy
  <2>4. \A op \in {"connectEstablished", "removeConnectionInLoop", "connectDestroyed"} :
          Once(m, Functor(op, k)) => Once(m, Functor(op, k))'
    <3> HIDE DEF to
    <3>1. ~StillOwes(to, h)
      BY <1>2, <1>3, <1>4 DEF IInv, WaitingOK, Destroy, Advanced
    <3> QED
      BY <1>3, <1>6, <3>1 DEF Advanced
  <2>5. conn' = conn /\ k \notin inMap'
    BY <1>1
  <2> QED
    BY <1>4, <2>1, <2>3, <2>4, <2>5 DEF WaitingOK
<1> QED
  BY <1>1, <1>4, <1>7, <1>8, <1>9, <1>10, <1>11 DEF IInv, NoAssertionFails, FdsDiffer

LEMMA DestroyedInvariant ==
  ASSUME IInv, NEW l \in Loops, NEW k \in Conns, ConnectDestroyed(l, k) PROVE IInv'
<1> DEFINE g == Functor("connectDestroyed", k)
<1>1. /\ RunFunctor(l, "connectDestroyed", k)
      /\ conn' = [conn EXCEPT ![k].index = "kNew"]
      /\ poller' = [poller EXCEPT ![l][conn[k].fd] = NoConn]
      /\ failed' = IF Removable(l, k) THEN failed ELSE "removeChannel"
      /\ phase[l] = "functors"
      /\ UNCHANGED <<inMap, pending, calls, peer, pool, maxFd, idleFd, refusing, other, nextLoop, phase, active, functors>>
  BY DEF ConnectDestroyed, RunFunctor, config, acceptor
<1>2. Typed /\ WaitingOK(l, k) /\ ConnOK(k) /\ active[l] = {}
  BY <1>1 DEF IInv, LoopOK
<1>3. /\ Advanced(k) /\ Owes(l, g)
      /\ Once(l, g) => ~StillOwes(l, g)
  BY <1>1, <1>2, FunctorRan
<1>4. /\ conn[k].loop = l /\ conn[k].state = "kDisconnected" /\ k \notin inMap
      /\ conn[k].index = "kDeleted" /\ Once(l, g) /\ Alive(k)
  BY <1>2, <1>3 DEF WaitingOK, Destroy, Alive
<1>5. Registered(k) /\ ~conn[k].reading /\ ~conn[k].writing /\ calls[k] = <<"UP", "DOWN">>
      /\ peer[k] \notin {"none", "waiting", "refused"}
  BY <1>2, <1>4 DEF ConnOK
<1>6. failed' = failed
  BY <1>1, <1>4, <1>5 DEF Removable, Registered
<1>7. conn[k].fd \in Fds
  BY <1>2, <1>4 DEF Typed, TypeOK, Connections
<1>8. /\ conn' \in [Conns -> Connections]
      /\ \A j \in Conns \ {k} : conn'[j] = conn[j]
      /\ conn'[k].state = "kDisconnected" /\ conn'[k].index = "kNew"
      /\ conn'[k].loop = l /\ conn'[k].fd = conn[k].fd
      /\ conn'[k].reading = conn[k].reading /\ conn'[k].writing = conn[k].writing
  <2> DEFINE c == [conn[k] EXCEPT !.index = "kNew"]
  <2>1. conn \in [Conns -> Connections] /\ conn[k] \in Connections /\ conn' = [conn EXCEPT ![k] = c]
    BY <1>1, <1>2 DEF Typed, TypeOK
  <2>2. /\ c \in Connections /\ c.state = "kDisconnected" /\ c.index = "kNew" /\ c.loop = l
        /\ c.fd = conn[k].fd /\ c.reading = conn[k].reading /\ c.writing = conn[k].writing
    BY <1>4, <2>1 DEF Connections
  <2> HIDE DEF c
  <2> QED
    BY <2>1, <2>2
<1>9. Alive(k)' /\ \A j \in Conns : (Alive(j)' <=> Alive(j)) /\ conn'[j].fd = conn[j].fd
  BY <1>4, <1>8 DEF Alive
<1>10. /\ poller' \in [Loops -> [Fds -> Conns \cup {NoConn}]]
       /\ poller'[l][conn[k].fd] = NoConn
       /\ \A m \in Loops, d \in Fds : m # l \/ d # conn[k].fd => poller'[m][d] = poller[m][d]
  BY <1>1, <1>2, <1>7 DEF Typed, TypeOK
<1>11. QueuesOfOthers(k)
  BY <1>1, <1>3, NoneOfOthers
<1>12. \A m \in Loops : \A f : /\ Owes(m, f)' => Owes(m, f)
                               /\ Once(m, f) => Once(m, f)'
                               /\ Owes(m, f)' => StillOwes(m, f)
  BY <1>1, <1>3, NothingQueued DEF Advanced
<1>13. Typed'
  BY <1>1, <1>2, <1>3, <1>8, <1>9, <1>10 DEF Typed, TypeOK, Advanced
<1>14. ASSUME NEW m \in Loops PROVE LoopOK(m)' /\ ActiveOK(m)' /\ PollerOK(m)'
  <2>1. LoopOK(m)'
    BY <1>1 DEF IInv, LoopOK
  <2>2. ActiveOK(m)'
    <3>1. ASSUME NEW e \in active[m], e.conn # NoConn
          PROVE  /\ e.conn \in Conns \ {k}
                 /\ Alive(e.conn) /\ conn[e.conn].loop = m /\ conn[e.conn].index # "kNew"
                 /\ e.what = "in" => conn[e.conn].state \in Up
      BY <1>2, <1>4, <3>1 DEF IInv, ActiveOK
    <3> QED
      BY <1>1, <1>8, <1>9, <3>1 DEF ActiveOK
  <2>3. PollerOK(m)'
    <3>1. ASSUME NEW d \in Fds, NEW j, poller'[m][d] = j, j # NoConn
          PROVE  Alive(j)' /\ conn'[j].loop = m /\ conn'[j].fd = d /\ conn'[j].index # "kNew"
      <4>1. (m # l \/ d # conn[k].fd) /\ poller[m][d] = j /\ j \in Conns
        BY <1>2, <1>10, <3>1 DEF Typed, TypeOK
      <4>2. Alive(j) /\ conn[j].loop = m /\ conn[j].fd = d /\ conn[j].index # "kNew"
        BY <3>1, <4>1 DEF IInv, PollerOK
      <4>3. j # k
        BY <1>4, <4>1, <4>2
      <4> QED
        BY <1>8, <1>9, <4>1, <4>2, <4>3
    <3> QED
      BY <3>1 DEF PollerOK, Alive
  <2> QED
    BY <2>1, <2>2, <2>3
<1>15. /\ \A j \in Conns \ {k} : ConnOK(j)' /\ \A m \in Loops : WaitingOK(m, j)'
       /\ \A m \in Loops, j \in Conns : HeldOK(m, j)'
  <2>1. ASSUME NEW j \in Conns \ {k}, Alive(j), Registered(j) PROVE Registered(j)'
    <3>1. conn[j].loop \in Loops /\ conn[j].fd \in Fds
      BY <1>2, <2>1 DEF Typed, TypeOK, Connections
    <3>2. conn[j].fd # conn[k].fd
      BY <1>7, <3>1, Server DEF IInv, FdsDiffer
    <3> QED
      BY <1>8, <1>10, <2>1, <3>1, <3>2 DEF Registered
  <2> QED
    BY <1>1, <1>8, <1>9, <1>11, <2>1, OthersKeep
<1>16. ConnOK(k)'
  BY <1>1, <1>4, <1>5, <1>8 DEF ConnOK, Up
<1>17. ASSUME NEW m \in Loops PROVE WaitingOK(m, k)'
  <2>1. WaitingOK(m, k)
    BY DEF IInv
  <2>2. ~Owes(m, Destroy(k))'
    <3>1. m # l => ~Owes(m, Destroy(k))
      BY <1>4, <2>1 DEF WaitingOK
    <3>2. ~Owes(l, g)'
      BY <1>3, <1>4, <1>12
    <3> QED
      BY <1>12, <3>1, <3>2 DEF Destroy
  <2> QED
    BY <1>1, <1>4, <1>8, <1>12, <2>1, <2>2 DEF WaitingOK, Up
<1>18. FdsDiffer'
  BY <1>9 DEF IInv, FdsDiffer
<1> QED
  BY <1>6, <1>13, <1>14, <1>15, <1>16, <1>17, <1>18 DEF IInv, NoAssertionFails

LEMMA ForceCloseInvariant ==
  ASSUME IInv, NEW l \in Loops, NEW k \in Conns, ForceCloseInLoop(l, k) PROVE IInv'
<1> DEFINE g == Functor("forceCloseInLoop", k)
<1>1. /\ RunFunctor(l, "forceCloseInLoop", k)
      /\ phase[l] = "functors"
      /\ UNCHANGED <<poller, peer, pool, maxFd, idleFd, refusing, other, nextLoop, phase, active, functors>>
  BY DEF ForceCloseInLoop, RunFunctor, config, acceptor
<1>2. Typed /\ WaitingOK(l, k) /\ active[l] = {}
  BY <1>1 DEF IInv, LoopOK
<1>3. Advanced(k) /\ Owes(l, g) /\ \A m \in Loops : \A f : Owes(m, f) => StillOwes(m, f) \/ (m = l /\ f = g)
  BY <1>1, <1>2, FunctorRan
<1>4. conn[k].loop = l /\ conn[k].state \in Up \cup {"kDisconnected"}
  BY <1>2, <1>3 DEF WaitingOK
<1>5. CASE conn[k].state \in Up /\ HandleClose(k)
  <2>1. /\ active' \in [Loops -> SUBSET [conn : Conns \cup {NoConn}, what : {"in", "out"}]]
        /\ \A m \in Loops : active'[m] \subseteq active[m]
        /\ \A e \in active'[l] : e.conn = k => e.what # "in"
    BY <1>1, <1>2 DEF Typed, TypeOK
  <2> QED
    BY <1>1, <1>3, <1>4, <1>5, <2>1, CloseInvariant
<1>6. CASE UNCHANGED <<conn, inMap, pending, calls, failed>>
  <2>1. \A m \in Loops : \A f : /\ Owes(m, f)' => Owes(m, f)
                                /\ Once(m, f) => Once(m, f)'
                                /\ Owes(m, f) /\ f # g => Owes(m, f)'
    BY <1>3, <1>6, NothingQueued DEF Advanced
  <2>2. Typed'
    BY <1>1, <1>2, <1>3, <1>6 DEF Typed, TypeOK, Alive, Advanced
  <2>3. ASSUME NEW m \in Loops PROVE LoopOK(m)' /\ ActiveOK(m)' /\ PollerOK(m)'
    BY <1>1, <1>6 DEF IInv, LoopOK, ActiveOK, PollerOK, Alive
  <2>4. ASSUME NEW j \in Conns PROVE ConnOK(j)'
    <3>1. conn[j].loop \in Loops
      BY <1>2 DEF Typed, TypeOK, Connections
    <3>2. Owes(conn[j].loop, Destroy(j)) => Owes(conn[j].loop, Destroy(j))'
      BY <1>6, <2>1, <3>1, FunctorTypes DEF Destroy
    <3> QED
      BY <1>1, <1>6, <3>2 DEF IInv, ConnOK, Registered
  <2>5. ASSUME NEW m \in Loops, NEW j \in Conns PROVE WaitingOK(m, j)' /\ HeldOK(m, j)'
    BY <1>1, <1>6, <2>1 DEF IInv, WaitingOK, HeldOK, Alive
  <2> QED
    BY <1>6, <2>2, <2>3, <2>4, <2>5 DEF IInv, FdsDiffer, NoAssertionFails
<1> QED
  BY <1>5, <1>6 DEF ForceCloseInLoop, Up
-----------------------------------------------------------------------------
(* The theorems. *)

LEMMA StepInvariant == IInv /\ [Next]_vars => IInv'
<1> SUFFICES ASSUME IInv, [Next]_vars PROVE IInv'
  OBVIOUS
<1>1. CASE UNCHANGED vars
  <2>1. UNCHANGED <<pool, maxFd, idleFd, refusing, other, conn, peer, inMap, poller, nextLoop, phase, active, functors, ran,
                    pending, calls, failed>>
    BY <1>1 DEF vars, config, acceptor, loopVars
  <2> QED
    BY <2>1 DEF IInv, Typed, TypeOK, NoAssertionFails, LoopOK, ActiveOK, PollerOK, ConnOK, WaitingOK,
                HeldOK, FdsDiffer, Alive, Occurs, Registered, Owes, Once
<1>2. ASSUME NEW k \in Conns, Connect(k) \/ PeerCloses(k) PROVE IInv'
  BY <1>2, PeerInvariant
<1>3. ASSUME NEW l \in Loops, Poll(l) \/ SwapFunctors(l) \/ FunctorsDone(l) PROVE IInv'
  BY <1>3, PollInvariant, SwapInvariant, DoneInvariant
<1>4. ASSUME NEW l \in Loops, NEW k \in Conns,
             HandleReadEnd(l, k) \/ HandleReadData(l, k) \/ HandleWrite(l, k)
      PROVE  IInv'
  BY <1>4, ReadEndInvariant, ReadDataInvariant, WriteInvariant
<1>5. ASSUME NEW l \in Loops, NEW k \in Conns,
             \/ ConnectEstablished(l, k) \/ RemoveConnection(l, k)
             \/ ConnectDestroyed(l, k) \/ ForceCloseInLoop(l, k)
      PROVE  IInv'
  BY <1>5, EstablishedInvariant, RemoveInvariant, DestroyedInvariant, ForceCloseInvariant
<1>6. ASSUME NEW k \in Conns, NewConnection(k) PROVE IInv'
  BY <1>6, NewConnectionInvariant
<1>7. ASSUME \/ CloseIdle \/ IdleAccept \/ IdleClose \/ IdleOpen
             \/ \E k \in Conns : SessionOpens(k) \/ SessionCloses(k)
      PROVE  IInv'
  BY <1>7, AcceptorInvariant
<1> QED
  BY <1>1, <1>2, <1>3, <1>4, <1>5, <1>6, <1>7 DEF Next, LoopStep

(* The invariant that the theorems below are read from. *)
THEOREM Inductive == Spec => []IInv
  BY InitInvariant, StepInvariant, PTL DEF Spec

(* The types of the server's state, and that a connection has a descriptor exactly
   as long as its object lives. *)
THEOREM TypeCorrect == Spec => []TypeOK
<1>1. IInv => TypeOK
  BY DEF IInv, Typed
<1> QED
  BY <1>1, Inductive, PTL

(* No assertion of Channel, EPollPoller, TcpConnection and TcpServer on the life of
   a connection fails, whatever the loops do in whatever order. *)
THEOREM AssertionsHold == Spec => []NoAssertionFails
<1>1. IInv => NoAssertionFails
  BY DEF IInv
<1> QED
  BY <1>1, Inductive, PTL

(* The channels a poller knows and has reported are of connections that live, on its
   loop and with their descriptor. *)
THEOREM ChannelsLive == Spec => []NoDanglingChannel
<1>1. IInv => NoDanglingChannel
  BY DEF IInv, ActiveOK, PollerOK, NoDanglingChannel
<1> QED
  BY <1>1, Inductive, PTL
-----------------------------------------------------------------------------
(* The abstract life of the connections. *)

(* The mapping of Life: what the user of connection k has heard of it. *)
HeardLife(k) ==
  IF ~Alive(k) THEN conn[k].state
  ELSE CASE calls[k] = <<>> -> "accepted"
         [] calls[k] = <<"UP">> -> "up"
         [] calls[k] = <<"UP", "DOWN">> -> "down"
         [] OTHER -> "broken"

Stage ==
  [s \in {"none", "kConnecting", "kConnected", "kDisconnecting", "kDisconnected", "freed"} |->
     CASE s = "kConnecting" -> "accepted"
       [] s \in Up -> "up"
       [] s = "kDisconnected" -> "down"
       [] OTHER -> s]

(* The user hears of a connection what its state_ says. *)
HeardIsState == \A k \in Conns : HeardLife(k) = Stage[conn[k].state]

LEMMA StateIsHeard == IInv => HeardIsState
<1> SUFFICES ASSUME IInv, NEW k \in Conns PROVE HeardLife(k) = Stage[conn[k].state]
  BY DEF HeardIsState
<1>1. /\ conn[k].state \in {"none", "kConnecting", "kConnected", "kDisconnecting", "kDisconnected", "freed"}
      /\ ConnOK(k)
  BY DEF IInv, Typed, TypeOK, Connections
<1>2. <<>> # <<"UP">> /\ <<>> # <<"UP", "DOWN">> /\ <<"UP">> # <<"UP", "DOWN">>
  <2>1. Len(<<>>) = 0 /\ Len(<<"UP">>) = 1 /\ Len(<<"UP", "DOWN">>) = 2
    OBVIOUS
  <2> QED
    BY <2>1
<1> QED
  BY <1>1, <1>2 DEF ConnOK, HeardLife, Stage, Alive, Up

(* Every connection lives as ConnectionLife says: each step of the server is one step
   in the life of a connection, the end of the lives of some, or none at all. *)
THEOREM ImplementsConnectionLife == Spec => LifeSpec
<1> DEFINE mlife == [k \in Conns |-> HeardLife(k)]
           mfd == [k \in Conns |-> conn[k].fd]
<1>1. Init => Life!Init
  <2> SUFFICES ASSUME Init PROVE Life!Init
    OBVIOUS
  <2>1. \A k \in Conns : ~Alive(k) /\ conn[k].state = "none" /\ conn[k].fd = 0
    BY DEF Init, Alive, Unborn
  <2> QED
    BY <2>1 DEF Life!Init
<1>2. IInv => HeardIsState
  BY StateIsHeard
<1>3. IInv' => HeardIsState'
  BY <1>2, PTL
<1>4. IInv /\ IInv' /\ [Next]_vars => [Life!Next]_(Life!vars)
  <2> SUFFICES ASSUME IInv, IInv', [Next]_vars PROVE [Life!Next]_(Life!vars)
    OBVIOUS
  <2>1. /\ conn \in [Conns -> Connections] /\ conn' \in [Conns -> Connections]
        /\ failed = "none" /\ failed' = "none"
    BY DEF IInv, Typed, TypeOK, NoAssertionFails
  <2>2. /\ mlife = [k \in Conns |-> Stage[conn[k].state]]
        /\ mlife' = [k \in Conns |-> Stage[conn'[k].state]]
        /\ mfd = [k \in Conns |-> conn[k].fd]
        /\ mfd' = [k \in Conns |-> conn'[k].fd]
    BY <1>2, <1>3 DEF HeardIsState
  <2>3. ASSUME \A k \in Conns : Stage[conn'[k].state] = Stage[conn[k].state] /\ conn'[k].fd = conn[k].fd
        PROVE  UNCHANGED Life!vars
    <3>1. mlife' = mlife /\ mfd' = mfd
      BY <2>2, <2>3
    <3> QED
      BY <3>1 DEF Life!vars, HeardLife
  <2>4. ASSUME UNCHANGED conn PROVE UNCHANGED Life!vars
    BY <2>3, <2>4
  <2>13. /\ Stage["none"] = "none" /\ Stage["kConnecting"] = "accepted" /\ Stage["kConnected"] = "up"
         /\ Stage["kDisconnecting"] = "up" /\ Stage["kDisconnected"] = "down" /\ Stage["freed"] = "freed"
    BY DEF Stage, Up
  <2>14. /\ DOMAIN mlife = Conns /\ DOMAIN mfd = Conns
         /\ \A k \in Conns : mlife[k] = Stage[conn[k].state] /\ mfd[k] = conn[k].fd
    BY <2>2
  <2> HIDE DEF mlife, mfd
  <2>15. ASSUME NEW k \in Conns, NEW d, NEW a, conn'[k].fd = d, Stage[conn'[k].state] = a,
                \A j \in Conns \ {k} : conn'[j] = conn[j]
         PROVE  mlife' = [mlife EXCEPT ![k] = a] /\ mfd' = [mfd EXCEPT ![k] = d]
    <3>1. /\ mlife' = [j \in Conns |-> IF j = k THEN a ELSE mlife[j]]
          /\ mfd' = [j \in Conns |-> IF j = k THEN d ELSE mfd[j]]
      BY <2>2, <2>14, <2>15
    <3>2. /\ mlife = [j \in Conns |-> mlife[j]] /\ mfd = [j \in Conns |-> mfd[j]]
      BY <2>2
    <3> QED
      BY <3>1, <3>2
  <2>5. ASSUME NEW k \in Conns, HandleClose(k) PROVE Life!Next
    <3>1. conn[k].state \in Up
      BY <2>1, <2>5 DEF HandleClose, Up
    <3>2. /\ conn'[k].state = "kDisconnected" /\ conn'[k].fd = conn[k].fd
          /\ \A j \in Conns \ {k} : conn'[j] = conn[j]
      BY <2>1, <2>5 DEF HandleClose, DisabledAll, Connections
    <3>3. mlife[k] = "up" /\ mlife' = [mlife EXCEPT ![k] = "down"] /\ mfd' = mfd
      <4>1. mfd' = [mfd EXCEPT ![k] = mfd[k]] /\ mlife' = [mlife EXCEPT ![k] = "down"]
        BY <2>13, <2>14, <2>15, <3>2
      <4>2. [mfd EXCEPT ![k] = mfd[k]] = mfd
        BY <2>2
      <4> QED
        BY <2>13, <2>14, <3>1, <4>1, <4>2 DEF Up
    <3>4. Life!Down(k)
      BY <3>3 DEF Life!Down, HeardLife, mlife, mfd
    <3> QED
      BY <3>4 DEF Life!Next
  <2>6. ASSUME NEW l \in Loops, FunctorsDone(l) PROVE Life!Next
    <3>1. PICK S \in SUBSET Conns : Destruct(S)
      <4> DEFINE G == {k \in Conns : Occurs(k, functors[l]) /\ Alive(k) /\ ~HeldElsewhere(k, l)}
      <4>1. PICK S \in SUBSET Conns : S = G
        OBVIOUS
      <4>2. Destruct(G)
        BY <2>6 DEF FunctorsDone
      <4> QED
        BY <4>1, <4>2 DEF Destruct
    <3>2. S \subseteq Conns
      OBVIOUS
    <3>3. \A k \in S : conn[k].state = "kDisconnected"
      BY <2>1, <3>1 DEF Destruct
    <3>4. /\ \A k \in S : conn'[k].state = "freed" /\ conn'[k].fd = 0
          /\ \A k \in Conns \ S : conn'[k] = conn[k]
      <4>1. \A k \in Conns : conn'[k] = IF k \in S THEN [conn[k] EXCEPT !.state = "freed", !.fd = 0]
                                        ELSE conn[k]
        BY <3>1 DEF Destruct
      <4>2. \A k \in Conns : /\ [conn[k] EXCEPT !.state = "freed", !.fd = 0].state = "freed"
                             /\ [conn[k] EXCEPT !.state = "freed", !.fd = 0].fd = 0
        BY <2>1 DEF Connections
      <4> QED
        BY <3>2, <4>1, <4>2
    <3>5. /\ \A k \in S : mlife[k] = "down"
          /\ mlife' = [k \in Conns |-> IF k \in S THEN "freed" ELSE mlife[k]]
          /\ mfd' = [k \in Conns |-> IF k \in S THEN 0 ELSE mfd[k]]
      BY <2>2, <2>13, <2>14, <3>2, <3>3, <3>4
    <3>6. Life!Free(S)
      BY <3>5 DEF Life!Free, HeardLife, mlife, mfd
    <3> QED
      BY <3>2, <3>6 DEF Life!Next
  <2>7. ASSUME NEW k \in Conns, NewConnection(k) PROVE Life!Next
    <3>1. PICK d \in LowestFd :
            LET new == [Unborn EXCEPT !.state = "kConnecting", !.loop = NextLoop, !.fd = d]
            IN  Establish(k, new) \/ conn' = [conn EXCEPT ![k] = new]
      BY <2>7 DEF NewConnection
    <3>2. d \in Fds /\ \A j \in Conns : conn[j].fd # d
      <4>1. maxFd \in Fds /\ d \in 1 .. maxFd
        BY DEF IInv, Typed, TypeOK, LowestFd, FreeFds
      <4> QED
        BY <4>1, Server DEF LowestFd, FreeFds, Fds
    <3>3. conn[k].state = "none"
      BY <2>7 DEF NewConnection, Accepting, FirstWaiting, IInv, ConnOK
    <3>4. /\ conn'[k].state \in {"kConnecting", "kConnected"} /\ conn'[k].fd = d
          /\ \A j \in Conns \ {k} : conn'[j] = conn[j]
      <4> DEFINE new == [Unborn EXCEPT !.state = "kConnecting", !.loop = NextLoop, !.fd = d]
                 up == [new EXCEPT !.state = "kConnected", !.index = "kAdded", !.reading = TRUE]
      <4>1. conn' = [conn EXCEPT ![k] = new] \/ conn' = [conn EXCEPT ![k] = up]
        BY <3>1 DEF Establish
      <4>2. new.state = "kConnecting" /\ new.fd = d /\ up.state = "kConnected" /\ up.fd = d
        BY DEF Unborn
      <4> HIDE DEF new, up
      <4> QED
        BY <2>1, <4>1, <4>2
    <3>5. /\ mlife[k] = "none" /\ \A j \in Conns : mfd[j] # d
          /\ mfd' = [mfd EXCEPT ![k] = d]
          /\ \E a \in {"accepted", "up"} : mlife' = [mlife EXCEPT ![k] = a]
      BY <2>13, <2>14, <2>15, <3>2, <3>3, <3>4
    <3>6. Life!Accept(k, d)
      BY <3>5 DEF Life!Accept, HeardLife, mlife, mfd
    <3> QED
      BY <3>2, <3>6 DEF Life!Next
  <2>8. ASSUME NEW l \in Loops, NEW k \in Conns, ConnectEstablished(l, k) PROVE Life!Next
    <3>1. conn[k].state = "kConnecting"
      BY <2>1, <2>8 DEF ConnectEstablished, Establish
    <3>2. /\ conn'[k].state = "kConnected" /\ conn'[k].fd = conn[k].fd
          /\ \A j \in Conns \ {k} : conn'[j] = conn[j]
      BY <2>1, <2>8 DEF ConnectEstablished, Establish, Connections
    <3>3. mlife[k] = "accepted" /\ mlife' = [mlife EXCEPT ![k] = "up"] /\ mfd' = mfd
      <4>1. mfd' = [mfd EXCEPT ![k] = mfd[k]] /\ mlife' = [mlife EXCEPT ![k] = "up"]
        BY <2>13, <2>14, <2>15, <3>2
      <4>2. [mfd EXCEPT ![k] = mfd[k]] = mfd
        BY <2>2
      <4> QED
        BY <2>13, <2>14, <3>1, <4>1, <4>2
    <3>4. Life!Up(k)
      BY <3>3 DEF Life!Up, HeardLife, mlife, mfd
    <3> QED
      BY <3>4 DEF Life!Next
  <2>9. ASSUME NEW l \in Loops, NEW k \in Conns,
               HandleReadData(l, k) \/ HandleWrite(l, k) \/ ConnectDestroyed(l, k)
        PROVE  UNCHANGED Life!vars
    <3>1. ASSUME NEW c, conn' = [conn EXCEPT ![k] = c], c.fd = conn[k].fd,
                 Stage[c.state] = Stage[conn[k].state]
          PROVE  UNCHANGED Life!vars
      BY <2>1, <2>3, <3>1
    <3>2. CASE HandleReadData(l, k)
      <4>1. CASE conn' = conn
        BY <2>4, <4>1
      <4>2. CASE conn' = [conn EXCEPT ![k].writing = TRUE]
        <5> DEFINE c == [conn[k] EXCEPT !.writing = TRUE]
        <5>1. conn' = [conn EXCEPT ![k] = c] /\ c.fd = conn[k].fd /\ c.state = conn[k].state
          BY <2>1, <4>2 DEF Connections
        <5> HIDE DEF c
        <5> QED
          BY <3>1, <5>1
      <4>3. CASE /\ conn[k].state = "kConnected"
                 /\ conn' = [conn EXCEPT ![k] = ShutdownInLoop([@ EXCEPT !.state = "kDisconnecting"])]
        <5> DEFINE c == ShutdownInLoop([conn[k] EXCEPT !.state = "kDisconnecting"])
        <5>1. conn' = [conn EXCEPT ![k] = c] /\ c.fd = conn[k].fd /\ c.state = "kDisconnecting"
          BY <2>1, <4>3 DEF Connections, ShutdownInLoop
        <5> HIDE DEF c
        <5> QED
          <6>1. Stage[c.state] = Stage[conn[k].state]
            BY <2>13, <4>3, <5>1
          <6> QED
            BY <3>1, <5>1, <6>1
      <4>4. CASE /\ conn[k].state \in {"kConnected", "kDisconnecting"}
                 /\ conn' = [conn EXCEPT ![k].state = "kDisconnecting"]
        <5> DEFINE c == [conn[k] EXCEPT !.state = "kDisconnecting"]
        <5>1. conn' = [conn EXCEPT ![k] = c] /\ c.fd = conn[k].fd /\ c.state = "kDisconnecting"
          BY <2>1, <4>4 DEF Connections
        <5> HIDE DEF c
        <5> QED
          <6>1. Stage[c.state] = Stage[conn[k].state]
            BY <2>13, <4>4, <5>1
          <6> QED
            BY <3>1, <5>1, <6>1
      <4> QED
        BY <3>2, <4>1, <4>2, <4>3, <4>4 DEF HandleReadData, Callback
    <3>3. CASE HandleWrite(l, k)
      <4> DEFINE drained == [conn[k] EXCEPT !.writing = FALSE]
                 c == IF conn[k].state = "kDisconnecting" THEN ShutdownInLoop(drained) ELSE drained
      <4>1. conn' = conn \/ conn' = [conn EXCEPT ![k] = c]
        BY <3>3 DEF HandleWrite
      <4>2. c.fd = conn[k].fd /\ c.state = conn[k].state
        BY <2>1 DEF Connections, ShutdownInLoop
      <4> HIDE DEF c
      <4> QED
        BY <2>4, <3>1, <4>1, <4>2
    <3>4. CASE ConnectDestroyed(l, k)
      BY <2>1, <2>3, <3>4 DEF ConnectDestroyed, Connections
    <3> QED
      BY <2>9, <3>2, <3>3, <3>4
  <2>10. CASE UNCHANGED vars
    BY <2>4, <2>10 DEF vars
  <2>11. ASSUME NEW k \in Conns, Connect(k) \/ PeerCloses(k) \/ SessionOpens(k) \/ SessionCloses(k)
         PROVE  UNCHANGED Life!vars
    BY <2>4, <2>11 DEF Connect, PeerCloses, SessionOpens, SessionCloses, SessionRuns
  <2>12. ASSUME NEW l \in Loops, LoopStep(l) PROVE [Life!Next]_(Life!vars)
    <3>1. CASE \/ Poll(l) \/ SwapFunctors(l) \/ \E k \in Conns : RemoveConnection(l, k)
               \/ CloseIdle \/ IdleAccept \/ IdleClose \/ IdleOpen
      BY <2>4, <3>1 DEF Poll, SwapFunctors, RemoveConnection, CloseIdle, IdleAccept, IdleClose,
                        IdleOpen, Refusing
    <3>2. ASSUME NEW k \in Conns, HandleReadEnd(l, k) \/ ForceCloseInLoop(l, k)
          PROVE  [Life!Next]_(Life!vars)
      BY <2>4, <2>5, <3>2 DEF HandleReadEnd, ForceCloseInLoop
    <3> QED
      BY <2>6, <2>7, <2>8, <2>9, <2>12, <3>1, <3>2 DEF LoopStep
  <2> QED
    BY <2>10, <2>11, <2>12 DEF Next
<1> QED
  BY <1>1, <1>4, Inductive, PTL DEF Spec, LifeSpec, Life!Spec
=============================================================================
