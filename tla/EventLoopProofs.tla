-------------------------- MODULE EventLoopProofs --------------------------
(***************************************************************************)
(* Proofs about EventLoop, for any set of threads and of tasks: the type   *)
(* invariant, the order of the queue, the absence of lost wakeups, and     *)
(* that the loop implements the queue of TaskQueue.                        *)
(***************************************************************************)
EXTENDS EventLoop, SequenceTheorems, TLAPS

(***************************************************************************)
(* Lemmas about sequences.                                                 *)
(***************************************************************************)

(* Appending behind a concatenation is appending to its last part. *)
LEMMA AppendBehind ==
  ASSUME NEW S, NEW s \in Seq(S), NEW t \in Seq(S), NEW k \in S
  PROVE  s \o Append(t, k) = Append(s \o t, k)
<1>1. <<k>> \in Seq(S)
  OBVIOUS
<1>2. Append(t, k) = t \o <<k>>
  BY AppendIsConcat
<1>3. s \o t \in Seq(S)
  BY ConcatProperties
<1>4. Append(s \o t, k) = (s \o t) \o <<k>>
  BY <1>3, AppendIsConcat
<1> QED
  BY <1>1, <1>2, <1>4, ConcatAssociative

(* Moving the head of one sequence to the end of the one before it leaves the
   concatenation as it was. *)
LEMMA MoveHead ==
  ASSUME NEW S, NEW e \in Seq(S), NEW f \in Seq(S), f # <<>>
  PROVE  Append(e, Head(f)) \o Tail(f) = e \o f
<1>1. /\ Head(f) \in S
      /\ Tail(f) \in Seq(S)
      /\ Len(f) \in Nat \ {0}
      /\ Len(Tail(f)) = Len(f) - 1
      /\ \A i \in 1 .. Len(Tail(f)) : Tail(f)[i] = f[i+1]
      /\ Head(f) = f[1]
  BY HeadTailProperties, EmptySeq
<1>2. /\ Append(e, Head(f)) \in Seq(S)
      /\ Len(Append(e, Head(f))) = Len(e) + 1
      /\ \A i \in 1 .. Len(e) : Append(e, Head(f))[i] = e[i]
      /\ Append(e, Head(f))[Len(e)+1] = Head(f)
  BY <1>1, AppendProperties
<1> DEFINE l == Append(e, Head(f)) \o Tail(f)
           r == e \o f
<1>3. /\ l \in Seq(S)
      /\ Len(l) = Len(e) + 1 + Len(Tail(f))
      /\ \A i \in 1 .. (Len(e) + 1 + Len(Tail(f))) :
           l[i] = IF i <= Len(e) + 1 THEN Append(e, Head(f))[i]
                                     ELSE Tail(f)[i - (Len(e) + 1)]
  BY <1>1, <1>2, ConcatProperties
<1>4. /\ r \in Seq(S)
      /\ Len(r) = Len(e) + Len(f)
      /\ \A i \in 1 .. (Len(e) + Len(f)) :
           r[i] = IF i <= Len(e) THEN e[i] ELSE f[i - Len(e)]
  BY ConcatProperties
<1>5. Len(e) \in Nat
  BY LenProperties
<1>6. Len(l) = Len(r)
  BY <1>1, <1>3, <1>4, <1>5
<1>7. ASSUME NEW i \in 1 .. Len(l)
      PROVE  l[i] = r[i]
  <2> i \in 1 .. (Len(e) + Len(f))
    BY <1>4, <1>6
  <2>1. CASE i <= Len(e)
    BY <2>1, <1>1, <1>2, <1>3, <1>4, <1>5
  <2>2. CASE i = Len(e) + 1
    BY <2>2, <1>1, <1>2, <1>3, <1>4, <1>5
  <2>3. CASE i > Len(e) + 1
    <3>1. i - (Len(e) + 1) \in 1 .. Len(Tail(f))
      BY <2>3, <1>1, <1>5
    <3>2. Tail(f)[i - (Len(e) + 1)] = f[(i - (Len(e) + 1)) + 1]
      BY <3>1, <1>1
    <3>3. (i - (Len(e) + 1)) + 1 = i - Len(e)
      BY <1>5
    <3>4. l[i] = f[i - Len(e)]
      BY <2>3, <3>2, <3>3, <1>1, <1>3, <1>5
    <3> QED
      BY <2>3, <3>4, <1>4, <1>5
  <2> QED
    BY <2>1, <2>2, <2>3, <1>5
<1> HIDE DEF l, r
<1>8. l = r
  BY <1>3, <1>4, <1>6, <1>7, SeqEqual
<1> QED
  BY <1>8 DEF l, r

(* A non-empty sequence in front of another one gives the head and the tail
   of their concatenation. *)
LEMMA HeadTailInFront ==
  ASSUME NEW S, NEW f \in Seq(S), NEW p \in Seq(S), f # <<>>
  PROVE  /\ f \o p # <<>>
         /\ Head(f \o p) = Head(f)
         /\ Tail(f \o p) = Tail(f) \o p
<1>1. /\ Head(f) \in S
      /\ Tail(f) \in Seq(S)
      /\ Len(f) \in Nat \ {0}
      /\ Len(Tail(f)) = Len(f) - 1
      /\ \A i \in 1 .. Len(Tail(f)) : Tail(f)[i] = f[i+1]
      /\ Head(f) = f[1]
  BY HeadTailProperties, EmptySeq
<1>2. Len(p) \in Nat
  BY LenProperties
<1> DEFINE c == f \o p
<1>3. /\ c \in Seq(S)
      /\ Len(c) = Len(f) + Len(p)
      /\ \A i \in 1 .. (Len(f) + Len(p)) :
           c[i] = IF i <= Len(f) THEN f[i] ELSE p[i - Len(f)]
  BY ConcatProperties
<1> HIDE DEF c
<1>4. c # <<>>
  BY <1>1, <1>2, <1>3, EmptySeq
<1>5. /\ Head(c) = c[1]
      /\ Tail(c) \in Seq(S)
      /\ Len(Tail(c)) = Len(c) - 1
      /\ \A i \in 1 .. Len(Tail(c)) : Tail(c)[i] = c[i+1]
  BY <1>3, <1>4, HeadTailProperties
<1>6. Head(c) = Head(f)
  BY <1>1, <1>2, <1>3, <1>5
<1> DEFINE d == Tail(f) \o p
<1>7. /\ d \in Seq(S)
      /\ Len(d) = Len(Tail(f)) + Len(p)
      /\ \A i \in 1 .. (Len(Tail(f)) + Len(p)) :
           d[i] = IF i <= Len(Tail(f)) THEN Tail(f)[i] ELSE p[i - Len(Tail(f))]
  BY <1>1, ConcatProperties
<1> HIDE DEF d
<1>8. Len(Tail(c)) = Len(d)
  BY <1>1, <1>2, <1>3, <1>5, <1>7
<1>9. ASSUME NEW i \in 1 .. Len(Tail(c))
      PROVE  Tail(c)[i] = d[i]
  <2>1. /\ Tail(c)[i] = c[i+1]
        /\ i + 1 \in 1 .. (Len(f) + Len(p))
        /\ i \in 1 .. (Len(Tail(f)) + Len(p))
    BY <1>1, <1>2, <1>3, <1>5
  <2>2. CASE i + 1 <= Len(f)
    BY <2>1, <2>2, <1>1, <1>2, <1>3, <1>7
  <2>3. CASE i + 1 > Len(f)
    <3>1. (i + 1) - Len(f) = i - Len(Tail(f))
      BY <1>1
    <3>2. c[i+1] = p[(i + 1) - Len(f)]
      BY <2>1, <2>3, <1>1, <1>3
    <3>3. d[i] = p[i - Len(Tail(f))]
      BY <2>1, <2>3, <1>1, <1>7
    <3> QED
      BY <2>1, <3>1, <3>2, <3>3
  <2> QED
    BY <2>1, <2>2, <2>3, <1>1
<1>10. Tail(c) = d
  BY <1>5, <1>7, <1>8, <1>9, SeqEqual
<1> QED
  BY <1>4, <1>6, <1>10 DEF c, d
-----------------------------------------------------------------------------
(***************************************************************************)
(* The invariants.                                                         *)
(***************************************************************************)

(* What each step does to the variables of TypeOK. *)
THEOREM TypeCorrect == Spec => []TypeOK
<1>1. Init => TypeOK
  BY EmptySeq DEF Init, TypeOK, Phases
<1>2. TypeOK /\ [Next]_vars => TypeOK'
  <2> SUFFICES ASSUME TypeOK, [Next]_vars
               PROVE  TypeOK'
    OBVIOUS
  <2> USE DEF TypeOK, Phases, history
  <2>1. CASE LoopStep
    <3>1. CASE StartLoop
      BY <3>1 DEF StartLoop
    <3>2. CASE CheckQuit
      BY <3>2 DEF CheckQuit
    <3>3. CASE PollWakeup
      BY <3>3 DEF PollWakeup, PollReturns
    <3>4. CASE HandleRead
      BY <3>4 DEF HandleRead
    <3>5. CASE HandleIo
      BY <3>5 DEF HandleIo
    <3>6. CASE SwapFunctors
      BY <3>6, EmptySeq DEF SwapFunctors
    <3>7. CASE RunFunctor
      <4>1. /\ Head(functors) \in Tasks
            /\ Tail(functors) \in Seq(Tasks)
        BY <3>7, HeadTailProperties DEF RunFunctor
      <4>2. Append(executed, Head(functors)) \in Seq(Tasks)
        BY <4>1, AppendProperties
      <4> QED
        BY <3>7, <4>1, <4>2 DEF RunFunctor
    <3>8. CASE FunctorsDone
      BY <3>8 DEF FunctorsDone
    <3> QED
      BY <2>1, <3>1, <3>2, <3>3, <3>4, <3>5, <3>6, <3>7, <3>8 DEF LoopStep
  <2>2. CASE PollIo
    BY <2>2 DEF PollIo, PollReturns
  <2>3. CASE PollTimeout
    BY <2>3 DEF PollTimeout, PollReturns
  <2>4. CASE OwnQuit
    BY <2>4 DEF OwnQuit
  <2>5. ASSUME NEW k \in Tasks, OwnQueueInLoop(k)
        PROVE  TypeOK'
    <3>1. Append(pending, k) \in Seq(Tasks) /\ Append(submitted, k) \in Seq(Tasks)
      BY AppendProperties
    <3> QED
      BY <2>5, <3>1 DEF OwnQueueInLoop, Push, OwnPostWakes, callingPendingFunctors
  <2>6. ASSUME NEW k \in Tasks, OwnRunInLoop(k)
        PROVE  TypeOK'
    BY <2>6 DEF OwnRunInLoop
  <2>7. ASSUME NEW t \in Threads, Quit(t)
        PROVE  TypeOK'
    BY <2>7 DEF Quit
  <2>8. ASSUME NEW t \in Threads, Wakeup(t)
        PROVE  TypeOK'
    BY <2>8 DEF Wakeup
  <2>9. ASSUME NEW t \in Threads, NEW k \in Tasks, QueueInLoop(t, k)
        PROVE  TypeOK'
    <3>1. Append(pending, k) \in Seq(Tasks) /\ Append(submitted, k) \in Seq(Tasks)
      BY AppendProperties
    <3> QED
      BY <2>9, <3>1 DEF QueueInLoop, Push
  <2>10. CASE UNCHANGED vars
    BY <2>10 DEF vars
  <2> QED
    BY <2>1, <2>2, <2>3, <2>4, <2>5, <2>6, <2>7, <2>8, <2>9, <2>10 DEF Next
<1> QED
  BY <1>1, <1>2, PTL DEF Spec

(* How a step touches the three parts of the queue: not at all, at the end by
   a push, by the swap, or at the front by running a functor. *)
LEMMA QueueSteps ==
  ASSUME TypeOK, [Next]_vars
  PROVE  \/ UNCHANGED <<submitted, executed, functors, pending>>
         \/ /\ UNCHANGED <<executed, functors>>
            /\ \E k \in Tasks : Push(k)
         \/ SwapFunctors /\ functors = <<>>
         \/ RunFunctor
<1> USE DEF history
<1>1. CASE LoopStep
  BY <1>1 DEF LoopStep, StartLoop, CheckQuit, PollWakeup, PollReturns, HandleRead,
              HandleIo, SwapFunctors, FunctorsDone, TypeOK
<1>2. CASE \E k \in Tasks : OwnQueueInLoop(k) \/ OwnRunInLoop(k)
  BY <1>2 DEF OwnQueueInLoop, OwnRunInLoop
<1>3. CASE \E t \in Threads, k \in Tasks : QueueInLoop(t, k)
  BY <1>3 DEF QueueInLoop
<1>4. CASE PollIo \/ PollTimeout \/ OwnQuit
  BY <1>4 DEF PollIo, PollTimeout, PollReturns, OwnQuit
<1>5. CASE \E t \in Threads : Quit(t) \/ Wakeup(t)
  BY <1>5 DEF Quit, Wakeup
<1>6. CASE UNCHANGED vars
  BY <1>6 DEF vars
<1> QED
  BY <1>1, <1>2, <1>3, <1>4, <1>5, <1>6 DEF Next

(* No functor is lost, doubled or overtaken on its way through the swap. *)
THEOREM Fifo == Spec => []FifoOrder
<1>1. Init => FifoOrder
  <2> SUFFICES ASSUME Init PROVE FifoOrder
    OBVIOUS
  <2>1. <<>> \o <<>> = <<>>
    BY ConcatEmptySeq, EmptySeq
  <2> QED
    BY <2>1 DEF Init, FifoOrder
<1>2. TypeOK /\ FifoOrder /\ [Next]_vars => FifoOrder'
  <2> SUFFICES ASSUME TypeOK, FifoOrder, [Next]_vars
               PROVE  FifoOrder'
    OBVIOUS
  <2>0. /\ pending \in Seq(Tasks)
        /\ functors \in Seq(Tasks)
        /\ executed \in Seq(Tasks)
        /\ executed \o functors \in Seq(Tasks)
    BY ConcatProperties DEF TypeOK
  <2>1. CASE UNCHANGED <<submitted, executed, functors, pending>>
    BY <2>1 DEF FifoOrder
  <2>2. ASSUME NEW k \in Tasks, Push(k), UNCHANGED <<executed, functors>>
        PROVE  FifoOrder'
    <3>1. (executed \o functors) \o Append(pending, k)
            = Append((executed \o functors) \o pending, k)
      BY <2>0, AppendBehind
    <3> QED
      BY <2>2, <3>1 DEF Push, FifoOrder
  <2>3. CASE SwapFunctors /\ functors = <<>>
    <3>1. executed \o <<>> = executed
      BY <2>0, ConcatEmptySeq
    <3>2. executed \o pending \in Seq(Tasks)
      BY <2>0, ConcatProperties
    <3>3. (executed \o pending) \o <<>> = executed \o pending
      BY <3>2, ConcatEmptySeq
    <3> QED
      BY <2>3, <3>1, <3>3 DEF SwapFunctors, FifoOrder, history
  <2>4. CASE RunFunctor
    <3>1. Append(executed, Head(functors)) \o Tail(functors) = executed \o functors
      BY <2>0, <2>4, MoveHead DEF RunFunctor
    <3> QED
      BY <2>4, <3>1 DEF RunFunctor, FifoOrder
  <2> QED
    BY <2>1, <2>2, <2>3, <2>4, QueueSteps
<1> QED
  BY <1>1, <1>2, TypeCorrect, PTL DEF Spec

(* The eventfd write that stands behind every waiting functor. *)
LEMMA WakeInvariant == Spec => []WakeInv
<1> USE DEF WakeInv, WakeupDueForFunctors, WakeupDueForQuit, WakeupDue
<1>1. Init => WakeInv
  BY EmptySeq DEF Init
<1>2. TypeOK /\ WakeInv /\ [Next]_vars => WakeInv'
  <2> SUFFICES ASSUME TypeOK, WakeInv, [Next]_vars
               PROVE  WakeInv'
    OBVIOUS
  <2> USE DEF TypeOK, history
  <2>1. CASE LoopStep
    <3>1. CASE StartLoop
      BY <3>1 DEF StartLoop
    <3>2. CASE CheckQuit
      BY <3>2 DEF CheckQuit
    <3>3. CASE PollWakeup
      BY <3>3 DEF PollWakeup, PollReturns
    <3>4. CASE HandleRead
      BY <3>4 DEF HandleRead
    <3>5. CASE HandleIo
      BY <3>5 DEF HandleIo
    <3>6. CASE SwapFunctors
      BY <3>6, EmptySeq DEF SwapFunctors
    <3>7. CASE RunFunctor
      BY <3>7 DEF RunFunctor
    <3>8. CASE FunctorsDone
      BY <3>8 DEF FunctorsDone
    <3> QED
      BY <2>1, <3>1, <3>2, <3>3, <3>4, <3>5, <3>6, <3>7, <3>8 DEF LoopStep
  <2>2. CASE PollIo \/ PollTimeout
    BY <2>2 DEF PollIo, PollTimeout, PollReturns
  <2>3. CASE OwnQuit
    BY <2>3 DEF OwnQuit, InCallback
  <2>4. ASSUME NEW k \in Tasks, OwnQueueInLoop(k)
        PROVE  WakeInv'
    <3>1. phase \in {"created", "dispatch", "functors"} /\ phase' = phase
      BY <2>4 DEF OwnQueueInLoop, InCallback
    <3>2. CASE phase = "created"
      <4>1. /\ pending' = Append(pending, k)
            /\ early' = early \cup {k}
            /\ UNCHANGED caller
            /\ wakeupFd => wakeupFd'
        BY <2>4, <3>2 DEF OwnQueueInLoop, Push
      <4>2. ASSUME NEW i \in DOMAIN pending', pending'[i] \notin early'
            PROVE  i \in DOMAIN pending /\ pending[i] \notin early
        BY <4>1, <4>2, AppendProperties, LenProperties
      <4>3. WakeupDueForFunctors'
        BY <3>1, <3>2, <4>1, <4>2
      <4> QED
        BY <3>1, <3>2, <4>3
    <3>3. CASE phase = "dispatch"
      BY <3>1, <3>3
    <3>4. CASE phase = "functors"
      BY <2>4, <3>1, <3>4 DEF OwnQueueInLoop, OwnPostWakes, callingPendingFunctors
    <3> QED
      BY <3>1, <3>2, <3>3, <3>4
  <2>5. ASSUME NEW k \in Tasks, OwnRunInLoop(k)
        PROVE  WakeInv'
    BY <2>5 DEF OwnRunInLoop
  <2>6. ASSUME NEW t \in Threads, Quit(t)
        PROVE  WakeInv'
    <3>1. caller'[t] = "wakeup"
      BY <2>6 DEF Quit
    <3> QED
      BY <3>1
  <2>7. ASSUME NEW t \in Threads, Wakeup(t)
        PROVE  WakeInv'
    BY <2>7 DEF Wakeup
  <2>8. ASSUME NEW t \in Threads, NEW k \in Tasks, QueueInLoop(t, k)
        PROVE  WakeInv'
    <3>1. caller'[t] = "wakeup"
      BY <2>8 DEF QueueInLoop
    <3> QED
      BY <3>1
  <2>9. CASE UNCHANGED vars
    BY <2>9 DEF vars
  <2> QED
    BY <2>1, <2>2, <2>3, <2>4, <2>5, <2>6, <2>7, <2>8, <2>9 DEF Next
<1> QED
  BY <1>1, <1>2, TypeCorrect, PTL DEF Spec

(* The loop never sleeps in epoll_wait on a functor or a quit() it was given,
   whatever the moment at which another thread calls queueInLoop. *)
THEOREM NeverSleepsOnWork == Spec => []NoLostWakeup
<1>1. WakeInv => NoLostWakeup
  BY DEF WakeInv, WakeupDueForFunctors, WakeupDueForQuit, NoLostWakeup, WorkWaiting
<1> QED
  BY <1>1, WakeInvariant, PTL
-----------------------------------------------------------------------------
(***************************************************************************)
(* The loop implements the queue of TaskQueue.                             *)
(***************************************************************************)

(* What is in a part of a concatenation is in the concatenation. *)
LEMMA ElementsInFront ==
  ASSUME NEW S, NEW s \in Seq(S), NEW t \in Seq(S), NEW i \in DOMAIN s
  PROVE  \E j \in DOMAIN (s \o t) : (s \o t)[j] = s[i]
<1>1. i \in 1 .. Len(s) /\ Len(s) \in Nat /\ Len(t) \in Nat
  BY LenProperties
<1>2. /\ DOMAIN (s \o t) = 1 .. (Len(s) + Len(t))
      /\ \A j \in 1 .. Len(s) + Len(t) :
           (s \o t)[j] = IF j <= Len(s) THEN s[j] ELSE t[j - Len(s)]
  BY ConcatProperties, LenProperties
<1> QED
  BY <1>1, <1>2

LEMMA ElementsBehind ==
  ASSUME NEW S, NEW s \in Seq(S), NEW t \in Seq(S), NEW i \in DOMAIN t
  PROVE  \E j \in DOMAIN (s \o t) : (s \o t)[j] = t[i]
<1>1. i \in 1 .. Len(t) /\ Len(s) \in Nat /\ Len(t) \in Nat
  BY LenProperties
<1>2. /\ DOMAIN (s \o t) = 1 .. (Len(s) + Len(t))
      /\ \A j \in 1 .. Len(s) + Len(t) :
           (s \o t)[j] = IF j <= Len(s) THEN s[j] ELSE t[j - Len(s)]
  BY ConcatProperties, LenProperties
<1>3. /\ i + Len(s) \in 1 .. (Len(s) + Len(t))
      /\ ~(i + Len(s) <= Len(s))
      /\ (i + Len(s)) - Len(s) = i
  BY <1>1
<1> QED
  BY <1>2, <1>3

(* A task not pushed before is not known to the abstract queue. *)
LEMMA FreshIsUnknown ==
  ASSUME TypeOK, FifoOrder, NEW k \in Tasks, Fresh(k)
  PROVE  ~TQ!Known(k)
<1> DEFINE q == functors \o pending
<1>1. /\ pending \in Seq(Tasks)
      /\ functors \in Seq(Tasks)
      /\ executed \in Seq(Tasks)
      /\ q \in Seq(Tasks)
  BY ConcatProperties DEF TypeOK
<1>2. submitted = executed \o q
  BY <1>1, ConcatAssociative DEF FifoOrder
<1> HIDE DEF q
<1>3. /\ \A i \in DOMAIN executed : \E j \in DOMAIN submitted : submitted[j] = executed[i]
      /\ \A i \in DOMAIN q : \E j \in DOMAIN submitted : submitted[j] = q[i]
  <2> DEFINE w == executed \o q
  <2>1. \A i \in DOMAIN executed : \E j \in DOMAIN w : w[j] = executed[i]
    BY <1>1, ElementsInFront
  <2>2. \A i \in DOMAIN q : \E j \in DOMAIN w : w[j] = q[i]
    BY <1>1, ElementsBehind
  <2>3. submitted = w
    BY <1>2
  <2> HIDE DEF w
  <2> QED
    BY <2>1, <2>2, <2>3
<1>4. /\ \A i \in DOMAIN executed : executed[i] # k
      /\ \A i \in DOMAIN q : q[i] # k
  BY <1>3 DEF Fresh
<1> QED
  BY <1>4 DEF TQ!Known, q

(* Every step of the loop is a step of the FIFO queue or leaves it alone: the
   batches of doPendingFunctors cannot be seen from outside. *)
THEOREM ImplementsTaskQueue == Spec => QueueSpec
<1>1. Init => TQ!Init
  <2>1. <<>> \o <<>> = <<>>
    BY ConcatEmptySeq, EmptySeq
  <2> QED
    BY <2>1 DEF Init, TQ!Init
<1>2. TypeOK /\ FifoOrder /\ [Next]_vars => [TQ!Next]_(TQ!vars)
  <2> SUFFICES ASSUME TypeOK, FifoOrder, [Next]_vars
               PROVE  [TQ!Next]_(TQ!vars)
    OBVIOUS
  <2>0. pending \in Seq(Tasks) /\ functors \in Seq(Tasks) /\ executed \in Seq(Tasks)
    BY DEF TypeOK
  <2>1. CASE UNCHANGED <<submitted, executed, functors, pending>>
    BY <2>1 DEF TQ!vars
  <2>2. ASSUME NEW k \in Tasks, Push(k), UNCHANGED <<executed, functors>>
        PROVE  TQ!Next
    <3>1. ~TQ!Known(k)
      BY <2>2, FreshIsUnknown DEF Push
    <3>2. functors \o Append(pending, k) = Append(functors \o pending, k)
      BY <2>0, AppendBehind
    <3>3. (functors \o pending)' = Append(functors \o pending, k)
      BY <2>2, <3>2 DEF Push
    <3> QED
      BY <2>2, <3>1, <3>3 DEF TQ!Next, TQ!Submit
  <2>3. CASE SwapFunctors /\ functors = <<>>
    <3>1. functors \o pending = pending /\ pending \o <<>> = pending
      BY <2>0, <2>3, ConcatEmptySeq
    <3> QED
      BY <2>3, <3>1 DEF SwapFunctors, history, TQ!vars
  <2>4. CASE RunFunctor
    <3>1. /\ functors # <<>>
          /\ executed' = Append(executed, Head(functors))
          /\ functors' = Tail(functors)
          /\ pending' = pending
      BY <2>4 DEF RunFunctor
    <3>2. /\ functors \o pending # <<>>
          /\ Head(functors \o pending) = Head(functors)
          /\ Tail(functors \o pending) = (functors \o pending)'
      BY <2>0, <3>1, HeadTailInFront
    <3> QED
      BY <3>1, <3>2 DEF TQ!Next, TQ!Run
  <2> QED
    BY <2>1, <2>2, <2>3, <2>4, QueueSteps
<1> QED
  BY <1>1, <1>2, TypeCorrect, Fifo, PTL DEF Spec, QueueSpec, TQ!Spec
=============================================================================
