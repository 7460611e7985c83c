---------------------------- MODULE StartupProofs ----------------------------
(***************************************************************************)
(* Proofs about Startup, for any number of threads: the types, that        *)
(* Thread::start finds tid_ set, and that the pool keeps the loops of      *)
(* threads that run.                                                       *)
(***************************************************************************)
EXTENDS Startup, SequenceTheorems, TLAPS

(* How far thread t of the pool is decides what it has set. *)
ThreadOK(t) ==
  /\ count[t] = IF pc[t] \in {"unborn", "failed", "born", "lockLatch", "inLatch"} THEN 1 ELSE 0
  /\ pc[t] \notin {"unborn", "failed", "born"} => tid[t]
  /\ published[t] = IF pc[t] \in {"published", "looping"} THEN t ELSE 0

(* The base thread starts one after the other: those behind the current one have
   not been created, nor has that one before CreateThread. *)
BaseOK ==
  /\ Current \in 1 .. NumThreads + 1
  /\ pc[Base] \notin {"next", "looping"} => Current \in Pool
  /\ \A t \in Pool : t > Current \/ (t = Current /\ pc[Base] = "next") => pc[t] = "unborn"

Threads == {Base} \cup Pool

IInv ==
  /\ TypeOK
  /\ pc \in [Threads -> BasePlaces \cup PoolPlaces]
  /\ \A t \in Pool : ThreadOK(t)
  /\ BaseOK
  /\ TidKnown
  /\ LoopsExist

USE DEF Base

(* The threads of the pool, and the locks they come with. *)
LEMMA Numbers ==
  /\ NumThreads \in Nat /\ MaxSpurious \in Nat
  /\ Pool \subseteq Nat \ {0}
  /\ \A t \in Pool : <<"latch", t>> \in Locks /\ <<"loop", t>> \in Locks
  BY StartupAssumption DEF Pool, Locks

(* Locking and unlocking leave the mutexes and their holders in agreement. *)
LEMMA UnlockTypes ==
  ASSUME TypeOK, NEW m, Unlock(m)
  PROVE  /\ owner' \in [Locks -> {Base, NoOne} \cup Pool]
         /\ holder' \in [Locks -> {Base, NoOne} \cup Pool]
         /\ \A k \in Locks : holder'[k] # NoOne => owner'[k] = holder'[k]
  BY DEF TypeOK, Unlock

LEMMA LockTypes ==
  ASSUME TypeOK, NEW m, NEW t \in Threads,
         owner' = [owner EXCEPT ![m] = t], holder' = [holder EXCEPT ![m] = t]
  PROVE  /\ owner' \in [Locks -> {Base, NoOne} \cup Pool]
         /\ holder' \in [Locks -> {Base, NoOne} \cup Pool]
         /\ \A k \in Locks : holder'[k] # NoOne => owner'[k] = holder'[k]
  BY DEF TypeOK, Threads
-----------------------------------------------------------------------------
(* One lemma per action. *)

LEMMA InitInvariant == Init => IInv
<1> SUFFICES ASSUME Init PROVE IInv
  OBVIOUS
<1>1. /\ loops \in Seq(0 .. NumThreads) /\ Len(loops) = 0 /\ DOMAIN loops = {}
  BY EmptySeq DEF Init
<1>2. pc \in [Threads -> BasePlaces \cup PoolPlaces]
  BY DEF Init, Threads, BasePlaces, PoolPlaces
<1>3. pc[Base] = "next" /\ \A t \in Pool : pc[t] = "unborn"
  BY Numbers DEF Init
<1>4. TypeOK
  BY <1>1, <1>3, Numbers DEF Init, TypeOK, BasePlaces, PoolPlaces
<1>5. \A t \in Pool : ThreadOK(t)
  BY <1>3 DEF Init, ThreadOK
<1>6. BaseOK
  BY <1>1, <1>3, Numbers DEF BaseOK, Current, Pool
<1>7. TidKnown /\ LoopsExist
  BY <1>1, <1>3 DEF TidKnown, LoopsExist
<1> QED
  BY <1>2, <1>4, <1>5, <1>6, <1>7 DEF IInv

(* A thread that locks a mutex goes on to where it holds it. *)
LEMMA LockInvariant == ASSUME IInv, NEW t \in Threads, Lock(t) PROVE IInv'
<1> USE DEF IInv
<1>1. PICK kind \in {"latch", "loop"} :
        LET m == <<kind, IF t = Base THEN Current ELSE t>> IN
        /\ IF kind = "latch" THEN Goto(t, "lockLatch", "inLatch") ELSE Goto(t, "lockLoop", "inLoop")
        /\ owner' = [owner EXCEPT ![m] = t]
        /\ holder' = [holder EXCEPT ![m] = t]
        /\ UNCHANGED data
  BY DEF Lock
<1>2. \/ pc[t] = "lockLatch" /\ pc' = [pc EXCEPT ![t] = "inLatch"]
      \/ pc[t] = "lockLoop" /\ pc' = [pc EXCEPT ![t] = "inLoop"]
  BY <1>1 DEF Goto
<1>3. pc' \in [Threads -> BasePlaces \cup PoolPlaces]
  BY <1>2 DEF BasePlaces, PoolPlaces, Places
<1>4. TypeOK'
  <2>1. /\ owner' \in [Locks -> {Base, NoOne} \cup Pool]
        /\ holder' \in [Locks -> {Base, NoOne} \cup Pool]
        /\ \A k \in Locks : holder'[k] # NoOne => owner'[k] = holder'[k]
    BY <1>1, LockTypes
  <2>2. pc'[Base] \in BasePlaces /\ \A s \in Pool : pc'[s] \in PoolPlaces
    BY <1>2, Numbers DEF TypeOK, Threads, BasePlaces, PoolPlaces, Places
  <2> QED
    BY <1>1, <2>1, <2>2 DEF TypeOK, data
<1>5. ASSUME NEW s \in Pool PROVE ThreadOK(s)'
  BY <1>1, <1>2, Numbers DEF ThreadOK, data, Threads
<1>6. /\ loops' = loops /\ tid' = tid
      /\ \A s \in Threads : s # t => pc'[s] = pc[s]
      /\ pc[t] \notin {"unborn", "next", "looping", "published", "assertTid"}
      /\ pc'[t] \notin {"unborn", "next", "looping", "published", "assertTid"}
  BY <1>1, <1>2 DEF data
<1>7. BaseOK'
  BY <1>6, Numbers DEF BaseOK, Current, Threads
<1>8. TidKnown'
  BY <1>6 DEF TidKnown, Current, Threads
<1>9. LoopsExist'
  <2>1. \A n \in DOMAIN loops : n \in Threads
    BY Numbers DEF BaseOK, TypeOK, Current, Pool, Threads
  <2> QED
    BY <1>6, <2>1 DEF LoopsExist
<1> QED
  BY <1>3, <1>4, <1>5, <1>7, <1>8, <1>9

(* The base thread goes on, and the threads of the pool keep what they have. *)
LEMMA BaseMoves ==
  ASSUME IInv, NEW to \in BasePlaces, pc' = [pc EXCEPT ![Base] = to],
         UNCHANGED <<tid, count, published>>
  PROVE  /\ pc' \in [Threads -> BasePlaces \cup PoolPlaces]
         /\ pc'[Base] = to
         /\ \A t \in Pool : pc'[t] = pc[t] /\ pc'[t] \in PoolPlaces /\ ThreadOK(t)'
  BY Numbers DEF IInv, TypeOK, Threads, ThreadOK

LEMMA CreateThreadInvariant == ASSUME IInv, CreateThread PROVE IInv'
<1> USE DEF IInv
<1>1. /\ pc[Base] = "next" /\ Current \in Pool /\ pc[Current] = "unborn"
      /\ UNCHANGED <<owner, holder, tid, count, published, loops, spurious>>
  BY Numbers DEF CreateThread, BaseOK, locks, data
<1>2. PICK to \in {"lockLatch", "lockLoop"}, born \in {"born", "failed"} :
        pc' = [pc EXCEPT ![Base] = to, ![Current] = born]
  BY DEF CreateThread
<1>3. /\ pc' \in [Threads -> BasePlaces \cup PoolPlaces]
      /\ pc'[Base] = to /\ pc'[Current] = born
      /\ \A t \in Pool : t # Current => pc'[t] = pc[t]
  BY <1>1, <1>2, Numbers DEF Threads, BasePlaces, PoolPlaces, Places
<1>4. TypeOK'
  BY <1>1, <1>3 DEF TypeOK, BasePlaces, PoolPlaces, Places
<1>5. ASSUME NEW t \in Pool PROVE ThreadOK(t)'
  BY <1>1, <1>3 DEF ThreadOK
<1>6. BaseOK'
  BY <1>1, <1>3, Numbers DEF BaseOK, Current, Pool, TypeOK
<1>7. TidKnown' /\ LoopsExist'
  <2>1. \A n \in DOMAIN loops : n \in Pool
    BY <1>1, Numbers DEF TypeOK, Current, Pool
  <2> QED
    BY <1>1, <1>3, <2>1 DEF TidKnown, LoopsExist
<1> QED
  BY <1>3, <1>4, <1>5, <1>6, <1>7

LEMMA CheckLatchInvariant == ASSUME IInv, CheckLatch PROVE IInv'
<1> USE DEF IInv
<1>1. /\ pc[Base] = "inLatch" /\ Current \in Pool
      /\ UNCHANGED <<tid, count, published, loops, spurious>>
      /\ Unlock(<<"latch", Current>>)
      /\ \/ pc' = [pc EXCEPT ![Base] = "waitLatch"]
         \/ pc' = [pc EXCEPT ![Base] = "assertTid"] /\ count[Current] = 0
  BY Numbers DEF CheckLatch, Goto, ReleaseToWait, BaseOK, data, AwaitLatch, TypeOK
<1>2. PICK to \in {"waitLatch", "assertTid"} :
        pc' = [pc EXCEPT ![Base] = to] /\ (to = "assertTid" => count[Current] = 0)
  BY <1>1
<1>3. /\ pc' \in [Threads -> BasePlaces \cup PoolPlaces]
      /\ pc'[Base] = to
      /\ \A t \in Pool : pc'[t] = pc[t] /\ pc'[t] \in PoolPlaces /\ ThreadOK(t)'
  BY <1>1, <1>2, BaseMoves DEF BasePlaces
<1>4. TypeOK'
  <2>1. /\ owner' \in [Locks -> {Base, NoOne} \cup Pool]
        /\ holder' \in [Locks -> {Base, NoOne} \cup Pool]
        /\ \A k \in Locks : holder'[k] # NoOne => owner'[k] = holder'[k]
    BY <1>1, UnlockTypes
  <2> QED
    BY <1>1, <1>3, <2>1 DEF TypeOK, BasePlaces
<1>5. BaseOK'
  BY <1>1, <1>3 DEF BaseOK, Current
<1>6. TidKnown'
  BY <1>1, <1>2, <1>3 DEF TidKnown, Current, ThreadOK
<1>7. LoopsExist'
  <2>1. \A n \in DOMAIN loops : n \in Pool
    BY <1>1, Numbers DEF TypeOK, Current, Pool
  <2> QED
    BY <1>1, <1>3, <2>1 DEF LoopsExist
<1> QED
  BY <1>3, <1>4, <1>5, <1>6, <1>7

(* AssertTid, WakeSpuriously and Listen move nothing but the base thread. *)
LEMMA BaseAloneInvariant ==
  ASSUME IInv, AssertTid \/ WakeSpuriously \/ Listen
  PROVE  IInv'
<1> USE DEF IInv
<1>1. /\ UNCHANGED <<owner, holder, tid, count, published, loops>>
      /\ spurious' \in 0 .. MaxSpurious
  BY Numbers DEF AssertTid, WakeSpuriously, Listen, TypeOK, locks, data
<1>2. PICK to \in {"lockLoop", "lockLatch", "looping"} :
        /\ pc' = [pc EXCEPT ![Base] = to]
        /\ to # "looping" => pc[Base] \notin {"next", "looping"}
  BY DEF AssertTid, WakeSpuriously, Listen, Goto
<1>3. /\ pc' \in [Threads -> BasePlaces \cup PoolPlaces]
      /\ pc'[Base] = to
      /\ \A t \in Pool : pc'[t] = pc[t] /\ pc'[t] \in PoolPlaces /\ ThreadOK(t)'
  BY <1>1, <1>2, BaseMoves DEF BasePlaces, Places
<1>4. TypeOK'
  BY <1>1, <1>3 DEF TypeOK, BasePlaces, Places
<1>5. BaseOK' /\ TidKnown'
  BY <1>1, <1>2, <1>3 DEF BaseOK, TidKnown, Current
<1>6. LoopsExist'
  <2>1. \A n \in DOMAIN loops : n \in Pool
    BY <1>1, Numbers DEF BaseOK, TypeOK, Current, Pool
  <2> QED
    BY <1>1, <1>3, <2>1 DEF LoopsExist
<1> QED
  BY <1>3, <1>4, <1>5, <1>6

LEMMA CheckLoopInvariant == ASSUME IInv, CheckLoop PROVE IInv'
<1> USE DEF IInv
<1>1. /\ pc[Base] = "inLoop" /\ Current \in Pool
      /\ UNCHANGED <<tid, count, published, spurious>>
      /\ Unlock(<<"loop", Current>>)
      /\ \/ pc' = [pc EXCEPT ![Base] = "waitLoop"] /\ loops' = loops
         \/ /\ pc' = [pc EXCEPT ![Base] = "next"]
            /\ published[Current] # 0 /\ loops' = Append(loops, published[Current])
  BY DEF CheckLoop, Goto, ReleaseToWait, BaseOK, AwaitLoop
<1>2. PICK to \in {"waitLoop", "next"} : pc' = [pc EXCEPT ![Base] = to]
  BY <1>1
<1>3. /\ pc' \in [Threads -> BasePlaces \cup PoolPlaces]
      /\ pc'[Base] = to
      /\ \A t \in Pool : pc'[t] = pc[t] /\ pc'[t] \in PoolPlaces /\ ThreadOK(t)'
  BY <1>1, <1>2, BaseMoves DEF BasePlaces
<1>4. /\ owner' \in [Locks -> {Base, NoOne} \cup Pool]
      /\ holder' \in [Locks -> {Base, NoOne} \cup Pool]
      /\ \A k \in Locks : holder'[k] # NoOne => owner'[k] = holder'[k]
  BY <1>1, UnlockTypes
<1>5. Len(loops) \in Nat /\ DOMAIN loops = 1 .. Len(loops) /\ \A n \in DOMAIN loops : n \in Pool
  BY <1>1, Numbers DEF TypeOK, Current, Pool
<1>6. CASE to = "waitLoop"
  <2>1. loops' = loops
    BY <1>1, <1>3, <1>6
  <2>2. TypeOK'
    BY <1>1, <1>3, <1>4, <1>6, <2>1 DEF TypeOK, BasePlaces
  <2>3. BaseOK' /\ TidKnown' /\ LoopsExist'
    BY <1>1, <1>3, <1>5, <1>6, <2>1 DEF BaseOK, TidKnown, LoopsExist, Current
  <2> QED
    BY <1>3, <2>2, <2>3
<1>7. CASE to = "next"
  <2>1. /\ published[Current] # 0 /\ loops' = Append(loops, published[Current])
        /\ published[Current] = Current /\ pc[Current] \in {"published", "looping"}
    BY <1>1, <1>3, <1>7 DEF ThreadOK
  <2>2. /\ loops' \in Seq(0 .. NumThreads) /\ Len(loops') = Len(loops) + 1
        /\ DOMAIN loops' = 1 .. Len(loops) + 1
        /\ \A n \in 1 .. Len(loops) : loops'[n] = loops[n]
        /\ loops'[Len(loops) + 1] = Current
    <3>1. Current \in 0 .. NumThreads
      BY <1>1, Numbers DEF Pool
    <3> QED
      BY <2>1, <3>1, AppendProperties DEF TypeOK
  <2>3. TypeOK'
    BY <1>1, <1>3, <1>4, <1>7, <2>2 DEF TypeOK, BasePlaces
  <2>4. BaseOK' /\ TidKnown'
    BY <1>1, <1>3, <1>5, <1>7, <2>2, Numbers DEF BaseOK, TidKnown, Current, Pool
  <2>5. LoopsExist'
    <3> SUFFICES ASSUME NEW n \in 1 .. Len(loops) + 1
                 PROVE  loops'[n] = n /\ pc'[n] \in {"published", "looping"}
      BY <2>2 DEF LoopsExist
    <3>1. CASE n = Len(loops) + 1
      BY <1>1, <1>3, <2>1, <2>2, <3>1 DEF Current
    <3>2. CASE n # Len(loops) + 1
      <4>1. n \in DOMAIN loops /\ n \in Pool
        BY <1>5, <3>2
      <4> QED
        BY <1>3, <1>5, <2>2, <4>1 DEF LoopsExist
    <3> QED
      BY <3>1, <3>2
  <2> QED
    BY <1>3, <2>3, <2>4, <2>5
<1> QED
  BY <1>6, <1>7
-----------------------------------------------------------------------------
(* The threads of the pool *)

(* Thread t goes from one place to another, and may wake the base thread up. *)
LEMMA PoolMoves ==
  ASSUME IInv, NEW t \in Pool, NEW to \in PoolPlaces,
         \/ pc' = [pc EXCEPT ![t] = to]
         \/ \E waiting \in {"waitLatch", "waitLoop"}, woken \in {"lockLatch", "lockLoop"} :
              Notify(t, to, waiting, woken),
         pc[t] # "unborn",
         loops' = loops
  PROVE  /\ pc' \in [Threads -> BasePlaces \cup PoolPlaces]
         /\ pc'[Base] \in BasePlaces
         /\ pc'[t] = to
         /\ \A s \in Pool : pc'[s] \in PoolPlaces /\ (s # t => pc'[s] = pc[s])
         /\ BaseOK'
         /\ pc'[Base] = "assertTid" => pc[Base] = "assertTid"
<1> USE DEF IInv
<1>1. PICK b \in BasePlaces :
        /\ pc' = [pc EXCEPT ![t] = to, ![Base] = b]
        /\ b = pc[Base] \/ (b \in {"lockLatch", "lockLoop"} /\ pc[Base] \in {"waitLatch", "waitLoop"})
  <2>1. CASE pc' = [pc EXCEPT ![t] = to]
    <3>1. pc' = [pc EXCEPT ![t] = to, ![Base] = pc[Base]]
      BY <2>1, Numbers DEF Threads
    <3> QED
      BY <3>1 DEF TypeOK
  <2>2. ASSUME NEW waiting \in {"waitLatch", "waitLoop"}, NEW woken \in {"lockLatch", "lockLoop"},
               Notify(t, to, waiting, woken)
        PROVE  \E b \in BasePlaces :
                 /\ pc' = [pc EXCEPT ![t] = to, ![Base] = b]
                 /\ b = pc[Base] \/ (b \in {"lockLatch", "lockLoop"} /\ pc[Base] \in {"waitLatch", "waitLoop"})
    <3>1. pc' = [pc EXCEPT ![t] = to,
                           ![Base] = IF pc[Base] = waiting /\ Current = t THEN woken ELSE pc[Base]]
      BY <2>2, Numbers DEF Notify, Threads
    <3> QED
      BY <3>1 DEF TypeOK, BasePlaces, Places
  <2> QED
    BY <2>1, <2>2
<1>2. /\ pc' \in [Threads -> BasePlaces \cup PoolPlaces]
      /\ pc'[Base] = b /\ pc'[t] = to
      /\ \A s \in Pool : pc'[s] \in PoolPlaces /\ (s # t => pc'[s] = pc[s])
  BY <1>1, Numbers DEF Threads, TypeOK
<1>3. BaseOK'
  BY <1>1, <1>2, Numbers DEF BaseOK, Current
<1> QED
  BY <1>1, <1>2, <1>3

(* Each step of a thread of the pool: what it sets agrees with where it goes. *)
LEMMA PoolStepInvariant == ASSUME IInv, NEW t \in Pool, PoolStep(t) PROVE IInv'
<1> USE DEF IInv
<1>1. \A n \in DOMAIN loops : n \in Pool
  BY Numbers DEF BaseOK, TypeOK, Current, Pool
<1>2. t \in Threads
  BY DEF Threads
<1>3. CASE Lock(t)
  BY <1>2, <1>3, LockInvariant
<1>4. CASE SetTid(t)
  <2>1. /\ pc[t] = "born" /\ pc' = [pc EXCEPT ![t] = "lockLatch"]
        /\ tid' = [tid EXCEPT ![t] = TRUE]
        /\ UNCHANGED <<owner, holder, count, published, loops, spurious>>
    BY <1>4 DEF SetTid, Goto, locks
  <2>2. /\ pc' \in [Threads -> BasePlaces \cup PoolPlaces] /\ pc'[Base] \in BasePlaces
        /\ pc'[t] = "lockLatch"
        /\ \A s \in Pool : pc'[s] \in PoolPlaces /\ (s # t => pc'[s] = pc[s])
        /\ BaseOK' /\ (pc'[Base] = "assertTid" => pc[Base] = "assertTid")
    BY <2>1, PoolMoves DEF PoolPlaces, Places
  <2>3. TypeOK' /\ TidKnown' /\ LoopsExist' /\ \A s \in Pool : ThreadOK(s)'
    BY <1>1, <2>1, <2>2 DEF TypeOK, TidKnown, LoopsExist, ThreadOK, Current
  <2> QED
    BY <2>2, <2>3
<1>5. CASE CountDown(t)
  <2>1. /\ pc[t] = "inLatch" /\ Notify(t, "countedDown", "waitLatch", "lockLatch")
        /\ count' = [count EXCEPT ![t] = count[t] - 1] /\ count[t] = 1
        /\ UNCHANGED <<owner, holder, tid, published, loops, spurious>>
    BY <1>5 DEF CountDown, locks, ThreadOK
  <2>2. /\ pc' \in [Threads -> BasePlaces \cup PoolPlaces] /\ pc'[Base] \in BasePlaces
        /\ pc'[t] = "countedDown"
        /\ \A s \in Pool : pc'[s] \in PoolPlaces /\ (s # t => pc'[s] = pc[s])
        /\ BaseOK' /\ (pc'[Base] = "assertTid" => pc[Base] = "assertTid")
    BY <2>1, PoolMoves DEF PoolPlaces, Places
  <2>3. TypeOK' /\ TidKnown' /\ LoopsExist' /\ \A s \in Pool : ThreadOK(s)'
    BY <1>1, <2>1, <2>2 DEF TypeOK, TidKnown, LoopsExist, ThreadOK, Current
  <2> QED
    BY <2>2, <2>3
<1>6. CASE UnlockLatch(t)
  <2>1. /\ pc[t] = "countedDown" /\ pc' = [pc EXCEPT ![t] = "lockLoop"]
        /\ Unlock(<<"latch", t>>)
        /\ UNCHANGED <<tid, count, published, loops, spurious>>
    BY <1>6 DEF UnlockLatch, Goto, data
  <2>2. /\ pc' \in [Threads -> BasePlaces \cup PoolPlaces] /\ pc'[Base] \in BasePlaces
        /\ pc'[t] = "lockLoop"
        /\ \A s \in Pool : pc'[s] \in PoolPlaces /\ (s # t => pc'[s] = pc[s])
        /\ BaseOK' /\ (pc'[Base] = "assertTid" => pc[Base] = "assertTid")
    BY <2>1, PoolMoves DEF PoolPlaces, Places
  <2>3. TypeOK'
    BY <2>1, <2>2, UnlockTypes DEF TypeOK
  <2>4. TidKnown' /\ LoopsExist' /\ \A s \in Pool : ThreadOK(s)'
    BY <1>1, <2>1, <2>2 DEF TidKnown, LoopsExist, ThreadOK, Current
  <2> QED
    BY <2>2, <2>3, <2>4
<1>7. CASE Publish(t)
  <2>1. /\ pc[t] = "inLoop" /\ Notify(t, "published", "waitLoop", "lockLoop")
        /\ published' = [published EXCEPT ![t] = t]
        /\ UNCHANGED <<owner, holder, tid, count, loops, spurious>>
    BY <1>7 DEF Publish, locks
  <2>2. /\ pc' \in [Threads -> BasePlaces \cup PoolPlaces] /\ pc'[Base] \in BasePlaces
        /\ pc'[t] = "published"
        /\ \A s \in Pool : pc'[s] \in PoolPlaces /\ (s # t => pc'[s] = pc[s])
        /\ BaseOK' /\ (pc'[Base] = "assertTid" => pc[Base] = "assertTid")
    BY <2>1, PoolMoves DEF PoolPlaces, Places
  <2>3. t \in 0 .. NumThreads
    BY Numbers DEF Pool
  <2>4. TypeOK' /\ TidKnown' /\ LoopsExist' /\ \A s \in Pool : ThreadOK(s)'
    BY <1>1, <2>1, <2>2, <2>3 DEF TypeOK, TidKnown, LoopsExist, ThreadOK, Current
  <2> QED
    BY <2>2, <2>4
<1>8. CASE EnterLoop(t)
  <2>1. /\ pc[t] = "published" /\ pc' = [pc EXCEPT ![t] = "looping"]
        /\ Unlock(<<"loop", t>>)
        /\ UNCHANGED <<tid, count, published, loops, spurious>>
    BY <1>8 DEF EnterLoop, Goto, data
  <2>2. /\ pc' \in [Threads -> BasePlaces \cup PoolPlaces] /\ pc'[Base] \in BasePlaces
        /\ pc'[t] = "looping"
        /\ \A s \in Pool : pc'[s] \in PoolPlaces /\ (s # t => pc'[s] = pc[s])
        /\ BaseOK' /\ (pc'[Base] = "assertTid" => pc[Base] = "assertTid")
    BY <2>1, PoolMoves DEF PoolPlaces, Places
  <2>3. TypeOK'
    BY <2>1, <2>2, UnlockTypes DEF TypeOK
  <2>4. TidKnown' /\ LoopsExist' /\ \A s \in Pool : ThreadOK(s)'
    BY <1>1, <2>1, <2>2 DEF TidKnown, LoopsExist, ThreadOK, Current
  <2> QED
    BY <2>2, <2>3, <2>4
<1> QED
  BY <1>3, <1>4, <1>5, <1>6, <1>7, <1>8 DEF PoolStep

LEMMA Inductive == Spec => []IInv
<1>1. IInv /\ [Next]_vars => IInv'
  <2> SUFFICES ASSUME IInv, [Next]_vars PROVE IInv'
    OBVIOUS
  <2>1. CASE Lock(Base)
    BY <2>1, LockInvariant DEF Threads
  <2>2. CASE AssertTid \/ WakeSpuriously \/ Listen
    BY <2>2, BaseAloneInvariant
  <2>3. CASE UNCHANGED vars
    BY <2>3 DEF vars, locks, data, IInv, TypeOK, ThreadOK, BaseOK, TidKnown, LoopsExist, Current
  <2> QED
    BY <2>1, <2>2, <2>3, CreateThreadInvariant, CheckLatchInvariant, CheckLoopInvariant,
       PoolStepInvariant
    DEF Next, BaseStep
<1> QED
  BY <1>1, InitInvariant, PTL DEF Spec

(* The types; every latch is counted down once, and a mutex that has a holder_ is
   locked by that thread. *)
THEOREM TypeCorrect == Spec => []TypeOK
  BY Inductive, PTL DEF IInv

(* assert(tid_ > 0) of Thread::start holds: the latch is open only when the new
   thread has set it, however the condition is woken. *)
THEOREM TidIsSet == Spec => []TidKnown
  BY Inductive, PTL DEF IInv

(* The pool keeps no null pointer, and the loop of each thread once. *)
THEOREM PoolHasLoops == Spec => []LoopsExist
  BY Inductive, PTL DEF IInv
=============================================================================
