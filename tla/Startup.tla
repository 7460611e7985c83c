------------------------------ MODULE Startup ------------------------------
(***************************************************************************)
(* How TcpServer::start gets its loop threads: the base thread creates     *)
(* them one by one.  For each it waits on a latch until the thread has its *)
(* id, then on a condition until the thread has an EventLoop, and keeps    *)
(* the pointer.  When all are there it listens.                            *)
(*                                                                         *)
(* A thread of the pool is named by its place in it, and so is its loop: 0 *)
(* is the null pointer and, as a thread, the base thread.                  *)
(***************************************************************************)
EXTENDS Naturals, Sequences

CONSTANTS
  NumThreads,  \* numThreads_
  MaxSpurious  \* bound: spurious wakeups

ASSUME StartupAssumption == NumThreads \in Nat /\ MaxSpurious \in Nat

Pool == 1 .. NumThreads

Base == 0

(* Each thread of the pool comes with two mutexes and their conditions: of its
   CountDownLatch, and of its EventLoopThread. *)
Locks == {"latch", "loop"} \X Pool

NoOne == NumThreads + 1

VARIABLES
  pc,         \* where each thread is
  owner,      \* who has locked the pthread mutex
  holder,     \* holder_ of the MutexLock
  tid,        \* tid_ of each Thread has been set
  count,      \* count_ of each latch
  published,  \* loop_ of each EventLoopThread
  loops,      \* loops_ of the pool
  spurious    \* wakeups that nobody asked for

locks == <<owner, holder>>

data == <<tid, count, published, loops, spurious>>

vars == <<pc, locks, data>>

Init ==
  /\ pc = [t \in {Base} \cup Pool |-> IF t = Base THEN "next" ELSE "unborn"]
  /\ owner = [m \in Locks |-> NoOne]
  /\ holder = [m \in Locks |-> NoOne]
  /\ tid = [t \in Pool |-> FALSE]
  /\ count = [t \in Pool |-> 1]
  /\ published = [t \in Pool |-> 0]
  /\ loops = <<>>
  /\ spurious = 0

(* The thread that the base thread is starting. *)
Current == Len(loops) + 1

Goto(t, from, to) == pc[t] = from /\ pc' = [pc EXCEPT ![t] = to]
-----------------------------------------------------------------------------
(* Mutex and condition *)

(* MutexLockGuard: thread t locks its next mutex, the base thread one of those of
   the thread it is starting. *)
Lock(t) ==
  \E kind \in {"latch", "loop"} :
    LET m == <<kind, IF t = Base THEN Current ELSE t>> IN
    /\ IF kind = "latch" THEN Goto(t, "lockLatch", "inLatch") ELSE Goto(t, "lockLoop", "inLoop")
    /\ owner[m] = NoOne
    /\ owner' = [owner EXCEPT ![m] = t]
    /\ holder' = [holder EXCEPT ![m] = t]
    /\ UNCHANGED data

Unlock(m) ==
  /\ owner' = [owner EXCEPT ![m] = NoOne]
  /\ holder' = [holder EXCEPT ![m] = NoOne]

(* Fault: wait without the UnassignGuard. *)
ReleaseToWaitHeld(m) ==
  /\ owner' = [owner EXCEPT ![m] = NoOne]
  /\ UNCHANGED holder

(* Condition::wait gives the mutex up; the guard clears holder_ before and sets it
   when the mutex is locked again. *)
ReleaseToWait(m) == Unlock(m)

(* pthread_cond_signal and broadcast, from a thread of the pool that goes on: the
   base thread is the only one to wait.  It has to lock the mutex again. *)
Notify(t, to, waiting, woken) ==
  pc' = [pc EXCEPT ![t] = to, ![Base] = IF @ = waiting /\ Current = t THEN woken ELSE @]
-----------------------------------------------------------------------------
(* The base thread *)

(* EventLoopThread and Thread::start.  When pthread_create fails, start returns
   all the same, and startLoop waits for a loop that nobody makes. *)
CreateThread ==
  /\ pc[Base] = "next" /\ Current \in Pool
  /\ \/ pc' = [pc EXCEPT ![Base] = "lockLatch", ![Current] = "born"]
     \/ pc' = [pc EXCEPT ![Base] = "lockLoop", ![Current] = "failed"]
  /\ UNCHANGED <<locks, data>>

(* Fault: if, not while. *)
AwaitLatchOnce == count[Current] > 0 /\ spurious = 0

(* The condition of the loop in CountDownLatch::wait. *)
AwaitLatch == count[Current] > 0

CheckLatch ==
  /\ pc[Base] = "inLatch"
  /\ IF AwaitLatch
       THEN Goto(Base, "inLatch", "waitLatch") /\ ReleaseToWait(<<"latch", Current>>)
       ELSE Goto(Base, "inLatch", "assertTid") /\ Unlock(<<"latch", Current>>)
  /\ UNCHANGED data

AssertTid ==
  /\ pc[Base] = "assertTid" /\ tid[Current]
  /\ Goto(Base, "assertTid", "lockLoop")
  /\ UNCHANGED <<locks, data>>

(* Fault: if, not while. *)
AwaitLoopOnce == published[Current] = 0 /\ spurious = 0

(* The condition of the loop in startLoop. *)
AwaitLoop == published[Current] = 0

(* Waits, or the pool keeps what startLoop returns. *)
CheckLoop ==
  /\ pc[Base] = "inLoop"
  /\ IF AwaitLoop
       THEN /\ Goto(Base, "inLoop", "waitLoop")
            /\ ReleaseToWait(<<"loop", Current>>)
            /\ UNCHANGED loops
       ELSE /\ Goto(Base, "inLoop", "next")
            /\ Unlock(<<"loop", Current>>)
            /\ loops' = Append(loops, published[Current])
  /\ UNCHANGED <<tid, count, published, spurious>>

(* A condition may wake up its waiter for no reason. *)
WakeSpuriously ==
  /\ spurious < MaxSpurious
  /\ Goto(Base, "waitLatch", "lockLatch") \/ Goto(Base, "waitLoop", "lockLoop")
  /\ spurious' = spurious + 1
  /\ UNCHANGED <<locks, tid, count, published, loops>>

(* The end of TcpServer::start, which is called on the base loop's own thread: it
   listens, and goes into its loop. *)
Listen ==
  /\ Current \notin Pool
  /\ Goto(Base, "next", "looping")
  /\ UNCHANGED <<locks, data>>
-----------------------------------------------------------------------------
(* A thread of the pool *)

(* runInThread. *)
SetTid(t) ==
  /\ Goto(t, "born", "lockLatch")
  /\ tid' = [tid EXCEPT ![t] = TRUE]
  /\ UNCHANGED <<locks, count, published, loops, spurious>>

CountDown(t) ==
  /\ pc[t] = "inLatch"
  /\ count' = [count EXCEPT ![t] = @ - 1]
  /\ Notify(t, "countedDown", "waitLatch", "lockLatch")
  /\ UNCHANGED <<locks, tid, published, loops, spurious>>

UnlockLatch(t) ==
  /\ Goto(t, "countedDown", "lockLoop")
  /\ Unlock(<<"latch", t>>)
  /\ UNCHANGED data

(* Fault: the condition is not notified. *)
PublishSilently(t) ==
  /\ Goto(t, "inLoop", "published")
  /\ published' = [published EXCEPT ![t] = t]
  /\ UNCHANGED <<locks, tid, count, loops, spurious>>

Publish(t) ==
  /\ pc[t] = "inLoop"
  /\ published' = [published EXCEPT ![t] = t]
  /\ Notify(t, "published", "waitLoop", "lockLoop")
  /\ UNCHANGED <<locks, tid, count, loops, spurious>>

EnterLoop(t) ==
  /\ Goto(t, "published", "looping")
  /\ Unlock(<<"loop", t>>)
  /\ UNCHANGED data
-----------------------------------------------------------------------------
BaseStep ==
  Lock(Base) \/ CreateThread \/ CheckLatch \/ AssertTid \/ CheckLoop \/ Listen

PoolStep(t) ==
  Lock(t) \/ SetTid(t) \/ CountDown(t) \/ UnlockLatch(t) \/ Publish(t) \/ EnterLoop(t)

Next == BaseStep \/ WakeSpuriously \/ \E t \in Pool : PoolStep(t)

Spec == Init /\ [][Next]_vars

(* Every thread goes on; wakeups nobody asked for are never owed. *)
FairSpec == Spec /\ WF_vars(BaseStep) /\ \A t \in Pool : WF_vars(PoolStep(t))
-----------------------------------------------------------------------------
(* Properties *)

Places == {"lockLatch", "inLatch", "lockLoop", "inLoop", "looping"}

BasePlaces == Places \cup {"next", "waitLatch", "assertTid", "waitLoop"}

PoolPlaces == Places \cup {"unborn", "failed", "born", "countedDown", "published"}

(* The types; a latch is counted down once, and isLockedByThisThread is never true
   in a thread that has not locked the mutex, as one that waits on a condition. *)
TypeOK ==
  /\ pc[Base] \in BasePlaces /\ \A t \in Pool : pc[t] \in PoolPlaces
  /\ owner \in [Locks -> {Base, NoOne} \cup Pool]
  /\ holder \in [Locks -> {Base, NoOne} \cup Pool]
  /\ \A m \in Locks : holder[m] # NoOne => owner[m] = holder[m]
  /\ tid \in [Pool -> BOOLEAN]
  /\ count \in [Pool -> {0, 1}]
  /\ published \in [Pool -> 0 .. NumThreads]
  /\ loops \in Seq(0 .. NumThreads)
  /\ spurious \in 0 .. MaxSpurious

(* assert(tid_ > 0) of Thread::start. *)
TidKnown == pc[Base] = "assertTid" => tid[Current]

(* What the pool keeps are loops: never null, each of a thread of its own. *)
LoopsExist ==
  \A n \in DOMAIN loops : loops[n] = n /\ pc[n] \in {"published", "looping"}

(* start comes to its end, unless a thread could not be created: then it waits
   for ever. *)
PoolStarts == <>(pc[Base] = "looping" \/ \E t \in Pool : pc[t] = "failed")
=============================================================================
