----------------------------- MODULE EventLoop -----------------------------
(***************************************************************************)
(* One EventLoop: its own thread, which polls, dispatches the ready        *)
(* channels and runs the queued functors, and the other threads, which     *)
(* call queueInLoop, runInLoop and quit on it.                             *)
(*                                                                         *)
(* A call from another thread is two steps, because the code releases the  *)
(* mutex before it writes the eventfd: the effect (push_back under the     *)
(* mutex, or quit_ = true) and the wakeup() that follows.  Each task is    *)
(* posted at most once, so Tasks bounds a behaviour.                       *)
(***************************************************************************)
EXTENDS Naturals, Sequences

CONSTANTS
  Threads,    \* threads other than the loop's own that call into it
  Tasks       \* the functors that can be handed to the loop

VARIABLES
  phase,      \* where the loop's thread is in loop()
  active,     \* activeChannels_ not handled yet: the wakeup channel, another one
  quit,       \* quit_
  pending,    \* pendingFunctors_
  functors,   \* the local vector of doPendingFunctors
  wakeupFd,   \* the eventfd counter is not zero, so the wakeup channel is readable
  caller,     \* per foreign thread: outside, or about to write the eventfd
  submitted,  \* history: tasks pushed on pendingFunctors_, in order
  executed,   \* history: tasks doPendingFunctors ran, in order
  inlined,    \* history: tasks runInLoop ran at once
  early       \* history: tasks the loop's thread queued before it called loop()

vars == <<phase, active, quit, pending, functors, wakeupFd, caller,
          submitted, executed, inlined, early>>

history == <<submitted, executed, inlined, early>>

Phases == {"created", "check", "poll", "dispatch", "functors", "stopped"}

Fresh(k) == k \notin inlined /\ \A i \in DOMAIN submitted : submitted[i] # k

(* callingPendingFunctors_: set and cleared by doPendingFunctors, read by the
   same thread only. *)
callingPendingFunctors == phase = "functors"

(* The loop's thread is inside a callback: a channel other than the wakeup
   channel is being handled, or the first of the remaining functors runs. *)
InCallback ==
  \/ phase = "dispatch" /\ "io" \in active
  \/ phase = "functors" /\ functors # <<>>

Init ==
  /\ phase = "created"
  /\ active = {}
  /\ quit = FALSE
  /\ pending = <<>>
  /\ functors = <<>>
  /\ wakeupFd = FALSE
  /\ caller = [t \in Threads |-> "outside"]
  /\ submitted = <<>>
  /\ executed = <<>>
  /\ inlined = {}
  /\ early = {}
-----------------------------------------------------------------------------
(* Calls from other threads *)

Push(k) ==
  /\ Fresh(k)
  /\ pending' = Append(pending, k)
  /\ submitted' = Append(submitted, k)

(* runInLoop and queueInLoop are the same thing off the loop's thread. *)
QueueInLoop(t, k) ==
  /\ caller[t] = "outside"
  /\ Push(k)
  /\ caller' = [caller EXCEPT ![t] = "wakeup"]
  /\ UNCHANGED <<phase, active, quit, functors, wakeupFd, executed, inlined, early>>

Quit(t) ==
  /\ caller[t] = "outside"
  /\ quit' = TRUE
  /\ caller' = [caller EXCEPT ![t] = "wakeup"]
  /\ UNCHANGED <<phase, active, pending, functors, wakeupFd, history>>

(* Fault: the call forgets the eventfd. *)
WakeupForgotten(t) ==
  /\ caller[t] = "wakeup"
  /\ caller' = [caller EXCEPT ![t] = "outside"]
  /\ UNCHANGED <<phase, active, quit, pending, functors, wakeupFd, history>>

Wakeup(t) ==
  /\ caller[t] = "wakeup"
  /\ wakeupFd' = TRUE
  /\ caller' = [caller EXCEPT ![t] = "outside"]
  /\ UNCHANGED <<phase, active, quit, pending, functors, history>>
-----------------------------------------------------------------------------
(* Calls from a callback on the loop's own thread *)

(* Fault: only other threads are thought to need the wakeup. *)
OwnPostNeverWakes == FALSE

OwnPostWakes == callingPendingFunctors

OwnQueueInLoop(k) ==
  /\ InCallback \/ phase = "created"
  /\ Push(k)
  /\ wakeupFd' = (wakeupFd \/ OwnPostWakes)
  /\ early' = IF phase = "created" THEN early \cup {k} ELSE early
  /\ UNCHANGED <<phase, active, quit, functors, caller, executed, inlined>>

OwnRunInLoop(k) ==
  /\ InCallback \/ phase = "created"
  /\ Fresh(k)
  /\ inlined' = inlined \cup {k}
  /\ UNCHANGED <<phase, active, quit, pending, functors, wakeupFd, caller,
                 submitted, executed, early>>

OwnQuit ==
  /\ InCallback
  /\ quit' = TRUE
  /\ UNCHANGED <<phase, active, pending, functors, wakeupFd, caller, history>>
-----------------------------------------------------------------------------
(* loop() *)

StartLoop ==
  /\ phase = "created"
  /\ quit' = FALSE
  /\ phase' = "check"
  /\ UNCHANGED <<active, pending, functors, wakeupFd, caller, history>>

(* Fault: loop() drops the test of quit_. *)
CheckQuitIgnored ==
  /\ phase = "check"
  /\ phase' = "poll"
  /\ UNCHANGED <<active, quit, pending, functors, wakeupFd, caller, history>>

CheckQuit ==
  /\ phase = "check"
  /\ phase' = IF quit THEN "stopped" ELSE "poll"
  /\ UNCHANGED <<active, quit, pending, functors, wakeupFd, caller, history>>

(* epoll_wait returns: with the wakeup channel whenever its eventfd is
   readable, with another channel when the outside world made it ready, with
   nothing after kPollTimeMs. *)
PollReturns(ready) ==
  /\ phase = "poll"
  /\ active' = ready
  /\ phase' = "dispatch"
  /\ UNCHANGED <<quit, pending, functors, wakeupFd, caller, history>>

PollWakeup == wakeupFd /\ \E io \in SUBSET {"io"} : PollReturns({"wakeup"} \cup io)

PollIo == ~wakeupFd /\ PollReturns({"io"})

PollTimeout == ~wakeupFd /\ PollReturns({})

(* The wakeup channel's callback reads the eventfd, which zeroes it. *)
HandleRead ==
  /\ phase = "dispatch"
  /\ "wakeup" \in active
  /\ wakeupFd' = FALSE
  /\ active' = active \ {"wakeup"}
  /\ UNCHANGED <<phase, quit, pending, functors, caller, history>>

(* The callback of another channel returns; what it did is Own... above. *)
HandleIo ==
  /\ phase = "dispatch"
  /\ "io" \in active
  /\ active' = active \ {"io"}
  /\ UNCHANGED <<phase, quit, pending, functors, wakeupFd, caller, history>>

(* Fault: the batch is copied, not swapped. *)
SwapFunctorsCopied ==
  /\ phase = "dispatch"
  /\ active = {}
  /\ functors' = pending
  /\ phase' = "functors"
  /\ UNCHANGED <<active, quit, pending, wakeupFd, caller, history>>

SwapFunctors ==
  /\ phase = "dispatch"
  /\ active = {}
  /\ functors' = pending
  /\ pending' = <<>>
  /\ phase' = "functors"
  /\ UNCHANGED <<active, quit, wakeupFd, caller, history>>

(* A functor of the batch returns; what it did is Own... above. *)
RunFunctor ==
  /\ phase = "functors"
  /\ functors # <<>>
  /\ executed' = Append(executed, Head(functors))
  /\ functors' = Tail(functors)
  /\ UNCHANGED <<phase, active, quit, pending, wakeupFd, caller, submitted, inlined, early>>

(* Fault: the loop leaves the batch after its first functor. *)
FunctorsDoneEarly ==
  /\ phase = "functors"
  /\ phase' = "check"
  /\ UNCHANGED <<active, quit, pending, functors, wakeupFd, caller, history>>

FunctorsDone ==
  /\ phase = "functors"
  /\ functors = <<>>
  /\ phase' = "check"
  /\ UNCHANGED <<active, quit, pending, functors, wakeupFd, caller, history>>

(* The steps the loop's thread takes by itself, whatever the outside does. *)
LoopStep ==
  \/ StartLoop
  \/ CheckQuit
  \/ PollWakeup
  \/ HandleRead
  \/ HandleIo
  \/ SwapFunctors
  \/ RunFunctor
  \/ FunctorsDone

Next ==
  \/ LoopStep
  \/ PollIo
  \/ PollTimeout
  \/ OwnQuit
  \/ \E k \in Tasks : OwnQueueInLoop(k) \/ OwnRunInLoop(k)
  \/ \E t \in Threads : Quit(t) \/ Wakeup(t)
  \/ \E t \in Threads, k \in Tasks : QueueInLoop(t, k)

Spec == Init /\ [][Next]_vars

(* The loop's thread keeps running and its callbacks return; a thread that
   entered queueInLoop or quit leaves it.  Neither a ready channel nor the poll
   timeout is assumed: liveness rests on the eventfd alone. *)
Fairness ==
  /\ WF_vars(LoopStep)
  /\ \A t \in Threads : WF_vars(Wakeup(t))

FairSpec == Spec /\ Fairness
-----------------------------------------------------------------------------
(* Properties *)

(* The types, and that the batch and the ready channels live only as long as
   the part of loop() that owns them. *)
TypeOK ==
  /\ phase \in Phases
  /\ active \in SUBSET {"wakeup", "io"}
  /\ quit \in BOOLEAN
  /\ pending \in Seq(Tasks)
  /\ functors \in Seq(Tasks)
  /\ wakeupFd \in BOOLEAN
  /\ caller \in [Threads -> {"outside", "wakeup"}]
  /\ submitted \in Seq(Tasks)
  /\ executed \in Seq(Tasks)
  /\ inlined \in SUBSET Tasks
  /\ early \in SUBSET Tasks
  /\ functors # <<>> => phase = "functors"
  /\ active # {} => phase = "dispatch"

(* Every functor pushed on pendingFunctors_ is in exactly one place, and the
   order of the pushes survives the swap into a batch: what ran, then what is
   left of the batch, then what waits, is the order of the calls. *)
FifoOrder == submitted = executed \o functors \o pending

(* Something the loop must look at before it may sleep.  A functor its own
   thread queued before loop() is not in here: queueInLoop writes no eventfd for
   it, and the first epoll_wait may sleep on it until the timeout. *)
WorkWaiting == quit \/ \E i \in DOMAIN pending : pending[i] \notin early

WakeupDue == wakeupFd \/ \E t \in Threads : caller[t] = "wakeup"

(* The loop never sleeps in epoll_wait on work it was given: the eventfd is
   readable, or a thread is on its way to write it. *)
NoLostWakeup == (phase = "poll" /\ WorkWaiting) => WakeupDue

(* What makes NoLostWakeup inductive.  In every phase from which the loop
   can reach epoll_wait without taking pendingFunctors_ first, a functor that
   is waiting has an eventfd write behind it; quit_ is only tested on the way
   in, so it counts in epoll_wait itself. *)
WakeupDueForFunctors ==
  (phase \in {"created", "check", "poll", "functors"}
     /\ \E i \in DOMAIN pending : pending[i] \notin early) => WakeupDue

WakeupDueForQuit == (phase = "poll" /\ quit) => WakeupDue

WakeInv == WakeupDueForFunctors /\ WakeupDueForQuit

(* A functor handed to the loop is run, unless the loop was told to quit;
   the poll timeout is not needed for it. *)
FunctorsRun ==
  \A k \in Tasks :
    (\E i \in DOMAIN pending : pending[i] = k /\ k \notin early)
      ~> ((\E i \in DOMAIN executed : executed[i] = k) \/ phase = "stopped")

(* quit() on a loop that has entered loop() ends it.  Said of a running loop
   only: StartLoop clears quit_, so an earlier quit() is forgotten. *)
QuitStops == (quit /\ phase # "created") ~> phase = "stopped"

(* The loop's queue is the FIFO queue of TaskQueue: the batch and what waits
   behind it are one queue, and the swap is invisible. *)
TQ == INSTANCE TaskQueue WITH queue <- functors \o pending, done <- executed

QueueSpec == TQ!Spec
=============================================================================
