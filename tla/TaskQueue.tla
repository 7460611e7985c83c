----------------------------- MODULE TaskQueue -----------------------------
(***************************************************************************)
(* What an event loop promises to whoever hands it a functor: one FIFO     *)
(* queue.  A task enters once, tasks leave one at a time in the order they *)
(* entered, and a task that left was run.  Nothing is said of threads, of  *)
(* wake-ups or of the batches in which the loop takes its work.            *)
(***************************************************************************)
EXTENDS Naturals, Sequences

CONSTANT Tasks

VARIABLES
  queue,     \* tasks accepted and not yet run, oldest first
  done       \* tasks run, in the order they were run

vars == <<queue, done>>

Known(k) == (\E i \in DOMAIN queue : queue[i] = k) \/ (\E i \in DOMAIN done : done[i] = k)

Init ==
  /\ queue = <<>>
  /\ done = <<>>

Submit(k) ==
  /\ ~Known(k)
  /\ queue' = Append(queue, k)
  /\ UNCHANGED done

Run ==
  /\ queue # <<>>
  /\ done' = Append(done, Head(queue))
  /\ queue' = Tail(queue)

Next ==
  \/ \E k \in Tasks : Submit(k)
  \/ Run

Spec == Init /\ [][Next]_vars
=============================================================================
