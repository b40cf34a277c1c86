---------------------------- MODULE BoundedQueue ----------------------------
(***************************************************************************)
(* What job_queue.c promises: a FIFO of at most Capacity jobs that can be  *)
(* closed.  Each accepted job is delivered to exactly one caller, in the   *)
(* order of acceptance; a closed queue accepts nothing and still delivers  *)
(* what it has; it is discarded only when empty.                           *)
(***************************************************************************)
EXTENDS Naturals, Sequences

CONSTANTS Threads, Jobs, Capacity, NoJob

VARIABLES queue,    \* accepted and not yet delivered, oldest first
          open,     \* jobs are accepted
          got       \* the job each thread was last given

bqVars == <<queue, open, got>>

Init ==
  /\ queue = <<>>
  /\ open = FALSE
  /\ got = [t \in Threads |-> NoJob]

Open == ~open /\ queue = <<>> /\ open' = TRUE /\ UNCHANGED <<queue, got>>

Put(j) ==
  /\ open
  /\ Len(queue) < Capacity
  /\ queue' = Append(queue, j)
  /\ UNCHANGED <<open, got>>

Take(t) ==
  /\ queue # <<>>
  /\ queue' = Tail(queue)
  /\ got' = [got EXCEPT ![t] = Head(queue)]
  /\ UNCHANGED open

Close == open' = FALSE /\ UNCHANGED <<queue, got>>

\* A caller clears the variable that held its job.
Forget(t) ==
  /\ got' = [got EXCEPT ![t] = NoJob]
  /\ UNCHANGED <<queue, open>>

Next ==
  \/ Open \/ Close
  \/ \E j \in Jobs : Put(j)
  \/ \E t \in Threads : Take(t) \/ Forget(t)

Spec == Init /\ [][Next]_bqVars
=============================================================================
