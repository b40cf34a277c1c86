------------------------------ MODULE JobQueue ------------------------------
(***************************************************************************)
(* SERVER-CONCURRENCY/src/job_queue.c: the bounded blocking queue between  *)
(* the accept loop and the workers.  A ring buffer under one mutex with    *)
(* two condition variables.  One critical section of queue->mutex is one   *)
(* step; a call that has to wait stays open over several steps.            *)
(***************************************************************************)
EXTENDS Naturals, FiniteSets, CondVar

CONSTANTS Threads,    \* callers: producers, workers, whoever shuts down
          Jobs,       \* valid jobs (job->run is set)
          Capacity,   \* queue->capacity
          NoJob       \* a zeroed ConcurrencyJob; not valid

ASSUME JobQueueAssumption ==
  /\ IsFiniteSet(Threads)
  /\ Capacity \in Nat \ {0}
  /\ NoJob \notin Jobs

VARIABLES ready, items, head, tail, size, closed,
          not_empty, not_full,   \* threads asleep on each condition variable
          op,                    \* the call each thread is in
          arg,                   \* its local job: to be stored, or being finished
          ret,                   \* what the call that returned last returned
          got,                   \* the job each thread was last given
          destroying             \* the open cancel loop is that of destroy

ring      == <<items, head, tail, size>>
queueVars == <<ready, items, head, tail, size, closed, not_empty, not_full,
               op, arg, ret, got, destroying>>

(***************************************************************************)
(* op[t]: "out" of the queue; "push" and "pop" in the wait loop of that    *)
(* function; "cancel" about to look at the queue in cancel_pending;        *)
(* "finish" in cancel_pending with a job taken out and the mutex released, *)
(* running concurrency_job_finish.                                         *)
(***************************************************************************)
Ops      == {"out", "push", "pop", "cancel", "finish"}
Statuses == {"none", "ok", "full", "closed", "invalid"}
Slots    == 0 .. Capacity - 1

job_is_valid(j) == j \in Jobs

\* A wait loop that a close does not end; the body of a mutant.
EmptyAndOpen_IgnoresClose == size = 0

FullAndOpen  == size = Capacity /\ ~closed
EmptyAndOpen == size = 0 /\ ~closed
-----------------------------------------------------------------------------
Init ==
  /\ ready = FALSE
  /\ items = [i \in Slots |-> NoJob]
  /\ head = 0 /\ tail = 0 /\ size = 0
  /\ closed = FALSE
  /\ not_empty = {} /\ not_full = {}
  /\ op  = [t \in Threads |-> "out"]
  /\ arg = [t \in Threads |-> NoJob]
  /\ ret = "none"
  /\ got = [t \in Threads |-> NoJob]
  /\ destroying = FALSE

\* concurrency_job_queue_init, when the allocations succeed.
InitQueue ==
  /\ ~ready
  /\ ready' = TRUE
  /\ items' = [i \in Slots |-> NoJob]
  /\ head' = 0 /\ tail' = 0 /\ size' = 0
  /\ closed' = FALSE
  /\ UNCHANGED <<not_empty, not_full, op, arg, ret, got, destroying>>

\* A store that wakes nobody; the body of a mutant.
Store_NoSignal(j) ==
  /\ items' = [items EXCEPT ![tail] = j]
  /\ tail' = (tail + 1) % Capacity
  /\ size' = size + 1
  /\ UNCHANGED <<head, not_empty>>

\* The job j goes to the tail and one sleeping consumer is signalled.
Store(j) ==
  /\ items' = [items EXCEPT ![tail] = j]
  /\ tail' = (tail + 1) % Capacity
  /\ size' = size + 1
  /\ not_empty' \in Signalled(not_empty)
  /\ UNCHANGED head

\* Variants of the two halves of the ring; each is the body of a mutant.
pop_front_locked_Stuck ==
  /\ head' = IF head = Capacity - 1 THEN head ELSE head + 1
  /\ size' = size - 1
  /\ not_full' \in Signalled(not_full)
  /\ UNCHANGED <<items, tail>>

pop_front_locked_NoSignal ==
  /\ head' = (head + 1) % Capacity
  /\ size' = size - 1
  /\ UNCHANGED <<items, tail, not_full>>

\* pop_front_locked and the signal that follows it at both call sites.
pop_front_locked ==
  /\ head' = (head + 1) % Capacity
  /\ size' = size - 1
  /\ not_full' \in Signalled(not_full)
  /\ UNCHANGED <<items, tail>>

\* The call of t returns status s.
Returns(t, s) ==
  /\ op'  = [op EXCEPT ![t] = "out"]
  /\ arg' = [arg EXCEPT ![t] = NoJob]
  /\ ret' = s

\* push, try_push and pop on a queue that is not ready, or with a bad job.
Invalid(t) ==
  /\ Returns(t, "invalid")
  /\ UNCHANGED <<ready, ring, closed, not_empty, not_full, got, destroying>>

PushLoop(t, j) ==
  /\ \/ /\ FullAndOpen
        /\ not_full' = not_full \union {t}
        /\ op'  = [op EXCEPT ![t] = "push"]
        /\ arg' = [arg EXCEPT ![t] = j]
        /\ UNCHANGED <<ring, not_empty, ret>>
     \/ /\ ~FullAndOpen /\ closed
        /\ Returns(t, "closed")
        /\ UNCHANGED <<ring, not_empty, not_full>>
     \/ /\ ~FullAndOpen /\ ~closed
        /\ Store(j)
        /\ Returns(t, "ok")
        /\ UNCHANGED not_full
  /\ UNCHANGED <<ready, closed, got, destroying>>

Push(t, j) ==
  /\ op[t] = "out"
  /\ IF ready /\ job_is_valid(j) THEN PushLoop(t, j) ELSE Invalid(t)

RecheckPush(t) ==
  /\ op[t] = "push"
  /\ t \notin not_full
  /\ PushLoop(t, arg[t])

TryPush_IgnoresClose(t, j) ==
  /\ op[t] = "out"
  /\ ready /\ job_is_valid(j)
  /\ IF size = Capacity
       THEN Returns(t, "full") /\ UNCHANGED <<ring, not_empty>>
       ELSE Returns(t, "ok") /\ Store(j)
  /\ UNCHANGED <<ready, closed, not_full, got, destroying>>

TryPush(t, j) ==
  /\ op[t] = "out"
  /\ IF ready /\ job_is_valid(j)
       THEN /\ \/ /\ closed
                  /\ Returns(t, "closed")
                  /\ UNCHANGED <<ring, not_empty>>
               \/ /\ ~closed /\ size = Capacity
                  /\ Returns(t, "full")
                  /\ UNCHANGED <<ring, not_empty>>
               \/ /\ ~closed /\ size # Capacity
                  /\ Store(j)
                  /\ Returns(t, "ok")
            /\ UNCHANGED <<ready, closed, not_full, got, destroying>>
       ELSE Invalid(t)

PopLoop(t) ==
  /\ \/ /\ EmptyAndOpen
        /\ not_empty' = not_empty \union {t}
        /\ op' = [op EXCEPT ![t] = "pop"]
        /\ UNCHANGED <<ring, not_full, arg, ret, got>>
     \/ /\ ~EmptyAndOpen /\ size = 0
        /\ Returns(t, "closed")
        /\ UNCHANGED <<ring, not_empty, not_full, got>>
     \/ /\ ~EmptyAndOpen /\ size # 0
        /\ got' = [got EXCEPT ![t] = items[head]]
        /\ pop_front_locked
        /\ Returns(t, "ok")
        /\ UNCHANGED not_empty
  /\ UNCHANGED <<ready, closed, destroying>>

Pop(t) ==
  /\ op[t] = "out"
  /\ IF ready THEN PopLoop(t) ELSE Invalid(t)

RecheckPop(t) ==
  /\ op[t] = "pop"
  /\ t \notin not_empty
  /\ PopLoop(t)

\* pthread_cond_wait may return although nobody signalled.
SpuriousWake(t) ==
  /\ \/ t \in not_empty /\ not_empty' = not_empty \ {t} /\ UNCHANGED not_full
     \/ t \in not_full /\ not_full' = not_full \ {t} /\ UNCHANGED not_empty
  /\ UNCHANGED <<ready, ring, closed, op, arg, ret, got, destroying>>

\* The critical section of concurrency_job_queue_close.
Shut ==
  /\ closed' = TRUE
  /\ not_full' = Broadcast
  /\ not_empty' = Broadcast

Close(t) ==
  /\ op[t] = "out"
  /\ IF ready THEN Shut ELSE UNCHANGED <<closed, not_full, not_empty>>
  /\ UNCHANGED <<ready, ring, op, arg, ret, got, destroying>>

\* concurrency_job_queue_cancel_pending: the call, each pass of its loop with
\* the job taken under the mutex, and concurrency_job_finish outside it.
CancelPending(t) ==
  /\ ready
  /\ op[t] = "out"
  /\ op' = [op EXCEPT ![t] = "cancel"]
  /\ UNCHANGED <<ready, ring, closed, not_empty, not_full, arg, ret, got, destroying>>

CancelTake(t) ==
  /\ op[t] = "cancel"
  /\ size > 0
  /\ got' = [got EXCEPT ![t] = items[head]]
  /\ arg' = [arg EXCEPT ![t] = items[head]]
  /\ pop_front_locked
  /\ op' = [op EXCEPT ![t] = "finish"]
  /\ UNCHANGED <<ready, closed, not_empty, ret, destroying>>

CancelFinish(t) ==
  /\ op[t] = "finish"
  /\ op'  = [op EXCEPT ![t] = "cancel"]
  /\ arg' = [arg EXCEPT ![t] = NoJob]
  /\ UNCHANGED <<ready, ring, closed, not_empty, not_full, ret, got, destroying>>

CancelDone(t) ==
  /\ op[t] = "cancel"
  /\ size = 0
  /\ ~destroying
  /\ op' = [op EXCEPT ![t] = "out"]
  /\ UNCHANGED <<ready, ring, closed, not_empty, not_full, arg, ret, got, destroying>>

\* concurrency_job_queue_destroy: close, cancel_pending, then the memory and
\* every field are gone.
Destroy(t) ==
  /\ ready
  /\ op[t] = "out"
  /\ Shut
  /\ op' = [op EXCEPT ![t] = "cancel"]
  /\ destroying' = TRUE
  /\ UNCHANGED <<ready, ring, arg, ret, got>>

DestroyDone(t) ==
  /\ op[t] = "cancel"
  /\ size = 0
  /\ destroying
  /\ op' = [op EXCEPT ![t] = "out"]
  /\ ready' = FALSE
  /\ items' = [i \in Slots |-> NoJob]
  /\ head' = 0 /\ tail' = 0 /\ size' = 0
  /\ closed' = FALSE
  /\ destroying' = FALSE
  /\ UNCHANGED <<not_empty, not_full, arg, ret, got>>

\* The caller is done with the job it was handed and clears its variable (the
\* memset at the end of the loop in worker_main).
Forget(t) ==
  /\ op[t] = "out"
  /\ got' = [got EXCEPT ![t] = NoJob]
  /\ UNCHANGED <<ready, ring, closed, not_empty, not_full, op, arg, ret, destroying>>

\* The pool creates the queue before its workers exist and destroys it after
\* it joined them, so nobody else is inside then.
Alone(t) == \A u \in Threads \ {t} : op[u] = "out"

CallStep(t) ==
  \/ \E j \in Jobs \union {NoJob} : Push(t, j) \/ TryPush(t, j)
  \/ Pop(t)
  \/ Close(t)
  \/ CancelPending(t)
  \/ Forget(t)

Recheck(t) == RecheckPush(t) \/ RecheckPop(t)

CancelLoop(t) == CancelTake(t) \/ CancelFinish(t) \/ CancelDone(t) \/ DestroyDone(t)

Next ==
  \/ InitQueue /\ \A t \in Threads : op[t] = "out"
  \/ \E t \in Threads :
       \/ ~destroying /\ CallStep(t)
       \/ Alone(t) /\ Destroy(t)
       \/ Recheck(t)
       \/ CancelLoop(t)
       \/ SpuriousWake(t)

Spec == Init /\ [][Next]_queueVars
-----------------------------------------------------------------------------
(***************************************************************************)
(* Every variable stays in its type; in particular head and tail stay      *)
(* inside the array and size within the capacity.                          *)
(***************************************************************************)
TypeOK ==
  /\ ready \in BOOLEAN
  /\ items \in [Slots -> Jobs \union {NoJob}]
  /\ head \in Slots /\ tail \in Slots /\ size \in 0 .. Capacity
  /\ closed \in BOOLEAN
  /\ not_empty \in SUBSET Threads /\ not_full \in SUBSET Threads
  /\ op  \in [Threads -> Ops]
  /\ arg \in [Threads -> Jobs \union {NoJob}]
  /\ ret \in Statuses
  /\ got \in [Threads -> Jobs \union {NoJob}]
  /\ destroying \in BOOLEAN

(***************************************************************************)
(* The ring buffer is in shape: size jobs lie between head and tail, none  *)
(* of their slots was left unwritten, and size says how far tail is ahead  *)
(* of head (both 0 apart when empty and when full).                        *)
(***************************************************************************)
RingShape ==
  /\ tail = (head + size) % Capacity
  /\ \A i \in 0 .. size - 1 : items[(head + i) % Capacity] \in Jobs

AwakePoppers == {t \in Threads : op[t] = "pop" /\ t \notin not_empty}
AwakePushers == {t \in Threads : op[t] = "push" /\ t \notin not_full}

(***************************************************************************)
(* No lost wake-up: while a consumer sleeps, every stored job has a woken  *)
(* consumer on its way to it; while a producer sleeps, every free slot has *)
(* a woken producer; and nobody sleeps on a closed queue.  push, try_push, *)
(* pop and cancel_pending signal one thread each, so a missing signal or a *)
(* close that wakes one side only leaves a thread asleep next to work.     *)
(***************************************************************************)
NoLostWakeup ==
  /\ not_empty # {} => size <= Cardinality(AwakePoppers)
  /\ not_full # {} => Capacity - size <= Cardinality(AwakePushers)
  /\ closed => not_empty = {} /\ not_full = {}

Contents == [i \in 1 .. size |-> items[(head + i - 1) % Capacity]]

BQ == INSTANCE BoundedQueue WITH queue <- Contents, open <- (ready /\ ~closed)

(***************************************************************************)
(* The ring buffer with its wait loops implements the closable FIFO.       *)
(***************************************************************************)
RefinesBoundedQueue == BQ!Spec
=============================================================================
