----------------------------- MODULE ThreadPool -----------------------------
(***************************************************************************)
(* SERVER-CONCURRENCY/src/thread_pool.c, composed with the job queue and   *)
(* the lock manager it owns: the workers' loop, submission from any thread *)
(* while a shutdown may be under way, shutdown in both modes, destroy, and *)
(* an init that fails half-way.  The queue and the lock are the JobQueue   *)
(* and LockManager modules step by step, so every interleaving of their    *)
(* critical sections with the pool's own is explored.                      *)
(***************************************************************************)
EXTENDS Naturals, FiniteSets, Sequences

CONSTANTS Workers,      \* worker threads, pool->workers
          Jobs,         \* jobs; each is submitted once, by a thread of its own
          Controller,   \* the thread that inits, shuts down and destroys
          Capacity,     \* queue_capacity
          Policy,       \* lock_policy
          LockMode,     \* job.lock_mode of each job
          NoJob

Threads == Workers \union Jobs \union {Controller}

ASSUME ThreadPoolAssumption ==
  /\ Workers # {}
  /\ Workers \intersect Jobs = {}
  /\ Controller \notin Workers \union Jobs
  /\ LockMode \in [Jobs -> {"none", "read", "write"}]
  /\ Capacity \in Nat \ {0}
  /\ NoJob \notin Jobs

VARIABLES
  \* the queue
  queue_ready, items, head, tail, size, closed, not_empty, not_full,
  op, arg, ret, got, destroying,
  \* the lock manager
  lock_manager_ready, active_readers, waiting_writers, writer_active,
  readers_cv, writers_cv, call, mode,
  \* the pool
  accepting_jobs, joined,
  phase,        \* how far the controller is in init, shutdown and destroy
  stop_mode,    \* the mode shutdown was called with
  worker,       \* where each worker is in worker_main
  submitter,    \* where the thread that submits each job is
  started,      \* how often each job's run callback was entered
  finished,     \* how often concurrency_job_finish was called for it
  result        \* with which result, last

queueVars == <<queue_ready, items, head, tail, size, closed, not_empty, not_full,
               op, arg, ret, got, destroying>>
lockVars  == <<lock_manager_ready, active_readers, waiting_writers, writer_active,
               readers_cv, writers_cv, call, mode>>
jobVars   == <<started, finished, result>>
ctlVars   == <<accepting_jobs, joined, phase, stop_mode>>
vars      == <<queueVars, lockVars, ctlVars, worker, submitter, jobVars>>

Q == INSTANCE JobQueue WITH ready <- queue_ready
L == INSTANCE LockManager WITH ready <- lock_manager_ready, Threads <- Workers

(***************************************************************************)
(* phase: "raw" before init; "creating" workers; "serving"; in shutdown    *)
(* "closing" the queue, "cancelling" and "joining"; "stopped" after it     *)
(* returned; "freeing" in destroy; "gone".  shutdown_started is            *)
(* phase \notin {"raw", "creating", "serving"}.                            *)
(***************************************************************************)
Phases == {"raw", "creating", "serving", "closing", "cancelling", "joining",
           "stopped", "freeing", "gone"}
Results == {"none", "ok", "failed", "cancelled"}

Init ==
  /\ Q!Init
  /\ L!Init
  /\ accepting_jobs = FALSE /\ joined = FALSE
  /\ phase = "raw" /\ stop_mode = "none"
  /\ worker = [w \in Workers |-> "unborn"]
  /\ submitter = [j \in Jobs |-> "new"]
  /\ started = [j \in Jobs |-> 0]
  /\ finished = [j \in Jobs |-> 0]
  /\ result = [j \in Jobs |-> "none"]

\* concurrency_job_finish: notify with the result, then cleanup.
FinishJob(j, r) ==
  /\ finished' = [finished EXCEPT ![j] = @ + 1]
  /\ result' = [result EXCEPT ![j] = r]
  /\ UNCHANGED started
-----------------------------------------------------------------------------
(* The controller: init, shutdown, destroy.                                *)

PoolInit ==
  /\ phase = "raw"
  /\ L!InitManager
  /\ Q!InitQueue
  /\ accepting_jobs' = TRUE
  /\ phase' = "creating"
  /\ UNCHANGED <<joined, stop_mode, worker, submitter, jobVars>>

CreateWorker(w) ==
  /\ phase = "creating"
  /\ worker[w] = "unborn"
  /\ worker' = [worker EXCEPT ![w] = "loop"]
  /\ phase' = IF \A v \in Workers \ {w} : worker[v] # "unborn" THEN "serving" ELSE "creating"
  /\ UNCHANGED <<queueVars, lockVars, accepting_jobs, joined, stop_mode, submitter, jobVars>>

\* The first critical section of shutdown.  destroy calls it with
\* CANCEL_PENDING, and so does an init whose pthread_create failed.
BeginShutdown(m) ==
  /\ \/ phase = "serving"
     \/ phase = "creating" /\ m = "cancel_pending"
  /\ accepting_jobs' = FALSE
  /\ phase' = "closing"
  /\ stop_mode' = m
  /\ UNCHANGED <<queueVars, lockVars, joined, worker, submitter, jobVars>>

CloseQueue ==
  /\ phase = "closing"
  /\ Q!Close(Controller)
  /\ phase' = IF stop_mode = "cancel_pending" THEN "cancelling" ELSE "joining"
  /\ UNCHANGED <<lockVars, accepting_jobs, joined, stop_mode, worker, submitter, jobVars>>

CancelBegin ==
  /\ phase = "cancelling"
  /\ Q!CancelPending(Controller)
  /\ UNCHANGED <<lockVars, ctlVars, worker, submitter, jobVars>>

\* One pass of the cancel loop, in shutdown and in destroy.
CancelTake ==
  /\ Q!CancelTake(Controller)
  /\ UNCHANGED <<lockVars, ctlVars, worker, submitter, jobVars>>

CancelFinish ==
  /\ Q!CancelFinish(Controller)
  /\ FinishJob(arg[Controller], "cancelled")
  /\ UNCHANGED <<lockVars, ctlVars, worker, submitter>>

CancelDone ==
  /\ phase = "cancelling"
  /\ Q!CancelDone(Controller)
  /\ phase' = "joining"
  /\ UNCHANGED <<lockVars, accepting_jobs, joined, stop_mode, worker, submitter, jobVars>>

\* A shutdown that does not wait; the body of a mutant.
JoinWorkers_Skipped ==
  /\ phase = "joining"
  /\ joined' = TRUE
  /\ phase' = "stopped"
  /\ UNCHANGED <<queueVars, lockVars, accepting_jobs, stop_mode, worker, submitter, jobVars>>

\* pthread_join on every worker that was created.
JoinWorkers ==
  /\ phase = "joining"
  /\ \A w \in Workers : worker[w] \in {"unborn", "exited"}
  /\ joined' = TRUE
  /\ phase' = "stopped"
  /\ UNCHANGED <<queueVars, lockVars, accepting_jobs, stop_mode, worker, submitter, jobVars>>

\* destroy after shutdown: its own call of shutdown returns at once; then the
\* queue goes through its destroy.  No caller is inside submit any more: that
\* is the owner's duty, as for any object that is freed.
NobodySubmitting == \A j \in Jobs : submitter[j] \in {"new", "accepted", "refused"}

BeginDestroy ==
  /\ phase = "stopped"
  /\ NobodySubmitting
  /\ Q!Destroy(Controller)
  /\ phase' = "freeing"
  /\ UNCHANGED <<lockVars, accepting_jobs, joined, stop_mode, worker, submitter, jobVars>>

EndDestroy ==
  /\ phase = "freeing"
  /\ Q!DestroyDone(Controller)
  /\ L!DestroyManager
  /\ phase' = "gone"
  /\ joined' = FALSE
  /\ UNCHANGED <<accepting_jobs, stop_mode, worker, submitter, jobVars>>

ControllerStep ==
  \/ PoolInit
  \/ \E w \in Workers : CreateWorker(w)
  \/ \E m \in {"drain", "cancel_pending"} : BeginShutdown(m)
  \/ CloseQueue \/ CancelBegin \/ CancelTake \/ CancelFinish \/ CancelDone
  \/ JoinWorkers \/ BeginDestroy \/ EndDestroy
-----------------------------------------------------------------------------
(* Submission: accepting_jobs is read under state_mutex, and the queue is  *)
(* entered only after that mutex was released.                             *)

Published == phase \notin {"raw", "creating", "freeing"}

Submit(j) ==
  /\ Published
  /\ submitter[j] = "new"
  /\ submitter' = [submitter EXCEPT ![j] = IF accepting_jobs THEN "checked" ELSE "refused"]
  /\ UNCHANGED <<queueVars, lockVars, ctlVars, worker, jobVars>>

\* What the submitter knows when its call of the queue returned.
Outcome(j) ==
  IF op'[j] # "out" THEN "waiting"
  ELSE IF ret' = "ok" THEN "accepted" ELSE "refused"

\* concurrency_thread_pool_submit waits for room, try_submit does not.
EnterQueue(j) ==
  /\ submitter[j] = "checked"
  /\ Q!Push(j, j) \/ Q!TryPush(j, j)
  /\ submitter' = [submitter EXCEPT ![j] = Outcome(j)]
  /\ UNCHANGED <<lockVars, ctlVars, worker, jobVars>>

RecheckRoom(j) ==
  /\ Q!RecheckPush(j)
  /\ submitter' = [submitter EXCEPT ![j] = Outcome(j)]
  /\ UNCHANGED <<lockVars, ctlVars, worker, jobVars>>
-----------------------------------------------------------------------------
(* worker_main.                                                            *)

AfterPop(w) ==
  IF op'[w] # "out" THEN "loop"
  ELSE CASE ret' = "ok"     -> "assigned"
         [] ret' = "closed" -> "exited"
         [] OTHER           -> "loop"

PopJob(w) ==
  /\ worker[w] = "loop"
  /\ Q!Pop(w) \/ Q!RecheckPop(w)
  /\ worker' = [worker EXCEPT ![w] = AfterPop(w)]
  /\ UNCHANGED <<lockVars, ctlVars, submitter, jobVars>>

\* The run callback is entered when acquire returns.
EnterRun(w) ==
  started' = [started EXCEPT ![got[w]] = IF call'[w] = "in" THEN @ + 1 ELSE @]

AcquireLock(w) ==
  /\ worker[w] = "assigned"
  /\ L!Acquire(w, LockMode[got[w]])
  /\ worker' = [worker EXCEPT ![w] = "running"]
  /\ EnterRun(w)
  /\ UNCHANGED <<queueVars, ctlVars, submitter, finished, result>>

RecheckLock(w) ==
  /\ L!Recheck(w)
  /\ EnterRun(w)
  /\ UNCHANGED <<queueVars, ctlVars, worker, submitter, finished, result>>

ReleaseLock(w) ==
  /\ worker[w] = "running"
  /\ L!Release(w)
  /\ worker' = [worker EXCEPT ![w] = "ran"]
  /\ UNCHANGED <<queueVars, ctlVars, submitter, jobVars>>

\* Variants a faulty worker_main could have; each is the body of a mutant.
FinishRun_Forgets(w) ==
  /\ worker[w] = "ran"
  /\ Q!Forget(w)
  /\ worker' = [worker EXCEPT ![w] = "loop"]
  /\ UNCHANGED <<lockVars, ctlVars, submitter, jobVars>>

FinishRun_ReportsCancelled(w) ==
  /\ worker[w] = "ran"
  /\ FinishJob(got[w], IF accepting_jobs THEN "ok" ELSE "cancelled")
  /\ Q!Forget(w)
  /\ worker' = [worker EXCEPT ![w] = "loop"]
  /\ UNCHANGED <<lockVars, ctlVars, submitter>>

\* run_status decides the result; the job variable is cleared afterwards.
FinishRun(w) ==
  /\ worker[w] = "ran"
  /\ \E r \in {"ok", "failed"} : FinishJob(got[w], r)
  /\ Q!Forget(w)
  /\ worker' = [worker EXCEPT ![w] = "loop"]
  /\ UNCHANGED <<lockVars, ctlVars, submitter>>

WorkerStep(w) ==
  PopJob(w) \/ AcquireLock(w) \/ RecheckLock(w) \/ ReleaseLock(w) \/ FinishRun(w)

\* Condition variables may wake anybody at any time.
QueueSpurious(t) ==
  /\ Q!SpuriousWake(t)
  /\ UNCHANGED <<lockVars, ctlVars, worker, submitter, jobVars>>

LockSpurious(w) ==
  /\ L!SpuriousWake(w)
  /\ UNCHANGED <<queueVars, ctlVars, worker, submitter, jobVars>>

\* Everybody is done: the pool is gone and all jobs were offered.
Terminated ==
  /\ phase = "gone"
  /\ \A j \in Jobs : submitter[j] \in {"accepted", "refused"}
  /\ UNCHANGED vars

Next ==
  \/ ControllerStep
  \/ \E j \in Jobs : Submit(j) \/ EnterQueue(j) \/ RecheckRoom(j)
  \/ \E w \in Workers : WorkerStep(w)
  \/ \E t \in Threads : QueueSpurious(t)
  \/ \E w \in Workers : LockSpurious(w)
  \/ Terminated

Spec == Init /\ [][Next]_vars

(***************************************************************************)
(* Fairness: a worker that can run on does, and so do a submitter inside   *)
(* the queue and a controller inside shutdown.  A run callback is assumed  *)
(* to return.  Nobody has to submit, shut down or destroy, and spurious    *)
(* wake-ups are never needed.                                              *)
(***************************************************************************)
ShutdownStep ==
  CloseQueue \/ CancelBegin \/ CancelTake \/ CancelFinish \/ CancelDone \/ JoinWorkers

Fairness ==
  /\ \A w \in Workers : WF_vars(WorkerStep(w))
  /\ \A j \in Jobs : WF_vars(EnterQueue(j) \/ RecheckRoom(j))
  /\ WF_vars(ShutdownStep)

FairSpec == Spec /\ Fairness
-----------------------------------------------------------------------------
(***************************************************************************)
(* Every variable stays in its type; in particular no job is started or    *)
(* finished twice.                                                         *)
(***************************************************************************)
TypeOK ==
  /\ Q!TypeOK
  /\ L!TypeOK
  /\ accepting_jobs \in BOOLEAN /\ joined \in BOOLEAN
  /\ phase \in Phases
  /\ stop_mode \in {"none", "drain", "cancel_pending"}
  /\ worker \in [Workers -> {"unborn", "loop", "assigned", "running", "ran", "exited"}]
  /\ submitter \in [Jobs -> {"new", "checked", "waiting", "accepted", "refused"}]
  /\ started \in [Jobs -> 0 .. 1]
  /\ finished \in [Jobs -> 0 .. 1]
  /\ result \in [Jobs -> Results]

\* How many places hold job j: slots, workers, the cancel loop.
Copies(j) ==
  Cardinality({i \in 1 .. size : Q!Contents[i] = j})
  + Cardinality({w \in Workers : got[w] = j})
  + (IF arg[Controller] = j THEN 1 ELSE 0)

(***************************************************************************)
(* A job is never lost and never duplicated: once push or try_push said OK *)
(* it is in exactly one place (a slot of the queue, a worker, the cancel   *)
(* loop) until concurrency_job_finish was called for it exactly once, and  *)
(* a job that was refused is in none and is never finished by the pool.    *)
(***************************************************************************)
JobConservation ==
  \A j \in Jobs :
    Copies(j) + finished[j] = IF submitter[j] = "accepted" THEN 1 ELSE 0

(***************************************************************************)
(* A job is reported as cancelled exactly when its run callback was never  *)
(* entered, so a submitter may believe the result it is notified of.       *)
(***************************************************************************)
ResultHonest ==
  \A j \in Jobs :
    finished[j] = 1 => (result[j] = "cancelled" <=> started[j] = 0)

(***************************************************************************)
(* When shutdown has returned, no worker runs, every accepted job was      *)
(* finished, and after DRAIN every one of them was run; this also holds    *)
(* for a job whose submitter read accepting_jobs before the shutdown and   *)
(* entered the queue after it.                                             *)
(***************************************************************************)
ShutdownComplete ==
  phase \in {"stopped", "freeing", "gone"} =>
    /\ \A w \in Workers : worker[w] \in {"unborn", "exited"}
    /\ \A j \in Jobs : submitter[j] = "accepted" =>
         /\ finished[j] = 1
         /\ stop_mode = "drain" => started[j] = 1

(***************************************************************************)
(* The pool keeps the contract of its queue: init and destroy happen only  *)
(* with no other thread inside, and every step is one that JobQueue        *)
(* allows, so what holds of JobQueue holds inside the pool.                *)
(***************************************************************************)
KeepsQueueContract == Q!Spec

(***************************************************************************)
(* The same for the lock manager: no init or destroy while a worker is     *)
(* between acquire and release, and only steps of LockManager.             *)
(***************************************************************************)
KeepsLockContract == L!Spec

(***************************************************************************)
(* Every accepted job is eventually finished, through worker_main or the   *)
(* cancel loop, also one that slipped in as the shutdown began.            *)
(***************************************************************************)
AcceptedFinishes ==
  \A j \in Jobs : (submitter[j] = "accepted") ~> (finished[j] = 1)

(***************************************************************************)
(* A submit that waits for room returns: a worker makes room, or the       *)
(* close of a shutdown turns it away.                                      *)
(***************************************************************************)
SubmitReturns ==
  \A j \in Jobs : (submitter[j] = "waiting") ~> (submitter[j] \in {"accepted", "refused"})

(***************************************************************************)
(* A shutdown that was begun, in either mode, returns.                     *)
(***************************************************************************)
ShutdownReturns == (phase = "closing") ~> (phase = "stopped")
=============================================================================
