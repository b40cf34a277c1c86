----------------------------- MODULE LockManager -----------------------------
(***************************************************************************)
(* SERVER-CONCURRENCY/src/lock_manager.c: the lock that every SQL job goes *)
(* through.  One critical section of manager->mutex is one step: a thread  *)
(* that finds its condition false joins the wait set of a condition        *)
(* variable and leaves the mutex; a signal or broadcast takes threads out  *)
(* of the wait set, and each of them re-evaluates its loop condition in a  *)
(* later step of its own, in any order and after any other thread's step.  *)
(***************************************************************************)
EXTENDS Naturals, FiniteSets, CondVar

CONSTANTS Threads,   \* threads that call acquire and release
          Policy     \* manager->policy

Policies == {"readers_parallel", "serial_all"}
Modes    == {"none", "read", "write"}

ASSUME LockManagerAssumption ==
  /\ IsFiniteSet(Threads)
  /\ Policy \in Policies

VARIABLES ready, active_readers, waiting_writers, writer_active,
          readers_cv, writers_cv,   \* threads asleep on each condition variable
          call,                     \* where each thread is in the protocol
          mode                      \* the mode it passed to acquire

counters == <<active_readers, waiting_writers, writer_active>>
lockVars == <<ready, active_readers, waiting_writers, writer_active,
              readers_cv, writers_cv, call, mode>>

(***************************************************************************)
(* call[t]: "out" before acquire and after release, "reader" and "writer"  *)
(* inside the wait loop of the respective branch (asleep if in the wait    *)
(* set, else woken and about to re-check), "in" after acquire returned.    *)
(***************************************************************************)
Places == {"out", "reader", "writer", "in"}

effective_lock_mode(m) ==
  IF m = "none" THEN "none"
  ELSE IF Policy = "serial_all" THEN "write" ELSE m

\* Both functions return at once on a manager that is not ready.
Governing(m) == IF ready THEN effective_lock_mode(m) ELSE "none"

\* Variants a faulty lock_manager.c could have; each is the body of a mutant.
ReadBlocked_IgnoresQueue  == writer_active
WriteBlocked_IgnoresReaders == writer_active

ReadBlocked  == writer_active \/ waiting_writers > 0
WriteBlocked == writer_active \/ active_readers > 0
-----------------------------------------------------------------------------
Init ==
  /\ ready = FALSE
  /\ active_readers = 0 /\ waiting_writers = 0 /\ writer_active = FALSE
  /\ readers_cv = {} /\ writers_cv = {}
  /\ call = [t \in Threads |-> "out"]
  /\ mode = [t \in Threads |-> "none"]

\* concurrency_lock_manager_init: the structure zeroed, then ready.
InitManager ==
  /\ ~ready
  /\ ready' = TRUE
  /\ active_readers' = 0 /\ waiting_writers' = 0 /\ writer_active' = FALSE
  /\ readers_cv' = {} /\ writers_cv' = {}
  /\ UNCHANGED <<call, mode>>

\* concurrency_lock_manager_destroy.
DestroyManager ==
  /\ ready
  /\ ready' = FALSE
  /\ active_readers' = 0 /\ waiting_writers' = 0 /\ writer_active' = FALSE
  /\ UNCHANGED <<readers_cv, writers_cv, call, mode>>

\* acquire with nothing to lock: mode NONE, or the manager is not ready.
AcquireNothing(t, m) ==
  /\ call[t] = "out"
  /\ Governing(m) = "none"
  /\ call' = [call EXCEPT ![t] = "in"]
  /\ mode' = [mode EXCEPT ![t] = m]
  /\ UNCHANGED <<ready, counters, readers_cv, writers_cv>>

\* The end of the read branch: counted in, or asleep on readers_cv.
ReadLoop(t) ==
  IF ReadBlocked
    THEN /\ readers_cv' = readers_cv \union {t}
         /\ call' = [call EXCEPT ![t] = "reader"]
         /\ UNCHANGED counters
    ELSE /\ active_readers' = active_readers + 1
         /\ call' = [call EXCEPT ![t] = "in"]
         /\ UNCHANGED <<waiting_writers, writer_active, readers_cv>>

AcquireRead(t, m) ==
  /\ call[t] = "out"
  /\ Governing(m) = "read"
  /\ ReadLoop(t)
  /\ mode' = [mode EXCEPT ![t] = m]
  /\ UNCHANGED <<ready, writers_cv>>

\* The end of the write branch, with `waiting` writers counted so far, the
\* caller included.
WriteLoop_KeepsCount(t, waiting) ==
  IF WriteBlocked
    THEN /\ writers_cv' = writers_cv \union {t}
         /\ call' = [call EXCEPT ![t] = "writer"]
         /\ waiting_writers' = waiting
         /\ UNCHANGED <<active_readers, writer_active>>
    ELSE /\ waiting_writers' = waiting
         /\ writer_active' = TRUE
         /\ call' = [call EXCEPT ![t] = "in"]
         /\ UNCHANGED <<active_readers, writers_cv>>

WriteLoop(t, waiting) ==
  IF WriteBlocked
    THEN /\ writers_cv' = writers_cv \union {t}
         /\ call' = [call EXCEPT ![t] = "writer"]
         /\ waiting_writers' = waiting
         /\ UNCHANGED <<active_readers, writer_active>>
    ELSE /\ waiting_writers' = waiting - 1
         /\ writer_active' = TRUE
         /\ call' = [call EXCEPT ![t] = "in"]
         /\ UNCHANGED <<active_readers, writers_cv>>

AcquireWrite_Uncounted(t, m) ==
  /\ call[t] = "out"
  /\ Governing(m) = "write"
  /\ WriteLoop(t, waiting_writers)
  /\ mode' = [mode EXCEPT ![t] = m]
  /\ UNCHANGED <<ready, readers_cv>>

AcquireWrite(t, m) ==
  /\ call[t] = "out"
  /\ Governing(m) = "write"
  /\ WriteLoop(t, waiting_writers + 1)
  /\ mode' = [mode EXCEPT ![t] = m]
  /\ UNCHANGED <<ready, readers_cv>>

Acquire(t, m) == AcquireNothing(t, m) \/ AcquireRead(t, m) \/ AcquireWrite(t, m)

\* A thread woken on readers_cv, or on writers_cv, has the mutex again and
\* evaluates its loop condition.
RecheckRead(t) ==
  /\ call[t] = "reader"
  /\ t \notin readers_cv
  /\ ReadLoop(t)
  /\ UNCHANGED <<ready, writers_cv, mode>>

RecheckWrite(t) ==
  /\ call[t] = "writer"
  /\ t \notin writers_cv
  /\ WriteLoop(t, waiting_writers)
  /\ UNCHANGED <<ready, readers_cv, mode>>

Recheck(t) == RecheckRead(t) \/ RecheckWrite(t)

\* pthread_cond_wait may return although nobody signalled.
SpuriousWake(t) ==
  /\ \/ t \in readers_cv /\ readers_cv' = readers_cv \ {t} /\ UNCHANGED writers_cv
     \/ t \in writers_cv /\ writers_cv' = writers_cv \ {t} /\ UNCHANGED readers_cv
  /\ UNCHANGED <<ready, counters, call, mode>>

\* A release that never wakes the readers; the body of a mutant.
WakeNext_NoBroadcast ==
  IF waiting_writers > 0
    THEN writers_cv' \in Signalled(writers_cv) /\ UNCHANGED readers_cv
    ELSE UNCHANGED <<readers_cv, writers_cv>>

\* Who is woken when the lock falls free: one writer if any is counted as
\* waiting, otherwise every reader.
WakeNext ==
  IF waiting_writers > 0
    THEN writers_cv' \in Signalled(writers_cv) /\ UNCHANGED readers_cv
    ELSE readers_cv' = Broadcast /\ UNCHANGED writers_cv

\* release returns; its argument goes out of scope.
Leave(t) ==
  /\ call' = [call EXCEPT ![t] = "out"]
  /\ mode' = [mode EXCEPT ![t] = "none"]

ReleaseNothing(t) ==
  /\ call[t] = "in"
  /\ Governing(mode[t]) = "none"
  /\ Leave(t)
  /\ UNCHANGED <<ready, counters, readers_cv, writers_cv>>

ReleaseRead(t) ==
  /\ call[t] = "in"
  /\ Governing(mode[t]) = "read"
  /\ active_readers' = IF active_readers > 0 THEN active_readers - 1 ELSE 0
  /\ IF active_readers' = 0 THEN WakeNext ELSE UNCHANGED <<readers_cv, writers_cv>>
  /\ Leave(t)
  /\ UNCHANGED <<ready, waiting_writers, writer_active>>

ReleaseWrite(t) ==
  /\ call[t] = "in"
  /\ Governing(mode[t]) = "write"
  /\ writer_active' = FALSE
  /\ WakeNext
  /\ Leave(t)
  /\ UNCHANGED <<ready, active_readers, waiting_writers>>

Release(t) == ReleaseNothing(t) \/ ReleaseRead(t) \/ ReleaseWrite(t)

\* The pool initialises the manager before it starts a worker and destroys
\* it after it joined the last one.
Quiescent == \A t \in Threads : call[t] = "out"

ThreadStep(t) ==
  \/ \E m \in Modes : Acquire(t, m)
  \/ Recheck(t)
  \/ SpuriousWake(t)
  \/ Release(t)

Next ==
  \/ Quiescent /\ InitManager
  \/ Quiescent /\ DestroyManager
  \/ \E t \in Threads : ThreadStep(t)

Spec == Init /\ [][Next]_lockVars

(***************************************************************************)
(* Fairness: a woken thread gets the mutex again (it is only ever held for *)
(* a bounded critical section), and whoever is inside leaves: the callers  *)
(* release after one bounded SQL execution.  Nothing is assumed about      *)
(* arrivals, spurious wake-ups, init or destroy.                           *)
(***************************************************************************)
Fairness == \A t \in Threads : WF_lockVars(Recheck(t)) /\ WF_lockVars(Release(t))

FairSpec == Spec /\ Fairness
-----------------------------------------------------------------------------
(***************************************************************************)
(* Every variable stays in its type; in particular the unsigned counters   *)
(* never go below zero.                                                    *)
(***************************************************************************)
TypeOK ==
  /\ ready \in BOOLEAN
  /\ active_readers \in Nat
  /\ waiting_writers \in Nat
  /\ writer_active \in BOOLEAN
  /\ readers_cv \in SUBSET Threads
  /\ writers_cv \in SUBSET Threads
  /\ call \in [Threads -> Places]
  /\ mode \in [Threads -> Modes]

\* Threads between a return of acquire and the call of release that hold
\* the lock shared, that hold it alone, and that queue for it.
Readers == {t \in Threads : call[t] = "in" /\ Governing(mode[t]) = "read"}
Writers == {t \in Threads : call[t] = "in" /\ Governing(mode[t]) = "write"}
Queued  == {t \in Threads : call[t] = "writer"}

(***************************************************************************)
(* The three counters of lock_manager.c say exactly who is inside and who  *)
(* queues, whatever the order of arrivals, wake-ups and releases: the      *)
(* decisions of acquire and release rest on nothing else.                  *)
(***************************************************************************)
CountersAgree ==
  /\ active_readers = Cardinality(Readers)
  /\ writer_active <=> Writers # {}
  /\ waiting_writers = Cardinality(Queued)

(***************************************************************************)
(* Two callers that both asked for a lock are between acquire and release  *)
(* together only when both asked to read and the policy lets readers run   *)
(* in parallel.  With serial_all, which the server uses, never.            *)
(***************************************************************************)
Exclusion ==
  ready =>
    \A t, u \in Threads :
      (/\ t # u
       /\ call[t] = "in" /\ mode[t] # "none"
       /\ call[u] = "in" /\ mode[u] # "none")
      => Policy = "readers_parallel" /\ mode[t] = "read" /\ mode[u] = "read"

(***************************************************************************)
(* No lost wake-up.  When the lock is free and a writer sleeps, a writer   *)
(* is awake that will take or pass on the lock; and readers sleep only     *)
(* while a writer is inside or queued, whose release will wake them.  A    *)
(* release that signals the wrong condition variable, or signals nobody,   *)
(* leaves a sleeper behind that this forbids.                              *)
(***************************************************************************)
NoLostWakeup ==
  /\ (writers_cv # {} /\ ~WriteBlocked) => Queued \ writers_cv # {}
  /\ readers_cv # {} => ReadBlocked

RW == INSTANCE RWLock WITH readers <- Readers, writers <- Writers, queued <- Queued

(***************************************************************************)
(* The lock manager implements the readers-writer lock with writer         *)
(* preference of RWLock.                                                   *)
(***************************************************************************)
RefinesRWLock == RW!Spec

(***************************************************************************)
(* Every acquire returns once arrivals cease: after the last new call, no  *)
(* thread waits forever.  Without the premise this is false: two writers   *)
(* that take turns keep waiting_writers above zero, and a reader asleep.   *)
(***************************************************************************)
ArrivalsCease ==
  <>[][\A t \in Threads : call[t] = "out" => call'[t] = "out"]_lockVars

AcquireReturns ==
  ArrivalsCease =>
    \A t \in Threads : (call[t] \in {"reader", "writer"}) ~> (call[t] = "in")
=============================================================================
