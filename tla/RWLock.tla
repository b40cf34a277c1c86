------------------------------- MODULE RWLock -------------------------------
(***************************************************************************)
(* What concurrency_lock_manager_acquire/release promise their callers: a  *)
(* readers-writer lock with writer preference.  Readers share the lock, a  *)
(* writer has it alone, a writer queues only when the lock is taken, and   *)
(* while a writer is queued no reader enters.  Mutexes, condition          *)
(* variables and wake-ups do not appear here: LockManager implements this. *)
(***************************************************************************)
CONSTANT Threads

VARIABLES readers,   \* threads that hold the lock shared
          writers,   \* the thread, if any, that holds it exclusively
          queued     \* writers that asked and were not served yet

rwVars == <<readers, writers, queued>>

Free(t) == t \notin readers /\ t \notin writers

Init == readers = {} /\ writers = {} /\ queued = {}

EnterRead(t) ==
  /\ Free(t)
  /\ t \notin queued
  /\ writers = {}
  /\ queued = {}
  /\ readers' = readers \union {t}
  /\ UNCHANGED <<writers, queued>>

QueueWrite(t) ==
  /\ Free(t)
  /\ t \notin queued
  /\ readers \union writers # {}
  /\ queued' = queued \union {t}
  /\ UNCHANGED <<readers, writers>>

EnterWrite(t) ==
  /\ Free(t)
  /\ readers = {}
  /\ writers = {}
  /\ writers' = {t}
  /\ queued' = queued \ {t}
  /\ UNCHANGED readers

LeaveRead(t) ==
  /\ t \in readers
  /\ readers' = readers \ {t}
  /\ UNCHANGED <<writers, queued>>

LeaveWrite(t) ==
  /\ t \in writers
  /\ writers' = {}
  /\ UNCHANGED <<readers, queued>>

Next ==
  \E t \in Threads :
    EnterRead(t) \/ QueueWrite(t) \/ EnterWrite(t) \/ LeaveRead(t) \/ LeaveWrite(t)

Spec == Init /\ [][Next]_rwVars
=============================================================================
