------------------------------ MODULE CondVar ------------------------------
(***************************************************************************)
(* POSIX condition variables as the server uses them.  A condition         *)
(* variable is the set of threads asleep on it; pthread_cond_wait adds the *)
(* caller and gives up the mutex in one step; a thread that is no longer   *)
(* in the set runs on when it gets the mutex back.                         *)
(***************************************************************************)

\* pthread_cond_signal: one sleeper, if there is one, leaves the set.  POSIX
\* does not say which one.
Signalled(cv) == IF cv = {} THEN {{}} ELSE {cv \ {t} : t \in cv}

\* pthread_cond_broadcast: all of them leave.
Broadcast == {}
=============================================================================
