----------------------------- MODULE MCJobQueue -----------------------------
(***************************************************************************)
(* JobQueue for TLC.  The threads are interchangeable and so are the jobs; *)
(* the run checks no liveness, so symmetry is sound.                       *)
(***************************************************************************)
EXTENDS JobQueue, TLC

Symmetry == Permutations(Threads) \union Permutations(Jobs)
=============================================================================
