--------------------------- MODULE MCLockManager ---------------------------
(***************************************************************************)
(* LockManager for TLC: the threads are model values.                      *)
(***************************************************************************)
EXTENDS LockManager
=============================================================================
