---------------------------- MODULE MCThreadPool ----------------------------
(***************************************************************************)
(* ThreadPool for TLC: three jobs, of which one asks for no lock, as the   *)
(* server's jobs do, one to read and one to write.                         *)
(***************************************************************************)
EXTENDS ThreadPool, TLC

CONSTANTS j1, j2, j3

MixedModes == (j1 :> "none" @@ j2 :> "read" @@ j3 :> "write")
=============================================================================
