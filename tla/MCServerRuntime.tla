--------------------------- MODULE MCServerRuntime ---------------------------
(***************************************************************************)
(* ServerRuntime for TLC: clients and workers are model values.            *)
(***************************************************************************)
EXTENDS ServerRuntime
=============================================================================
