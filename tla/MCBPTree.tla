------------------------------ MODULE MCBPTree ------------------------------
(***************************************************************************)
(* BPTree for TLC: each key has an offset of its own, and key 2 may come a *)
(* second time with another one.                                           *)
(***************************************************************************)
EXTENDS BPTree

TwoForTwo == [k \in Keys |-> IF k = 2 THEN {20, 21} ELSE {10 * k}]
=============================================================================
