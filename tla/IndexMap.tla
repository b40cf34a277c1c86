------------------------------ MODULE IndexMap ------------------------------
(***************************************************************************)
(* What table_index.c needs of its B+ tree: a finite map from ids to row   *)
(* offsets that takes a new key once, refuses a key it has, and can be     *)
(* emptied.  An insert that runs out of memory leaves nothing to rely on;  *)
(* the caller must then empty the map.                                     *)
(***************************************************************************)
CONSTANTS Keys, Offsets   \* Offsets[k]: the offsets k may be given

VARIABLES map,
          state,    \* "good", or "broken" by an insert that lacked memory
          answer    \* what the last insert returned

mapVars == <<map, state, answer>>

Empty == [k \in {} |-> k]

NoAnswer == [status |-> "none"]
Said(status, k, v) == [status |-> status, key |-> k, value |-> v]

Init == map = Empty /\ state = "good" /\ answer = NoAnswer

Insert(k, v) ==
  /\ answer' = Said("ok", k, v)
  /\ state = "good" /\ k \notin DOMAIN map
  /\ map' = [j \in DOMAIN map \cup {k} |-> IF j = k THEN v ELSE map[j]]
  /\ UNCHANGED state

Refuse(k, v) ==
  /\ answer' = Said("duplicate", k, v)
  /\ state = "good" /\ k \in DOMAIN map
  /\ UNCHANGED <<map, state>>

Break(k, v) ==
  /\ answer' = Said("memory", k, v)
  /\ state = "good" /\ k \notin DOMAIN map
  /\ map' = Empty /\ state' = "broken"

Clear == answer' = NoAnswer /\ state' = "good" /\ map' = Empty

Next ==
  \/ Clear
  \/ \E k \in Keys : \E v \in Offsets[k] : Insert(k, v) \/ Refuse(k, v) \/ Break(k, v)

Spec == Init /\ [][Next]_mapVars
=============================================================================
