------------------------------ MODULE Dictionary ------------------------------
(***************************************************************************)
(* What a dictionary of options promises: a value for each of some keys.   *)
(* Module Dict, the growing array of iore_dict.c, implements this.         *)
(***************************************************************************)

CONSTANTS
  Key,
  Val,
  NULL \* what a key that is not there is read as

VARIABLES
  map, \* the value of each key that is there
  got  \* the value read last

Empty == [k \in {} |-> NULL]

Set(k, v) ==
  /\ map' = [x \in DOMAIN map \cup {k} |-> IF x = k THEN v ELSE map[x]]
  /\ UNCHANGED got

Remove(k) ==
  /\ map' = [x \in DOMAIN map \ {k} |-> map[x]]
  /\ UNCHANGED got

Get(k) ==
  /\ got' = IF k \in DOMAIN map THEN map[k] ELSE NULL
  /\ UNCHANGED map

Clear == map' = Empty /\ UNCHANGED got

Init == map = Empty /\ got = NULL

Next ==
  \/ \E k \in Key : Remove(k) \/ Get(k) \/ \E v \in Val : Set(k, v)
  \/ Clear

Spec == Init /\ [][Next]_<<map, got>>

===============================================================================
