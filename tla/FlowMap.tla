------------------------------- MODULE FlowMap -------------------------------
(***************************************************************************)
(* What the flow map of os/sys/hash-map.c promises to master-routing.c: a  *)
(* map from flow numbers to values that holds at most Size flows, in which *)
(* a flow keeps its latest value and an insertion fails only when there is *)
(* no room for a new flow.                                                 *)
(***************************************************************************)
EXTENDS Naturals, FiniteSets

CONSTANTS
  Key,             \* flow numbers
  Val,             \* receivers, or packet numbers
  Size             \* HASH_MAP_SIZE

VARIABLES
  map,             \* the flows present, with their values
  result           \* what the last insertion returned

vars == <<map, result>>

Init == map = [k \in {} |-> 0] /\ result = 1

Insert(k, v) ==
  IF k \in DOMAIN map \/ Cardinality(DOMAIN map) < Size
  THEN /\ map' = [j \in DOMAIN map \cup {k} |-> IF j = k THEN v ELSE map[j]]
       /\ result' = 1
  ELSE UNCHANGED map /\ result' = 0

Clear == map' = [k \in {} |-> 0] /\ UNCHANGED result

Next == Clear \/ \E k \in Key, v \in Val : Insert(k, v)

Spec == Init /\ [][Next]_vars
=============================================================================
