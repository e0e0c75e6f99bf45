------------------------------- MODULE HashMap -------------------------------
(***************************************************************************)
(* The fixed-size hash map of os/sys/hash-map.c, in which master-routing.c *)
(* keeps the next hop and the last packet number of every flow.            *)
(*                                                                         *)
(* A key is stored at its home position if that is free, and otherwise at  *)
(* the next free position, linked to the end of the chain that starts at   *)
(* the home position; chains of different homes grow together.             *)
(***************************************************************************)
EXTENDS Naturals, FiniteSets

CONSTANTS
  Key,             \* flow numbers: positive, 0 marks a free entry
  Val,             \* values stored
  Size,            \* HASH_MAP_SIZE
  KeyModulus       \* 2^8: hash_code takes the key as a uint8_t

ASSUME HashMapAssumption ==
  /\ Key \subseteq Nat \ {0}
  /\ Size \in Nat \ {0}
  /\ KeyModulus \in Nat \ {0}

Pos == 0 .. Size - 1
NULL == Size       \* no position

VARIABLES
  list,            \* list[p]: key, val and next of the entry at position p
  numberEntries,   \* number_entries
  result           \* what the last hash_map_insert returned

vars == <<list, numberEntries, result>>

Free == [key |-> 0, val |-> 0, next |-> NULL]

Init ==
  /\ list = [p \in Pos |-> Free]
  /\ numberEntries = 0
  /\ result = 1

HashCode(k) == (k % KeyModulus) % Size

\* The positions met from p along next: none is met twice unless the chain
\* runs in a circle, so Size steps see it all.
Walk(p) ==
  LET at[i \in 0 .. Size] ==
        IF i = 0 THEN p
        ELSE IF at[i - 1] = NULL THEN NULL ELSE list[at[i - 1]].next
  IN at
Chain(k) == { Walk(HashCode(k))[i] : i \in 0 .. Size } \ {NULL}

Holds(k) == \E p \in Chain(k) : list[p].key = k
Place(k) == CHOOSE p \in Chain(k) : list[p].key = k
Last(k) == CHOOSE p \in Chain(k) : list[p].next = NULL

(***************************************************************************)
(* The two loops over pos2: the first free position from the home of k     *)
(* upwards, then from 0.                                                   *)
(***************************************************************************)
Distance(k, p) == (p + Size - HashCode(k)) % Size
FirstFree(k) ==
  CHOOSE p \in Pos : /\ list[p].key = 0
                     /\ \A q \in Pos : list[q].key = 0 => Distance(k, p) <= Distance(k, q)

\* hash_map_lookup; 0 for a key that is not there.
Lookup(k) == IF Holds(k) THEN list[Place(k)].val ELSE 0

(***************************************************************************)
(* hash_map_insert, by its four outcomes.                                  *)
(***************************************************************************)
InsertAtHome(k, v) ==
  /\ list[HashCode(k)].key = 0
  /\ list' = [list EXCEPT ![HashCode(k)].key = k, ![HashCode(k)].val = v]
  /\ numberEntries' = numberEntries + 1
  /\ result' = 1

Overwrite(k, v) ==
  /\ list[HashCode(k)].key # 0
  /\ Holds(k)
  /\ list' = [list EXCEPT ![Place(k)].val = v]
  /\ result' = 1
  /\ UNCHANGED numberEntries

\* Faulty variants: the new entry linked from the home of the key in place of the
\* end of the chain; linked back to the home, which closes a circle.
LinkHome(k, v) ==
  /\ list[HashCode(k)].key # 0
  /\ ~Holds(k)
  /\ numberEntries < Size
  /\ LET p == FirstFree(k)
     IN list' = [list EXCEPT ![p].key = k, ![p].val = v, ![HashCode(k)].next = p]
  /\ numberEntries' = numberEntries + 1
  /\ result' = 1
LinkBack(k, v) ==
  /\ list[HashCode(k)].key # 0
  /\ ~Holds(k)
  /\ numberEntries < Size
  /\ LET p == FirstFree(k)
     IN list' = [list EXCEPT ![p] = [key |-> k, val |-> v, next |-> HashCode(k)],
                             ![Last(k)].next = p]
  /\ numberEntries' = numberEntries + 1
  /\ result' = 1

Link(k, v) ==
  /\ list[HashCode(k)].key # 0
  /\ ~Holds(k)
  /\ numberEntries < Size
  /\ LET p == FirstFree(k)
     IN list' = [list EXCEPT ![p].key = k, ![p].val = v, ![Last(k)].next = p]
  /\ numberEntries' = numberEntries + 1
  /\ result' = 1

Refuse(k, v) ==
  /\ list[HashCode(k)].key # 0
  /\ ~Holds(k)
  /\ numberEntries >= Size
  /\ result' = 0
  /\ UNCHANGED <<list, numberEntries>>

\* hash_map_clear_table
Clear ==
  /\ list' = [p \in Pos |-> Free]
  /\ numberEntries' = 0
  /\ UNCHANGED result

Insert(k, v) ==
  InsertAtHome(k, v) \/ Overwrite(k, v) \/ Link(k, v) \/ Refuse(k, v)

Next == Clear \/ \E k \in Key, v \in Val : Insert(k, v)

Spec == Init /\ [][Next]_vars

-----------------------------------------------------------------------------
(***************************************************************************)
(* Every chain ends, so that the loops of hash_map_insert and              *)
(* hash_map_lookup do, which have no other bound than a next of NULL.      *)
(***************************************************************************)
ChainsEnd == \A p \in Pos : Walk(p)[Size] = NULL

(***************************************************************************)
(* The table behaves as the map it stands for: what was inserted is found  *)
(* with its latest value however the chains of several homes have grown    *)
(* together, and an insertion fails only when Size other flows are there.  *)
(***************************************************************************)
Present == { k \in Key : Holds(k) }

Promise == INSTANCE FlowMap WITH map <- [k \in Present |-> Lookup(k)]
IsFlowMap == Promise!Spec
=============================================================================
