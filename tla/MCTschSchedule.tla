--------------------------- MODULE MCTschSchedule ---------------------------
(***************************************************************************)
(* The schedule shipped with the repository (Schedules/                    *)
(* loglistener_21.03.2021.c): five nodes, flow 1 from 5 over 3 to 2 and    *)
(* flow 2 from 4 to 3.                                                     *)
(***************************************************************************)
EXTENDS TschSchedule

\* A link {flow, send_receive, timeslot, channel offset} to a neighbour.
Cell(flow, send_receive, slot, to) ==
  [ frame |-> flow, slot |-> slot, channel |-> 0, to |-> NbrQueue(to),
    options |-> CASE send_receive = 1 -> {"tx"}
                  [] send_receive = 2 -> {"rx"}
                  [] send_receive = 3 -> {"tx", "rx"} ]

Shipped ==
  [n \in Node |->
    CASE n = 4 -> << Cell(2, 1, 34, 3), Cell(2, 1, 35, 3) >>
      [] n = 3 -> << Cell(1, 3, 37, 2), Cell(1, 3, 38, 2), Cell(1, 1, 39, 2),
                     Cell(2, 2, 34, 4), Cell(2, 2, 35, 4), Cell(1, 2, 36, 5) >>
      [] n = 5 -> << Cell(1, 1, 36, 3), Cell(1, 1, 37, 3), Cell(1, 1, 38, 3) >>
      [] n = 2 -> << Cell(1, 2, 37, 3), Cell(1, 2, 38, 3), Cell(1, 2, 39, 3) >>
      [] n = 1 -> << >>]

\* available_slot_matrix
Matrix == [n \in Node |-> [txSlot |-> n, txChannel |-> 0, rxSlot |-> 34 - n, rxChannel |-> 0]]

\* Node 3 has a choice of parents, the coordinator needs none.
Neighbours == [n \in Node |-> CASE n = 1 -> {} [] n = 2 -> {1} [] n = 3 -> {1, 2}
                             [] n = 4 -> {3} [] n = 5 -> {3}]

\* The shipped schedule has what the theorems ask for.
ASSUME ShippedFits == GeneratedFits /\ DiscoveryFits /\ BeaconsMove /\ CellsMeet /\ CountsFit
=============================================================================
