----------------------------- MODULE MCMasterFlow -----------------------------
(***************************************************************************)
(* An instance of MasterFlow for TLC, after the generated schedule         *)
(* Master/Schedules/loglistener_21.03.2021.c: flow 1 goes from 5 over 3 to *)
(* 2 as there, in a shorter slotframe; flow 2, from 4 to 3 there, goes on  *)
(* to 2, so that the flows share their relay and their receiver. Flow 2    *)
(* has half the period, and two windows in the slotframe.                  *)
(***************************************************************************)
EXTENDS MasterFlow, TLC

Parents == [n \in Node |-> IF n = 3 THEN 2 ELSE IF n = 2 THEN 2 ELSE 3]
Senders == (1 :> 5) @@ (2 :> 4)
Receivers == (1 :> 2) @@ (2 :> 2)
Routes == [n \in Node |-> CASE n = 5 -> (1 :> 3) @@ (2 :> NoNode)
                            [] n = 3 -> (1 :> 2) @@ (2 :> 2)
                            [] n = 4 -> (1 :> NoNode) @@ (2 :> 3)
                            [] OTHER -> (1 :> NoNode) @@ (2 :> NoNode)]
Cells == (0 :> [flow |-> BeaconQueue, tx |-> Node, rx |-> Node])
      @@ (1 :> [flow |-> 2, tx |-> {4}, rx |-> {3}])
      @@ (2 :> [flow |-> 2, tx |-> {3}, rx |-> {2}])
      @@ (3 :> [flow |-> 1, tx |-> {5}, rx |-> {3}])
      @@ (4 :> [flow |-> 1, tx |-> {5, 3}, rx |-> {3, 2}])
      @@ (5 :> [flow |-> 1, tx |-> {3}, rx |-> {2}])
      @@ (6 :> [flow |-> 2, tx |-> {4}, rx |-> {3}])
      @@ (7 :> [flow |-> 2, tx |-> {3}, rx |-> {2}])
FirstSlots == (1 :> <<3>>) @@ (2 :> <<1, 6>>)
LastSlots == (1 :> <<5>>) @@ (2 :> <<2, 7>>)

\* The slotframe before slot 32 was used by both flows, flow 2 after flow 1.
WindowsBefore == (1 :> [earliest |-> 27, ttl |-> 29]) @@ (2 :> [earliest |-> 30, ttl |-> 31])
FlowsBefore == (2 :> BeaconQueue) @@ (3 :> 2) @@ (4 :> 2) @@ (5 :> 1)

\* What the theorems on windows ask of the slotframe.
ASSUME SlotframeIsShort == 4 * (SfSize - 1) <= SlotModulus

\* What the theorem on vectors in the queues of flows asks of the network.
ASSUME SendersOnlySend == WindowsInParts({6}) /\ SendersDoNotRelay

\* What the theorem on packets that are kept asks of the network.
ASSUME RoutesEnd == RoutesLead /\ WindowsFit
=============================================================================
