---------------------------- MODULE MasterCollect ----------------------------
(***************************************************************************)
(* Collection of the strength vectors at the coordinator, on top of the    *)
(* parents MasterRouting selects: master_routing_send_actual_data,         *)
(* on_received_actual_data and unicast_send of                             *)
(* os/net/master-routing/master-routing.c and the timer of                 *)
(* examples/master/master-unicast/master-unicast.c that drives them.       *)
(*                                                                         *)
(* A packet carries the strength vector of its origin, which no decision   *)
(* depends on, and the nodes it passed.  It is sent to the bestNode of the *)
(* moment and may be lost.  It may also arrive twice: unicast_send asks    *)
(* for one transmission (max_tx = 1), but when the acknowledgement is lost *)
(* the MAC layer grants more, from the TTL that the last flow packet left  *)
(* in the configuration.                                                   *)
(***************************************************************************)
EXTENDS MasterRouting, FiniteSets, Functions

CONSTANTS
  DeploymentCount, \* deployment_node_count: the number of nodes
  MaxSends,        \* bound: times the sending timers expire, all nodes together
  MaxRepeats,      \* bound: copies that lost acknowledgements leave, all together
  MaxRoute         \* bound: nodes a route can name

ASSUME CollectAssumption ==
  /\ IsFiniteSet(Node)
  /\ DeploymentCount = Cardinality(Node)
  /\ MaxSends \in Nat
  /\ MaxRepeats \in Nat
  /\ MaxRoute \in Nat \ {0}

VARIABLES
  data,            \* the data packets on their way
  sent,            \* sent[n]: the times the sending timer of n has expired
  repeated,        \* repeated[n]: copies made of packets of origin n (history variable)
  tracker,         \* the nodes n with node_rcvd_tracker[n] = 1
  rcvdCounter,     \* rcvd_actual_data_counter
  collected        \* how often "ALL ACTUAL DATA COLLECTED" was printed

dataVars == <<data, sent, repeated, tracker, rcvdCounter, collected>>
allVars == <<vars, dataVars>>

SendsSoFar == FoldFunction(+, 0, sent)
RepeatsSoFar == FoldFunction(+, 0, repeated)

\* nr tells the packets of one origin and their copies apart.
Packet == [to : Node \cup {NoNode}, route : Seq(Node), nr : Nat]
Origin(p) == p.route[1]

-----------------------------------------------------------------------------
CollectInit ==
  /\ Init
  /\ data = {}
  /\ sent = [n \in Node |-> 0]
  /\ repeated = [n \in Node |-> 0]
  /\ tracker = {}
  /\ rcvdCounter = 0
  /\ collected = 0

(***************************************************************************)
(* unicast_send: the packets on their way become rest and the new packet   *)
(* for the present bestNode of n, unless that one is lost.                 *)
(***************************************************************************)
UnicastSend(n, route, nr, rest) ==
  \/ data' = rest \cup {[to |-> bestNode[n], route |-> route, nr |-> nr]}
  \/ Lossy /\ data' = rest

\* Faulty variant: the vector is sent without a parent to send it to.
SendWithoutParent(n) ==
  /\ n # Coordinator
  /\ SendsSoFar < MaxSends
  /\ sent' = [sent EXCEPT ![n] = @ + 1]
  /\ UnicastSend(n, <<n>>, sent'[n] + repeated[n], data)
  /\ UNCHANGED <<vars, repeated, tracker, rcvdCounter, collected>>

(***************************************************************************)
(* The sending timer of n expires; without a parent nothing is sent.       *)
(***************************************************************************)
SendActualData(n) ==
  /\ n # Coordinator
  /\ SendsSoFar < MaxSends
  /\ sent' = [sent EXCEPT ![n] = @ + 1]
  /\ IF bestNode[n] # NoNode THEN UnicastSend(n, <<n>>, sent'[n] + repeated[n], data)
                             ELSE UNCHANGED data
  /\ UNCHANGED <<vars, repeated, tracker, rcvdCounter, collected>>

(***************************************************************************)
(* tsch_queue_packet_sent without an acknowledgement: in the queue of a    *)
(* flow, if the TTL that the packet took from the configuration seems to   *)
(* come, it is sent again.  The receiver knows one sequence number for     *)
(* each sender, and takes the copy for a new packet when another one of    *)
(* this sender came between (mac_sequence_is_duplicate).  From then on it  *)
(* is a packet of its own.                                                 *)
(***************************************************************************)
RepeatActualData(p) ==
  LET n == Origin(p)
  IN /\ Lossy
     /\ RepeatsSoFar < MaxRepeats
     /\ p \in data
     /\ repeated' = [repeated EXCEPT ![n] = @ + 1]
     /\ data' = data \cup {[p EXCEPT !.nr = sent[n] + repeated'[n]]}
     /\ UNCHANGED <<vars, sent, tracker, rcvdCounter, collected>>

(***************************************************************************)
(* on_received_actual_data at a node that is not the coordinator: the node *)
(* adds itself to the route and passes the packet on.                      *)
(***************************************************************************)
ForwardActualData(p) ==
  /\ p \in data
  /\ p.to \in Node \ {Coordinator}
  /\ Len(p.route) < MaxRoute
  /\ UnicastSend(p.to, Append(p.route, p.to), p.nr, data \ {p})
  /\ UNCHANGED <<vars, sent, repeated, tracker, rcvdCounter, collected>>

\* Faulty variants: every packet counts, whoever sent it; the entry of the
\* receiver is marked in place of the origin's.
CollectEveryPacket(p) ==
  /\ p \in data
  /\ p.to = Coordinator
  /\ data' = data \ {p}
  /\ IF rcvdCounter + 1 = DeploymentCount - 1
     THEN tracker' = {} /\ rcvdCounter' = 0 /\ collected' = collected + 1
     ELSE /\ tracker' = tracker \cup {Origin(p)}
          /\ rcvdCounter' = rcvdCounter + 1
          /\ UNCHANGED collected
  /\ UNCHANGED <<vars, sent, repeated>>

CollectMarksReceiver(p) ==
  /\ p \in data
  /\ p.to = Coordinator
  /\ data' = data \ {p}
  /\ tracker' = tracker \cup {p.to}
  /\ rcvdCounter' = rcvdCounter + 1
  /\ UNCHANGED <<vars, sent, repeated, collected>>

(***************************************************************************)
(* on_received_actual_data at the coordinator: the first packet of each    *)
(* origin counts; the last origin missing completes the round.             *)
(***************************************************************************)
CollectActualData(p) ==
  /\ p \in data
  /\ p.to = Coordinator
  /\ data' = data \ {p}
  /\ IF Origin(p) \in tracker
     THEN UNCHANGED <<tracker, rcvdCounter, collected>>
     ELSE IF rcvdCounter + 1 = DeploymentCount - 1
          THEN /\ tracker' = {}
               /\ rcvdCounter' = 0
               /\ collected' = collected + 1
          ELSE /\ tracker' = tracker \cup {Origin(p)}
               /\ rcvdCounter' = rcvdCounter + 1
               /\ UNCHANGED collected
  /\ UNCHANGED <<vars, sent, repeated>>

-----------------------------------------------------------------------------
DataStep ==
  \/ \E n \in Node : SendActualData(n)
  \/ \E p \in data : RepeatActualData(p) \/ ForwardActualData(p) \/ CollectActualData(p)

CollectNext == (Next /\ UNCHANGED dataVars) \/ DataStep

CollectSpec == CollectInit /\ [][CollectNext]_allVars

\* Settled links; received packets are handled, the transmit slots and the timer
\* of the coordinator come round.
StaticCollectSpec ==
  CollectInit /\ [][(RoutingStep /\ UNCHANGED dataVars) \/ DataStep]_allVars

DeliverData == \E p \in data : ForwardActualData(p) \/ CollectActualData(p)
FairStaticCollectSpec ==
  /\ StaticCollectSpec
  /\ WF_allVars(DeliverData)
  /\ \A s, n \in Node : WF_allVars(Receive(s, n) /\ UNCHANGED dataVars)
  /\ WF_allVars(CoordinatorAdvertise /\ UNCHANGED dataVars)

-----------------------------------------------------------------------------
(***************************************************************************)
(* Type invariant.                                                         *)
(***************************************************************************)
CollectTypeOK ==
  /\ TypeOK
  /\ data \subseteq Packet
  /\ sent \in [Node -> Nat]
  /\ repeated \in [Node -> Nat]
  /\ tracker \subseteq Node \ {Coordinator}
  /\ rcvdCounter \in Nat
  /\ collected \in Nat

(***************************************************************************)
(* A packet is never addressed to node 0, and the node it is addressed to  *)
(* can pass it on when it arrives: on_received_actual_data forwards to     *)
(* bestNode without the test master_routing_send_actual_data makes.        *)
(***************************************************************************)
NeverForwardedNowhere ==
  \A p \in data : p.to # NoNode /\ bestNode[p.to] # NoNode

(***************************************************************************)
(* "ALL ACTUAL DATA COLLECTED" counts every node: for each time it was     *)
(* printed every node has sent a packet, or the MAC layer another copy of  *)
(* one, and for a mark in the tracker one more.  No packet or copy counts  *)
(* for two collections, none stands for another node, none is counted that *)
(* was never sent.  A copy that arrives when the tracker has been cleared  *)
(* does count again: without one, sent[n] alone bounds the collections.    *)
(***************************************************************************)
CollectedFromAll ==
  \A n \in Node \ {Coordinator} :
    collected + (IF n \in tracker THEN 1 ELSE 0) <= sent[n] + repeated[n]

(***************************************************************************)
(* With settled links and no loss every data packet reaches the            *)
(* coordinator: none waits, or runs in circles, for ever, although parents *)
(* change while it travels.                                                *)
(***************************************************************************)
EveryPacketArrives == [](data # {} => <>(data = {}))
=============================================================================
