---------------------------- MODULE StrengthVector ----------------------------
(***************************************************************************)
(* The strength vector of one node, modelled from                          *)
(* os/net/master-routing/strength-vector.c: for every neighbour the share  *)
(* of the beacons (EBs) sent so far that was heard.                        *)
(*                                                                         *)
(* Every node numbers its own EBs from 1.  The receiver counts what it     *)
(* hears of each neighbour, and divides by the highest number it has heard *)
(* from anybody.                                                           *)
(***************************************************************************)
EXTENDS Naturals

CONSTANTS
  Neighbour,       \* identifiers of the nodes in range
  OwnId,           \* identifier of the node itself
  SeqModulus,      \* 2^16: the sequence number of an EB is a uint16_t
  MaxBeacons,      \* bound: EBs in all
  MaxRestarts      \* bound: restarts of neighbours

ASSUME StrengthAssumption ==
  /\ Neighbour \subseteq Nat \ {0}
  /\ OwnId \in Nat \ {0}
  /\ SeqModulus \in Nat \ {0}
  /\ MaxBeacons \in Nat
  /\ MaxRestarts \in Nat

VARIABLES
  sequenceNumber,  \* sequence_number of each neighbour
  receivedCounter, \* receivedCounter
  highestSequence, \* highestSequence
  highestNodeID,   \* highestNodeID
  strengthVector,  \* strength_vector, as fractions
  beacons,         \* EBs sent in all
  restarts         \* restarts so far

vars == <<sequenceNumber, receivedCounter, highestSequence, highestNodeID,
          strengthVector, beacons, restarts>>

Init ==
  /\ sequenceNumber = [m \in Neighbour |-> 0]
  /\ receivedCounter = [m \in Neighbour |-> 0]
  /\ highestSequence = 0
  /\ highestNodeID = OwnId
  /\ strengthVector = [m \in Neighbour |-> [heard |-> 0, of |-> 1]]
  /\ beacons = 0
  /\ restarts = 0

Larger(a, b) == IF a < b THEN b ELSE a

\* tsch_packet_create_eb numbers an EB when it is created, heard or not.
SendBeacon(m) ==
  /\ beacons < MaxBeacons
  /\ beacons' = beacons + 1
  /\ sequenceNumber' = [sequenceNumber EXCEPT ![m] = (@ + 1) % SeqModulus]
  /\ UNCHANGED restarts

LoseBeacon(m) ==
  /\ SendBeacon(m)
  /\ UNCHANGED <<receivedCounter, highestSequence, highestNodeID, strengthVector>>

\* Faulty variants: HighestIsLast takes the last sequence number for the
\* highest, NodesAsBefore overlooks a node with a higher identifier.
HighestIsLast(m) == sequenceNumber'[m]
HighestAfter(m) == Larger(highestSequence, sequenceNumber'[m])

NodesAsBefore(m) == highestNodeID
NodesAfter(m) == Larger(highestNodeID, m)

(***************************************************************************)
(* onReceivedNewBeacon: every entry up to highestNodeID is computed anew.  *)
(***************************************************************************)
HearBeacon(m) ==
  /\ SendBeacon(m)
  /\ highestSequence' = HighestAfter(m)
  /\ highestNodeID' = NodesAfter(m)
  /\ receivedCounter' = [receivedCounter EXCEPT ![m] = @ + 1]
  /\ strengthVector' =
       [i \in Neighbour |-> IF i <= highestNodeID'
                            THEN [heard |-> receivedCounter'[i], of |-> highestSequence']
                            ELSE strengthVector[i]]

\* A neighbour restarts and numbers its EBs from 1 again.
Restart(m) ==
  /\ restarts < MaxRestarts
  /\ restarts' = restarts + 1
  /\ sequenceNumber' = [sequenceNumber EXCEPT ![m] = 0]
  /\ UNCHANGED <<receivedCounter, highestSequence, highestNodeID, strengthVector, beacons>>

Next == \E m \in Neighbour : LoseBeacon(m) \/ HearBeacon(m) \/ Restart(m)

Spec == Init /\ [][Next]_vars

-----------------------------------------------------------------------------
(***************************************************************************)
(* An entry is a reception ratio: the scheduler reads it as the packet     *)
(* reception rate of the link and takes its inverse for the expected       *)
(* number of transmissions.  It ceases to be one when a neighbour restarts *)
(* and its beacons, numbered from 1 again, are counted on.                 *)
(***************************************************************************)
IsReceptionRatio ==
  restarts = 0 =>
    \A m \in Neighbour : strengthVector[m].heard <= strengthVector[m].of

(***************************************************************************)
(* The strengths of two neighbours can be compared: all entries are shares *)
(* of the same number of beacons, whichever of them was heard last and     *)
(* whatever their identifiers are.                                         *)
(***************************************************************************)
SharesAreComparable ==
  \A m \in Neighbour : receivedCounter[m] > 0 =>
    strengthVector[m] = [heard |-> receivedCounter[m], of |-> highestSequence]
=============================================================================
