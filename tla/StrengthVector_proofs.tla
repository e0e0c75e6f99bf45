------------------------ MODULE StrengthVector_proofs ------------------------
(***************************************************************************)
(* What the entries of the strength vector mean, for every number of       *)
(* neighbours, beacons and restarts.                                       *)
(***************************************************************************)
EXTENDS StrengthVector, TLAPS

Fraction == [heard : Nat, of : Nat]

TypeInv ==
  /\ sequenceNumber \in [Neighbour -> Nat]
  /\ receivedCounter \in [Neighbour -> Nat]
  /\ highestSequence \in Nat
  /\ highestNodeID \in Nat
  /\ strengthVector \in [Neighbour -> Fraction]
  /\ beacons \in Nat
  /\ restarts \in Nat

LEMMA TypeInit == Init => TypeInv
<1> SUFFICES ASSUME Init
             PROVE  TypeInv
  OBVIOUS
<1>1. [heard |-> 0, of |-> 1] \in Fraction
  BY DEF Fraction
<1> QED
  BY <1>1, StrengthAssumption DEF Init, TypeInv

LEMMA TypeStep == TypeInv /\ [Next]_vars => TypeInv'
<1> SUFFICES ASSUME TypeInv, [Next]_vars
             PROVE  TypeInv'
  OBVIOUS
<1> USE StrengthAssumption DEF TypeInv
<1>1. ASSUME NEW m \in Neighbour, SendBeacon(m)
      PROVE  /\ sequenceNumber' \in [Neighbour -> Nat]
             /\ beacons' \in Nat /\ restarts' \in Nat
  BY <1>1 DEF SendBeacon
<1>2. ASSUME NEW m \in Neighbour, LoseBeacon(m)
      PROVE  TypeInv'
  BY <1>1, <1>2 DEF LoseBeacon
<1>3. ASSUME NEW m \in Neighbour, HearBeacon(m)
      PROVE  TypeInv'
  <2>1. /\ sequenceNumber' \in [Neighbour -> Nat]
        /\ beacons' \in Nat /\ restarts' \in Nat
    BY <1>1, <1>3 DEF HearBeacon
  <2>2. highestSequence' \in Nat /\ highestNodeID' \in Nat
    BY <1>3, <2>1 DEF HearBeacon, HighestAfter, NodesAfter, Larger
  <2>3. receivedCounter' \in [Neighbour -> Nat]
    BY <1>3 DEF HearBeacon
  <2>4. \A i \in Neighbour :
          [heard |-> receivedCounter'[i], of |-> highestSequence'] \in Fraction
    BY <2>2, <2>3 DEF Fraction
  <2>5. strengthVector' \in [Neighbour -> Fraction]
    BY <1>3, <2>4 DEF HearBeacon
  <2> QED
    BY <2>1, <2>2, <2>3, <2>5
<1>4. ASSUME NEW m \in Neighbour, Restart(m)
      PROVE  TypeInv'
  BY <1>4 DEF Restart
<1>5. CASE UNCHANGED vars
  BY <1>5 DEF vars
<1> QED
  BY <1>2, <1>3, <1>4, <1>5 DEF Next

(***************************************************************************)
(* Every neighbour that was ever heard lies in the range of identifiers    *)
(* that the handler computes anew.                                         *)
(***************************************************************************)
HeardIsCovered == \A m \in Neighbour : receivedCounter[m] > 0 => m <= highestNodeID

(***************************************************************************)
(* onReceivedNewBeacon keeps all entries comparable, whichever neighbours  *)
(* are heard or restart.                                                   *)
(***************************************************************************)
THEOREM StrengthsAreComparable == Spec => []SharesAreComparable
<1> DEFINE Inv == TypeInv /\ HeardIsCovered /\ SharesAreComparable
<1>1. Init => Inv
  BY TypeInit DEF Init, HeardIsCovered, SharesAreComparable
<1>2. Inv /\ [Next]_vars => Inv'
  <2> SUFFICES ASSUME Inv, [Next]_vars
               PROVE  HeardIsCovered' /\ SharesAreComparable'
    BY TypeStep
  <2>1. TypeInv'
    BY TypeStep
  <2>2. ASSUME NEW m \in Neighbour, HearBeacon(m)
        PROVE  HeardIsCovered' /\ SharesAreComparable'
    <3>1. highestNodeID' >= highestNodeID /\ highestNodeID' >= m
      BY <2>2, StrengthAssumption DEF HearBeacon, NodesAfter, Larger, TypeInv
    <3>2. \A i \in Neighbour : i # m => receivedCounter'[i] = receivedCounter[i]
      BY <2>2 DEF HearBeacon, TypeInv
    <3>3. HeardIsCovered'
      BY <2>1, <3>1, <3>2, StrengthAssumption DEF HeardIsCovered, TypeInv
    <3>4. SharesAreComparable'
      BY <2>2, <3>3 DEF HearBeacon, HeardIsCovered, SharesAreComparable
    <3> QED
      BY <3>3, <3>4
  <2>3. CASE \E m \in Neighbour : LoseBeacon(m) \/ Restart(m)
    BY <2>3 DEF LoseBeacon, Restart, HeardIsCovered, SharesAreComparable
  <2>4. CASE UNCHANGED vars
    BY <2>4 DEF vars, HeardIsCovered, SharesAreComparable
  <2> QED
    BY <2>2, <2>3, <2>4 DEF Next
<1>3. Inv => SharesAreComparable
  OBVIOUS
<1> QED
  BY <1>1, <1>2, <1>3, PTL DEF Spec

(***************************************************************************)
(* No neighbour has sent more beacons than were sent in all; and, until    *)
(* one restarts, nobody has been heard more often than it has sent, nor    *)
(* more often than the highest number.                                     *)
(***************************************************************************)
NumbersBounded ==
  /\ beacons <= MaxBeacons
  /\ \A m \in Neighbour : sequenceNumber[m] <= beacons

CountedOnce ==
  restarts = 0 =>
    \A m \in Neighbour : /\ receivedCounter[m] <= sequenceNumber[m]
                         /\ receivedCounter[m] <= highestSequence

(***************************************************************************)
(* As long as no number wraps, the entries that onReceivedNewBeacon        *)
(* computes are reception ratios until a neighbour restarts.               *)
(***************************************************************************)
THEOREM StrengthIsRatio ==
  ASSUME MaxBeacons < SeqModulus
  PROVE  Spec => []IsReceptionRatio
<1> DEFINE Inv == TypeInv /\ NumbersBounded /\ CountedOnce /\ IsReceptionRatio
<1>1. Init => Inv
  BY TypeInit, StrengthAssumption DEF Init, NumbersBounded, CountedOnce, IsReceptionRatio
<1>2. Inv /\ [Next]_vars => Inv'
  <2> SUFFICES ASSUME Inv, [Next]_vars
               PROVE  NumbersBounded' /\ CountedOnce' /\ IsReceptionRatio'
    BY TypeStep
  <2>1. TypeInv'
    BY TypeStep
  <2>2. ASSUME NEW m \in Neighbour, SendBeacon(m)
        PROVE  /\ NumbersBounded' /\ restarts' = restarts
               /\ sequenceNumber'[m] = sequenceNumber[m] + 1
               /\ \A i \in Neighbour : i # m => sequenceNumber'[i] = sequenceNumber[i]
    <3>1. beacons' = beacons + 1 /\ beacons' <= MaxBeacons /\ restarts' = restarts
      BY <2>2, StrengthAssumption DEF SendBeacon, TypeInv
    <3>2. sequenceNumber[m] + 1 < SeqModulus
      BY <3>1, StrengthAssumption DEF NumbersBounded, TypeInv
    <3>3. (sequenceNumber[m] + 1) % SeqModulus = sequenceNumber[m] + 1
      BY <3>2, StrengthAssumption DEF TypeInv
    <3>4. sequenceNumber' = [sequenceNumber EXCEPT ![m] = sequenceNumber[m] + 1]
      BY <2>2, <3>3 DEF SendBeacon
    <3> QED
      BY <3>1, <3>4 DEF NumbersBounded, TypeInv
  <2>3. ASSUME NEW m \in Neighbour, LoseBeacon(m)
        PROVE  NumbersBounded' /\ CountedOnce' /\ IsReceptionRatio'
    <3>1. SendBeacon(m) /\ UNCHANGED <<receivedCounter, highestSequence, strengthVector>>
      BY <2>3 DEF LoseBeacon
    <3>2. CountedOnce'
      BY <2>2, <3>1 DEF CountedOnce, TypeInv
    <3> QED
      BY <2>2, <3>1, <3>2 DEF IsReceptionRatio
  <2>4. ASSUME NEW m \in Neighbour, HearBeacon(m)
        PROVE  NumbersBounded' /\ CountedOnce' /\ IsReceptionRatio'
    <3>1. SendBeacon(m)
      BY <2>4 DEF HearBeacon
    <3>2. highestSequence' >= highestSequence /\ highestSequence' >= sequenceNumber'[m]
      BY <2>1, <2>4 DEF HearBeacon, HighestAfter, Larger, TypeInv
    <3>3. /\ receivedCounter'[m] = receivedCounter[m] + 1
          /\ \A i \in Neighbour : i # m => receivedCounter'[i] = receivedCounter[i]
      BY <2>4 DEF HearBeacon, TypeInv
    <3>4. restarts' = 0 => \A i \in Neighbour : receivedCounter'[i] <= sequenceNumber'[i]
      BY <2>1, <2>2, <3>1, <3>3 DEF CountedOnce, TypeInv
    <3>5. restarts' = 0 => \A i \in Neighbour : receivedCounter'[i] <= highestSequence'
      BY <2>1, <2>2, <3>1, <3>2, <3>3, <3>4 DEF CountedOnce, TypeInv
    <3>6. CountedOnce'
      BY <3>4, <3>5 DEF CountedOnce
    <3>7. \A i \in Neighbour :
            \/ strengthVector'[i] = [heard |-> receivedCounter'[i], of |-> highestSequence']
            \/ strengthVector'[i] = strengthVector[i]
      BY <2>4 DEF HearBeacon
    <3>8. ASSUME NEW i \in Neighbour, restarts' = 0
          PROVE  strengthVector'[i].heard <= strengthVector'[i].of
      <4>1. CASE strengthVector'[i] = [heard |-> receivedCounter'[i], of |-> highestSequence']
        BY <3>5, <3>8, <4>1
      <4>2. CASE strengthVector'[i] = strengthVector[i]
        BY <2>2, <3>1, <3>8, <4>2 DEF IsReceptionRatio
      <4> QED
        BY <3>7, <4>1, <4>2
    <3> QED
      BY <2>2, <3>1, <3>6, <3>8 DEF IsReceptionRatio
  <2>5. ASSUME NEW m \in Neighbour, Restart(m)
        PROVE  NumbersBounded' /\ CountedOnce' /\ IsReceptionRatio'
    <3>1. restarts' # 0
      BY <2>5 DEF Restart, TypeInv
    <3>2. NumbersBounded'
      BY <2>5 DEF Restart, NumbersBounded, TypeInv
    <3> QED
      BY <3>1, <3>2 DEF CountedOnce, IsReceptionRatio
  <2>6. CASE UNCHANGED vars
    BY <2>6 DEF vars, NumbersBounded, CountedOnce, IsReceptionRatio
  <2> QED
    BY <2>3, <2>4, <2>5, <2>6 DEF Next
<1>3. Inv => IsReceptionRatio
  OBVIOUS
<1> QED
  BY <1>1, <1>2, <1>3, PTL DEF Spec
=============================================================================
