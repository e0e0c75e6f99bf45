------------------------ MODULE MasterCollect_proofs ------------------------
(***************************************************************************)
(* Theorems about MasterRouting and about the collection of the strength   *)
(* vectors on top of it, for every set of nodes, radio topology, set of    *)
(* link strengths, width of the sequence numbers, number of packets and    *)
(* loss.                                                                   *)
(***************************************************************************)
EXTENDS MasterCollect, TLAPS, FiniteSetTheorems

Channels == [Node -> [Node -> Seq(Advertisement)]]

-----------------------------------------------------------------------------
(***************************************************************************)
(* Lemmas about the channels: taking the oldest advertisement, sending one.*)
(***************************************************************************)

(***************************************************************************)
(* The oldest advertisement of a channel is a waiting one.                 *)
(***************************************************************************)
LEMMA HeadPending ==
  ASSUME chan \in Channels, NEW s \in Node, NEW n \in Node, chan[s][n] # <<>>
  PROVE  /\ Head(chan[s][n]) \in Pending(chan, s, n)
         /\ Head(chan[s][n]) \in Advertisement
  BY DEF Channels, Pending

(***************************************************************************)
(* Handling the oldest advertisement leaves well-typed channels and adds   *)
(* nothing to them.                                                        *)
(***************************************************************************)
LEMMA PopPending ==
  ASSUME chan \in Channels, NEW s \in Node, NEW n \in Node, chan[s][n] # <<>>
  PROVE  /\ Pop(s, n) \in Channels
         /\ \A a, b \in Node : Pending(Pop(s, n), a, b) \subseteq Pending(chan, a, b)
<1>1. chan[s][n] \in Seq(Advertisement)
  BY DEF Channels
<1>2. Tail(chan[s][n]) \in Seq(Advertisement)
  BY <1>1
<1>3. Pop(s, n) \in Channels
  BY <1>2 DEF Pop, Channels
<1>4. ASSUME NEW a \in Node, NEW b \in Node
      PROVE  Pending(Pop(s, n), a, b) \subseteq Pending(chan, a, b)
  <2>1. CASE a = s /\ b = n
    <3>1. Pop(s, n)[a][b] = Tail(chan[s][n])
      BY <2>1 DEF Pop, Channels
    <3>2. /\ Len(Tail(chan[s][n])) = Len(chan[s][n]) - 1
          /\ \A i \in 1 .. Len(chan[s][n]) - 1 : Tail(chan[s][n])[i] = chan[s][n][i + 1]
      BY <1>1
    <3>3. Len(chan[s][n]) \in Nat
      BY <1>1
    <3>4. QED BY <2>1, <3>1, <3>2, <3>3 DEF Pending
  <2>2. CASE ~(a = s /\ b = n)
    <3>1. Pop(s, n)[a][b] = chan[a][b]
      BY <2>2 DEF Pop, Channels
    <3>2. QED BY <3>1 DEF Pending
  <2>3. QED BY <2>1, <2>2
<1>5. QED BY <1>3, <1>4

(***************************************************************************)
(* A full queue keeps what it has, another one gets the advertisement.     *)
(***************************************************************************)
LEMMA EnqueuedElements ==
  ASSUME NEW q \in Seq(Advertisement), NEW adv \in Advertisement
  PROVE  /\ Enqueued(q, adv) \in Seq(Advertisement)
         /\ \A i \in 1 .. Len(Enqueued(q, adv)) :
              \/ Enqueued(q, adv)[i] = adv
              \/ i \in 1 .. Len(q) /\ Enqueued(q, adv)[i] = q[i]
<1>1. CASE Len(q) < QueueSize
  BY <1>1 DEF Enqueued
<1>2. CASE ~(Len(q) < QueueSize)
  BY <1>2 DEF Enqueued
<1>3. QED BY <1>1, <1>2

(***************************************************************************)
(* A broadcast of n adds its advertisement to some channels of n, and      *)
(* nothing else to any channel.                                            *)
(***************************************************************************)
LEMMA SendPending ==
  ASSUME NEW c \in Channels, NEW n \in Node, NEW adv \in Advertisement,
         SendAdvertisement(n, adv, c)
  PROVE  /\ chan' \in Channels
         /\ \A a, b \in Node : \A m \in Pending(chan', a, b) :
              m \in Pending(c, a, b) \/ (a = n /\ b # n /\ m = adv)
<1>1. PICK R \in Receivers(n) :
        chan' = [c EXCEPT ![n] = [r \in Node |-> IF r \in R THEN Enqueued(c[n][r], adv)
                                                          ELSE c[n][r]]]
  BY DEF SendAdvertisement
<1>2. \A r \in Node : c[n][r] \in Seq(Advertisement)
  BY DEF Channels
<1>3. \A r \in Node : Enqueued(c[n][r], adv) \in Seq(Advertisement)
  BY <1>2, EnqueuedElements
<1>4. chan' \in Channels
  BY <1>1, <1>2, <1>3 DEF Channels
<1>5. ASSUME NEW a \in Node, NEW b \in Node, NEW m \in Pending(chan', a, b)
      PROVE  m \in Pending(c, a, b) \/ (a = n /\ b # n /\ m = adv)
  <2>0. n \notin R
    BY RoutingAssumption DEF Receivers
  <2>1. CASE a = n /\ b \in R
    <3>1. chan'[a][b] = Enqueued(c[n][b], adv)
      BY <1>1, <2>1 DEF Channels
    <3>2. PICK i \in 1 .. Len(chan'[a][b]) : m = chan'[a][b][i]
      BY DEF Pending
    <3>3. /\ i \in 1 .. Len(Enqueued(c[n][b], adv))
          /\ m = Enqueued(c[n][b], adv)[i]
      BY <3>1, <3>2
    <3>4. c[n][b] \in Seq(Advertisement)
      BY <1>2
    <3>5. m = adv \/ (i \in 1 .. Len(c[n][b]) /\ m = c[n][b][i])
      BY <3>3, <3>4, EnqueuedElements
    <3>6. QED BY <2>0, <2>1, <3>5 DEF Pending
  <2>2. CASE ~(a = n /\ b \in R)
    <3>1. chan'[a][b] = c[a][b]
      BY <1>1, <2>2 DEF Channels
    <3>2. QED BY <3>1 DEF Pending
  <2>3. QED BY <2>1, <2>2
<1>6. QED BY <1>4, <1>5

-----------------------------------------------------------------------------
(***************************************************************************)
(* Type correctness.                                                       *)
(***************************************************************************)

(***************************************************************************)
(* What on_received_advertisement computes is well-typed.                  *)
(***************************************************************************)
LEMMA ReceptionTypes ==
  ASSUME TypeOK, NEW s \in Node, NEW n \in Node, chan[s][n] # <<>>
  PROVE  /\ Head(chan[s][n]) \in Advertisement
         /\ Current(s, n) \in StrengthValues
         /\ SeqAfter(s, n) \in Seqs
         /\ StrengthKept(s, n) \in StrengthValues
<1>1. Head(chan[s][n]) \in Advertisement
  BY HeadPending DEF TypeOK, Channels
<1>2. Current(s, n) \in StrengthValues
  BY <1>1 DEF TypeOK, Current, Weaker, Advertisement, StrengthValues
<1>3. SeqAfter(s, n) \in Seqs
  BY <1>1 DEF TypeOK, SeqAfter, Advertisement
<1>4. StrengthKept(s, n) \in StrengthValues
  BY <1>2 DEF TypeOK, StrengthKept
<1>5. QED BY <1>1, <1>2, <1>3, <1>4

LEMMA KeptType == ASSUME NEW q \in Seqs PROVE Kept(q) \in 0 .. HistoryModulus - 1
  BY RoutingAssumption DEF Kept, Seqs

\* Two entries of one row of the history array are written.
LEMMA HistoryUpdate ==
  ASSUME NEW K, NEW h \in [Node -> [Node -> K]], NEW n \in Node, NEW s \in Node,
         NEW k1 \in K, NEW k2 \in K
  PROVE  [h EXCEPT ![n][s] = k1, ![n][n] = k2] \in [Node -> [Node -> K]]
<1>1. [h EXCEPT ![n][s] = k1] \in [Node -> [Node -> K]]
  OBVIOUS
<1>2. \A g \in [Node -> [Node -> K]] : [g EXCEPT ![n][n] = k2] \in [Node -> [Node -> K]]
  OBVIOUS
<1>3. QED BY <1>1, <1>2

(***************************************************************************)
(* A reception that is not dropped: the new state of the receiver, and     *)
(* every advertisement waiting afterwards was waiting before or carries    *)
(* the new state of the receiver.                                          *)
(***************************************************************************)
LEMMA ReceiveEffect ==
  ASSUME TypeOK, NEW s \in Node, NEW n \in Node, ReceiveAdvertisement(s, n)
  PROVE  /\ maxSeq' = [maxSeq EXCEPT ![n] = SeqAfter(s, n)]
         /\ strength' = [strength EXCEPT ![n] =
                           IF Adopts(s, n) THEN Current(s, n) ELSE StrengthKept(s, n)]
         /\ bestNode' = IF Adopts(s, n) THEN [bestNode EXCEPT ![n] = s] ELSE bestNode
         /\ maxSeq' \in [Node -> Seqs]
         /\ strength' \in [Node -> StrengthValues]
         /\ bestNode' \in [Node -> Node \cup {NoNode}]
         /\ chan' \in Channels
         /\ \A a, b \in Node : \A m \in Pending(chan', a, b) :
              \/ m \in Pending(chan, a, b)
              \/ a = n /\ b # n /\ m = [seq |-> maxSeq'[n], best |-> bestNode'[n],
                                         strength |-> strength'[n]]
<1>0. chan[s][n] # <<>> /\ chan \in Channels
  BY DEF ReceiveAdvertisement, TypeOK, Channels
<1>1. /\ Current(s, n) \in StrengthValues
      /\ SeqAfter(s, n) \in Seqs
      /\ StrengthKept(s, n) \in StrengthValues
  BY <1>0, ReceptionTypes
<1>2. /\ maxSeq' = [maxSeq EXCEPT ![n] = SeqAfter(s, n)]
      /\ strength' = [strength EXCEPT ![n] =
                         IF Adopts(s, n) THEN Current(s, n) ELSE StrengthKept(s, n)]
      /\ bestNode' = IF Adopts(s, n) THEN [bestNode EXCEPT ![n] = s] ELSE bestNode
  BY DEF ReceiveAdvertisement
<1>3. /\ maxSeq' \in [Node -> Seqs]
      /\ strength' \in [Node -> StrengthValues]
      /\ bestNode' \in [Node -> Node \cup {NoNode}]
  BY <1>1, <1>2 DEF TypeOK
<1> DEFINE adv == [seq |-> maxSeq'[n], best |-> bestNode'[n], strength |-> strength'[n]]
<1>4. adv \in Advertisement
  BY <1>3 DEF Advertisement
<1>5. /\ Pop(s, n) \in Channels
      /\ \A a, b \in Node : Pending(Pop(s, n), a, b) \subseteq Pending(chan, a, b)
  BY <1>0, PopPending
<1>6. chan' = Pop(s, n) \/ SendAdvertisement(n, adv, Pop(s, n))
  BY DEF ReceiveAdvertisement
<1>7. /\ chan' \in Channels
      /\ \A a, b \in Node : \A m \in Pending(chan', a, b) :
           m \in Pending(chan, a, b) \/ (a = n /\ b # n /\ m = adv)
  <2>1. CASE chan' = Pop(s, n)
    BY <1>5, <2>1
  <2>2. CASE SendAdvertisement(n, adv, Pop(s, n))
    <3> HIDE DEF adv
    <3>1. /\ chan' \in Channels
          /\ \A a, b \in Node : \A m \in Pending(chan', a, b) :
               m \in Pending(Pop(s, n), a, b) \/ (a = n /\ b # n /\ m = adv)
      BY <1>4, <1>5, <2>2, SendPending
    <3>2. QED BY <1>5, <3>1
  <2>3. QED BY <1>6, <2>1, <2>2
<1>8. QED BY <1>2, <1>3, <1>7

(***************************************************************************)
(* The same for the advertisement that opens a round.                      *)
(***************************************************************************)
LEMMA AdvertiseEffect ==
  ASSUME TypeOK, CoordinatorAdvertise
  PROVE  /\ advCounter' \in Seqs
         /\ maxSeq' = [maxSeq EXCEPT ![Coordinator] = advCounter']
         /\ bestNode' = [bestNode EXCEPT ![Coordinator] = Coordinator]
         /\ strength' = [strength EXCEPT ![Coordinator] = MasterStrength]
         /\ chan' \in Channels
         /\ \A a, b \in Node : \A m \in Pending(chan', a, b) :
              \/ m \in Pending(chan, a, b)
              \/ /\ a = Coordinator /\ b # Coordinator
                 /\ m = [seq |-> advCounter', best |-> Coordinator,
                         strength |-> MasterStrength]
<1>1. (advCounter + 1) % SeqModulus \in Seqs
  BY RoutingAssumption DEF TypeOK, Seqs
<1> DEFINE adv == [seq |-> (advCounter + 1) % SeqModulus, best |-> Coordinator,
                   strength |-> MasterStrength]
<1>2. adv \in Advertisement
  BY <1>1, RoutingAssumption DEF Advertisement, StrengthValues
<1>3. /\ SendAdvertisement(Coordinator, adv, chan)
      /\ advCounter' = (advCounter + 1) % SeqModulus
      /\ maxSeq' = [maxSeq EXCEPT ![Coordinator] = advCounter']
      /\ bestNode' = [bestNode EXCEPT ![Coordinator] = Coordinator]
      /\ strength' = [strength EXCEPT ![Coordinator] = MasterStrength]
  BY DEF CoordinatorAdvertise
<1>4. chan \in Channels /\ Coordinator \in Node
  BY RoutingAssumption DEF TypeOK, Channels
<1> HIDE DEF adv
<1>5. /\ chan' \in Channels
      /\ \A a, b \in Node : \A m \in Pending(chan', a, b) :
           m \in Pending(chan, a, b) \/ (a = Coordinator /\ b # Coordinator /\ m = adv)
  BY <1>2, <1>3, <1>4, SendPending
<1>6. QED BY <1>1, <1>3, <1>5 DEF adv

(***************************************************************************)
(* Every variable keeps its type.                                          *)
(***************************************************************************)
THEOREM TypeCorrect == Spec => []TypeOK
<1>1. Init => TypeOK
  <2> SUFFICES ASSUME Init PROVE TypeOK
    OBVIOUS
  <2>1. 0 \in Seqs /\ 0 \in 0 .. HistoryModulus - 1 /\ 0 \in StrengthValues
    BY RoutingAssumption DEF Seqs, StrengthValues
  <2>2. <<>> \in Seq(Advertisement)
    OBVIOUS
  <2>3. QED BY <2>1, <2>2, RoutingAssumption DEF Init, TypeOK
<1>2. TypeOK /\ [Next]_vars => TypeOK'
  <2> SUFFICES ASSUME TypeOK, [Next]_vars PROVE TypeOK'
    OBVIOUS
  <2>1. CASE CoordinatorAdvertise
    <3>1. /\ advCounter' \in Seqs /\ chan' \in Channels
          /\ maxSeq' = [maxSeq EXCEPT ![Coordinator] = advCounter']
          /\ bestNode' = [bestNode EXCEPT ![Coordinator] = Coordinator]
          /\ strength' = [strength EXCEPT ![Coordinator] = MasterStrength]
      BY <2>1, AdvertiseEffect
    <3>2. /\ maxSeq' \in [Node -> Seqs]
          /\ bestNode' \in [Node -> Node \cup {NoNode}]
          /\ strength' \in [Node -> StrengthValues]
      BY <3>1, RoutingAssumption DEF TypeOK, StrengthValues
    <3>3. history' = [history EXCEPT ![Coordinator][Coordinator] = Kept(advCounter')]
      BY <2>1 DEF CoordinatorAdvertise
    <3>4. history' \in [Node -> [Node -> 0 .. HistoryModulus - 1]]
      BY <3>1, <3>3, KeptType, RoutingAssumption DEF TypeOK
    <3>5. QED BY <2>1, <3>1, <3>2, <3>4 DEF CoordinatorAdvertise, TypeOK, Channels
  <2>2. ASSUME NEW s \in Node, NEW n \in Node, IgnoreOwnChild(s, n) PROVE TypeOK'
    <3>1. Pop(s, n) \in Channels
      BY <2>2, PopPending DEF IgnoreOwnChild, TypeOK, Channels
    <3>2. QED BY <2>2, <3>1 DEF IgnoreOwnChild, TypeOK, Channels
  <2>3. ASSUME NEW s \in Node, NEW n \in Node, ReceiveAdvertisement(s, n) PROVE TypeOK'
    <3>1. /\ maxSeq' \in [Node -> Seqs]
          /\ strength' \in [Node -> StrengthValues]
          /\ bestNode' \in [Node -> Node \cup {NoNode}]
          /\ chan' \in Channels
      BY <2>3, ReceiveEffect
    <3>2. Head(chan[s][n]) \in Advertisement /\ SeqAfter(s, n) \in Seqs
      BY <2>3, ReceptionTypes DEF ReceiveAdvertisement
    <3>3. /\ Kept(Head(chan[s][n]).seq) \in 0 .. HistoryModulus - 1
          /\ Kept(SeqAfter(s, n)) \in 0 .. HistoryModulus - 1
      BY <3>2, KeptType DEF Advertisement
    <3>4. \/ history' = history
          \/ history' = [history EXCEPT ![n][s] = Kept(Head(chan[s][n]).seq),
                                        ![n][n] = Kept(SeqAfter(s, n))]
      BY <2>3 DEF ReceiveAdvertisement
    <3>5. history' \in [Node -> [Node -> 0 .. HistoryModulus - 1]]
      <4> DEFINE K == 0 .. HistoryModulus - 1
                 k1 == Kept(Head(chan[s][n]).seq)
                 k2 == Kept(SeqAfter(s, n))
      <4>1. k1 \in K /\ k2 \in K /\ history \in [Node -> [Node -> K]]
        BY <3>3 DEF TypeOK
      <4>2. history' = history \/ history' = [history EXCEPT ![n][s] = k1, ![n][n] = k2]
        BY <3>4
      <4> HIDE DEF K, k1, k2
      <4>3. [history EXCEPT ![n][s] = k1, ![n][n] = k2] \in [Node -> [Node -> K]]
        BY <4>1, HistoryUpdate
      <4>4. history' \in [Node -> [Node -> K]]
        BY <4>1, <4>2, <4>3
      <4>5. QED BY <4>4 DEF K
    <3>6. advCounter' = advCounter /\ sv' = sv
      BY <2>3 DEF ReceiveAdvertisement
    <3>7. QED BY <3>1, <3>5, <3>6 DEF TypeOK, Channels
  <2>4. ASSUME NEW n \in Node, NeighborDiscoveryInput(n) PROVE TypeOK'
    BY <2>4 DEF NeighborDiscoveryInput, TypeOK
  <2>5. CASE UNCHANGED vars
    BY <2>5 DEF vars, TypeOK
  <2>6. QED
    BY <2>1, <2>2, <2>3, <2>4, <2>5 DEF Next, RoutingStep, Receive
<1>3. QED BY <1>1, <1>2, PTL DEF Spec

-----------------------------------------------------------------------------
(***************************************************************************)
(* The tree has one root and hangs together, whatever is lost and however  *)
(* the link strengths move.                                                *)
(***************************************************************************)

\* A beacon leaves parents, strengths and channels alone.
LEMMA QuietSteps ==
  ASSUME NEW n \in Node, NeighborDiscoveryInput(n)
  PROVE  UNCHANGED <<advCounter, maxSeq, strength, bestNode, history, chan>>
  BY DEF NeighborDiscoveryInput

(***************************************************************************)
(* Dropping an advertisement changes nothing but the channels, which shrink.*)
(***************************************************************************)
LEMMA IgnoreEffect ==
  ASSUME TypeOK, NEW s \in Node, NEW n \in Node, IgnoreOwnChild(s, n)
  PROVE  /\ UNCHANGED <<advCounter, sv, maxSeq, strength, bestNode, history>>
         /\ \A a, b \in Node : Pending(chan', a, b) \subseteq Pending(chan, a, b)
<1>1. Pop(s, n) \in Channels
        /\ \A a, b \in Node : Pending(Pop(s, n), a, b) \subseteq Pending(chan, a, b)
  BY PopPending DEF IgnoreOwnChild, TypeOK, Channels
<1>2. QED BY <1>1 DEF IgnoreOwnChild

(***************************************************************************)
(* What the receiver of an advertisement knows when RoutingInv holds: the  *)
(* sender is another node, and the coordinator already has its strength.   *)
(***************************************************************************)
LEMMA ReceptionContext ==
  ASSUME TypeOK, RoutingInv, NEW s \in Node, NEW n \in Node, chan[s][n] # <<>>
  PROVE  /\ s # n
         /\ strength[Coordinator] = MasterStrength
         /\ Head(chan[s][n]) \in Pending(chan, s, n)
         /\ Current(s, n) <= Head(chan[s][n]).strength
         /\ Current(s, n) <= sv[n][s]
         /\ Current(s, n) < MasterStrength
<1>1. /\ Head(chan[s][n]) \in Pending(chan, s, n)
      /\ Head(chan[s][n]) \in Advertisement
  BY HeadPending DEF TypeOK, Channels
<1>2. s # n /\ strength[Coordinator] = MasterStrength
  BY <1>1 DEF RoutingInv, RootInv
<1>3. Head(chan[s][n]).strength \in Nat /\ sv[n][s] \in Nat /\ sv[n][s] < MasterStrength
      /\ MasterStrength \in Nat
  <2>1. Head(chan[s][n]).strength \in Strengths \cup {MasterStrength}
    BY <1>1 DEF Advertisement, StrengthValues
  <2>2. sv[n][s] \in Strengths
    BY DEF TypeOK
  <2>3. QED BY <2>1, <2>2, RoutingAssumption
<1>4. \A x, y \in Nat : Weaker(x, y) <= x /\ Weaker(x, y) <= y
  BY DEF Weaker
<1>5. /\ Current(s, n) <= Head(chan[s][n]).strength
      /\ Current(s, n) <= sv[n][s]
  <2>1. Current(s, n) = Weaker(Head(chan[s][n]).strength, sv[n][s])
    BY DEF Current
  <2>2. QED BY <1>3, <1>4, <2>1
<1>6. Current(s, n) \in Nat
  BY ReceptionTypes, RoutingAssumption DEF StrengthValues
<1>7. Current(s, n) < MasterStrength
  BY <1>3, <1>5, <1>6
<1>8. QED BY <1>1, <1>2, <1>5, <1>7

(***************************************************************************)
(* The coordinator takes nothing from an advertisement but its number.     *)
(***************************************************************************)
LEMMA CoordinatorKeeps ==
  ASSUME TypeOK, RoutingInv, NEW s \in Node, chan[s][Coordinator] # <<>>
  PROVE  /\ StrengthKept(s, Coordinator) = MasterStrength
         /\ ~Adopts(s, Coordinator)
<1> DEFINE c == Coordinator
<1>1. c \in Node
  BY RoutingAssumption
<1>2. /\ s # c
      /\ strength[c] = MasterStrength
      /\ Current(s, c) < MasterStrength
  BY <1>1, ReceptionContext
<1>3. bestNode[c] # s
  BY <1>1, <1>2, RoutingAssumption DEF RoutingInv, RootInv, OnlyRoot, NoNode
<1>4. StrengthKept(s, c) = MasterStrength
  BY <1>2, <1>3 DEF StrengthKept
<1>5. Current(s, c) \in Nat /\ MasterStrength \in Nat
  BY <1>1, ReceptionTypes, RoutingAssumption DEF StrengthValues
<1>6. ~Adopts(s, c)
  BY <1>2, <1>4, <1>5 DEF Adopts
<1>7. QED BY <1>4, <1>6

LEMMA RootStep == TypeOK /\ RoutingInv /\ [Next]_vars => RootInv'
<1> SUFFICES ASSUME TypeOK, RoutingInv, [Next]_vars PROVE RootInv'
  OBVIOUS
<1> USE DEF RootInv, RoutingInv
<1>1. CASE CoordinatorAdvertise
  <2>1. /\ bestNode' = [bestNode EXCEPT ![Coordinator] = Coordinator]
        /\ strength' = [strength EXCEPT ![Coordinator] = MasterStrength]
        /\ \A a \in Node : Pending(chan', a, a) \subseteq Pending(chan, a, a)
    BY <1>1, AdvertiseEffect
  <2>2. OnlyRoot'
    BY <2>1, RoutingAssumption DEF TypeOK, OnlyRoot
  <2>3. \A a \in Node : Pending(chan', a, a) = {}
    BY <2>1
  <2>4. strength'[Coordinator] = MasterStrength
    BY <2>1, RoutingAssumption DEF TypeOK
  <2>5. QED BY <2>2, <2>3, <2>4
<1>2. ASSUME NEW s \in Node, NEW n \in Node, IgnoreOwnChild(s, n) PROVE RootInv'
  <2>1. /\ UNCHANGED <<strength, bestNode>>
        /\ \A a, b \in Node : Pending(chan', a, b) \subseteq Pending(chan, a, b)
    BY <1>2, IgnoreEffect
  <2>2. \A a \in Node : Pending(chan', a, a) = {}
    BY <2>1
  <2>3. strength'[Coordinator] = MasterStrength \/ \A a, b \in Node : Pending(chan', a, b) = {}
    BY <2>1
  <2>4. QED BY <2>1, <2>2, <2>3 DEF OnlyRoot
<1>3. ASSUME NEW s \in Node, NEW n \in Node, ReceiveAdvertisement(s, n) PROVE RootInv'
  <2>1. chan[s][n] # <<>>
    BY <1>3 DEF ReceiveAdvertisement
  <2>2. s # n /\ strength[Coordinator] = MasterStrength
    BY <2>1, ReceptionContext
  <2>3. /\ strength' = [strength EXCEPT ![n] =
                          IF Adopts(s, n) THEN Current(s, n) ELSE StrengthKept(s, n)]
        /\ bestNode' = IF Adopts(s, n) THEN [bestNode EXCEPT ![n] = s] ELSE bestNode
        /\ \A a \in Node : Pending(chan', a, a) \subseteq Pending(chan, a, a)
    BY <1>3, ReceiveEffect
  <2>4. n = Coordinator => strength' = strength /\ bestNode' = bestNode
    BY <2>1, <2>2, <2>3, CoordinatorKeeps DEF TypeOK
  <2>5. OnlyRoot'
    <3>1. bestNode'[Coordinator] \in {NoNode, Coordinator}
      BY <2>3, <2>4, RoutingAssumption DEF OnlyRoot, TypeOK
    <3>2. ASSUME NEW a \in Node \ {Coordinator} PROVE bestNode'[a] # a
      BY <2>2, <2>3 DEF OnlyRoot, TypeOK
    <3>3. QED BY <3>1, <3>2 DEF OnlyRoot
  <2>6. strength'[Coordinator] = MasterStrength
    BY <2>2, <2>3, <2>4, RoutingAssumption DEF TypeOK
  <2>7. \A a \in Node : Pending(chan', a, a) = {}
    BY <2>3
  <2>8. QED BY <2>5, <2>6, <2>7
<1>4. ASSUME NEW n \in Node, NeighborDiscoveryInput(n) PROVE RootInv'
  <2>1. bestNode' = bestNode /\ strength' = strength /\ chan' = chan
    BY <1>4, QuietSteps
  <2>2. \A a, b \in Node : Pending(chan', a, b) = Pending(chan, a, b)
    BY <2>1
  <2>3. QED BY <2>1, <2>2 DEF OnlyRoot
<1>5. CASE UNCHANGED vars
  <2>1. bestNode' = bestNode /\ strength' = strength /\ chan' = chan
    BY <1>5 DEF vars
  <2>2. \A a, b \in Node : Pending(chan', a, b) = Pending(chan, a, b)
    BY <2>1
  <2>3. QED BY <2>1, <2>2 DEF OnlyRoot
<1>6. QED BY <1>1, <1>2, <1>3, <1>4, <1>5 DEF Next, RoutingStep, Receive

LEMMA ParentStep == TypeOK /\ RoutingInv /\ [Next]_vars => ParentInv'
<1> SUFFICES ASSUME TypeOK, RoutingInv, [Next]_vars PROVE ParentInv'
  OBVIOUS
<1>0. ParentInv
  BY DEF RoutingInv
<1>1. CASE CoordinatorAdvertise
  <2>1. /\ bestNode' = [bestNode EXCEPT ![Coordinator] = Coordinator]
        /\ strength' = [strength EXCEPT ![Coordinator] = MasterStrength]
        /\ \A a, b \in Node : \A m \in Pending(chan', a, b) :
             m \in Pending(chan, a, b) \/ a = Coordinator
    BY <1>1, AdvertiseEffect
  <2>2. \A n \in Node : bestNode[n] # NoNode => bestNode'[n] # NoNode
    BY <2>1, RoutingAssumption DEF TypeOK
  <2>3. bestNode'[Coordinator] = Coordinator /\ Coordinator \in Node /\ Coordinator # NoNode
    BY <2>1, RoutingAssumption DEF TypeOK
  <2>4. ParentHasParent'
    BY <1>0, <2>1, <2>2, <2>3 DEF ParentInv, ParentHasParent, TypeOK
  <2>5. \A n \in Node : strength'[n] > 0 => bestNode'[n] # NoNode
    BY <1>0, <2>1, <2>2, <2>3 DEF ParentInv, TypeOK
  <2>6. \A s, n \in Node : \A m \in Pending(chan', s, n) : m.strength > 0 => bestNode'[s] # NoNode
    BY <1>0, <2>1, <2>2, <2>3 DEF ParentInv
  <2>7. QED BY <2>4, <2>5, <2>6 DEF ParentInv
<1>2. ASSUME NEW s \in Node, NEW n \in Node, IgnoreOwnChild(s, n) PROVE ParentInv'
  <2>1. /\ UNCHANGED <<strength, bestNode>>
        /\ \A a, b \in Node : Pending(chan', a, b) \subseteq Pending(chan, a, b)
    BY <1>2, IgnoreEffect
  <2>2. \A a, b \in Node : \A m \in Pending(chan', a, b) : m.strength > 0 => bestNode'[a] # NoNode
    BY <1>0, <2>1 DEF ParentInv
  <2>3. QED BY <1>0, <2>1, <2>2 DEF ParentInv, ParentHasParent
<1>3. ASSUME NEW s \in Node, NEW n \in Node, ReceiveAdvertisement(s, n) PROVE ParentInv'
  <2> DEFINE adv == [seq |-> maxSeq'[n], best |-> bestNode'[n], strength |-> strength'[n]]
  <2>1. chan[s][n] # <<>>
    BY <1>3 DEF ReceiveAdvertisement
  <2>2. /\ strength' = [strength EXCEPT ![n] =
                          IF Adopts(s, n) THEN Current(s, n) ELSE StrengthKept(s, n)]
        /\ bestNode' = IF Adopts(s, n) THEN [bestNode EXCEPT ![n] = s] ELSE bestNode
        /\ \A a, b \in Node : \A m \in Pending(chan', a, b) :
             m \in Pending(chan, a, b) \/ (a = n /\ m = adv)
    BY <1>3, ReceiveEffect
  <2>3. /\ Head(chan[s][n]) \in Pending(chan, s, n)
        /\ Current(s, n) <= Head(chan[s][n]).strength
    BY <2>1, ReceptionContext
  <2>4. /\ Current(s, n) \in Nat
        /\ StrengthKept(s, n) \in Nat
        /\ Head(chan[s][n]).strength \in Nat
    BY <2>1, ReceptionTypes, RoutingAssumption DEF StrengthValues, Advertisement
  \* An adopted sender advertises a path, so it has a parent.
  <2>5. Adopts(s, n) => bestNode[s] # NoNode
    BY <1>0, <2>3, <2>4 DEF Adopts, ParentInv
  <2>6. s \in Node /\ s # NoNode
    BY RoutingAssumption
  <2>7. \A a \in Node : bestNode[a] # NoNode => bestNode'[a] # NoNode
    BY <2>2, <2>6 DEF TypeOK
  <2>8. \A a \in Node : bestNode'[a] = bestNode[a] \/ (a = n /\ bestNode'[a] = s /\ Adopts(s, n))
    BY <2>2 DEF TypeOK
  <2>9. ParentHasParent'
    <3> SUFFICES ASSUME NEW a \in Node, bestNode'[a] # NoNode
                 PROVE  bestNode'[bestNode'[a]] # NoNode
      BY DEF ParentHasParent
    <3>1. CASE bestNode'[a] = bestNode[a]
      BY <1>0, <2>7, <3>1 DEF ParentInv, ParentHasParent, TypeOK
    <3>2. CASE bestNode'[a] = s /\ Adopts(s, n)
      BY <2>5, <2>7, <3>2
    <3>3. QED BY <2>8, <3>1, <3>2
  <2>10. \A a \in Node : strength'[a] > 0 => bestNode'[a] # NoNode
    <3> SUFFICES ASSUME NEW a \in Node, strength'[a] > 0 PROVE bestNode'[a] # NoNode
      OBVIOUS
    <3>1. CASE a # n
      BY <1>0, <2>2, <2>7, <3>1 DEF ParentInv, TypeOK
    <3>2. CASE a = n /\ Adopts(s, n)
      BY <2>2, <2>6, <3>2 DEF TypeOK
    <3>3. CASE a = n /\ ~Adopts(s, n)
      <4>1. strength'[n] = StrengthKept(s, n)
        BY <2>2, <3>3 DEF TypeOK
      <4>2. strength[n] > 0 \/ bestNode[n] = s
        BY <3>3, <4>1 DEF StrengthKept
      <4>3. QED BY <1>0, <2>6, <2>7, <3>3, <4>2 DEF ParentInv
    <3>4. QED BY <3>1, <3>2, <3>3
  <2>11. \A a, b \in Node : \A m \in Pending(chan', a, b) : m.strength > 0 => bestNode'[a] # NoNode
    BY <1>0, <2>2, <2>7, <2>10 DEF ParentInv
  <2>12. QED BY <2>9, <2>10, <2>11 DEF ParentInv
<1>4. CASE bestNode' = bestNode /\ strength' = strength /\ chan' = chan
  <2>1. \A a, b \in Node : Pending(chan', a, b) = Pending(chan, a, b)
    BY <1>4
  <2>2. QED BY <1>0, <1>4, <2>1 DEF ParentInv, ParentHasParent
<1>5. ASSUME NEW n \in Node, NeighborDiscoveryInput(n) PROVE ParentInv'
  BY <1>4, <1>5, QuietSteps
<1>6. CASE UNCHANGED vars
  BY <1>4, <1>6 DEF vars
<1>7. QED BY <1>1, <1>2, <1>3, <1>5, <1>6 DEF Next, RoutingStep, Receive

LEMMA RoutingInvInit == Init => RoutingInv
<1> SUFFICES ASSUME Init PROVE RoutingInv
  OBVIOUS
<1>1. \A a, b \in Node : Pending(chan, a, b) = {}
  BY DEF Init, Pending
<1>2. /\ \A n \in Node : bestNode[n] = NoNode /\ strength[n] = 0
      /\ NoNode \notin Node /\ Coordinator \in Node
  BY RoutingAssumption DEF Init
<1>3. RootInv
  BY <1>1, <1>2 DEF RootInv, OnlyRoot
<1>4. ParentInv
  BY <1>1, <1>2 DEF ParentInv, ParentHasParent
<1>5. QED BY <1>3, <1>4 DEF RoutingInv

LEMMA RoutingInvariant == Spec => []RoutingInv
<1>1. TypeOK /\ RoutingInv /\ [Next]_vars => RoutingInv'
  BY RootStep, ParentStep DEF RoutingInv
<1>2. QED BY <1>1, RoutingInvInit, TypeCorrect, PTL DEF Spec

(***************************************************************************)
(* A node chosen as a parent has a parent: forwarding never leads to the   *)
(* address of node 0, for every loss, delay and change of the links.       *)
(***************************************************************************)
THEOREM ParentsAreConnected == Spec => []ParentHasParent
<1>1. RoutingInv => ParentHasParent
  BY DEF RoutingInv, ParentInv
<1>2. QED BY <1>1, RoutingInvariant, PTL

(***************************************************************************)
(* The coordinator never adopts a parent and nobody adopts itself.         *)
(***************************************************************************)
THEOREM CoordinatorStaysRoot == Spec => []OnlyRoot
<1>1. RoutingInv => OnlyRoot
  BY DEF RoutingInv, RootInv
<1>2. QED BY <1>1, RoutingInvariant, PTL

-----------------------------------------------------------------------------
(***************************************************************************)
(* While the link strengths stay as they are, strengths only grow and the  *)
(* parents form no loop.                                                   *)
(***************************************************************************)

\* The invariants of this section, and the numbers they compare.
StaticContext == TypeOK /\ RoutingInv /\ StaticInv

LEMMA Numbers ==
  ASSUME TypeOK, NEW n \in Node
  PROVE  /\ strength[n] \in Nat
         /\ strength[n] <= MasterStrength
         /\ maxSeq[n] \in Nat
         /\ MasterStrength \in Nat
<1>1. strength[n] \in Strengths \cup {MasterStrength}
  BY DEF TypeOK, StrengthValues
<1>2. maxSeq[n] \in Nat
  BY RoutingAssumption DEF TypeOK, Seqs
<1>3. MasterStrength \in Nat
  BY RoutingAssumption
<1>4. ASSUME NEW x \in Strengths PROVE x \in Nat /\ x <= MasterStrength
  <2>1. x \in Nat /\ x < MasterStrength
    BY RoutingAssumption
  <2>2. QED BY <1>3, <2>1
<1>5. CASE strength[n] \in Strengths
  BY <1>2, <1>3, <1>4, <1>5
<1>6. CASE strength[n] = MasterStrength
  BY <1>2, <1>3, <1>6
<1>7. QED BY <1>1, <1>5, <1>6

LEMMA PendingNumbers ==
  ASSUME TypeOK, NEW s \in Node, NEW n \in Node, NEW m \in Pending(chan, s, n)
  PROVE  m.strength \in Nat /\ m.seq \in Nat
<1>1. m \in Advertisement
  BY DEF TypeOK, Pending
<1>2. m.strength \in Strengths \cup {MasterStrength} /\ m.seq \in Seqs
  BY <1>1 DEF Advertisement, StrengthValues
<1>3. Strengths \cup {MasterStrength} \subseteq Nat
  BY RoutingAssumption
<1>4. Seqs \subseteq Nat
  BY DEF Seqs
<1>5. QED BY <1>2, <1>3, <1>4

(***************************************************************************)
(* The effect of a reception at a node other than the coordinator, in the  *)
(* terms of the invariants: what the node believes afterwards is not less  *)
(* than before, and is bounded by the advertisement when it comes from it. *)
(***************************************************************************)
LEMMA StaticReception ==
  ASSUME StaticContext, NEW s \in Node, NEW n \in Node \ {Coordinator},
         chan[s][n] # <<>>
  PROVE  /\ strength[n] <= StrengthKept(s, n)
         /\ maxSeq[n] <= SeqAfter(s, n)
         /\ Head(chan[s][n]).seq <= SeqAfter(s, n)
         /\ StrengthKept(s, n) = strength[n] \/
              (StrengthKept(s, n) = Current(s, n) /\ bestNode[n] = s
                /\ SeqAfter(s, n) = Head(chan[s][n]).seq)
         /\ Current(s, n) <= strength[s]
<1> USE DEF StaticContext
<1>1. /\ Head(chan[s][n]) \in Pending(chan, s, n)
      /\ Current(s, n) <= Head(chan[s][n]).strength
  BY ReceptionContext
<1>2. /\ Head(chan[s][n]).strength \in Nat
      /\ Head(chan[s][n]).seq \in Nat
      /\ sv[n][s] \in Nat
      /\ Current(s, n) \in Nat
  <2>1. Current(s, n) \in Nat
    BY ReceptionTypes, RoutingAssumption DEF StrengthValues
  <2>2. sv[n][s] \in Strengths
    BY DEF TypeOK
  <2>3. sv[n][s] \in Nat
    BY <2>2, RoutingAssumption
  <2>4. QED BY <1>1, <2>1, <2>3, PendingNumbers
<1>3. strength[n] \in Nat /\ strength[s] \in Nat /\ maxSeq[n] \in Nat
  BY Numbers
<1>4. /\ maxSeq[n] <= SeqAfter(s, n)
      /\ Head(chan[s][n]).seq <= SeqAfter(s, n)
  BY <1>2, <1>3 DEF SeqAfter, Fresher
<1>5. Head(chan[s][n]).strength <= strength[s]
  BY <1>1 DEF StaticInv, PendingInv
<1>6. Current(s, n) <= strength[s]
  BY <1>1, <1>2, <1>3, <1>5
<1>7. CASE Fresher(s, n) /\ bestNode[n] = s
  <2>1. s # NoNode
    BY RoutingAssumption
  <2>2. /\ strength[n] <= Head(chan[s][n]).strength
        /\ strength[n] <= sv[n][s]
    BY <1>1, <1>7, <2>1 DEF StaticInv, DownhillInv, Fresher
  <2>3. Current(s, n) \in {Head(chan[s][n]).strength, sv[n][s]}
    BY DEF Current, Weaker
  <2>4. strength[n] <= Current(s, n)
    BY <2>2, <2>3
  <2>5. StrengthKept(s, n) = Current(s, n) /\ SeqAfter(s, n) = Head(chan[s][n]).seq
    BY <1>7 DEF StrengthKept, SeqAfter
  <2>6. QED BY <1>4, <1>6, <1>7, <2>4, <2>5
<1>8. CASE ~(Fresher(s, n) /\ bestNode[n] = s)
  <2>1. StrengthKept(s, n) = strength[n]
    BY <1>8 DEF StrengthKept
  <2>2. QED BY <1>3, <1>4, <1>6, <2>1
<1>9. QED BY <1>7, <1>8

(***************************************************************************)
(* No node ever becomes weaker, and only the coordinator, when its counter *)
(* wraps, goes back to an earlier sequence number.                         *)
(***************************************************************************)
LEMMA Growth ==
  ASSUME StaticContext, [RoutingStep]_vars, NEW a \in Node
  PROVE  /\ strength[a] <= strength'[a]
         /\ a # Coordinator => maxSeq[a] <= maxSeq'[a]
<1> USE DEF StaticContext
<1>0. strength[a] \in Nat /\ maxSeq[a] \in Nat /\ strength[a] <= MasterStrength
      /\ MasterStrength \in Nat
  BY Numbers
<1>1. CASE CoordinatorAdvertise
  <2>1. /\ strength' = [strength EXCEPT ![Coordinator] = MasterStrength]
        /\ maxSeq' = [maxSeq EXCEPT ![Coordinator] = advCounter']
    BY <1>1, AdvertiseEffect
  <2>2. CASE a = Coordinator
    <3>1. strength'[a] = MasterStrength
      BY <2>1, <2>2 DEF TypeOK
    <3>2. QED BY <1>0, <2>2, <3>1
  <2>3. CASE a # Coordinator
    <3>1. strength'[a] = strength[a] /\ maxSeq'[a] = maxSeq[a]
      BY <2>1, <2>3 DEF TypeOK
    <3>2. QED BY <1>0, <3>1
  <2>4. QED BY <2>2, <2>3
<1>2. ASSUME NEW s \in Node, NEW n \in Node, IgnoreOwnChild(s, n)
      PROVE  strength' = strength /\ maxSeq' = maxSeq
  BY <1>2 DEF IgnoreOwnChild
<1>3. ASSUME NEW s \in Node, NEW n \in Node, ReceiveAdvertisement(s, n)
      PROVE  /\ strength[a] <= strength'[a]
             /\ a # Coordinator => maxSeq[a] <= maxSeq'[a]
  <2>1. chan[s][n] # <<>>
    BY <1>3 DEF ReceiveAdvertisement
  <2>2. /\ strength' = [strength EXCEPT ![n] =
                          IF Adopts(s, n) THEN Current(s, n) ELSE StrengthKept(s, n)]
        /\ maxSeq' = [maxSeq EXCEPT ![n] = SeqAfter(s, n)]
    BY <1>3, ReceiveEffect
  <2>3. CASE a # n
    <3>1. strength'[a] = strength[a] /\ maxSeq'[a] = maxSeq[a]
      BY <2>2, <2>3 DEF TypeOK
    <3>2. QED BY <1>0, <3>1
  <2>4. CASE a = n /\ n = Coordinator
    <3>1. StrengthKept(s, n) = MasterStrength /\ ~Adopts(s, n)
      BY <2>1, <2>4, CoordinatorKeeps
    <3>2. strength'[a] = MasterStrength
      BY <2>2, <2>4, <3>1 DEF TypeOK
    <3>3. QED BY <1>0, <2>4, <3>2
  <2>5. CASE a = n /\ n # Coordinator
    <3>1. strength[n] <= StrengthKept(s, n) /\ maxSeq[n] <= SeqAfter(s, n)
      BY <2>1, <2>5, StaticReception
    <3>2. StrengthKept(s, n) \in Nat /\ Current(s, n) \in Nat
      BY <2>1, ReceptionTypes, RoutingAssumption DEF StrengthValues
    <3>3. Adopts(s, n) => StrengthKept(s, n) < Current(s, n)
      BY DEF Adopts
    <3>4. strength'[n] = (IF Adopts(s, n) THEN Current(s, n) ELSE StrengthKept(s, n))
          /\ maxSeq'[n] = SeqAfter(s, n)
      BY <2>2 DEF TypeOK
    <3>5. QED BY <1>0, <2>5, <3>1, <3>2, <3>3, <3>4
  <2>6. QED BY <2>3, <2>4, <2>5
<1>4. CASE UNCHANGED vars
  BY <1>0, <1>4 DEF vars
<1>5. QED BY <1>0, <1>1, <1>2, <1>3, <1>4 DEF RoutingStep, Receive

(***************************************************************************)
(* What a step adds to a channel is the present belief of the sender.      *)
(***************************************************************************)
LEMMA NewPending ==
  ASSUME StaticContext, [RoutingStep]_vars, NEW a \in Node, NEW b \in Node,
         NEW m \in Pending(chan', a, b)
  PROVE  \/ m \in Pending(chan, a, b)
         \/ /\ m.strength = strength'[a]
            /\ a = Coordinator => m.strength = MasterStrength
            /\ a # Coordinator => m.seq = maxSeq'[a]
<1> USE DEF StaticContext
<1>1. CASE CoordinatorAdvertise
  <2>1. \/ m \in Pending(chan, a, b)
        \/ a = Coordinator /\ m = [seq |-> advCounter', best |-> Coordinator,
                                   strength |-> MasterStrength]
    BY <1>1, AdvertiseEffect
  <2>2. strength'[Coordinator] = MasterStrength
    <3>1. strength' = [strength EXCEPT ![Coordinator] = MasterStrength]
      BY <1>1, AdvertiseEffect
    <3>2. Coordinator \in Node
      BY RoutingAssumption
    <3>3. QED BY <3>1, <3>2 DEF TypeOK
  <2>3. QED BY <2>1, <2>2
<1>2. ASSUME NEW s \in Node, NEW n \in Node, IgnoreOwnChild(s, n)
      PROVE  m \in Pending(chan, a, b)
  <2>1. chan' = Pop(s, n) /\ chan[s][n] # <<>>
    BY <1>2 DEF IgnoreOwnChild
  <2>2. chan \in Channels
    BY DEF TypeOK, Channels
  <2>3. QED BY <2>1, <2>2, PopPending
<1>3. ASSUME NEW s \in Node, NEW n \in Node, ReceiveAdvertisement(s, n)
      PROVE  \/ m \in Pending(chan, a, b)
             \/ /\ m.strength = strength'[a]
                /\ a = Coordinator => m.strength = MasterStrength
                /\ a # Coordinator => m.seq = maxSeq'[a]
  <2>1. \/ m \in Pending(chan, a, b)
        \/ a = n /\ m = [seq |-> maxSeq'[n], best |-> bestNode'[n],
                         strength |-> strength'[n]]
    BY <1>3, ReceiveEffect
  <2>2. n = Coordinator => strength'[n] = MasterStrength
    <3>1. chan[s][n] # <<>>
      BY <1>3 DEF ReceiveAdvertisement
    <3>2. n = Coordinator => StrengthKept(s, n) = MasterStrength /\ ~Adopts(s, n)
      BY <3>1, CoordinatorKeeps
    <3>3. strength' = [strength EXCEPT ![n] =
                          IF Adopts(s, n) THEN Current(s, n) ELSE StrengthKept(s, n)]
      BY <1>3, ReceiveEffect
    <3>4. QED BY <3>2, <3>3 DEF TypeOK
  <2>3. QED BY <2>1, <2>2
<1>4. CASE UNCHANGED vars
  BY <1>4 DEF vars, Pending
<1>5. QED BY <1>1, <1>2, <1>3, <1>4 DEF RoutingStep, Receive

LEMMA PendingStep ==
  ASSUME StaticContext, TypeOK', [RoutingStep]_vars
  PROVE  PendingInv'
<1> SUFFICES ASSUME NEW s \in Node, NEW n \in Node, NEW m \in Pending(chan', s, n)
             PROVE  /\ m.strength <= strength'[s]
                    /\ s = Coordinator => m.strength = MasterStrength
                    /\ s # Coordinator => m.seq <= maxSeq'[s]
                    /\ \A k \in Pending(chan', s, n) :
                         m.seq < k.seq => m.strength <= k.strength
  BY DEF PendingInv
<1> DEFINE New(k) == /\ k.strength = strength'[s]
                     /\ s = Coordinator => k.strength = MasterStrength
                     /\ s # Coordinator => k.seq = maxSeq'[s]
<1>1. \A k \in Pending(chan', s, n) : k \in Pending(chan, s, n) \/ New(k)
  BY NewPending
<1>2. /\ strength[s] \in Nat /\ strength'[s] \in Nat
      /\ maxSeq[s] \in Nat /\ maxSeq'[s] \in Nat /\ MasterStrength \in Nat
  <2>1. strength[s] \in Nat /\ maxSeq[s] \in Nat /\ MasterStrength \in Nat
    BY Numbers DEF StaticContext
  <2>2. strength'[s] \in Strengths \cup {MasterStrength} /\ maxSeq'[s] \in Seqs
    BY DEF TypeOK, StrengthValues
  <2>3. Strengths \cup {MasterStrength} \subseteq Nat /\ Seqs \subseteq Nat
    BY RoutingAssumption DEF Seqs
  <2>4. QED BY <2>1, <2>2, <2>3
<1>3. strength[s] <= strength'[s] /\ (s # Coordinator => maxSeq[s] <= maxSeq'[s])
  BY Growth
<1>4. \A k \in Pending(chan, s, n) : k.strength \in Nat /\ k.seq \in Nat
  BY PendingNumbers DEF StaticContext
<1>5. ASSUME NEW k \in Pending(chan, s, n)
      PROVE  /\ k.strength <= strength[s]
             /\ s = Coordinator => k.strength = MasterStrength
             /\ s # Coordinator => k.seq <= maxSeq[s]
             /\ \A j \in Pending(chan, s, n) : k.seq < j.seq => k.strength <= j.strength
  BY DEF StaticContext, StaticInv, PendingInv
<1>6. ASSUME NEW k \in Pending(chan', s, n)
      PROVE  /\ k.strength \in Nat
             /\ k.strength <= strength'[s]
             /\ s = Coordinator => k.strength = MasterStrength
             /\ s # Coordinator => k.seq <= maxSeq'[s]
  <2>1. CASE k \in Pending(chan, s, n)
    <3>1. /\ k.strength \in Nat /\ k.seq \in Nat
          /\ k.strength <= strength[s]
          /\ s = Coordinator => k.strength = MasterStrength
          /\ s # Coordinator => k.seq <= maxSeq[s]
      BY <1>4, <1>5, <2>1
    <3>2. QED BY <1>2, <1>3, <3>1
  <2>2. CASE New(k)
    BY <1>2, <2>2
  <2>3. QED BY <1>1, <2>1, <2>2
<1>7. ASSUME NEW k \in Pending(chan', s, n), m.seq < k.seq
      PROVE  m.strength <= k.strength
  <2>1. CASE s = Coordinator
    BY <1>2, <1>6, <2>1
  <2>2. CASE s # Coordinator /\ New(k)
    BY <1>6, <2>2
  <2>3. CASE s # Coordinator /\ New(m) /\ k \in Pending(chan, s, n)
    <3>1. k.seq \in Nat /\ k.seq <= maxSeq'[s] /\ m.seq = maxSeq'[s]
      BY <1>4, <1>6, <2>3
    <3>2. FALSE
      BY <1>2, <1>7, <3>1
    <3>3. QED BY <3>2
  <2>4. CASE m \in Pending(chan, s, n) /\ k \in Pending(chan, s, n)
    BY <1>5, <1>7, <2>4
  <2>5. QED BY <1>1, <2>1, <2>2, <2>3, <2>4
<1>8. QED BY <1>6, <1>7

(***************************************************************************)
(* What a step may do to the parent and the strength of one node: nothing, *)
(* or the reception of an advertisement of the parent it has afterwards.   *)
(***************************************************************************)
LEMMA ParentChoice ==
  ASSUME StaticContext, [RoutingStep]_vars
  PROVE  \/ /\ \A x \in Node \ {Coordinator} :
                 bestNode'[x] = bestNode[x] /\ strength'[x] = strength[x]
         \/ \E n \in Node \ {Coordinator}, s \in Node :
              /\ ReceiveAdvertisement(s, n)
              /\ chan[s][n] # <<>>
              /\ \A x \in Node \ {n} :
                   bestNode'[x] = bestNode[x] /\ strength'[x] = strength[x]
              /\ maxSeq'[n] = SeqAfter(s, n)
              /\ \/ /\ bestNode'[n] = s
                    /\ strength'[n] = Current(s, n)
                    /\ StrengthKept(s, n) < Current(s, n)
                 \/ bestNode'[n] = bestNode[n] /\ strength'[n] = StrengthKept(s, n)
<1> USE DEF StaticContext
<1>1. CASE CoordinatorAdvertise
  <2>1. /\ bestNode' = [bestNode EXCEPT ![Coordinator] = Coordinator]
        /\ strength' = [strength EXCEPT ![Coordinator] = MasterStrength]
    BY <1>1, AdvertiseEffect
  <2>2. QED BY <2>1 DEF TypeOK
<1>2. ASSUME NEW s \in Node, NEW n \in Node, IgnoreOwnChild(s, n)
      PROVE  bestNode' = bestNode /\ strength' = strength
  BY <1>2 DEF IgnoreOwnChild
<1>3. ASSUME NEW s \in Node, NEW n \in Node, ReceiveAdvertisement(s, n)
      PROVE  /\ chan[s][n] # <<>>
             /\ \A x \in Node \ {n} :
                  bestNode'[x] = bestNode[x] /\ strength'[x] = strength[x]
             /\ maxSeq'[n] = SeqAfter(s, n)
             /\ \/ /\ bestNode'[n] = s
                   /\ strength'[n] = Current(s, n)
                   /\ StrengthKept(s, n) < Current(s, n)
                \/ bestNode'[n] = bestNode[n] /\ strength'[n] = StrengthKept(s, n)
  <2>1. /\ maxSeq' = [maxSeq EXCEPT ![n] = SeqAfter(s, n)]
        /\ strength' = [strength EXCEPT ![n] =
                          IF Adopts(s, n) THEN Current(s, n) ELSE StrengthKept(s, n)]
        /\ bestNode' = IF Adopts(s, n) THEN [bestNode EXCEPT ![n] = s] ELSE bestNode
    BY <1>3, ReceiveEffect
  <2>2. chan[s][n] # <<>>
    BY <1>3 DEF ReceiveAdvertisement
  <2>3. \A x \in Node \ {n} : bestNode'[x] = bestNode[x] /\ strength'[x] = strength[x]
    BY <2>1 DEF TypeOK
  <2>4. maxSeq'[n] = SeqAfter(s, n)
    BY <2>1 DEF TypeOK
  <2>5. CASE Adopts(s, n)
    <3>1. bestNode'[n] = s /\ strength'[n] = Current(s, n)
      BY <2>1, <2>5 DEF TypeOK
    <3>2. StrengthKept(s, n) < Current(s, n)
      BY <2>5 DEF Adopts
    <3>3. QED BY <2>2, <2>3, <2>4, <3>1, <3>2
  <2>6. CASE ~Adopts(s, n)
    <3>1. bestNode'[n] = bestNode[n] /\ strength'[n] = StrengthKept(s, n)
      BY <2>1, <2>6 DEF TypeOK
    <3>2. QED BY <2>2, <2>3, <2>4, <3>1
  <2>7. QED BY <2>5, <2>6
<1>4. ASSUME NEW s \in Node, ReceiveAdvertisement(s, Coordinator)
      PROVE  \A x \in Node \ {Coordinator} :
               bestNode'[x] = bestNode[x] /\ strength'[x] = strength[x]
  BY <1>3, <1>4, RoutingAssumption
<1>5. CASE UNCHANGED vars
  BY <1>5 DEF vars
<1>6. CASE \E s, n \in Node : ReceiveAdvertisement(s, n)
  <2>1. PICK s \in Node, n \in Node : ReceiveAdvertisement(s, n)
    BY <1>6
  <2>2. CASE n = Coordinator
    BY <1>4, <2>1, <2>2
  <2>3. CASE n # Coordinator
    BY <1>3, <2>1, <2>3
  <2>4. QED BY <2>2, <2>3
<1>7. QED BY <1>1, <1>2, <1>5, <1>6 DEF RoutingStep, Receive

LEMMA DownhillStep ==
  ASSUME StaticContext, TypeOK', RootInv', [RoutingStep]_vars
  PROVE  DownhillInv'
<1> SUFFICES ASSUME NEW x \in Node \ {Coordinator}, bestNode'[x] # NoNode
             PROVE  /\ strength'[x] <= strength'[bestNode'[x]]
                    /\ strength'[x] <= sv'[x][bestNode'[x]]
                    /\ \A m \in Pending(chan', bestNode'[x], x) :
                         maxSeq'[x] < m.seq => strength'[x] <= m.strength
  BY DEF DownhillInv
<1> DEFINE p == bestNode'[x]
<1>1. p \in Node /\ p # x
  BY DEF TypeOK, RootInv, OnlyRoot
<1>2. sv' = sv
  BY DEF RoutingStep, Receive, CoordinatorAdvertise, IgnoreOwnChild,
         ReceiveAdvertisement, vars
<1>3. /\ strength[p] \in Nat /\ strength'[p] \in Nat /\ strength[p] <= strength'[p]
      /\ strength[x] \in Nat /\ strength'[x] \in Nat
      /\ maxSeq[x] \in Nat /\ maxSeq'[x] \in Nat /\ maxSeq[x] <= maxSeq'[x]
  <2>1. /\ strength[p] \in Nat /\ strength[x] \in Nat /\ maxSeq[x] \in Nat
    BY <1>1, Numbers DEF StaticContext
  <2>2. /\ strength'[p] \in Strengths \cup {MasterStrength}
        /\ strength'[x] \in Strengths \cup {MasterStrength}
        /\ maxSeq'[x] \in Seqs
    BY <1>1 DEF TypeOK, StrengthValues
  <2>3. Strengths \cup {MasterStrength} \subseteq Nat /\ Seqs \subseteq Nat
    BY RoutingAssumption DEF Seqs
  <2>4. strength[p] <= strength'[p] /\ maxSeq[x] <= maxSeq'[x]
    BY <1>1, Growth
  <2>5. QED BY <2>1, <2>2, <2>3, <2>4
<1>4. \A m \in Pending(chan, p, x) : m.seq \in Nat /\ m.strength \in Nat
  BY <1>1, PendingNumbers DEF StaticContext
<1>5. ASSUME strength'[x] <= strength[p],
             strength'[x] <= sv[x][p],
             \A m \in Pending(chan, p, x) : maxSeq'[x] < m.seq => strength'[x] <= m.strength
      PROVE  /\ strength'[x] <= strength'[p]
             /\ strength'[x] <= sv'[x][p]
             /\ \A m \in Pending(chan', p, x) :
                  maxSeq'[x] < m.seq => strength'[x] <= m.strength
  <2>1. strength'[x] <= strength'[p]
    BY <1>3, <1>5
  <2>2. strength'[x] <= sv'[x][p]
    BY <1>2, <1>5
  <2>3. \A m \in Pending(chan', p, x) :
          m \in Pending(chan, p, x) \/ m.strength = strength'[p]
    BY <1>1, NewPending
  <2>4. QED BY <1>5, <2>1, <2>2, <2>3
<1>6. CASE bestNode'[x] = bestNode[x] /\ strength'[x] = strength[x]
  <2>1. /\ strength[x] <= strength[p]
        /\ strength[x] <= sv[x][p]
        /\ \A m \in Pending(chan, p, x) : maxSeq[x] < m.seq => strength[x] <= m.strength
    BY <1>1, <1>6, RoutingAssumption DEF StaticContext, StaticInv, DownhillInv
  <2>2. \A m \in Pending(chan, p, x) : maxSeq'[x] < m.seq => maxSeq[x] < m.seq
    BY <1>3, <1>4
  <2>3. QED BY <1>5, <1>6, <2>1, <2>2
<1>7. ASSUME chan[p][x] # <<>>, strength'[x] = Current(p, x),
             maxSeq'[x] = SeqAfter(p, x)
      PROVE  /\ strength'[x] <= strength[p]
             /\ strength'[x] <= sv[x][p]
             /\ \A m \in Pending(chan, p, x) :
                  maxSeq'[x] < m.seq => strength'[x] <= m.strength
  <2>1. Head(chan[p][x]) \in Pending(chan, p, x)
    BY <1>1, <1>7, HeadPending DEF StaticContext, TypeOK, Channels
  <2>2. Current(p, x) <= strength[p] /\ Head(chan[p][x]).seq <= SeqAfter(p, x)
    BY <1>1, <1>7, StaticReception
  <2>3. sv[x][p] \in Nat
    <3>1. sv[x][p] \in Strengths
      BY <1>1 DEF StaticContext, TypeOK
    <3>2. QED BY <3>1, RoutingAssumption
  <2>4. Head(chan[p][x]).seq \in Nat /\ Head(chan[p][x]).strength \in Nat
    BY <1>4, <2>1
  <2>5. Current(p, x) <= sv[x][p] /\ Current(p, x) <= Head(chan[p][x]).strength
    BY <2>3, <2>4 DEF Current, Weaker
  <2>6. ASSUME NEW m \in Pending(chan, p, x), maxSeq'[x] < m.seq
        PROVE  strength'[x] <= m.strength
    <3>1. Head(chan[p][x]).seq < m.seq
      BY <1>3, <1>4, <1>7, <2>2, <2>4, <2>6
    <3>2. Head(chan[p][x]).strength <= m.strength
      BY <1>1, <2>1, <3>1 DEF StaticContext, StaticInv, PendingInv
    <3>3. QED BY <1>3, <1>4, <1>7, <2>4, <2>5, <3>2
  <2>7. QED BY <1>7, <2>2, <2>5, <2>6
<1>8. ASSUME NEW s \in Node, ReceiveAdvertisement(s, x), chan[s][x] # <<>>,
             maxSeq'[x] = SeqAfter(s, x),
             \/ bestNode'[x] = s /\ strength'[x] = Current(s, x)
             \/ bestNode'[x] = bestNode[x] /\ strength'[x] = StrengthKept(s, x)
      PROVE  \/ bestNode'[x] = bestNode[x] /\ strength'[x] = strength[x]
             \/ /\ chan[p][x] # <<>> /\ strength'[x] = Current(p, x)
                /\ maxSeq'[x] = SeqAfter(p, x)
  <2>1. \/ StrengthKept(s, x) = strength[x]
        \/ StrengthKept(s, x) = Current(s, x) /\ bestNode[x] = s
    BY <1>8, StaticReception
  <2>2. QED BY <1>8, <2>1
<1>9. \/ bestNode'[x] = bestNode[x] /\ strength'[x] = strength[x]
      \/ /\ chan[p][x] # <<>> /\ strength'[x] = Current(p, x)
         /\ maxSeq'[x] = SeqAfter(p, x)
  BY <1>8, ParentChoice
<1>10. QED BY <1>5, <1>6, <1>7, <1>9

(***************************************************************************)
(* No loop is closed: were the members of C their own parents afterwards,  *)
(* the members at least as strong as the parent just adopted would have    *)
(* been a loop before.                                                     *)
(***************************************************************************)
LEMMA LoopStep ==
  ASSUME StaticContext, [RoutingStep]_vars
  PROVE  LoopFree'
<1> SUFFICES ASSUME NEW C \in SUBSET (Node \ {Coordinator}), C # {},
                    \A n \in C : bestNode'[n] \in C
             PROVE  FALSE
  BY DEF LoopFree
<1>1. ASSUME NEW D \in SUBSET (Node \ {Coordinator}), D # {},
             \A n \in D : bestNode[n] \in D
      PROVE  FALSE
  BY <1>1 DEF StaticContext, StaticInv, LoopFree
<1>2. CASE \A n \in C : bestNode'[n] = bestNode[n]
  BY <1>1, <1>2
<1>3. CASE ~ \A n \in C : bestNode'[n] = bestNode[n]
  <2>1. PICK n \in Node \ {Coordinator}, s \in Node :
              /\ chan[s][n] # <<>>
              /\ \A x \in Node \ {n} : bestNode'[x] = bestNode[x]
              /\ bestNode'[n] = s
              /\ StrengthKept(s, n) < Current(s, n)
              /\ n \in C
    BY <1>3, ParentChoice
  <2>2. strength[n] < strength[s]
    <3>1. strength[n] <= StrengthKept(s, n) /\ Current(s, n) <= strength[s]
      BY <2>1, StaticReception
    <3>2. strength[n] \in Nat /\ strength[s] \in Nat
      BY Numbers DEF StaticContext
    <3>3. StrengthKept(s, n) \in Nat /\ Current(s, n) \in Nat
      <4>1. StrengthKept(s, n) \in StrengthValues /\ Current(s, n) \in StrengthValues
        BY <2>1, ReceptionTypes DEF StaticContext
      <4>2. QED BY <4>1, RoutingAssumption DEF StrengthValues
    <3>4. QED BY <2>1, <3>1, <3>2, <3>3
  <2> DEFINE D == { x \in C : strength[s] <= strength[x] }
  <2>3. s \in D
    <3>1. s \in C
      BY <2>1
    <3>2. strength[s] \in Nat
      BY Numbers DEF StaticContext
    <3>3. QED BY <3>1, <3>2
  <2>4. ASSUME NEW x \in D PROVE bestNode[x] \in D
    <3>1. strength[x] \in Nat /\ strength[s] \in Nat /\ strength[n] \in Nat
      BY Numbers DEF StaticContext
    <3>2. x # n
      BY <2>2, <3>1
    <3>3. bestNode[x] \in C
      BY <2>1, <3>2
    <3>4. bestNode[x] \in Node /\ bestNode[x] # NoNode
      BY <3>3, RoutingAssumption
    <3>5. strength[x] <= strength[bestNode[x]]
      BY <3>4 DEF StaticContext, StaticInv, DownhillInv
    <3>6. strength[bestNode[x]] \in Nat
      BY <3>4, Numbers DEF StaticContext
    <3>7. QED BY <3>1, <3>3, <3>5, <3>6
  <2>5. QED BY <1>1, <2>3, <2>4
<1>4. QED BY <1>2, <1>3

LEMMA StaticInvInit == Init => StaticInv
<1> SUFFICES ASSUME Init PROVE StaticInv
  OBVIOUS
<1>1. \A a, b \in Node : Pending(chan, a, b) = {}
  BY DEF Init, Pending
<1>2. \A n \in Node : bestNode[n] = NoNode /\ NoNode \notin Node
  BY RoutingAssumption DEF Init
<1>3. PendingInv
  BY <1>1 DEF PendingInv
<1>4. DownhillInv /\ LoopFree
  BY <1>2 DEF DownhillInv, LoopFree
<1>5. QED BY <1>3, <1>4 DEF StaticInv

LEMMA StaticInvariant == StaticSpec => []StaticContext
<1>1. StaticSpec => Spec
  <2>1. [RoutingStep]_vars => [Next]_vars
    BY DEF Next
  <2>2. QED BY <2>1, PTL DEF StaticSpec, Spec
<1>2. /\ StaticInv /\ TypeOK /\ TypeOK' /\ RoutingInv /\ RoutingInv' /\ [RoutingStep]_vars
        => StaticInv'
  <2>1. RoutingInv' => RootInv'
    BY DEF RoutingInv
  <2>2. QED BY <2>1, PendingStep, DownhillStep, LoopStep DEF StaticInv, StaticContext
<1>3. StaticContext <=> TypeOK /\ RoutingInv /\ StaticInv
  BY DEF StaticContext
<1>4. QED
  BY <1>1, <1>2, <1>3, StaticInvInit, TypeCorrect, RoutingInvariant, PTL DEF StaticSpec

(***************************************************************************)
(* While the link strengths stay as they are, the parents never form a     *)
(* loop, in any topology, for every loss and every order of arrival.       *)
(***************************************************************************)
THEOREM SettledLinksNoLoop == StaticSpec => []LoopFree
<1>1. StaticContext => LoopFree
  BY DEF StaticContext, StaticInv
<1>2. QED BY <1>1, StaticInvariant, PTL

(***************************************************************************)
(* While the link strengths stay as they are, no node gives up a strong    *)
(* path for a weaker one.                                                  *)
(***************************************************************************)
THEOREM SettledLinksNeverWeaker == StaticSpec => NeverWeaker
<1>1. StaticContext /\ TypeOK' /\ [RoutingStep]_vars
        => [\A n \in Node : strength'[n] >= strength[n]]_vars
  <2> SUFFICES ASSUME StaticContext, TypeOK', [RoutingStep]_vars, NEW n \in Node
               PROVE  strength'[n] >= strength[n]
    OBVIOUS
  <2>1. strength[n] \in Nat /\ strength[n] <= strength'[n]
    BY Numbers, Growth DEF StaticContext
  <2>2. strength'[n] \in Strengths \cup {MasterStrength}
    BY DEF TypeOK, StrengthValues
  <2>3. strength'[n] \in Nat
    BY <2>2, RoutingAssumption
  <2>4. QED BY <2>1, <2>3
<1>2. StaticContext => TypeOK
  BY DEF StaticContext
<1>3. QED BY <1>1, <1>2, StaticInvariant, PTL DEF StaticSpec, NeverWeaker

(***************************************************************************)
(* A strength is never more than the strongest link into any set that      *)
(* holds the node and not the coordinator: what a node adopts is bounded by *)
(* the link it came over and by what its sender has.                       *)
(***************************************************************************)
LEMMA RealisableStep ==
  ASSUME StaticContext, StrengthIsRealisable, [RoutingStep]_vars
  PROVE  StrengthIsRealisable'
<1> SUFFICES ASSUME NEW C \in SUBSET (Node \ {Coordinator}), NEW x \in C
             PROVE  \E m \in C, k \in Node \ C : strength'[x] <= sv'[m][k]
  BY DEF StrengthIsRealisable
<1>1. sv' = sv
  BY DEF RoutingStep, Receive, CoordinatorAdvertise, IgnoreOwnChild,
         ReceiveAdvertisement, vars
<1>2. \A y \in C : \E m \in C, k \in Node \ C : strength[y] <= sv[m][k]
  BY DEF StrengthIsRealisable
<1>3. CASE strength'[x] = strength[x]
  BY <1>1, <1>2, <1>3
<1>4. ASSUME NEW s \in Node, chan[s][x] # <<>>, strength'[x] = Current(s, x)
      PROVE  \E m \in C, k \in Node \ C : strength'[x] <= sv'[m][k]
  <2>1. Current(s, x) <= strength[s]
    BY <1>4, StaticReception
  <2>2. Current(s, x) <= sv[x][s]
    BY <1>4, ReceptionContext DEF StaticContext
  <2>3. CASE s \notin C
    BY <1>1, <1>4, <2>2, <2>3
  <2>4. CASE s \in C
    <3>1. PICK m \in C, k \in Node \ C : strength[s] <= sv[m][k]
      BY <1>2, <2>4
    <3>2. Current(s, x) \in Nat /\ strength[s] \in Nat /\ sv[m][k] \in Nat
      <4>1. Current(s, x) \in StrengthValues
        BY <1>4, ReceptionTypes DEF StaticContext
      <4>2. sv[m][k] \in Strengths
        BY DEF StaticContext, TypeOK
      <4>3. strength[s] \in Nat
        BY Numbers DEF StaticContext
      <4>4. QED BY <4>1, <4>2, <4>3, RoutingAssumption DEF StrengthValues
    <3>3. strength'[x] <= sv[m][k]
      BY <1>4, <2>1, <3>1, <3>2
    <3>4. QED BY <1>1, <3>3
  <2>5. QED BY <2>3, <2>4
<1>5. \/ strength'[x] = strength[x]
      \/ \E s \in Node : chan[s][x] # <<>> /\ strength'[x] = Current(s, x)
  <2>1. ASSUME NEW s \in Node, chan[s][x] # <<>>,
               \/ strength'[x] = Current(s, x)
               \/ strength'[x] = StrengthKept(s, x)
        PROVE  strength'[x] = strength[x] \/ strength'[x] = Current(s, x)
    BY <2>1, StaticReception
  <2>2. QED BY <2>1, ParentChoice
<1>6. QED BY <1>3, <1>4, <1>5

(***************************************************************************)
(* With settled links, no node advertises a strength that no path from the *)
(* coordinator to it has, in any topology, for every loss and delay.       *)
(***************************************************************************)
THEOREM StrengthsAreRealisable == StaticSpec => []StrengthIsRealisable
<1>1. Init => StrengthIsRealisable
  <2> SUFFICES ASSUME Init, NEW C \in SUBSET (Node \ {Coordinator}), NEW n \in C
               PROVE  \E m \in C, k \in Node \ C : strength[n] <= sv[m][k]
    BY DEF StrengthIsRealisable
  <2>1. Coordinator \in Node \ C /\ strength[n] = 0
    BY RoutingAssumption DEF Init
  <2>2. sv \in [Node -> [Node -> Strengths]]
    BY RoutingAssumption DEF Init
  <2>3. sv[n][Coordinator] \in Strengths
    BY <2>1, <2>2
  <2>4. sv[n][Coordinator] \in Nat
    BY <2>3, RoutingAssumption
  <2>5. QED BY <2>1, <2>4
<1>2. StrengthIsRealisable /\ StaticContext /\ [RoutingStep]_vars => StrengthIsRealisable'
  BY RealisableStep
<1>3. QED BY <1>1, <1>2, StaticInvariant, PTL DEF StaticSpec

-----------------------------------------------------------------------------
(***************************************************************************)
(* A flood that meets no loss reaches every node.                          *)
(***************************************************************************)

(***************************************************************************)
(* Only the oldest advertisement of one channel is taken.                  *)
(***************************************************************************)
LEMMA PopKeeps ==
  ASSUME chan \in Channels, NEW s \in Node, NEW n \in Node, chan[s][n] # <<>>,
         NEW a \in Node, NEW b \in Node, NEW m \in Pending(chan, a, b),
         a # s \/ b # n \/ m # Head(chan[s][n])
  PROVE  m \in Pending(Pop(s, n), a, b)
<1>1. chan[s][n] \in Seq(Advertisement)
  BY DEF Channels
<1>2. PICK i \in 1 .. Len(chan[a][b]) : m = chan[a][b][i]
  BY DEF Pending
<1>3. CASE a = s /\ b = n
  <2>1. Pop(s, n)[a][b] = Tail(chan[s][n])
    BY <1>3 DEF Pop, Channels
  <2>2. /\ Len(Tail(chan[s][n])) = Len(chan[s][n]) - 1
        /\ \A j \in 1 .. Len(chan[s][n]) - 1 : Tail(chan[s][n])[j] = chan[s][n][j + 1]
        /\ Head(chan[s][n]) = chan[s][n][1]
        /\ Len(chan[s][n]) \in Nat
    BY <1>1
  <2>3. i # 1
    BY <1>2, <1>3, <2>2
  <2>4. i - 1 \in 1 .. Len(Pop(s, n)[a][b]) /\ Pop(s, n)[a][b][i - 1] = m
    BY <1>2, <1>3, <2>1, <2>2, <2>3
  <2>5. QED BY <2>4 DEF Pending
<1>4. CASE ~(a = s /\ b = n)
  <2>1. Pop(s, n)[a][b] = chan[a][b]
    BY <1>4 DEF Pop, Channels
  <2>2. QED BY <2>1 DEF Pending
<1>5. QED BY <1>3, <1>4

(***************************************************************************)
(* A broadcast takes nothing away, goes to nodes in range, and where       *)
(* nothing is lost it goes to all of them whose channel has room.          *)
(***************************************************************************)
LEMMA SendReaches ==
  ASSUME NEW c \in Channels, NEW n \in Node, NEW adv \in Advertisement,
         SendAdvertisement(n, adv, c)
  PROVE  /\ \A a, b \in Node : Pending(c, a, b) \subseteq Pending(chan', a, b)
         /\ \A b \in Node \ InRange[n] : Pending(chan', n, b) \subseteq Pending(c, n, b)
         /\ ~Lossy => \A b \in InRange[n] :
              Len(c[n][b]) < QueueSize => adv \in Pending(chan', n, b)
<1>1. PICK R \in Receivers(n) :
        chan' = [c EXCEPT ![n] = [r \in Node |-> IF r \in R THEN Enqueued(c[n][r], adv)
                                                          ELSE c[n][r]]]
  BY DEF SendAdvertisement
<1>2. R \subseteq InRange[n] /\ InRange[n] \subseteq Node /\ (~Lossy => R = InRange[n])
  BY RoutingAssumption DEF Receivers
<1>3. ASSUME NEW a \in Node, NEW b \in Node
      PROVE  /\ c[a][b] \in Seq(Advertisement)
             /\ chan'[a][b] = IF a = n /\ b \in R THEN Enqueued(c[n][b], adv) ELSE c[a][b]
  BY <1>1 DEF Channels
<1>4. ASSUME NEW q \in Seq(Advertisement), Len(q) < QueueSize
      PROVE  /\ Len(Enqueued(q, adv)) = Len(q) + 1
             /\ Len(q) \in Nat
             /\ Enqueued(q, adv)[Len(q) + 1] = adv
             /\ \A i \in 1 .. Len(q) : Enqueued(q, adv)[i] = q[i]
  BY <1>4 DEF Enqueued
<1>5. ASSUME NEW q \in Seq(Advertisement), ~(Len(q) < QueueSize)
      PROVE  Enqueued(q, adv) = q
  BY <1>5 DEF Enqueued
<1>6. ASSUME NEW a \in Node, NEW b \in Node, NEW m \in Pending(c, a, b)
      PROVE  m \in Pending(chan', a, b)
  <2>1. PICK i \in 1 .. Len(c[a][b]) : m = c[a][b][i]
    BY DEF Pending
  <2>2. CASE chan'[a][b] = c[a][b]
    BY <2>1, <2>2 DEF Pending
  <2>3. CASE a = n /\ chan'[a][b] = Enqueued(c[n][b], adv) /\ Len(c[n][b]) < QueueSize
    <3>1. i \in 1 .. Len(chan'[a][b]) /\ chan'[a][b][i] = m
      BY <1>3, <1>4, <2>1, <2>3
    <3>2. QED BY <3>1 DEF Pending
  <2>4. QED BY <1>3, <1>5, <2>2, <2>3
<1>7. ASSUME NEW b \in Node \ InRange[n]
      PROVE  Pending(chan', n, b) \subseteq Pending(c, n, b)
  <2>1. chan'[n][b] = c[n][b]
    BY <1>2, <1>3
  <2>2. QED BY <2>1 DEF Pending
<1>8. ASSUME ~Lossy, NEW b \in InRange[n], Len(c[n][b]) < QueueSize
      PROVE  adv \in Pending(chan', n, b)
  <2>1. chan'[n][b] = Enqueued(c[n][b], adv) /\ c[n][b] \in Seq(Advertisement)
    BY <1>2, <1>3, <1>8
  <2>2. Len(c[n][b]) + 1 \in 1 .. Len(chan'[n][b]) /\ chan'[n][b][Len(c[n][b]) + 1] = adv
    BY <1>4, <1>8, <2>1
  <2>3. QED BY <2>2 DEF Pending
<1>9. QED BY <1>6, <1>7, <1>8

(***************************************************************************)
(* How an advertisement is answered: it leaves its channel, and unless it  *)
(* is skipped the receiver broadcasts what it believes afterwards.         *)
(***************************************************************************)
LEMMA Answer ==
  ASSUME TypeOK, NEW s \in Node, NEW n \in Node, ReceiveAdvertisement(s, n),
         NEW adv, adv = [seq |-> maxSeq'[n], best |-> bestNode'[n], strength |-> strength'[n]]
  PROVE  /\ chan \in Channels /\ Pop(s, n) \in Channels
         /\ adv \in Advertisement
         /\ Skips(s, n) => chan' = Pop(s, n) /\ history' = history
         /\ ~Skips(s, n) =>
              /\ SendAdvertisement(n, adv, Pop(s, n))
              /\ history' = [history EXCEPT ![n][s] = Kept(Head(chan[s][n]).seq),
                                            ![n][n] = Kept(SeqAfter(s, n))]
<1>1. chan \in Channels /\ Pop(s, n) \in Channels
  BY PopPending DEF ReceiveAdvertisement, TypeOK, Channels
<1>2. adv \in Advertisement
  BY ReceiveEffect DEF Advertisement
<1>3. QED BY <1>1, <1>2 DEF ReceiveAdvertisement

(***************************************************************************)
(* What a reception takes from and adds to the channels.                   *)
(***************************************************************************)
LEMMA AnswerPending ==
  ASSUME TypeOK, NEW s \in Node, NEW n \in Node, ReceiveAdvertisement(s, n),
         NEW a \in Node, NEW b \in Node
  PROVE  /\ \A m \in Pending(chan, a, b) :
              m \in Pending(chan', a, b) \/ (a = s /\ b = n /\ m = Head(chan[s][n]))
         /\ b \notin InRange[a] => Pending(chan', a, b) \subseteq Pending(chan, a, b)
<1> DEFINE adv == [seq |-> maxSeq'[n], best |-> bestNode'[n], strength |-> strength'[n]]
<1>1. /\ chan \in Channels /\ Pop(s, n) \in Channels /\ adv \in Advertisement
      /\ chan' = Pop(s, n) \/ SendAdvertisement(n, adv, Pop(s, n))
      /\ chan[s][n] # <<>>
  BY Answer DEF ReceiveAdvertisement
<1>2. \A m \in Pending(chan, a, b) :
        m \in Pending(Pop(s, n), a, b) \/ (a = s /\ b = n /\ m = Head(chan[s][n]))
  BY <1>1, PopKeeps
<1>3. Pending(Pop(s, n), a, b) \subseteq Pending(chan, a, b)
  BY <1>1, PopPending
<1>4. CASE chan' = Pop(s, n)
  BY <1>2, <1>3, <1>4
<1>5. CASE SendAdvertisement(n, adv, Pop(s, n))
  <2> HIDE DEF adv
  <2>1. /\ Pending(Pop(s, n), a, b) \subseteq Pending(chan', a, b)
        /\ a = n /\ b \notin InRange[n] =>
             Pending(chan', n, b) \subseteq Pending(Pop(s, n), n, b)
        /\ \A m \in Pending(chan', a, b) :
             m \in Pending(Pop(s, n), a, b) \/ (a = n /\ b # n /\ m = adv)
    BY <1>1, <1>5, SendReaches, SendPending
  <2>2. QED BY <1>2, <1>3, <2>1
<1>6. QED BY <1>1, <1>4, <1>5

\* The invariants of this section.
FloodContext == StaticContext /\ FloodInv

LEMMA FloodNumbers ==
  ASSUME FloodContext, Reliable
  PROVE  /\ advCounter \in Nat /\ MaxRounds \in Nat /\ advCounter <= MaxRounds
         /\ SeqModulus \in Nat /\ HistoryModulus \in Nat
         /\ \A n \in Node : maxSeq[n] \in Nat /\ maxSeq[n] <= advCounter
         /\ maxSeq[Coordinator] = advCounter
         /\ \A q \in Nat : q <= MaxRounds => Kept(q) = q
<1>1. advCounter \in Nat
  BY DEF FloodContext, StaticContext, TypeOK, Seqs
<1>2. \A n \in Node : maxSeq[n] \in Nat /\ maxSeq[n] <= advCounter
  BY Numbers DEF FloodContext, StaticContext, FloodInv, NumbersInv
<1>3. MaxRounds \in Nat /\ SeqModulus \in Nat /\ HistoryModulus \in Nat \ {0}
  BY RoutingAssumption
<1>4. ASSUME NEW q \in Nat, q <= MaxRounds PROVE Kept(q) = q
  <2>1. q < HistoryModulus
    BY <1>3, <1>4 DEF Reliable
  <2>2. QED BY <1>3, <2>1 DEF Kept
<1>5. QED BY <1>1, <1>2, <1>3, <1>4 DEF FloodContext, FloodInv, NumbersInv

(***************************************************************************)
(* The coordinator opens the next round, without a wrap.                   *)
(***************************************************************************)
LEMMA NextRound ==
  ASSUME FloodContext, Reliable, CoordinatorAdvertise
  PROVE  /\ advCounter' = advCounter + 1 /\ advCounter' <= MaxRounds
         /\ maxSeq' = [maxSeq EXCEPT ![Coordinator] = advCounter']
<1>1. advCounter' = (advCounter + 1) % SeqModulus /\ advCounter < MaxRounds
      /\ maxSeq' = [maxSeq EXCEPT ![Coordinator] = advCounter']
  BY DEF CoordinatorAdvertise
<1>2. advCounter \in Nat /\ MaxRounds \in Nat /\ SeqModulus \in Nat /\ MaxRounds < SeqModulus
  BY FloodNumbers DEF Reliable
<1>3. advCounter + 1 \in 0 .. SeqModulus - 1
  BY <1>1, <1>2
<1>4. (advCounter + 1) % SeqModulus = advCounter + 1
  BY <1>2, <1>3
<1>5. QED BY <1>1, <1>2, <1>4

(***************************************************************************)
(* The sequence number a node knows after a reception.                     *)
(***************************************************************************)
LEMMA FloodReception ==
  ASSUME FloodContext, Reliable, NEW s \in Node, NEW n \in Node, chan[s][n] # <<>>
  PROVE  /\ Head(chan[s][n]) \in Pending(chan, s, n)
         /\ Head(chan[s][n]).seq \in Nat
         /\ Head(chan[s][n]).seq <= advCounter
         /\ n \in InRange[s]
         /\ SeqAfter(s, n) \in Nat
         /\ maxSeq[n] <= SeqAfter(s, n)
         /\ Head(chan[s][n]).seq <= SeqAfter(s, n)
         /\ SeqAfter(s, n) <= advCounter
         /\ SeqAfter(s, n) \in {maxSeq[n], Head(chan[s][n]).seq}
<1>1. Head(chan[s][n]) \in Pending(chan, s, n)
  BY HeadPending DEF FloodContext, StaticContext, TypeOK, Channels
<1>2. /\ Head(chan[s][n]).seq \in Nat
      /\ Head(chan[s][n]).seq <= advCounter
      /\ n \in InRange[s]
  BY <1>1, PendingNumbers DEF FloodContext, StaticContext, FloodInv, NumbersInv
<1>3. maxSeq[n] \in Nat /\ maxSeq[n] <= advCounter
  BY FloodNumbers
<1>4. QED BY <1>1, <1>2, <1>3 DEF SeqAfter, Fresher

LEMMA NumbersStep ==
  ASSUME FloodContext, Reliable, TypeOK', [RoutingStep]_vars
  PROVE  NumbersInv'
<1>0. TypeOK /\ RoutingInv /\ NumbersInv
  BY DEF FloodContext, StaticContext, FloodInv
<1>c. Coordinator \in Node
  BY RoutingAssumption
<1> DEFINE Travels(m, a, b) == b \in InRange[a] /\ m.seq <= advCounter
<1>1. \A a, b \in Node : \A m \in Pending(chan, a, b) : Travels(m, a, b)
  BY <1>0 DEF NumbersInv
<1>2. /\ advCounter \in Nat
      /\ \A n \in Node : maxSeq[n] \in Nat /\ maxSeq[n] <= advCounter
      /\ maxSeq[Coordinator] = advCounter
      /\ advCounter <= MaxRounds
  BY FloodNumbers
<1>3. \A n \in Node \ {Coordinator}, s \in Node : history[n][s] \in Nat
                                                  /\ history[n][s] <= maxSeq[n]
  BY <1>0, RoutingAssumption DEF NumbersInv, TypeOK
<1>4. CASE CoordinatorAdvertise
  <2>1. /\ advCounter' = advCounter + 1 /\ advCounter' <= MaxRounds
        /\ maxSeq' = [maxSeq EXCEPT ![Coordinator] = advCounter']
    BY <1>4, NextRound
  <2>2. /\ bestNode' = [bestNode EXCEPT ![Coordinator] = Coordinator]
        /\ history' = [history EXCEPT ![Coordinator][Coordinator] = Kept(advCounter')]
    BY <1>4 DEF CoordinatorAdvertise
  <2>3. \A n \in Node \ {Coordinator} : /\ maxSeq'[n] = maxSeq[n]
                                        /\ bestNode'[n] = bestNode[n]
                                        /\ history'[n] = history[n]
    BY <2>1, <2>2, <1>0 DEF TypeOK
  <2>4. maxSeq'[Coordinator] = advCounter'
    BY <1>0, <1>c, <2>1 DEF TypeOK
  <2>5. \A n \in Node : maxSeq'[n] <= advCounter'
    BY <1>2, <2>1, <2>3, <2>4
  <2>6. ASSUME NEW a \in Node, NEW b \in Node, NEW m \in Pending(chan', a, b)
        PROVE  b \in InRange[a] /\ m.seq <= advCounter'
    <3>1. CASE m \in Pending(chan, a, b)
      <4>1. m.seq \in Nat
        BY <1>0, <3>1, PendingNumbers
      <4>2. QED BY <1>1, <1>2, <2>1, <3>1, <4>1
    <3>2. CASE /\ a = Coordinator /\ m \notin Pending(chan, a, b)
               /\ m = [seq |-> advCounter', best |-> Coordinator, strength |-> MasterStrength]
      <4>1. m.seq <= advCounter'
        BY <1>2, <2>1, <3>2
      <4> DEFINE adv == [seq |-> (advCounter + 1) % SeqModulus, best |-> Coordinator,
                         strength |-> MasterStrength]
      <4>2. SendAdvertisement(Coordinator, adv, chan)
            /\ advCounter' = (advCounter + 1) % SeqModulus
        BY <1>4 DEF CoordinatorAdvertise
      <4>3. chan \in Channels /\ adv \in Advertisement
        BY <1>0, <4>2, RoutingAssumption DEF TypeOK, Channels, Advertisement, StrengthValues
      <4> HIDE DEF adv
      <4>4. b \notin InRange[Coordinator] =>
              Pending(chan', Coordinator, b) \subseteq Pending(chan, Coordinator, b)
        BY <1>c, <4>2, <4>3, SendReaches
      <4>5. QED BY <3>2, <4>1, <4>4
    <3>3. QED BY <1>0, <1>4, <3>1, <3>2, AdvertiseEffect
  <2>7. QED BY <1>0, <2>1, <2>3, <2>4, <2>5, <2>6 DEF NumbersInv
<1>5. ASSUME NEW s \in Node, NEW n \in Node, IgnoreOwnChild(s, n)
      PROVE  NumbersInv'
  BY <1>0, <1>5, IgnoreEffect DEF NumbersInv
<1>6. ASSUME NEW s \in Node, NEW n \in Node, ReceiveAdvertisement(s, n)
      PROVE  NumbersInv'
  <2>1. chan[s][n] # <<>> /\ advCounter' = advCounter
    BY <1>6 DEF ReceiveAdvertisement
  <2>2. /\ maxSeq' = [maxSeq EXCEPT ![n] = SeqAfter(s, n)]
        /\ bestNode' = IF Adopts(s, n) THEN [bestNode EXCEPT ![n] = s] ELSE bestNode
    BY <1>0, <1>6, ReceiveEffect
  <2>3. /\ Head(chan[s][n]).seq \in Nat /\ Head(chan[s][n]).seq <= SeqAfter(s, n)
        /\ SeqAfter(s, n) \in Nat /\ maxSeq[n] <= SeqAfter(s, n)
        /\ SeqAfter(s, n) <= advCounter /\ n \in InRange[s]
    BY <2>1, FloodReception
  <2>4. \A x \in Node : maxSeq'[x] = IF x = n THEN SeqAfter(s, n) ELSE maxSeq[x]
    BY <1>0, <2>2 DEF TypeOK
  <2>5. maxSeq'[Coordinator] = advCounter /\ \A x \in Node : maxSeq'[x] <= advCounter
    BY <1>2, <1>c, <2>3, <2>4
  <2>6. ASSUME NEW x \in Node \ {Coordinator}, NEW y \in Node
        PROVE  history'[x][y] <= maxSeq'[x]
    <3>1. CASE history'[x][y] = history[x][y]
      BY <1>2, <1>3, <2>3, <2>4, <3>1
    <3>2. CASE x = n /\ ~Skips(s, n)
      <4>1. history' = [history EXCEPT ![n][s] = Kept(Head(chan[s][n]).seq),
                                       ![n][n] = Kept(SeqAfter(s, n))]
        BY <1>6, <3>2 DEF ReceiveAdvertisement
      <4>2. /\ Kept(Head(chan[s][n]).seq) = Head(chan[s][n]).seq
            /\ Kept(SeqAfter(s, n)) = SeqAfter(s, n)
        <5>1. MaxRounds \in Nat
          BY RoutingAssumption
        <5>2. Head(chan[s][n]).seq <= MaxRounds /\ SeqAfter(s, n) <= MaxRounds
          BY <1>2, <2>3, <5>1
        <5>3. QED BY <2>3, <5>2, FloodNumbers
      <4>3. history'[n][y] \in {history[n][y], Head(chan[s][n]).seq, SeqAfter(s, n)}
        <5> DEFINE g == [history EXCEPT ![n][s] = Kept(Head(chan[s][n]).seq)]
        <5>1. history \in [Node -> [Node -> 0 .. HistoryModulus - 1]]
          BY <1>0 DEF TypeOK
        <5>2. /\ g[n][y] \in {history[n][y], Kept(Head(chan[s][n]).seq)}
              /\ DOMAIN g = Node /\ DOMAIN g[n] = Node
          BY <5>1
        <5>3. history' = [g EXCEPT ![n][n] = Kept(SeqAfter(s, n))]
          BY <4>1
        <5> HIDE DEF g
        <5>4. history'[n][y] \in {g[n][y], Kept(SeqAfter(s, n))}
          BY <5>2, <5>3
        <5>5. QED BY <4>2, <5>2, <5>4
      <4>4. QED BY <1>2, <1>3, <2>3, <2>4, <3>2, <4>3
    <3>3. history' = history \/ (~Skips(s, n) /\ \A z \in Node \ {n} : history'[z] = history[z])
      BY <1>0, <1>6 DEF ReceiveAdvertisement, TypeOK
    <3>4. QED BY <3>1, <3>2, <3>3
  <2>7. ASSUME NEW a \in Node, NEW b \in Node, NEW m \in Pending(chan', a, b)
        PROVE  b \in InRange[a] /\ m.seq <= advCounter
    <3>1. CASE m \in Pending(chan, a, b)
      BY <1>1, <3>1
    <3>2. CASE a = n /\ m \notin Pending(chan, a, b) /\ m.seq = maxSeq'[n]
      <4>1. b \in InRange[a]
        BY <1>0, <1>6, <3>2, AnswerPending
      <4>2. QED BY <2>5, <3>2, <4>1
    <3>3. m \in Pending(chan, a, b) \/ (a = n /\ m.seq = maxSeq'[n])
      <4>1. \/ m \in Pending(chan, a, b)
            \/ a = n /\ m = [seq |-> maxSeq'[n], best |-> bestNode'[n],
                             strength |-> strength'[n]]
        BY <1>0, <1>6, ReceiveEffect
      <4>2. QED BY <4>1
    <3>4. QED BY <3>1, <3>2, <3>3
  <2>8. ASSUME NEW x \in Node \ {Coordinator}, bestNode'[x] # NoNode
        PROVE  x \in InRange[bestNode'[x]]
    <3>1. CASE bestNode'[x] = bestNode[x]
      BY <1>0, <2>8, <3>1 DEF NumbersInv
    <3>2. CASE x = n /\ bestNode'[x] = s
      BY <2>3, <3>2
    <3>3. QED BY <1>0, <2>2, <3>1, <3>2 DEF TypeOK
  <2>9. QED BY <1>0, <2>1, <2>5, <2>6, <2>7, <2>8 DEF NumbersInv
<1>7. CASE UNCHANGED vars
  BY <1>0, <1>7 DEF vars, NumbersInv, Pending
<1>8. QED BY <1>4, <1>5, <1>6, <1>7 DEF RoutingStep, Receive

(***************************************************************************)
(* A node that comes to know of the round broadcasts its number.           *)
(***************************************************************************)
LEMMA NewsTravels ==
  ASSUME FloodContext, RoomInChannels, Reliable,
         NEW s \in Node, NEW n \in Node, ReceiveAdvertisement(s, n),
         maxSeq[n] # advCounter, maxSeq'[n] = advCounter, NEW c \in InRange[n]
  PROVE  \E m \in Pending(chan', n, c) : m.seq = advCounter' /\ m.best = bestNode'[n]
<1>0. /\ TypeOK /\ StaticContext /\ NumbersInv /\ chan \in Channels /\ c \in Node
      /\ chan[s][n] # <<>> /\ advCounter' = advCounter
      /\ maxSeq' = [maxSeq EXCEPT ![n] = SeqAfter(s, n)]
  BY RoutingAssumption
     DEF FloodContext, StaticContext, FloodInv, TypeOK, Channels, ReceiveAdvertisement
<1>1. SeqAfter(s, n) = advCounter /\ Head(chan[s][n]).seq = advCounter
  BY <1>0, FloodReception DEF TypeOK
<1>2. n # Coordinator
  BY FloodNumbers
<1>3. ~Skips(s, n)
  <2>1. history[n][s] <= maxSeq[n] /\ history[n][s] \in Nat
    BY <1>0, <1>2, RoutingAssumption DEF NumbersInv, TypeOK
  <2>2. history[n][s] # advCounter
    BY <2>1, FloodNumbers
  <2>3. QED BY <1>1, <1>2, <2>2 DEF Skips
<1> DEFINE adv == [seq |-> maxSeq'[n], best |-> bestNode'[n], strength |-> strength'[n]]
<1>4. /\ Pop(s, n) \in Channels /\ adv \in Advertisement
      /\ SendAdvertisement(n, adv, Pop(s, n))
  BY <1>0, <1>3, Answer
<1>5. adv.seq = advCounter' /\ adv.best = bestNode'[n]
  BY <1>0
<1> HIDE DEF adv
<1>6. Len(Pop(s, n)[n][c]) < QueueSize
  <2>1. s # n
    BY <1>0, ReceptionContext DEF StaticContext
  <2>2. Pop(s, n)[n][c] = chan[n][c]
    BY <1>0, <2>1 DEF Pop, Channels
  <2>3. QED BY <1>0, <2>2 DEF RoomInChannels
<1>7. adv \in Pending(chan', n, c)
  BY <1>4, <1>6, SendReaches DEF Reliable
<1>8. QED BY <1>5, <1>7

(***************************************************************************)
(* The coordinator tells everybody in its range of the round it opens.     *)
(***************************************************************************)
LEMMA RoundOpens ==
  ASSUME FloodContext, RoomInChannels, Reliable, CoordinatorAdvertise, NEW c \in InRange[Coordinator]
  PROVE  \E m \in Pending(chan', Coordinator, c) : m.seq = advCounter' /\ m.best = Coordinator
<1>0. TypeOK /\ chan \in Channels /\ Coordinator \in Node /\ c \in Node
  BY RoutingAssumption DEF FloodContext, StaticContext, TypeOK, Channels
<1> DEFINE adv == [seq |-> (advCounter + 1) % SeqModulus, best |-> Coordinator,
                   strength |-> MasterStrength]
<1>1. SendAdvertisement(Coordinator, adv, chan) /\ advCounter' = (advCounter + 1) % SeqModulus
  BY DEF CoordinatorAdvertise
<1>2. adv \in Advertisement
  <2>1. (advCounter + 1) % SeqModulus \in Seqs
    BY <1>0, <1>1, AdvertiseEffect
  <2>2. QED BY <1>0, <2>1, RoutingAssumption DEF Advertisement, StrengthValues
<1>3. adv.seq = advCounter' /\ adv.best = Coordinator
  BY <1>1
<1> HIDE DEF adv
<1>4. Len(chan[Coordinator][c]) < QueueSize
  BY <1>0 DEF RoomInChannels
<1>5. adv \in Pending(chan', Coordinator, c)
  BY <1>0, <1>1, <1>2, <1>4, SendReaches DEF Reliable
<1>6. QED BY <1>3, <1>5

(***************************************************************************)
(* One pair of ToldInv, in the state before the step and after it.         *)
(***************************************************************************)
Told(p, c) ==
  \/ \E m \in Pending(chan, p, c) : m.seq = advCounter /\ m.best # c
  \/ /\ bestNode[c] \notin {p, NoNode}
     /\ \A m \in Pending(chan, p, c) : m.strength <= strength[c]

(***************************************************************************)
(* A node that sends an advertisement of the present round to c, which has *)
(* not heard of it, tells c, or has c for its parent and is no stronger.   *)
(***************************************************************************)
LEMMA Telling ==
  ASSUME FloodContext, NumbersInv', TypeOK', RoutingInv', StaticInv', Reliable,
         NEW p \in Node, NEW c \in InRange[p], maxSeq'[c] < advCounter',
         NEW m \in Pending(chan', p, c), m.seq = advCounter', m.best = bestNode'[p]
  PROVE  Told(p, c)'
<1>1. CASE bestNode'[p] # c
  BY <1>1 DEF Told
<1>2. CASE bestNode'[p] = c
  <2>0. c \in Node /\ Coordinator \in Node /\ NoNode \notin Node
    BY RoutingAssumption
  <2>1. c # Coordinator
    <3>1. maxSeq'[Coordinator] = advCounter' /\ advCounter' \in Nat
      BY DEF NumbersInv, TypeOK, Seqs
    <3>2. QED BY <3>1
  <2>2. p # Coordinator
    BY <1>2, <2>0, <2>1 DEF RoutingInv, RootInv, OnlyRoot
  <2>3. bestNode'[c] # NoNode
    BY <1>2, <2>0 DEF RoutingInv, ParentInv, ParentHasParent
  <2>4. bestNode'[c] # p
    <3>1. {p, c} \in SUBSET (Node \ {Coordinator}) /\ {p, c} # {}
      BY <2>0, <2>1, <2>2
    <3>2. \E x \in {p, c} : bestNode'[x] \notin {p, c}
      BY <3>1 DEF StaticInv, LoopFree
    <3>3. QED BY <1>2, <3>2
  <2>5. strength'[p] <= strength'[c]
    BY <1>2, <2>0, <2>2 DEF StaticInv, DownhillInv
  <2>6. strength'[p] \in Nat /\ strength'[c] \in Nat
    <3>1. strength'[p] \in StrengthValues /\ strength'[c] \in StrengthValues
      BY <2>0 DEF TypeOK
    <3>2. QED BY <3>1, RoutingAssumption DEF StrengthValues
  <2>7. ASSUME NEW k \in Pending(chan', p, c) PROVE k.strength <= strength'[c]
    <3>1. k.strength <= strength'[p]
      BY <2>0 DEF StaticInv, PendingInv
    <3>2. k.strength \in Nat
      <4>1. k \in Advertisement
        <5>1. chan'[p][c] \in Seq(Advertisement)
          BY <2>0 DEF TypeOK
        <5>2. QED BY <5>1 DEF Pending
      <4>2. k.strength \in StrengthValues
        BY <4>1 DEF Advertisement
      <4>3. QED BY <4>2, RoutingAssumption DEF StrengthValues
    <3>3. QED BY <2>5, <2>6, <3>1, <3>2
  <2>8. QED BY <2>3, <2>4, <2>7 DEF Told
<1>3. QED BY <1>1, <1>2

(***************************************************************************)
(* While c does not know of the round, what it hears from p does not make  *)
(* it adopt p, and what it hears from others leaves it at least as strong. *)
(***************************************************************************)
LEMMA StillTold ==
  ASSUME FloodContext, NumbersInv', TypeOK', RoutingInv', StaticInv', Reliable,
         NEW p \in Node, NEW c \in InRange[p],
         NEW s \in Node, NEW n \in Node, ReceiveAdvertisement(s, n),
         maxSeq[p] = advCounter, maxSeq[c] < advCounter, maxSeq'[c] < advCounter,
         Told(p, c)
  PROVE  Told(p, c)'
<1>0. /\ TypeOK /\ StaticContext /\ NumbersInv
      /\ c \in Node /\ Coordinator \in Node /\ NoNode \notin Node
      /\ chan[s][n] # <<>> /\ advCounter' = advCounter
  BY RoutingAssumption DEF FloodContext, StaticContext, FloodInv, ReceiveAdvertisement
<1>1. p # c /\ c # Coordinator
  BY <1>0, FloodNumbers
<1>2. /\ bestNode' = IF Adopts(s, n) THEN [bestNode EXCEPT ![n] = s] ELSE bestNode
      /\ strength' = [strength EXCEPT ![n] =
                         IF Adopts(s, n) THEN Current(s, n) ELSE StrengthKept(s, n)]
      /\ maxSeq' = [maxSeq EXCEPT ![n] = SeqAfter(s, n)]
  BY <1>0, ReceiveEffect
<1>3. Head(chan[s][n]) \in Pending(chan, s, n) /\ Head(chan[s][n]).seq \in Nat
      /\ Head(chan[s][n]).seq <= SeqAfter(s, n) /\ SeqAfter(s, n) \in Nat
  BY <1>0, FloodReception
<1>4. s = p /\ n = c => Head(chan[s][n]).seq # advCounter
  <2>1. n = c => maxSeq'[c] = SeqAfter(s, n)
    BY <1>0, <1>2 DEF TypeOK
  <2>2. advCounter \in Nat
    BY FloodNumbers
  <2>3. QED BY <1>3, <2>1, <2>2
<1>5. CASE \E m \in Pending(chan, p, c) : m.seq = advCounter /\ m.best # c
  <2>1. PICK m \in Pending(chan, p, c) : m.seq = advCounter /\ m.best # c
    BY <1>5
  <2>2. m \in Pending(chan', p, c)
    BY <1>0, <1>4, <2>1, AnswerPending
  <2>3. QED BY <1>0, <2>1, <2>2 DEF Told
<1>6. CASE /\ bestNode[c] \notin {p, NoNode}
           /\ \A m \in Pending(chan, p, c) : m.strength <= strength[c]
  <2>1. strength[c] \in Nat /\ strength'[c] \in Nat /\ strength[c] <= strength'[c]
    <3>1. [RoutingStep]_vars
      BY DEF RoutingStep, Receive
    <3>2. strength'[c] \in StrengthValues
      BY <1>0 DEF TypeOK
    <3>3. QED BY <1>0, <3>1, <3>2, Growth, Numbers, RoutingAssumption DEF StrengthValues
  <2>2. bestNode'[c] \notin {p, NoNode}
    <3>1. CASE n = c /\ s = p
      <4>1. Head(chan[s][n]).strength <= strength[c]
        BY <1>3, <1>6, <3>1
      <4>2. StrengthKept(s, n) = strength[n]
        BY <1>6, <3>1 DEF StrengthKept
      <4>3. Current(s, n) <= Head(chan[s][n]).strength
        BY <1>0, ReceptionContext DEF StaticContext
      <4>4. Current(s, n) \in Nat /\ Head(chan[s][n]).strength \in Nat
        BY <1>0, <1>3, ReceptionTypes, PendingNumbers, RoutingAssumption DEF StrengthValues
      <4>5. ~Adopts(s, n)
        BY <2>1, <3>1, <4>1, <4>2, <4>3, <4>4 DEF Adopts
      <4>6. QED BY <1>2, <1>6, <4>5
    <3>2. CASE n # c \/ s # p
      BY <1>0, <1>2, <1>6, <3>2 DEF TypeOK
    <3>3. QED BY <3>1, <3>2
  <2>3. CASE \A m \in Pending(chan', p, c) : m \in Pending(chan, p, c)
    <3>1. \A m \in Pending(chan', p, c) : m.strength \in Nat /\ m.strength <= strength[c]
      BY <1>0, <1>6, <2>3, PendingNumbers
    <3>2. \A m \in Pending(chan', p, c) : m.strength <= strength'[c]
      BY <2>1, <3>1
    <3>3. QED BY <2>2, <3>2 DEF Told
  <2>4. CASE \E m \in Pending(chan', p, c) : m \notin Pending(chan, p, c)
    <3>1. PICK m \in Pending(chan', p, c) : m \notin Pending(chan, p, c)
      BY <2>4
    <3>2. p = n /\ m = [seq |-> maxSeq'[n], best |-> bestNode'[n], strength |-> strength'[n]]
      BY <1>0, <3>1, ReceiveEffect
    <3>3. maxSeq'[p] = advCounter
      <4>1. maxSeq'[p] = SeqAfter(s, n)
        BY <1>0, <1>2, <3>2 DEF TypeOK
      <4>2. maxSeq[n] <= SeqAfter(s, n) /\ SeqAfter(s, n) <= advCounter /\ advCounter \in Nat
        BY <1>0, FloodReception, FloodNumbers
      <4>3. QED BY <1>3, <3>2, <4>1, <4>2
    <3>4. m.seq = advCounter' /\ m.best = bestNode'[p]
      BY <1>0, <3>2, <3>3
    <3>5. QED BY <1>0, <3>1, <3>4, Telling
  <2>5. QED BY <2>3, <2>4
<1>7. QED BY <1>5, <1>6 DEF Told

(***************************************************************************)
(* ToldInv is kept.  The steps that open a round or bring a node into it   *)
(* are those at which the node broadcasts the number of the round.         *)
(***************************************************************************)
LEMMA ToldStep ==
  ASSUME FloodContext, NumbersInv', TypeOK', RoutingInv', StaticInv', RoomInChannels,
         Reliable, [RoutingStep]_vars
  PROVE  ToldInv'
<1> SUFFICES ASSUME NEW p \in Node, NEW c \in InRange[p],
                    maxSeq'[p] = advCounter', maxSeq'[c] < advCounter'
             PROVE  Told(p, c)'
  BY DEF ToldInv, Told
<1>0. /\ TypeOK /\ StaticContext /\ NumbersInv /\ ToldInv
      /\ c \in Node /\ Coordinator \in Node /\ NoNode \notin Node
      /\ chan \in Channels
  BY RoutingAssumption DEF FloodContext, StaticContext, FloodInv, TypeOK, Channels
<1>1. /\ advCounter \in Nat /\ maxSeq[c] \in Nat /\ maxSeq[p] \in Nat
      /\ maxSeq[c] <= advCounter /\ maxSeq[p] <= advCounter
      /\ maxSeq[Coordinator] = advCounter
  BY <1>0, FloodNumbers
<1>2. maxSeq[p] = advCounter /\ maxSeq[c] < advCounter => Told(p, c)
  BY <1>0 DEF ToldInv, Told
<1>3. CASE CoordinatorAdvertise
  <2>1. /\ advCounter' = advCounter + 1
        /\ maxSeq' = [maxSeq EXCEPT ![Coordinator] = advCounter']
    BY <1>3, NextRound
  <2>2. p = Coordinator /\ c # Coordinator
    <3>1. \A x \in Node :
            maxSeq'[x] = IF x = Coordinator THEN advCounter' ELSE maxSeq[x]
      BY <1>0, <2>1 DEF TypeOK
    <3>2. p # Coordinator => maxSeq[p] = advCounter + 1
      BY <2>1, <3>1
    <3>3. c = Coordinator => advCounter' < advCounter'
      BY <1>0, <3>1
    <3>4. QED BY <1>1, <2>1, <3>2, <3>3
  <2>3. QED BY <1>3, <2>2, RoundOpens DEF Told
<1>4. ASSUME NEW s \in Node, NEW n \in Node, IgnoreOwnChild(s, n)
      PROVE  Told(p, c)'
  <2>1. /\ chan' = Pop(s, n) /\ Head(chan[s][n]).best = n /\ chan[s][n] # <<>>
        /\ UNCHANGED <<advCounter, strength, bestNode, maxSeq>>
    BY <1>4 DEF IgnoreOwnChild
  <2>2. Pending(chan', p, c) \subseteq Pending(chan, p, c)
    BY <1>0, <1>4, IgnoreEffect
  <2>3. ASSUME NEW m \in Pending(chan, p, c), m.best # c PROVE m \in Pending(chan', p, c)
    BY <1>0, <2>1, <2>3, PopKeeps
  <2>4. Told(p, c)
    BY <1>2, <2>1
  <2>5. QED BY <2>1, <2>2, <2>3, <2>4 DEF Told
<1>5. ASSUME NEW s \in Node, NEW n \in Node, ReceiveAdvertisement(s, n)
      PROVE  Told(p, c)'
  <2>1. /\ maxSeq' = [maxSeq EXCEPT ![n] = SeqAfter(s, n)]
        /\ chan[s][n] # <<>> /\ advCounter' = advCounter
    BY <1>5 DEF ReceiveAdvertisement
  <2>2. maxSeq[c] < advCounter
    <3>1. maxSeq[c] <= maxSeq'[c] /\ maxSeq'[c] \in Nat
      <4>1. maxSeq'[c] = IF c = n THEN SeqAfter(s, n) ELSE maxSeq[c]
        BY <1>0, <2>1 DEF TypeOK
      <4>2. QED BY <1>1, <2>1, <4>1, FloodReception
    <3>2. QED BY <1>1, <2>1, <3>1
  <2>3. CASE maxSeq[p] = advCounter
    BY <1>0, <1>2, <1>5, <2>1, <2>2, <2>3, StillTold
  <2>4. CASE maxSeq[p] # advCounter
    <3>1. p = n
      BY <1>0, <2>1, <2>4 DEF TypeOK
    <3>2. \E m \in Pending(chan', p, c) : m.seq = advCounter' /\ m.best = bestNode'[p]
      BY <1>5, <2>1, <2>4, <3>1, NewsTravels
    <3>3. QED BY <1>0, <3>2, Telling
  <2>5. QED BY <2>3, <2>4
<1>6. CASE UNCHANGED <<advCounter, maxSeq, strength, bestNode, chan>>
  BY <1>2, <1>6 DEF Told, Pending
<1>7. UNCHANGED vars => UNCHANGED <<advCounter, maxSeq, strength, bestNode, chan>>
  BY DEF vars
<1>8. QED BY <1>3, <1>4, <1>5, <1>6, <1>7 DEF RoutingStep, Receive

(***************************************************************************)
(* When nothing is on its way, ToldInv says that a node outside the round  *)
(* has a parent, and that its parent is outside the round too.  The nodes  *)
(* outside the round would then be a loop.                                 *)
(***************************************************************************)
LEMMA NobodyLeftOut ==
  ASSUME FloodContext, Reliable, Quiet, NEW x \in Node
  PROVE  maxSeq[x] = advCounter
<1> SUFFICES ASSUME maxSeq[x] # advCounter PROVE FALSE
  OBVIOUS
<1>1. /\ advCounter \in Nat /\ maxSeq[Coordinator] = advCounter
      /\ \A n \in Node : maxSeq[n] \in Nat /\ maxSeq[n] <= advCounter
  BY FloodNumbers
<1> DEFINE Out == { n \in Node : maxSeq[n] < advCounter }
           Sons == { n \in Out : bestNode[n] # NoNode }
<1>2. x \in Out /\ Out \in SUBSET (Node \ {Coordinator})
  BY <1>1
<1>3. \A p \in Node \ Out : \A c \in Out : c \in InRange[p] => bestNode[c] \notin {p, NoNode}
  <2>1. \A s, n \in Node : Pending(chan, s, n) = {}
    BY DEF Quiet, Pending
  <2>2. ASSUME NEW p \in Node \ Out, NEW c \in Out, c \in InRange[p]
        PROVE  bestNode[c] \notin {p, NoNode}
    <3>1. maxSeq[p] = advCounter /\ maxSeq[c] < advCounter
      BY <1>1
    <3>2. QED BY <2>1, <2>2, <3>1 DEF FloodContext, FloodInv, ToldInv
  <2>3. QED BY <2>2
<1>4. \E c \in Out, p \in Node \ Out : c \in InRange[p]
  BY <1>2 DEF Reliable
<1>5. Sons # {} /\ Sons \in SUBSET (Node \ {Coordinator})
  BY <1>2, <1>3, <1>4
<1>6. PICK n \in Sons : bestNode[n] \notin Sons
  BY <1>5 DEF FloodContext, StaticContext, StaticInv, LoopFree
<1>7. /\ bestNode[n] \in Node /\ bestNode[bestNode[n]] # NoNode /\ n \in InRange[bestNode[n]]
  <2>1. n \in Node \ {Coordinator} /\ bestNode[n] # NoNode
    BY <1>5, <1>6
  <2>2. QED
    BY <2>1 DEF FloodContext, StaticContext, TypeOK, RoutingInv, ParentInv, ParentHasParent,
                FloodInv, NumbersInv
<1>8. bestNode[n] \in Node \ Out
  BY <1>6, <1>7
<1>9. QED BY <1>3, <1>6, <1>7, <1>8

LEMMA FloodInvInit == Init => FloodInv
<1> SUFFICES ASSUME Init PROVE FloodInv
  OBVIOUS
<1>1. /\ advCounter = 0 /\ \A n \in Node : maxSeq[n] = 0 /\ bestNode[n] = NoNode
      /\ \A n, s \in Node : history[n][s] = 0
      /\ \A s, n \in Node : Pending(chan, s, n) = {}
      /\ Coordinator \in Node /\ MaxRounds \in Nat
      /\ \A p \in Node : InRange[p] \subseteq Node
  BY RoutingAssumption DEF Init, Pending
<1>2. NumbersInv
  BY <1>1 DEF NumbersInv
<1>3. ToldInv
  BY <1>1 DEF ToldInv
<1>4. QED BY <1>2, <1>3 DEF FloodInv

LEMMA FloodStep ==
  ASSUME FloodInv, StaticContext, StaticContext', RoomInChannels, Reliable, [RoutingStep]_vars
  PROVE  FloodInv'
<1>1. FloodContext /\ TypeOK' /\ RoutingInv' /\ StaticInv'
  BY DEF FloodContext, StaticContext
<1>2. NumbersInv'
  BY <1>1, NumbersStep
<1>3. QED BY <1>1, <1>2, ToldStep DEF FloodInv

(***************************************************************************)
(* In a connected network without loss in which no channel fills up, every *)
(* flood that is over has reached every node, whatever the order in which  *)
(* the advertisements of several rounds arrived: neither the reply guard   *)
(* (master-routing.c:350) nor the guard against one's own children         *)
(* cuts it off.                                                            *)
(***************************************************************************)
THEOREM FloodsReachAll ==
  ASSUME Reliable
  PROVE  StaticSpec /\ []RoomInChannels => []RoundReachesAll
<1>1. /\ FloodInv /\ StaticContext /\ StaticContext' /\ RoomInChannels /\ [RoutingStep]_vars
      => FloodInv'
  BY FloodStep
<1>2. StaticContext /\ FloodInv => RoundReachesAll
  BY NobodyLeftOut DEF FloodContext, RoundReachesAll
<1>3. QED BY <1>1, <1>2, FloodInvInit, StaticInvariant, PTL DEF StaticSpec

-----------------------------------------------------------------------------
(***************************************************************************)
(* Floods that do not overlap find the widest paths.                       *)
(***************************************************************************)

\* The steps between floods: the coordinator waits until nothing is on its way.
RoundsApart == CoordinatorAdvertise => Quiet

(***************************************************************************)
(* Floods that do not overlap fill no channel: a node answers each         *)
(* neighbour once in a round, and only its own advertisements wait in its  *)
(* channels.  A broadcast makes them longer by one, handling an            *)
(* advertisement makes none longer.                                        *)
(***************************************************************************)
LEMMA SendLength ==
  ASSUME NEW c \in Channels, NEW n \in Node, NEW adv \in Advertisement,
         SendAdvertisement(n, adv, c), NEW a \in Node, NEW b \in Node
  PROVE  /\ a # n => chan'[a][b] = c[a][b]
         /\ Len(chan'[a][b]) <= Len(c[a][b]) + 1
<1>1. PICK R \in Receivers(n) :
        chan' = [c EXCEPT ![n] = [r \in Node |-> IF r \in R THEN Enqueued(c[n][r], adv)
                                                          ELSE c[n][r]]]
  BY DEF SendAdvertisement
<1>2. c[a][b] \in Seq(Advertisement)
  BY DEF Channels
<1>3. chan'[a][b] = c[a][b] \/ (a = n /\ chan'[a][b] = Enqueued(c[a][b], adv))
  BY <1>1 DEF Channels
<1>4. Len(Enqueued(c[a][b], adv)) <= Len(c[a][b]) + 1
  BY <1>2 DEF Enqueued
<1>5. Len(c[a][b]) <= Len(c[a][b]) + 1
  BY <1>2
<1>6. QED BY <1>3, <1>4, <1>5

LEMMA LengthType ==
  ASSUME NEW c \in Channels, NEW a \in Node, NEW b \in Node
  PROVE  Len(c[a][b]) \in Nat
  BY DEF Channels

LEMMA PopLength ==
  ASSUME chan \in Channels, NEW s \in Node, NEW n \in Node, chan[s][n] # <<>>,
         NEW a \in Node, NEW b \in Node
  PROVE  Len(Pop(s, n)[a][b]) <= Len(chan[a][b])
<1>1. chan[s][n] \in Seq(Advertisement) /\ chan[a][b] \in Seq(Advertisement)
  BY DEF Channels
<1>2. Pop(s, n)[a][b] = IF a = s /\ b = n THEN Tail(chan[s][n]) ELSE chan[a][b]
  BY DEF Pop, Channels
<1>3. QED BY <1>1, <1>2

(***************************************************************************)
(* A node answers no more neighbours than there are nodes, and each answer *)
(* counts.                                                                 *)
(***************************************************************************)
LEMMA AnsweredFinite ==
  ASSUME IsFiniteSet(Node), NEW s \in Node
  PROVE  /\ IsFiniteSet(Answered(s)) /\ Cardinality(Answered(s)) \in Nat
         /\ Cardinality(Answered(s)) <= Cardinality(Node)
         /\ Cardinality(Node) \in Nat
<1>1. Answered(s) \subseteq Node
  BY DEF Answered
<1>2. QED BY <1>1, FS_Subset, FS_CardinalityType

LEMMA AnsweredGrows ==
  ASSUME IsFiniteSet(Node), NEW s \in Node, NEW m \in Node, m \notin Answered(s),
         NEW T \in SUBSET Node, Answered(s) \cup {m} \subseteq T
  PROVE  Cardinality(Answered(s)) + 1 <= Cardinality(T)
<1>1. IsFiniteSet(Answered(s)) /\ IsFiniteSet(T)
  BY AnsweredFinite, FS_Subset
<1>2. Cardinality(Answered(s) \cup {m}) = Cardinality(Answered(s)) + 1
      /\ IsFiniteSet(Answered(s) \cup {m})
  BY <1>1, FS_AddElement
<1>3. QED BY <1>1, <1>2, FS_Subset

(***************************************************************************)
(* When a round begins nothing waits; afterwards, one advertisement of the *)
(* coordinator does, and its own entry of the history counts for it.       *)
(***************************************************************************)
LEMMA RoomBegins ==
  ASSUME FloodContext, Reliable, TypeOK', IsFiniteSet(Node), CoordinatorAdvertise, Quiet
  PROVE  RoomInv'
<1> DEFINE adv == [seq |-> (advCounter + 1) % SeqModulus, best |-> Coordinator,
                   strength |-> MasterStrength]
<1>1. /\ SendAdvertisement(Coordinator, adv, chan)
      /\ advCounter' = (advCounter + 1) % SeqModulus
      /\ history' = [history EXCEPT ![Coordinator][Coordinator] = Kept(advCounter')]
  BY DEF CoordinatorAdvertise
<1>2. /\ chan \in Channels /\ adv \in Advertisement /\ Coordinator \in Node
      /\ TypeOK
  BY <1>1, RoutingAssumption
     DEF FloodContext, StaticContext, TypeOK, Channels, Advertisement, StrengthValues
<1>3. adv.seq = advCounter'
  BY <1>1
<1> HIDE DEF adv
<1>4. Kept(advCounter') = advCounter'
  <2>1. advCounter' \in Nat /\ advCounter' <= MaxRounds
    BY NextRound, FloodNumbers
  <2>2. QED BY <2>1, FloodNumbers
<1>5. Coordinator \in Answered(Coordinator)'
  BY <1>1, <1>2, <1>4 DEF TypeOK, Answered
<1>6. ASSUME NEW s \in Node, NEW n \in Node
      PROVE  /\ \A m \in Pending(chan', s, n) : m.seq = advCounter'
             /\ Len(chan'[s][n]) <= Cardinality(Answered(s)')
  <2>1. chan[s][n] = <<>> /\ Pending(chan, s, n) = {}
    BY DEF Quiet, Pending
  <2>2. \A m \in Pending(chan', s, n) : m = adv
    BY <1>1, <1>2, <2>1, SendPending
  <2>3. /\ s # Coordinator => chan'[s][n] = <<>>
        /\ Len(chan'[s][n]) <= 1
    BY <1>1, <1>2, <2>1, SendLength
  <2>4. Answered(s)' \subseteq Node
    BY DEF Answered
  <2>5. IsFiniteSet(Answered(s)') /\ Cardinality(Answered(s)') \in Nat
    BY <2>4, FS_Subset, FS_CardinalityType
  <2>6. s = Coordinator => 1 <= Cardinality(Answered(s)')
    <3>1. s = Coordinator => {Coordinator} \subseteq Answered(s)'
      BY <1>5
    <3>2. Cardinality({Coordinator}) = 1
      BY FS_Singleton
    <3>3. QED BY <2>5, <3>1, <3>2, FS_Subset
  <2>7. Len(chan'[s][n]) \in Nat
    BY DEF TypeOK
  <2>8. QED BY <1>3, <2>2, <2>3, <2>5, <2>6, <2>7
<1>7. QED BY <1>6 DEF RoomInv

(***************************************************************************)
(* What a node handles is of the present round, as is what it answers, and *)
(* it answers only a neighbour it has not answered in this round.          *)
(***************************************************************************)
LEMMA RoomAfterAnswer ==
  ASSUME FloodContext, Reliable, TypeOK', IsFiniteSet(Node), RoomInv,
         NEW s \in Node, NEW n \in Node, ReceiveAdvertisement(s, n)
  PROVE  RoomInv'
<1>0. TypeOK /\ RoutingInv
  BY DEF FloodContext, StaticContext
<1>1. chan \in Channels /\ chan[s][n] # <<>> /\ advCounter' = advCounter
  BY <1>0 DEF TypeOK, Channels, ReceiveAdvertisement
<1>2. /\ Head(chan[s][n]).seq = advCounter
      /\ SeqAfter(s, n) = advCounter
      /\ Kept(advCounter) = advCounter
      /\ s # n
  <2>1. Head(chan[s][n]).seq = advCounter
    BY <1>1, FloodReception DEF RoomInv
  <2>2. advCounter <= SeqAfter(s, n) /\ SeqAfter(s, n) <= advCounter
        /\ SeqAfter(s, n) \in Nat /\ advCounter \in Nat
    BY <1>1, <2>1, FloodReception, FloodNumbers
  <2>3. QED BY <1>0, <1>1, <2>1, <2>2, FloodNumbers, ReceptionContext
<1>3. \A a, b \in Node : \A m \in Pending(chan, a, b) : m.seq = advCounter
  BY DEF RoomInv
<1>4. maxSeq'[n] = advCounter
  BY <1>0, <1>2, ReceiveEffect DEF TypeOK
<1>5. ASSUME NEW a \in Node, NEW b \in Node, NEW m \in Pending(chan', a, b)
      PROVE  m.seq = advCounter
  <2>1. \/ m \in Pending(chan, a, b)
        \/ m = [seq |-> maxSeq'[n], best |-> bestNode'[n], strength |-> strength'[n]]
    BY <1>0, ReceiveEffect
  <2>2. QED BY <1>3, <1>4, <2>1
<1>6. ASSUME NEW a \in Node, NEW b \in Node
      PROVE  Len(chan'[a][b]) <= Cardinality(Answered(a)')
  <2>1. Len(chan[a][b]) <= Cardinality(Answered(a)) /\ Cardinality(Answered(a)) \in Nat
    BY AnsweredFinite DEF RoomInv
  <2>2. /\ Pop(s, n) \in Channels
        /\ Len(Pop(s, n)[a][b]) <= Len(chan[a][b])
    BY <1>1, PopPending, PopLength
  <2>3. /\ Len(chan[a][b]) \in Nat /\ Len(Pop(s, n)[a][b]) \in Nat
        /\ Len(chan'[a][b]) \in Nat
    <3>1. chan' \in Channels
      BY DEF TypeOK, Channels
    <3>2. QED BY <1>1, <2>2, <3>1, LengthType
  <2>4. CASE Skips(s, n)
    <3>1. chan' = Pop(s, n) /\ history' = history
      BY <2>4 DEF ReceiveAdvertisement
    <3>2. Answered(a)' = Answered(a)
      BY <1>1, <3>1 DEF Answered
    <3>3. QED BY <2>1, <2>2, <2>3, <3>1, <3>2
  <2>5. CASE ~Skips(s, n)
    <3> DEFINE adv == [seq |-> maxSeq'[n], best |-> bestNode'[n], strength |-> strength'[n]]
    <3>1. /\ adv \in Advertisement
          /\ SendAdvertisement(n, adv, Pop(s, n))
          /\ history' = [history EXCEPT ![n][s] = Kept(Head(chan[s][n]).seq),
                                        ![n][n] = Kept(SeqAfter(s, n))]
      BY <1>0, <2>5, Answer
    <3> HIDE DEF adv
    <3>2. /\ a # n => chan'[a][b] = Pop(s, n)[a][b]
          /\ Len(chan'[a][b]) <= Len(Pop(s, n)[a][b]) + 1
      BY <2>2, <3>1, SendLength
    <3>3. n # Coordinator /\ history[n][s] # advCounter
      BY <1>2, <2>5 DEF Skips
    <3>4. history' = [history EXCEPT ![n] = [history[n] EXCEPT ![s] = advCounter,
                                                               ![n] = advCounter]]
      BY <1>0, <1>2, <3>1 DEF TypeOK
    <3>5. CASE a # n
      <4>1. history'[a] = history[a]
        BY <1>0, <3>4, <3>5 DEF TypeOK
      <4>2. Answered(a)' = Answered(a)
        BY <1>1, <4>1 DEF Answered
      <4>3. QED BY <2>1, <2>2, <2>3, <3>2, <3>5, <4>2
    <3>6. CASE a = n
      <4>1. history'[n][s] = advCounter
            /\ \A m \in Node \ {s, n} : history'[n][m] = history[n][m]
        BY <1>0, <1>2, <3>4 DEF TypeOK
      <4>2. s \notin Answered(n)
        BY <3>3 DEF Answered
      <4>3. Answered(n) \cup {s} \subseteq Answered(n)'
        BY <1>1, <1>2, <3>3, <4>1 DEF Answered
      <4>4. Answered(n)' \subseteq Node
        BY DEF Answered
      <4>5. Cardinality(Answered(n)) + 1 <= Cardinality(Answered(n)')
        BY <4>2, <4>3, <4>4, AnsweredGrows
      <4>6. Cardinality(Answered(n)') \in Nat
        BY <4>4, FS_Subset, FS_CardinalityType
      <4>7. QED BY <2>1, <2>2, <2>3, <3>2, <3>6, <4>5, <4>6
    <3>7. QED BY <3>5, <3>6
  <2>6. QED BY <2>4, <2>5
<1>7. QED BY <1>1, <1>5, <1>6 DEF RoomInv

LEMMA RoomStep ==
  ASSUME FloodContext, Reliable, TypeOK', IsFiniteSet(Node), RoomInv,
         [RoutingStep]_vars, [RoundsApart]_vars
  PROVE  RoomInv'
<1>0. TypeOK
  BY DEF FloodContext, StaticContext
<1>1. ASSUME chan' = chan, history' = history, advCounter' = advCounter
      PROVE  RoomInv'
  BY <1>1 DEF RoomInv, Answered, Pending
<1>2. CASE UNCHANGED vars
  BY <1>1, <1>2 DEF vars
<1>3. CASE CoordinatorAdvertise /\ ~UNCHANGED vars
  BY <1>3, RoomBegins DEF RoundsApart
<1>4. ASSUME NEW s \in Node, NEW n \in Node, IgnoreOwnChild(s, n)
      PROVE  RoomInv'
  <2>1. chan \in Channels /\ chan[s][n] # <<>> /\ chan' = Pop(s, n)
        /\ advCounter' = advCounter /\ history' = history
    BY <1>0, <1>4 DEF TypeOK, Channels, IgnoreOwnChild
  <2>2. \A a \in Node : Answered(a)' = Answered(a)
    BY <2>1 DEF Answered
  <2>3. \A a, b \in Node : \A m \in Pending(chan', a, b) : m.seq = advCounter'
    BY <1>0, <1>4, <2>1, IgnoreEffect DEF RoomInv
  <2>4. ASSUME NEW a \in Node, NEW b \in Node
        PROVE  Len(chan'[a][b]) <= Cardinality(Answered(a)')
    <3>1. Len(chan[a][b]) <= Cardinality(Answered(a)) /\ Cardinality(Answered(a)) \in Nat
      BY AnsweredFinite DEF RoomInv
    <3>2. Len(chan'[a][b]) <= Len(chan[a][b])
      BY <2>1, PopLength
    <3>3. chan' \in Channels
      BY DEF TypeOK, Channels
    <3>4. Len(chan[a][b]) \in Nat /\ Len(chan'[a][b]) \in Nat
      BY <2>1, <3>3, LengthType
    <3>5. QED BY <2>2, <3>1, <3>2, <3>3, <3>4
  <2>5. QED BY <2>3, <2>4 DEF RoomInv
<1>5. ASSUME NEW s \in Node, NEW n \in Node, ReceiveAdvertisement(s, n)
      PROVE  RoomInv'
  BY <1>5, RoomAfterAnswer
<1>6. QED BY <1>2, <1>3, <1>4, <1>5 DEF RoutingStep, Receive

(***************************************************************************)
(* In a connected network with settled links and without loss, whose       *)
(* channels hold more advertisements than there are nodes, no channel      *)
(* fills up when a flood is over before the next begins: a node answers    *)
(* each neighbour once in a round (history, master-routing.c:386).         *)
(***************************************************************************)
THEOREM ChannelsDoNotFill ==
  ASSUME Reliable, IsFiniteSet(Node), Cardinality(Node) < QueueSize
  PROVE  StaticSpec /\ [][RoundsApart]_vars => [](RoomInChannels /\ FloodInv)
<1>1. Init => RoomInv
  <2> SUFFICES ASSUME Init, NEW s \in Node, NEW n \in Node
               PROVE  /\ \A m \in Pending(chan, s, n) : m.seq = advCounter
                      /\ Len(chan[s][n]) <= Cardinality(Answered(s))
    BY DEF RoomInv
  <2>1. chan[s][n] = <<>>
    BY DEF Init
  <2>2. QED BY <2>1, AnsweredFinite DEF Pending
<1>2. StaticContext /\ RoomInv => RoomInChannels
  <2> SUFFICES ASSUME StaticContext, RoomInv, NEW s \in Node, NEW n \in Node
               PROVE  Len(chan[s][n]) < QueueSize
    BY DEF RoomInChannels
  <2>1. Len(chan[s][n]) <= Cardinality(Answered(s))
    BY DEF RoomInv
  <2>2. Len(chan[s][n]) \in Nat /\ QueueSize \in Nat
    BY RoutingAssumption DEF StaticContext, TypeOK
  <2>3. QED BY <2>1, <2>2, AnsweredFinite
<1>3. /\ FloodInv /\ RoomInv /\ StaticContext /\ StaticContext'
      /\ [RoutingStep]_vars /\ [RoundsApart]_vars
      => FloodInv' /\ RoomInv'
  <2> SUFFICES ASSUME FloodInv, RoomInv, StaticContext, StaticContext',
                      [RoutingStep]_vars, [RoundsApart]_vars
               PROVE  FloodInv' /\ RoomInv'
    OBVIOUS
  <2>1. FloodInv'
    BY <1>2, FloodStep
  <2>2. RoomInv'
    BY RoomStep DEF FloodContext, StaticContext
  <2>3. QED BY <2>1, <2>2
<1>4. QED BY <1>1, <1>2, <1>3, FloodInvInit, StaticInvariant, PTL DEF StaticSpec

LEMMA LinkNumbers ==
  ASSUME TypeOK, NEW n \in Node, NEW m \in Node
  PROVE  sv[n][m] \in Nat /\ sv[n][m] < MasterStrength
<1>1. sv[n][m] \in Strengths
  BY DEF TypeOK
<1>2. QED BY <1>1, RoutingAssumption

LEMMA StrengthNumbers ==
  ASSUME TypeOK', NEW n \in Node
  PROVE  strength'[n] \in Nat
<1>1. strength'[n] \in Strengths \cup {MasterStrength}
  BY DEF TypeOK, StrengthValues
<1>2. QED BY <1>1, RoutingAssumption

(***************************************************************************)
(* What a node says to its parent is not more than the parent believes:    *)
(* DownhillInv when it is sent, and the parent only gets stronger.         *)
(***************************************************************************)
LEMMA UphillStep ==
  ASSUME StaticContext, TypeOK', RoutingInv', StaticInv', UphillInv, [RoutingStep]_vars
  PROVE  UphillInv'
<1> USE DEF StaticContext
<1> SUFFICES ASSUME NEW s \in Node, NEW n \in Node, NEW m \in Pending(chan', s, n), m.best = n
             PROVE  m.strength <= strength'[n]
  BY DEF UphillInv
<1>1. strength[n] \in Nat /\ strength'[n] \in Nat /\ strength[n] <= strength'[n]
  BY Numbers, StrengthNumbers, Growth
<1>2. CASE m \in Pending(chan, s, n)
  <2>1. m.strength \in Nat /\ m.strength <= strength[n]
    BY <1>2, PendingNumbers DEF UphillInv
  <2>2. QED BY <1>1, <2>1
<1>3. CASE s # n /\ m.best = bestNode'[s] /\ m.strength = strength'[s]
  <2>1. bestNode'[s] = n /\ n # NoNode /\ s # Coordinator
    BY <1>3, RoutingAssumption DEF RoutingInv, RootInv, OnlyRoot
  <2>2. QED BY <1>3, <2>1 DEF StaticInv, DownhillInv
<1>4. \/ m \in Pending(chan, s, n)
      \/ s # n /\ m.best = bestNode'[s] /\ m.strength = strength'[s]
  <2>1. CASE CoordinatorAdvertise
    <3>1. \/ m \in Pending(chan, s, n)
          \/ /\ s = Coordinator /\ n # Coordinator
             /\ m = [seq |-> advCounter', best |-> Coordinator, strength |-> MasterStrength]
      BY <2>1, AdvertiseEffect
    <3>2. bestNode'[Coordinator] = Coordinator /\ strength'[Coordinator] = MasterStrength
      <4>1. /\ bestNode' = [bestNode EXCEPT ![Coordinator] = Coordinator]
            /\ strength' = [strength EXCEPT ![Coordinator] = MasterStrength]
        BY <2>1, AdvertiseEffect
      <4>2. Coordinator \in Node
        BY RoutingAssumption
      <4>3. QED BY <4>1, <4>2 DEF TypeOK
    <3>3. QED BY <3>1, <3>2
  <2>2. ASSUME NEW a \in Node, NEW b \in Node, IgnoreOwnChild(a, b)
        PROVE  m \in Pending(chan, s, n)
    BY <2>2, IgnoreEffect
  <2>3. ASSUME NEW a \in Node, NEW b \in Node, ReceiveAdvertisement(a, b)
        PROVE  \/ m \in Pending(chan, s, n)
               \/ s # n /\ m.best = bestNode'[s] /\ m.strength = strength'[s]
    BY <2>3, ReceiveEffect
  <2>4. CASE UNCHANGED vars
    BY <2>4 DEF vars, Pending
  <2>5. QED BY <2>1, <2>2, <2>3, <2>4 DEF RoutingStep, Receive
<1>5. QED BY <1>2, <1>3, <1>4

(***************************************************************************)
(* A node that handles an advertisement of the present round is then as    *)
(* strong as the path it offers, even if it drops it as one of its child.  *)
(***************************************************************************)
LEMMA OfferTaken ==
  ASSUME FloodContext, TypeOK', UphillInv, Reliable, NEW s \in Node, NEW n \in Node,
         Receive(s, n), Head(chan[s][n]).seq = advCounter
  PROVE  Weaker(Head(chan[s][n]).strength, sv[n][s]) <= strength'[n]
<1> DEFINE m == Head(chan[s][n])
<1>0. TypeOK /\ StaticContext /\ RoutingInv /\ chan[s][n] # <<>>
  BY DEF FloodContext, StaticContext, Receive, IgnoreOwnChild, ReceiveAdvertisement
<1>1. m \in Pending(chan, s, n) /\ m.strength \in Nat /\ sv[n][s] \in Nat
  BY <1>0, HeadPending, PendingNumbers, LinkNumbers DEF TypeOK, Channels
<1>2. strength[n] \in Nat /\ strength'[n] \in Nat /\ strength[n] <= strength'[n]
  <2>1. [RoutingStep]_vars
    BY DEF RoutingStep
  <2>2. QED BY <1>0, <2>1, Numbers, StrengthNumbers, Growth
<1>3. Weaker(m.strength, sv[n][s]) = Current(s, n) /\ Current(s, n) \in Nat
  BY <1>0, ReceptionTypes, RoutingAssumption DEF Current, StrengthValues
<1>4. CASE IgnoreOwnChild(s, n)
  <2>1. m.strength <= strength[n]
    BY <1>1, <1>4 DEF IgnoreOwnChild, UphillInv
  <2>2. Current(s, n) <= m.strength
    BY <1>0, ReceptionContext
  <2>3. QED BY <1>1, <1>2, <1>3, <2>1, <2>2
<1>5. CASE ReceiveAdvertisement(s, n)
  <2>1. strength'[n] = IF Adopts(s, n) THEN Current(s, n) ELSE StrengthKept(s, n)
    BY <1>0, <1>5, ReceiveEffect DEF TypeOK
  <2>2. m.seq \in Nat /\ m.seq >= SeqAfter(s, n)
    BY <1>0, FloodReception, FloodNumbers
  <2>3. StrengthKept(s, n) \in Nat
    BY <1>0, ReceptionTypes, RoutingAssumption DEF StrengthValues
  <2>4. QED BY <1>3, <2>1, <2>2, <2>3 DEF Adopts
<1>6. QED BY <1>4, <1>5 DEF Receive

(***************************************************************************)
(* In the course of a round the nodes that had found a path before say so  *)
(* to all they can reach.                                                  *)
(***************************************************************************)
LEMMA FoundStays ==
  ASSUME FloodContext, TypeOK', UphillInv, RoomInChannels, Reliable,
         [RoutingStep]_vars, ~CoordinatorAdvertise,
         NEW T \in SUBSET Node, NEW w \in Nat, Found(T, w)
  PROVE  Found(T, w)'
<1>0. /\ TypeOK /\ StaticContext /\ chan \in Channels
      /\ \A p \in Node : InRange[p] \subseteq Node
  BY RoutingAssumption DEF FloodContext, StaticContext, TypeOK, Channels
<1>1. sv' = sv /\ advCounter' = advCounter
  BY DEF RoutingStep, Receive, IgnoreOwnChild, ReceiveAdvertisement, vars
<1>2. \A n \in Node : /\ strength[n] \in Nat /\ strength'[n] \in Nat
                      /\ strength[n] <= strength'[n]
  BY <1>0, Numbers, StrengthNumbers, Growth
<1>3. ASSUME NEW p \in T PROVE w <= strength[p] /\ w <= strength'[p]
  BY <1>2 DEF Found
<1>4. ASSUME NEW p \in T, NEW c \in InRange[p], NEW m \in Pending(chan', p, c)
      PROVE  w <= m.strength
  BY <1>0, <1>3, <1>4, NewPending DEF Found, Informs
<1>5. ASSUME NEW p \in T, NEW c \in InRange[p], maxSeq'[p] = advCounter
      PROVE  \/ \E m \in Pending(chan', p, c) : m.seq = advCounter
             \/ Weaker(w, sv[c][p]) <= strength'[c]
  <2>0. p \in Node /\ c \in Node
    BY <1>0
  <2>1. CASE maxSeq[p] # advCounter
    <3>1. \E s \in Node : ReceiveAdvertisement(s, p)
      <4>1. ASSUME NEW s \in Node, NEW n \in Node, ReceiveAdvertisement(s, n), n # p
            PROVE  maxSeq'[p] = maxSeq[p]
        <5>1. maxSeq' = [maxSeq EXCEPT ![n] = SeqAfter(s, n)]
          BY <1>0, <4>1, ReceiveEffect
        <5>2. QED BY <1>0, <2>0, <4>1, <5>1 DEF TypeOK
      <4>2. (\E s, n \in Node : ReceiveAdvertisement(s, n)) \/ maxSeq' = maxSeq
        BY DEF RoutingStep, Receive, IgnoreOwnChild, vars
      <4>3. QED BY <1>5, <2>1, <4>1, <4>2
    <3>2. QED BY <1>1, <1>5, <2>0, <2>1, <3>1, NewsTravels
  <2>2. CASE Weaker(w, sv[c][p]) <= strength[c]
    <3>1. Weaker(w, sv[c][p]) \in Nat
      BY <1>0, <2>0, LinkNumbers DEF Weaker
    <3>2. QED BY <1>2, <2>0, <2>2, <3>1
  <2>3. ASSUME NEW m \in Pending(chan, p, c), m.seq = advCounter, m \notin Pending(chan', p, c)
        PROVE  Weaker(w, sv[c][p]) <= strength'[c]
    <3>1. Receive(p, c) /\ m = Head(chan[p][c])
      <4>1. ASSUME NEW s \in Node, NEW n \in Node, IgnoreOwnChild(s, n)
            PROVE  s = p /\ n = c /\ m = Head(chan[s][n])
        BY <1>0, <2>0, <2>3, <4>1, PopKeeps DEF IgnoreOwnChild
      <4>2. ASSUME NEW s \in Node, NEW n \in Node, ReceiveAdvertisement(s, n)
            PROVE  s = p /\ n = c /\ m = Head(chan[s][n])
        BY <1>0, <2>0, <2>3, <4>2, AnswerPending
      <4>3. \E s, n \in Node : Receive(s, n)
        BY <2>3 DEF RoutingStep, vars
      <4>4. QED BY <4>1, <4>2, <4>3 DEF Receive
    <3>2. Weaker(m.strength, sv[c][p]) <= strength'[c]
      BY <2>0, <2>3, <3>1, OfferTaken
    <3>3. w <= m.strength
      BY <2>3 DEF Found, Informs
    <3>4. m.strength \in Nat /\ sv[c][p] \in Nat /\ strength'[c] \in Nat
      BY <1>0, <1>2, <2>0, PendingNumbers, LinkNumbers
    <3>5. QED BY <3>2, <3>3, <3>4 DEF Weaker
  <2>4. maxSeq[p] = advCounter =>
          \/ \E m \in Pending(chan, p, c) : m.seq = advCounter
          \/ Weaker(w, sv[c][p]) <= strength[c]
    BY DEF Found, Informs
  <2>5. QED BY <2>1, <2>2, <2>3, <2>4
<1>6. QED BY <1>1, <1>3, <1>4, <1>5 DEF Found, Informs

(***************************************************************************)
(* A round begins: of the nodes that have found a path of strength w only  *)
(* the coordinator knows of it and has said anything.                      *)
(***************************************************************************)
LEMMA RoundBegins ==
  ASSUME FloodContext, RoomInChannels, Reliable, CoordinatorAdvertise, Quiet,
         NEW w \in 1 .. MasterStrength, NEW T \in SUBSET Node,
         \A p \in T \ {Coordinator} : w <= strength[p]
  PROVE  Found(T, w)'
<1>0. TypeOK /\ Coordinator \in Node /\ \A p \in Node : InRange[p] \subseteq Node
  BY RoutingAssumption DEF FloodContext, StaticContext
<1>1. /\ strength' = [strength EXCEPT ![Coordinator] = MasterStrength]
      /\ maxSeq' = [maxSeq EXCEPT ![Coordinator] = advCounter']
      /\ advCounter' = advCounter + 1
  BY <1>0, AdvertiseEffect, NextRound
<1>2. MasterStrength \in Nat /\ w <= MasterStrength
  BY RoutingAssumption
<1>3. \A p \in T : w <= strength'[p]
  BY <1>0, <1>1, <1>2 DEF TypeOK
<1>4. ASSUME NEW p \in T, NEW c \in InRange[p], NEW m \in Pending(chan', p, c)
      PROVE  w <= m.strength
  <2>1. Pending(chan, p, c) = {}
    BY <1>0 DEF Quiet, Pending
  <2>2. m.strength = MasterStrength
    BY <1>0, <2>1, AdvertiseEffect
  <2>3. QED BY <1>2, <2>2
<1>5. ASSUME NEW p \in T, NEW c \in InRange[p], maxSeq'[p] = advCounter'
      PROVE  \E m \in Pending(chan', p, c) : m.seq = advCounter'
  <2>1. p = Coordinator
    <3>1. advCounter \in Nat /\ maxSeq[p] \in Nat /\ maxSeq[p] <= advCounter
      BY FloodNumbers
    <3>2. QED BY <1>0, <1>1, <1>5, <3>1 DEF TypeOK
  <2>2. QED BY <2>1, RoundOpens
<1>6. QED BY <1>3, <1>4, <1>5 DEF Found, Informs

(***************************************************************************)
(* A round is over: a link of strength w from one of them has carried a    *)
(* path of strength w to its other end.                                    *)
(***************************************************************************)
LEMMA RoundOver ==
  ASSUME FloodContext, Reliable, Quiet, MeasuredInRange(sv),
         NEW w \in Nat \ {0}, NEW T \in SUBSET Node, Found(T, w),
         NEW p \in T, NEW c \in Node \ {Coordinator}, w <= sv[c][p]
  PROVE  w <= strength[c]
<1>1. p \in Node /\ maxSeq[p] = advCounter
  BY NobodyLeftOut
<1>2. sv[c][p] \in Nat
  BY <1>1, LinkNumbers DEF FloodContext, StaticContext
<1>3. c \in InRange[p]
  BY <1>1, <1>2 DEF MeasuredInRange
<1>4. Pending(chan, p, c) = {}
  BY <1>1 DEF Quiet, Pending
<1>5. Weaker(w, sv[c][p]) <= strength[c]
  BY <1>1, <1>3, <1>4 DEF Found, Informs
<1>6. QED BY <1>2, <1>5 DEF Weaker

LEMMA WideStep ==
  ASSUME FloodContext, TypeOK', RoutingInv', StaticInv', WideInv, RoomInChannels,
         Reliable, EnoughRounds, [RoutingStep]_vars, RoundsApart
  PROVE  WideInv'
<1>0. TypeOK /\ StaticContext /\ Coordinator \in Node /\ MasterStrength \in Nat
  BY RoutingAssumption DEF FloodContext, StaticContext
<1>1. sv' = sv
  BY DEF RoutingStep, Receive, CoordinatorAdvertise, IgnoreOwnChild,
         ReceiveAdvertisement, vars
<1>2. MeasuredInRange(sv)' /\ UphillInv'
  BY <1>0, <1>1, UphillStep DEF WideInv, MeasuredInRange
<1>3. ASSUME NEW w \in 1 .. MasterStrength, advCounter' > 0
      PROVE  \E T \in SUBSET Node :
               /\ Coordinator \in T
               /\ Closed(T, w)' \/ advCounter' <= Cardinality(T)
               /\ Found(T, w)'
  <2>0. w \in Nat \ {0} /\ advCounter \in Nat
    BY <1>0, FloodNumbers
  <2>1. ASSUME ~CoordinatorAdvertise
        PROVE  advCounter' = advCounter
    BY <2>1 DEF RoutingStep, Receive, IgnoreOwnChild, ReceiveAdvertisement, vars
  <2>2. CASE ~CoordinatorAdvertise
    <3>1. PICK T \in SUBSET Node : /\ Coordinator \in T
                                   /\ Closed(T, w) \/ advCounter <= Cardinality(T)
                                   /\ Found(T, w)
      BY <1>3, <2>1, <2>2 DEF WideInv
    <3>2. Found(T, w)'
      BY <2>0, <2>2, <3>1, FoundStays DEF WideInv
    <3>3. Closed(T, w) => Closed(T, w)'
      BY <1>1 DEF Closed
    <3>4. QED BY <2>1, <2>2, <3>1, <3>2, <3>3
  <2>3. CASE CoordinatorAdvertise /\ advCounter = 0
    <3>1. Found({Coordinator}, w)'
      BY <1>0, <2>3, RoundBegins DEF RoundsApart
    <3>2. advCounter' = 1
      BY <2>3, NextRound
    <3>3. Cardinality({Coordinator}) = 1
      BY FS_Singleton
    <3>4. QED BY <1>0, <3>1, <3>2, <3>3
  <2>4. CASE CoordinatorAdvertise /\ advCounter > 0
    <3>1. PICK T \in SUBSET Node : /\ Coordinator \in T
                                   /\ Closed(T, w) \/ advCounter <= Cardinality(T)
                                   /\ Found(T, w)
      BY <2>4 DEF WideInv
    <3>2. \A p \in T : w <= strength[p]
      BY <3>1 DEF Found
    <3>3. CASE Closed(T, w)
      <4>1. Found(T, w)'
        BY <2>4, <3>2, RoundBegins DEF RoundsApart
      <4>2. Closed(T, w)'
        BY <1>1, <3>3 DEF Closed
      <4>3. QED BY <3>1, <4>1, <4>2
    <3>4. CASE ~Closed(T, w)
      <4>1. PICK p \in T, c \in Node \ T : ~(sv[c][p] < w)
        BY <3>4 DEF Closed
      <4>2. sv[c][p] \in Nat
        BY <1>0, <4>1, LinkNumbers
      <4>3. w <= strength[c]
        BY <2>0, <2>4, <3>1, <4>1, <4>2, RoundOver DEF RoundsApart, WideInv
      <4>4. Found(T \cup {c}, w)'
        BY <2>4, <3>2, <4>1, <4>3, RoundBegins DEF RoundsApart
      <4>5. advCounter' <= Cardinality(T \cup {c})
        <5>1. IsFiniteSet(T)
          BY FS_Subset DEF EnoughRounds
        <5>2. Cardinality(T \cup {c}) = Cardinality(T) + 1 /\ Cardinality(T) \in Nat
          BY <4>1, <5>1, FS_AddElement, FS_CardinalityType
        <5>3. advCounter' = advCounter + 1
          BY <2>4, NextRound
        <5>4. QED BY <2>0, <3>1, <3>4, <5>2, <5>3
      <4>6. QED BY <3>1, <4>1, <4>4, <4>5
    <3>5. QED BY <3>3, <3>4
  <2>5. QED BY <2>0, <2>2, <2>3, <2>4
<1>4. QED BY <1>2, <1>3 DEF WideInv

(***************************************************************************)
(* After enough rounds no link leads to a node that is weaker than it and  *)
(* the link are: either the nodes that have found a path are closed, or    *)
(* there are so many of them that only the node itself is left.            *)
(***************************************************************************)
LEMMA RoundsSuffice ==
  ASSUME FloodContext, WideInv, StrengthIsRealisable, Reliable, EnoughRounds,
         Quiet, advCounter = MaxRounds, NEW n \in Node \ {Coordinator}
  PROVE  \E C \in SUBSET (Node \ {Coordinator}) :
           n \in C /\ \A m \in C, k \in Node \ C : sv[m][k] <= strength[n]
<1>0. TypeOK /\ Coordinator \in Node /\ MasterStrength \in Nat
  BY RoutingAssumption DEF FloodContext, StaticContext
<1>1. strength[n] \in Nat /\ \A m, k \in Node : sv[m][k] \in Nat /\ sv[m][k] < MasterStrength
  BY <1>0, Numbers, LinkNumbers
<1> DEFINE w == strength[n] + 1
<1>2. w \in Nat \ {0} /\ w \in 1 .. MasterStrength
  <2>1. {n} \in SUBSET (Node \ {Coordinator})
    OBVIOUS
  <2>2. \E k \in Node : strength[n] <= sv[n][k]
    BY <2>1 DEF StrengthIsRealisable
  <2>3. QED BY <1>0, <1>1, <2>2
<1>3. IsFiniteSet(Node) /\ Cardinality(Node) \in Nat /\ MaxRounds \in Nat
      /\ Cardinality(Node) <= MaxRounds + 1
  BY FS_CardinalityType, RoutingAssumption DEF EnoughRounds
<1>4. advCounter > 0
  <2>1. {n, Coordinator} \subseteq Node /\ n # Coordinator
    BY <1>0
  <2>2. Cardinality({n, Coordinator}) = 2
    <3>1. IsFiniteSet({Coordinator}) /\ Cardinality({Coordinator}) = 1
      BY FS_Singleton
    <3>2. Cardinality({Coordinator} \cup {n}) = 2
      BY <2>1, <3>1, FS_AddElement
    <3>3. {Coordinator} \cup {n} = {n, Coordinator}
      OBVIOUS
    <3>4. QED BY <3>2, <3>3
  <2>3. 2 <= Cardinality(Node)
    BY <1>3, <2>1, <2>2, FS_Subset
  <2>4. QED BY <1>3, <2>3
<1>5. PICK T \in SUBSET Node : /\ Coordinator \in T
                               /\ Closed(T, w) \/ advCounter <= Cardinality(T)
                               /\ Found(T, w)
  BY <1>2, <1>4 DEF WideInv
<1>6. n \notin T
  BY <1>1, <1>5 DEF Found
<1>7. Node \ T \in SUBSET (Node \ {Coordinator}) /\ n \in Node \ T
  BY <1>5, <1>6
<1>8. ASSUME NEW m \in Node \ T, NEW k \in T PROVE sv[m][k] <= strength[n]
  <2>1. CASE Closed(T, w)
    BY <1>1, <2>1 DEF Closed
  <2>2. CASE advCounter <= Cardinality(T)
    <3>1. m = n
      <4>1. SUFFICES ASSUME m # n PROVE FALSE
        OBVIOUS
      <4>2. IsFiniteSet(T) /\ Cardinality(T) \in Nat
        BY <1>3, FS_Subset, FS_CardinalityType
      <4> DEFINE S == T \cup {n}
      <4>3. Cardinality(S) = Cardinality(T) + 1 /\ IsFiniteSet(S)
        BY <1>6, <4>2, FS_AddElement
      <4>4. m \notin S /\ S \cup {m} \subseteq Node
        BY <4>1
      <4> HIDE DEF S
      <4>5. Cardinality(S \cup {m}) = Cardinality(S) + 1
        BY <4>3, <4>4, FS_AddElement
      <4>6. Cardinality(S \cup {m}) <= Cardinality(Node)
        BY <1>3, <4>4, FS_Subset
      <4>7. QED BY <1>3, <2>2, <4>2, <4>3, <4>5, <4>6
    <3>2. CASE w <= sv[m][k]
      <4>1. w <= strength[n]
        BY <1>2, <1>5, <3>1, <3>2, RoundOver DEF WideInv
      <4>2. QED BY <1>1, <4>1
    <3>3. QED BY <1>1, <3>2
  <2>3. QED BY <1>5, <2>1, <2>2
<1>9. Node \ (Node \ T) = T
  OBVIOUS
<1>10. QED BY <1>7, <1>8, <1>9

(***************************************************************************)
(* In a connected network with settled links and without loss, in which no *)
(* channel fills up and a flood is over before the next begins, every node *)
(* knows the strength of its widest path after one round less than there   *)
(* are nodes, although a node skips an advertisement whose number it has   *)
(* answered (master-routing.c:350) even if that brought a better path.     *)
(***************************************************************************)
THEOREM WidestPathsAreFound ==
  ASSUME Reliable, EnoughRounds
  PROVE  StaticSpec /\ []RoomInChannels /\ [][RoundsApart]_vars => []FindsWidestPath
<1>1. Init => WideInv
  <2> SUFFICES ASSUME Init PROVE WideInv
    OBVIOUS
  <2>1. MeasuredInRange(sv) /\ advCounter = 0
    BY DEF Init, EnoughRounds
  <2>2. UphillInv
    BY DEF Init, UphillInv, Pending
  <2>3. QED BY <2>1, <2>2 DEF WideInv
<1>2. /\ FloodInv /\ StaticContext /\ StaticContext' /\ RoomInChannels /\ [RoutingStep]_vars
      => FloodInv'
  BY FloodStep
<1>3. /\ FloodInv /\ StaticContext /\ StaticContext' /\ WideInv /\ RoomInChannels
      /\ [RoutingStep]_vars /\ [RoundsApart]_vars
      => WideInv'
  <2> SUFFICES ASSUME FloodInv, StaticContext, StaticContext', WideInv, RoomInChannels,
                      [RoutingStep]_vars, [RoundsApart]_vars
               PROVE  WideInv'
    OBVIOUS
  <2>1. FloodContext /\ TypeOK' /\ RoutingInv' /\ StaticInv'
    BY DEF FloodContext, StaticContext
  <2>2. CASE RoundsApart
    BY <2>1, <2>2, WideStep
  <2>3. CASE UNCHANGED vars
    <3>1. RoundsApart
      <4>1. advCounter' = advCounter + 1 => advCounter' # advCounter
        BY <2>1, FloodNumbers
      <4>2. ~CoordinatorAdvertise
        BY <2>1, <2>3, <4>1, NextRound DEF vars
      <4>3. QED BY <4>2 DEF RoundsApart
    <3>2. QED BY <2>1, <3>1, WideStep
  <2>4. QED BY <2>2, <2>3
<1>4. StaticContext /\ FloodInv /\ WideInv /\ StrengthIsRealisable => FindsWidestPath
  <2> SUFFICES ASSUME StaticContext, FloodInv, WideInv, StrengthIsRealisable,
                      Quiet, advCounter = MaxRounds, NEW n \in Node \ {Coordinator}
               PROVE  IsWidest(strength[n], sv, n)
    BY DEF FindsWidestPath
  <2>1. \A C \in SUBSET (Node \ {Coordinator}) : n \in C =>
          \E m \in C, k \in Node \ C : strength[n] <= sv[m][k]
    BY DEF StrengthIsRealisable
  <2>2. \E C \in SUBSET (Node \ {Coordinator}) :
          n \in C /\ \A m \in C, k \in Node \ C : sv[m][k] <= strength[n]
    BY RoundsSuffice DEF FloodContext
  <2>3. QED BY <2>1, <2>2 DEF IsWidest
<1>5. QED
  BY <1>1, <1>2, <1>3, <1>4, FloodInvInit, StaticInvariant, StrengthsAreRealisable, PTL
     DEF StaticSpec

(***************************************************************************)
(* The coordinator's timer alone makes the floods succeed: in a connected  *)
(* network with settled links and without loss, with room for the answers  *)
(* of one round, floods that do not overlap reach every node and find the  *)
(* widest paths.                                                           *)
(***************************************************************************)
THEOREM FloodsApartSucceed ==
  ASSUME Reliable, EnoughRounds, Cardinality(Node) < QueueSize
  PROVE  StaticSpec /\ [][RoundsApart]_vars => [](RoundReachesAll /\ FindsWidestPath)
<1>1. IsFiniteSet(Node)
  BY DEF EnoughRounds
<1>2. StaticSpec /\ [][RoundsApart]_vars => [](RoomInChannels /\ FloodInv)
  BY <1>1, ChannelsDoNotFill
<1>3. StaticSpec /\ []RoomInChannels => []RoundReachesAll
  BY FloodsReachAll
<1>4. StaticSpec /\ []RoomInChannels /\ [][RoundsApart]_vars => []FindsWidestPath
  BY WidestPathsAreFound
<1>5. QED BY <1>2, <1>3, <1>4, PTL
-----------------------------------------------------------------------------
(***************************************************************************)
(* The collection.                                                         *)
(***************************************************************************)
(***************************************************************************)
(* The steps of the collection leave the routing alone, so that what holds *)
(* of MasterRouting holds here.                                            *)
(***************************************************************************)
LEMMA CollectImplementsRouting == CollectSpec => Spec
<1>1. CollectInit => Init
  BY DEF CollectInit
<1>2. [CollectNext]_allVars => [Next]_vars
  BY DEF CollectNext, DataStep, SendActualData, RepeatActualData, ForwardActualData,
         CollectActualData, allVars
<1>3. QED BY <1>1, <1>2, PTL DEF CollectSpec, Spec

(***************************************************************************)
(* The same while the link strengths stay as they are, so that the floods  *)
(* reach every node whatever data packets travel between them.             *)
(***************************************************************************)
LEMMA SettledCollectImplementsRouting == StaticCollectSpec => StaticSpec
<1>1. CollectInit => Init
  BY DEF CollectInit
<1>2. [(RoutingStep /\ UNCHANGED dataVars) \/ DataStep]_allVars => [RoutingStep]_vars
  BY DEF DataStep, SendActualData, RepeatActualData, ForwardActualData, CollectActualData,
         allVars
<1>3. QED BY <1>1, <1>2, PTL DEF StaticCollectSpec, StaticSpec

(***************************************************************************)
(* A node never loses its parent again.                                    *)
(***************************************************************************)
LEMMA ParentStaysSet ==
  ASSUME TypeOK, [Next]_vars, NEW n \in Node, bestNode[n] # NoNode
  PROVE  bestNode'[n] # NoNode
<1>0. NoNode \notin Node /\ Coordinator \in Node
  BY RoutingAssumption
<1>1. CASE CoordinatorAdvertise
  <2>1. bestNode' = [bestNode EXCEPT ![Coordinator] = Coordinator]
    BY <1>1, AdvertiseEffect
  <2>2. QED BY <1>0, <2>1 DEF TypeOK
<1>2. ASSUME NEW s \in Node, NEW r \in Node, ReceiveAdvertisement(s, r)
      PROVE  bestNode'[n] # NoNode
  <2>1. bestNode' = IF Adopts(s, r) THEN [bestNode EXCEPT ![r] = s] ELSE bestNode
    BY <1>2, ReceiveEffect
  <2>2. QED BY <1>0, <2>1 DEF TypeOK
<1>3. ASSUME NEW s \in Node, NEW r \in Node, IgnoreOwnChild(s, r)
      PROVE  bestNode'[n] # NoNode
  BY <1>3 DEF IgnoreOwnChild
<1>4. ASSUME NEW m \in Node, NeighborDiscoveryInput(m)
      PROVE  bestNode'[n] # NoNode
  BY <1>4 DEF NeighborDiscoveryInput
<1>5. CASE UNCHANGED vars
  BY <1>5 DEF vars
<1>6. QED BY <1>1, <1>2, <1>3, <1>4, <1>5 DEF Next, RoutingStep, Receive

-----------------------------------------------------------------------------
(***************************************************************************)
(* The packets of one origin, among some and among all on their way.       *)
(***************************************************************************)
OfOrigin(packets, n) == { p \in packets : Origin(p) = n }
InFlight(n) == OfOrigin(data, n)

PacketsTyped ==
  \A p \in data : /\ p \in [to : Node, route : Seq(Node), nr : Nat]
                  /\ p.route # <<>> /\ Origin(p) # Coordinator
                  /\ bestNode[p.to] # NoNode

CountersTyped ==
  /\ IsFiniteSet(data)
  /\ sent \in [Node -> Nat]
  /\ repeated \in [Node -> Nat]
  /\ tracker \subseteq Node \ {Coordinator}
  /\ rcvdCounter = Cardinality(tracker)
  /\ collected \in Nat

(***************************************************************************)
(* Every packet a node has sent, and every copy of one, was lost, is on    *)
(* its way, or has counted for at most one collection.                     *)
(***************************************************************************)
Made(n) == sent[n] + repeated[n]
Counted(n) == IF n \in tracker THEN 1 ELSE 0
PacketsBounded ==
  \A n \in Node \ {Coordinator} :
    collected + Cardinality(InFlight(n)) + Counted(n) <= Made(n)

CollectInv == PacketsTyped /\ CountersTyped /\ PacketsBounded

LEMMA NodesCounted ==
  /\ IsFiniteSet(Node \ {Coordinator})
  /\ Cardinality(Node \ {Coordinator}) = DeploymentCount - 1
  BY FS_RemoveElement, CollectAssumption, RoutingAssumption

LEMMA FlightFinite ==
  ASSUME CountersTyped, NEW n
  PROVE  IsFiniteSet(InFlight(n)) /\ Cardinality(InFlight(n)) \in Nat
<1>1. InFlight(n) \in SUBSET data
  BY DEF InFlight, OfOrigin
<1>2. QED BY <1>1, FS_Subset, FS_CardinalityType DEF CountersTyped

LEMMA CollectInvInit == CollectInit => CollectInv
<1> SUFFICES ASSUME CollectInit PROVE CollectInv
  OBVIOUS
<1>1. \A n : Cardinality(InFlight(n)) = 0
  <2>1. \A n : InFlight(n) = {}
    BY DEF CollectInit, InFlight, OfOrigin
  <2>2. QED BY <2>1, FS_EmptySet
<1>2. CountersTyped
  BY FS_EmptySet DEF CollectInit, CountersTyped
<1>3. PacketsTyped
  BY DEF CollectInit, PacketsTyped
<1>4. PacketsBounded
  <2> SUFFICES ASSUME NEW n \in Node \ {Coordinator}
               PROVE  collected + Cardinality(InFlight(n)) + Counted(n) <= Made(n)
    BY DEF PacketsBounded
  <2>1. collected = 0 /\ Counted(n) = 0 /\ Made(n) = 0
    BY DEF CollectInit, Counted, Made
  <2>2. QED BY <1>1, <2>1
<1>5. QED BY <1>2, <1>3, <1>4 DEF CollectInv

(***************************************************************************)
(* A node sends or passes on a packet of origin o: at most one is added to *)
(* what remains of the packets on their way, and it is addressed to a node *)
(* that has a parent.                                                      *)
(***************************************************************************)
LEMMA SendEffect ==
  ASSUME TypeOK, ParentHasParent, PacketsTyped, CountersTyped,
         NEW n \in Node, bestNode[n] # NoNode, UNCHANGED bestNode,
         NEW route \in Seq(Node), route # <<>>, route[1] # Coordinator,
         NEW nr \in Nat, NEW rest \in SUBSET data,
         UnicastSend(n, route, nr, rest)
  PROVE  /\ PacketsTyped' /\ IsFiniteSet(data')
         /\ \A m : /\ Cardinality(OfOrigin(rest, m)) \in Nat
                   /\ Cardinality(InFlight(m)') \in Nat
                   /\ m # route[1] =>
                        Cardinality(InFlight(m)') = Cardinality(OfOrigin(rest, m))
                   /\ Cardinality(InFlight(m)') <= Cardinality(OfOrigin(rest, m)) + 1
<1> DEFINE new == [to |-> bestNode[n], route |-> route, nr |-> nr]
<1>1. /\ new \in [to : Node, route : Seq(Node), nr : Nat]
      /\ new.route # <<>> /\ Origin(new) = route[1]
      /\ bestNode[new.to] # NoNode
  BY RoutingAssumption DEF TypeOK, ParentHasParent, Origin
<1>2. data' = rest \cup {new} \/ data' = rest
  BY DEF UnicastSend
<1>3. PacketsTyped'
  <2>1. \A p \in data' : p \in rest \/ p = new
    BY <1>2
  <2> HIDE DEF new
  <2>2. QED BY <1>1, <2>1 DEF PacketsTyped, Origin
<1> HIDE DEF new
<1>4. IsFiniteSet(rest)
  BY FS_Subset DEF CountersTyped
<1>5. IsFiniteSet(data')
  <2>1. IsFiniteSet(rest \cup {new})
    BY <1>4, FS_AddElement
  <2>2. QED BY <1>2, <1>4, <2>1
<1>6. ASSUME NEW m
      PROVE  /\ Cardinality(OfOrigin(rest, m)) \in Nat
             /\ Cardinality(InFlight(m)') \in Nat
             /\ m # route[1] =>
                  Cardinality(InFlight(m)') = Cardinality(OfOrigin(rest, m))
             /\ Cardinality(InFlight(m)') <= Cardinality(OfOrigin(rest, m)) + 1
  <2> DEFINE kept == OfOrigin(rest, m)
  <2>1. IsFiniteSet(kept) /\ Cardinality(kept) \in Nat
    <3>1. kept \in SUBSET rest
      BY DEF OfOrigin
    <3>2. QED BY <3>1, <1>4, FS_Subset, FS_CardinalityType
  <2>2. InFlight(m)' = kept \/ (m = route[1] /\ InFlight(m)' = kept \cup {new})
    BY <1>1, <1>2 DEF InFlight, OfOrigin, Origin
  <2> HIDE DEF kept
  <2>3. /\ Cardinality(kept \cup {new}) \in Nat
        /\ Cardinality(kept \cup {new}) <= Cardinality(kept) + 1
    <3>1. Cardinality(kept \cup {new}) =
            IF new \in kept THEN Cardinality(kept) ELSE Cardinality(kept) + 1
      BY <2>1, FS_AddElement
    <3>2. QED BY <2>1, <3>1
  <2>4. /\ Cardinality(kept) \in Nat
        /\ Cardinality(InFlight(m)') \in Nat
        /\ m # route[1] => Cardinality(InFlight(m)') = Cardinality(kept)
        /\ Cardinality(InFlight(m)') <= Cardinality(kept) + 1
    <3>1. CASE InFlight(m)' = kept
      BY <2>1, <3>1
    <3>2. CASE m = route[1] /\ InFlight(m)' = kept \cup {new}
      BY <2>1, <2>3, <3>2
    <3>3. QED BY <2>2, <3>1, <3>2
  <2>5. QED BY <2>4 DEF kept
<1>7. QED BY <1>3, <1>5, <1>6

LEMMA SendKeepsInv ==
  ASSUME TypeOK, ParentHasParent, CollectInv, NEW n \in Node, SendActualData(n)
  PROVE  CollectInv'
<1> USE DEF CollectInv
<1>0. /\ n # Coordinator /\ sent' = [sent EXCEPT ![n] = @ + 1]
      /\ UNCHANGED <<bestNode, repeated, tracker, rcvdCounter, collected>>
  BY DEF SendActualData, vars
<1>1. sent' \in [Node -> Nat] /\ Made(n)' = Made(n) + 1
      /\ \A m \in Node : m # n => Made(m)' = Made(m)
  BY <1>0 DEF CountersTyped, Made
<1>2. CASE bestNode[n] # NoNode
  <2>1. UnicastSend(n, <<n>>, sent'[n] + repeated[n], data)
    BY <1>2 DEF SendActualData
  <2>2. <<n>> \in Seq(Node) /\ <<n>> # <<>> /\ <<n>>[1] = n
    OBVIOUS
  <2>3. /\ PacketsTyped' /\ IsFiniteSet(data')
        /\ \A m : /\ Cardinality(InFlight(m)') \in Nat
                  /\ m # n => Cardinality(InFlight(m)') = Cardinality(InFlight(m))
                  /\ Cardinality(InFlight(m)') <= Cardinality(InFlight(m)) + 1
    <3>1. data \in SUBSET data /\ sent'[n] + repeated[n] \in Nat /\ UNCHANGED bestNode
      BY <1>0, <1>1 DEF CountersTyped
    <3>2. <<n>>[1] # Coordinator
      BY <1>0, <2>2
    <3>3. /\ PacketsTyped' /\ IsFiniteSet(data')
          /\ \A m : /\ Cardinality(InFlight(m)') \in Nat
                    /\ m # <<n>>[1] =>
                         Cardinality(InFlight(m)') = Cardinality(OfOrigin(data, m))
                    /\ Cardinality(InFlight(m)') <= Cardinality(OfOrigin(data, m)) + 1
      BY <1>2, <2>1, <2>2, <3>1, <3>2, SendEffect
    <3>4. QED BY <3>3, <2>2 DEF InFlight
  <2>4. PacketsBounded'
    <3> SUFFICES ASSUME NEW m \in Node \ {Coordinator}
                 PROVE  collected + Cardinality(InFlight(m)') + Counted(m) <= Made(m)'
      BY <1>0 DEF PacketsBounded, Counted
    <3>1. /\ collected + Cardinality(InFlight(m)) + Counted(m) <= Made(m)
          /\ Cardinality(InFlight(m)) \in Nat /\ collected \in Nat /\ Made(m) \in Nat
          /\ Counted(m) \in Nat
      BY FlightFinite DEF PacketsBounded, CountersTyped, Counted, Made
    <3>2. CASE m = n
      BY <3>1, <3>2, <2>3, <1>1
    <3>3. CASE m # n
      BY <3>1, <3>3, <2>3, <1>1
    <3>4. QED BY <3>2, <3>3
  <2>5. QED BY <1>0, <1>1, <2>3, <2>4 DEF CountersTyped
<1>3. CASE bestNode[n] = NoNode
  <2>1. data' = data
    BY <1>3 DEF SendActualData
  <2>2. PacketsTyped' /\ CountersTyped'
    BY <1>0, <1>1, <2>1 DEF PacketsTyped, CountersTyped
  <2>3. PacketsBounded'
    <3> SUFFICES ASSUME NEW m \in Node \ {Coordinator}
                 PROVE  collected + Cardinality(InFlight(m)) + Counted(m) <= Made(m)'
      BY <1>0, <2>1 DEF PacketsBounded, Counted, InFlight
    <3>1. /\ collected + Cardinality(InFlight(m)) + Counted(m) <= Made(m)
          /\ Cardinality(InFlight(m)) \in Nat /\ collected \in Nat /\ Made(m) \in Nat
          /\ Counted(m) \in Nat
      BY FlightFinite DEF PacketsBounded, CountersTyped, Counted, Made
    <3>2. Made(m)' = Made(m) \/ Made(m)' = Made(m) + 1
      BY <1>1
    <3>3. QED BY <3>1, <3>2
  <2>4. QED BY <2>2, <2>3
<1>4. QED BY <1>2, <1>3

(***************************************************************************)
(* A lost acknowledgement adds one copy to the packets of its origin, for  *)
(* the same receiver, and the history variable counts it.                  *)
(***************************************************************************)
LEMMA RepeatKeepsInv ==
  ASSUME TypeOK, CollectInv, NEW p \in data, RepeatActualData(p)
  PROVE  CollectInv'
<1> USE DEF CollectInv
<1> DEFINE o == p.route[1]
           copy == [p EXCEPT !.nr = sent[o] + repeated'[o]]
<1>0. /\ repeated' = [repeated EXCEPT ![o] = @ + 1]
      /\ data' = data \cup {copy}
      /\ UNCHANGED <<bestNode, sent, tracker, rcvdCounter, collected>>
  BY DEF RepeatActualData, Origin, vars
<1>1. /\ p \in [to : Node, route : Seq(Node), nr : Nat]
      /\ p.route # <<>> /\ o \in Node /\ o # Coordinator /\ bestNode[p.to] # NoNode
  BY DEF PacketsTyped, Origin
<1>2. repeated' \in [Node -> Nat] /\ Made(o)' = Made(o) + 1
      /\ \A m \in Node : m # o => Made(m)' = Made(m)
  BY <1>0, <1>1 DEF CountersTyped, Made
<1>3. sent[o] + repeated'[o] \in Nat
  BY <1>1, <1>2 DEF CountersTyped
<1>4. /\ copy \in [to : Node, route : Seq(Node), nr : Nat]
      /\ copy.to = p.to /\ copy.route = p.route
  BY <1>1, <1>3
<1> HIDE DEF o, copy
<1>5. PacketsTyped'
  BY <1>0, <1>1, <1>4 DEF PacketsTyped, Origin, o
<1>6. IsFiniteSet(data')
  BY <1>0, FS_AddElement DEF CountersTyped
<1>7. ASSUME NEW m
      PROVE  /\ Cardinality(InFlight(m)') \in Nat
             /\ Cardinality(InFlight(m)') <= Cardinality(InFlight(m)) + 1
             /\ m # o => Cardinality(InFlight(m)') = Cardinality(InFlight(m))
  <2>1. IsFiniteSet(InFlight(m)) /\ Cardinality(InFlight(m)) \in Nat
    BY FlightFinite
  <2>2. InFlight(m)' = InFlight(m) \/ (m = o /\ InFlight(m)' = InFlight(m) \cup {copy})
    BY <1>0, <1>4 DEF InFlight, OfOrigin, Origin, o
  <2>3. Cardinality(InFlight(m) \cup {copy}) =
          IF copy \in InFlight(m) THEN Cardinality(InFlight(m)) ELSE Cardinality(InFlight(m)) + 1
    BY <2>1, FS_AddElement
  <2>4. QED BY <2>1, <2>2, <2>3
<1>8. PacketsBounded'
  <2> SUFFICES ASSUME NEW m \in Node \ {Coordinator}
               PROVE  collected + Cardinality(InFlight(m)') + Counted(m) <= Made(m)'
    BY <1>0 DEF PacketsBounded, Counted
  <2>1. /\ collected + Cardinality(InFlight(m)) + Counted(m) <= Made(m)
        /\ Cardinality(InFlight(m)) \in Nat /\ collected \in Nat /\ Made(m) \in Nat
        /\ Counted(m) \in Nat
    BY FlightFinite DEF PacketsBounded, CountersTyped, Counted, Made
  <2>2. CASE m = o
    BY <1>2, <1>7, <2>1, <2>2
  <2>3. CASE m # o
    BY <1>2, <1>7, <2>1, <2>3
  <2>4. QED BY <2>2, <2>3
<1>9. QED BY <1>0, <1>2, <1>5, <1>6, <1>8 DEF CountersTyped

LEMMA ForwardKeepsInv ==
  ASSUME TypeOK, ParentHasParent, CollectInv, NEW p \in data, ForwardActualData(p)
  PROVE  CollectInv'
<1> USE DEF CollectInv
<1> DEFINE route == Append(p.route, p.to)
<1>0. /\ UNCHANGED <<bestNode, sent, repeated, tracker, rcvdCounter, collected>>
      /\ UnicastSend(p.to, route, p.nr, data \ {p})
  BY DEF ForwardActualData, vars
<1>1. /\ p.to \in Node /\ p.nr \in Nat /\ bestNode[p.to] # NoNode
      /\ p.route \in Seq(Node) /\ p.route # <<>> /\ p.route[1] # Coordinator
  BY DEF PacketsTyped, Origin
<1>2. route \in Seq(Node) /\ route # <<>> /\ route[1] = p.route[1]
  BY <1>1
<1> HIDE DEF route
<1>3. /\ PacketsTyped' /\ IsFiniteSet(data')
      /\ \A m : /\ Cardinality(InFlight(m)') \in Nat
                /\ m # p.route[1] =>
                     Cardinality(InFlight(m)') = Cardinality(OfOrigin(data \ {p}, m))
                /\ Cardinality(InFlight(m)') <= Cardinality(OfOrigin(data \ {p}, m)) + 1
  <2>1. data \ {p} \in SUBSET data /\ UNCHANGED bestNode /\ route[1] # Coordinator
    BY <1>0, <1>1, <1>2
  <2>2. /\ PacketsTyped' /\ IsFiniteSet(data')
        /\ \A m : /\ Cardinality(InFlight(m)') \in Nat
                  /\ m # route[1] =>
                       Cardinality(InFlight(m)') = Cardinality(OfOrigin(data \ {p}, m))
                  /\ Cardinality(InFlight(m)') <= Cardinality(OfOrigin(data \ {p}, m)) + 1
    BY <1>0, <1>1, <1>2, <2>1, SendEffect
  <2>3. QED BY <2>2, <1>2
<1>4. ASSUME NEW m
      PROVE  /\ Cardinality(InFlight(m)') \in Nat
             /\ Cardinality(InFlight(m)') <= Cardinality(InFlight(m))
  <2> DEFINE kept == OfOrigin(data \ {p}, m)
  <2>1. /\ IsFiniteSet(InFlight(m)) /\ Cardinality(InFlight(m)) \in Nat
    BY FlightFinite
  <2>2. kept = InFlight(m) \ {p} /\ (p \in InFlight(m) <=> m = p.route[1])
    BY DEF InFlight, OfOrigin, Origin
  <2>3. Cardinality(kept) = IF m = p.route[1] THEN Cardinality(InFlight(m)) - 1
                                             ELSE Cardinality(InFlight(m))
    BY <2>1, <2>2, FS_RemoveElement
  <2>4. /\ Cardinality(InFlight(m)') \in Nat
        /\ m # p.route[1] => Cardinality(InFlight(m)') = Cardinality(kept)
        /\ Cardinality(InFlight(m)') <= Cardinality(kept) + 1
    BY <1>3
  <2> HIDE DEF kept
  <2>5. QED BY <2>1, <2>3, <2>4
<1>5. PacketsBounded'
  <2> SUFFICES ASSUME NEW m \in Node \ {Coordinator}
               PROVE  collected + Cardinality(InFlight(m)') + Counted(m) <= Made(m)
    BY <1>0 DEF PacketsBounded, Counted, Made
  <2>1. /\ collected + Cardinality(InFlight(m)) + Counted(m) <= Made(m)
        /\ Cardinality(InFlight(m)) \in Nat /\ collected \in Nat /\ Made(m) \in Nat
        /\ Counted(m) \in Nat
    BY FlightFinite DEF PacketsBounded, CountersTyped, Counted, Made
  <2>2. QED BY <2>1, <1>4
<1>6. QED BY <1>0, <1>3, <1>5 DEF CountersTyped

(***************************************************************************)
(* The packet that completes a collection is of the one origin the tracker *)
(* lacks: the tracker counts its marks, and there are as many senders as   *)
(* deployment_node_count says.                                             *)
(***************************************************************************)
LEMMA LastOriginMissing ==
  ASSUME CountersTyped, NEW o \in Node \ {Coordinator}, o \notin tracker,
         rcvdCounter + 1 = DeploymentCount - 1
  PROVE  tracker \cup {o} = Node \ {Coordinator}
<1>1. IsFiniteSet(tracker)
  BY NodesCounted, FS_Subset DEF CountersTyped
<1>2. Cardinality(tracker \cup {o}) = Cardinality(tracker) + 1
  BY <1>1, FS_AddElement
<1>3. Cardinality(tracker \cup {o}) = Cardinality(Node \ {Coordinator})
  BY <1>2, NodesCounted DEF CountersTyped
<1>4. tracker \cup {o} \in SUBSET (Node \ {Coordinator})
  BY DEF CountersTyped
<1>5. QED BY <1>3, <1>4, NodesCounted, FS_Subset

LEMMA CollectKeepsInv ==
  ASSUME CollectInv, NEW p \in data, CollectActualData(p)
  PROVE  CollectInv'
<1> USE DEF CollectInv
<1> DEFINE o == p.route[1]
<1>0. data' = data \ {p} /\ UNCHANGED <<bestNode, sent, repeated>>
  BY DEF CollectActualData, vars
<1>1. o \in Node \ {Coordinator}
  BY DEF PacketsTyped, Origin
<1>2. PacketsTyped' /\ IsFiniteSet(data')
  BY <1>0, FS_RemoveElement DEF PacketsTyped, CountersTyped, Origin
<1>3. \A m : /\ Cardinality(InFlight(m)') \in Nat
             /\ Cardinality(InFlight(m)') = IF m = o THEN Cardinality(InFlight(m)) - 1
                                                     ELSE Cardinality(InFlight(m))
  <2> TAKE m
  <2>1. IsFiniteSet(InFlight(m)) /\ Cardinality(InFlight(m)) \in Nat
    BY FlightFinite
  <2>2. InFlight(m)' = InFlight(m) \ {p} /\ (p \in InFlight(m) <=> m = o)
    BY <1>0 DEF InFlight, OfOrigin, Origin
  <2>3. QED BY <2>1, <2>2, FS_RemoveElement, FS_CardinalityType
<1>4. \A m \in Node \ {Coordinator} :
        /\ collected + Cardinality(InFlight(m)) + Counted(m) <= Made(m)
        /\ Cardinality(InFlight(m)) \in Nat /\ collected \in Nat /\ Made(m) \in Nat
  BY FlightFinite DEF PacketsBounded, CountersTyped, Made
<1>5. IsFiniteSet(tracker) /\ Cardinality(tracker) \in Nat
  BY NodesCounted, FS_Subset, FS_CardinalityType DEF CountersTyped
<1> HIDE DEF o
<1>6. CASE o \in tracker
  <2>1. UNCHANGED <<tracker, rcvdCounter, collected>>
    BY <1>6 DEF CollectActualData, Origin, o
  <2>2. CountersTyped'
    BY <1>0, <1>2, <2>1 DEF CountersTyped
  <2>3. PacketsBounded'
    <3> SUFFICES ASSUME NEW m \in Node \ {Coordinator}
                 PROVE  collected + Cardinality(InFlight(m)') + Counted(m) <= Made(m)
      BY <1>0, <2>1 DEF PacketsBounded, Counted, Made
    <3>1. Counted(m) \in Nat
      BY DEF Counted
    <3>2. QED BY <1>3, <1>4, <3>1
  <2>4. QED BY <1>2, <2>2, <2>3
<1>7. CASE o \notin tracker /\ rcvdCounter + 1 = DeploymentCount - 1
  <2>1. tracker' = {} /\ rcvdCounter' = 0 /\ collected' = collected + 1
    BY <1>7 DEF CollectActualData, Origin, o
  <2>2. CountersTyped'
    BY <1>0, <1>2, <2>1, FS_EmptySet DEF CountersTyped
  <2>3. \A m \in Node \ {Coordinator} : m \in tracker \/ m = o
    BY <1>1, <1>7, LastOriginMissing
  <2>4. PacketsBounded'
    <3> SUFFICES ASSUME NEW m \in Node \ {Coordinator}
                 PROVE  collected + 1 + Cardinality(InFlight(m)') + 0 <= Made(m)
      BY <1>0, <2>1 DEF PacketsBounded, Counted, Made
    <3>1. CASE m = o
      <4>1. Counted(m) = 0
        BY <3>1, <1>7 DEF Counted
      <4>2. QED BY <1>3, <1>4, <3>1, <4>1
    <3>2. CASE m # o
      <4>1. Counted(m) = 1
        BY <3>2, <2>3 DEF Counted
      <4>2. QED BY <1>3, <1>4, <3>2, <4>1
    <3>3. QED BY <3>1, <3>2
  <2>5. QED BY <1>2, <2>2, <2>4
<1>8. CASE o \notin tracker /\ rcvdCounter + 1 # DeploymentCount - 1
  <2>1. tracker' = tracker \cup {o} /\ rcvdCounter' = rcvdCounter + 1 /\ UNCHANGED collected
    BY <1>8 DEF CollectActualData, Origin, o
  <2>2. rcvdCounter' = Cardinality(tracker')
    BY <1>5, <1>8, <2>1, FS_AddElement DEF CountersTyped
  <2>3. CountersTyped'
    BY <1>0, <1>1, <1>2, <2>1, <2>2 DEF CountersTyped
  <2>4. PacketsBounded'
    <3> SUFFICES ASSUME NEW m \in Node \ {Coordinator}
                 PROVE  collected + Cardinality(InFlight(m)') + Counted(m)' <= Made(m)
      BY <1>0, <2>1 DEF PacketsBounded, Made
    <3>1. CASE m = o
      <4>1. Counted(m) = 0 /\ Counted(m)' = 1
        BY <3>1, <1>8, <2>1 DEF Counted
      <4>2. QED BY <1>3, <1>4, <3>1, <4>1
    <3>2. CASE m # o
      <4>1. Counted(m)' = Counted(m) /\ Counted(m) \in Nat
        BY <3>2, <2>1 DEF Counted
      <4>2. QED BY <1>3, <1>4, <3>2, <4>1
    <3>3. QED BY <3>1, <3>2
  <2>5. QED BY <1>2, <2>3, <2>4
<1>9. QED BY <1>6, <1>7, <1>8

LEMMA CollectStep ==
  ASSUME TypeOK, ParentHasParent, CollectInv, [CollectNext]_allVars
  PROVE  CollectInv'
<1>1. CASE [Next]_vars /\ UNCHANGED dataVars
  <2>1. \A n \in Node : bestNode[n] # NoNode => bestNode'[n] # NoNode
    BY <1>1, ParentStaysSet
  <2>2. \A n : InFlight(n)' = InFlight(n) /\ Counted(n)' = Counted(n) /\ Made(n)' = Made(n)
    BY <1>1 DEF dataVars, InFlight, OfOrigin, Counted, Made
  <2>3. PacketsTyped'
    BY <1>1, <2>1 DEF CollectInv, PacketsTyped, dataVars
  <2>4. CountersTyped' /\ PacketsBounded'
    BY <1>1, <2>2 DEF CollectInv, CountersTyped, PacketsBounded, dataVars
  <2>5. QED BY <2>3, <2>4 DEF CollectInv
<1>2. CASE DataStep
  BY <1>2, SendKeepsInv, RepeatKeepsInv, ForwardKeepsInv, CollectKeepsInv DEF DataStep
<1>3. QED BY <1>1, <1>2 DEF CollectNext, allVars

LEMMA CollectInvariant == CollectSpec => [](CollectInv /\ TypeOK)
<1>1. CollectSpec => []TypeOK /\ []ParentHasParent
  BY CollectImplementsRouting, TypeCorrect, ParentsAreConnected, PTL
<1>2. TypeOK /\ ParentHasParent /\ CollectInv /\ [CollectNext]_allVars => CollectInv'
  BY CollectStep
<1>3. QED BY <1>1, <1>2, CollectInvInit, PTL DEF CollectSpec

-----------------------------------------------------------------------------
(***************************************************************************)
(* Every variable of the collection keeps its type.                        *)
(***************************************************************************)
THEOREM CollectTypeCorrect == CollectSpec => []CollectTypeOK
<1>1. CollectInv /\ TypeOK => CollectTypeOK
  <2> SUFFICES ASSUME CollectInv, TypeOK PROVE CollectTypeOK
    OBVIOUS
  <2>1. data \subseteq Packet
    BY DEF CollectInv, PacketsTyped, Packet
  <2>2. rcvdCounter \in Nat
    BY NodesCounted, FS_Subset, FS_CardinalityType DEF CollectInv, CountersTyped
  <2>3. QED BY <2>1, <2>2 DEF CollectInv, CountersTyped, CollectTypeOK
<1>2. QED BY <1>1, CollectInvariant, PTL

(***************************************************************************)
(* on_received_actual_data never forwards to node 0, and no data packet is *)
(* addressed to a node that would.                                         *)
(***************************************************************************)
THEOREM AlwaysForwarded == CollectSpec => []NeverForwardedNowhere
<1>1. CollectInv => NeverForwardedNowhere
  BY RoutingAssumption DEF CollectInv, PacketsTyped, NeverForwardedNowhere
<1>2. QED BY <1>1, CollectInvariant, PTL

(***************************************************************************)
(* "ALL ACTUAL DATA COLLECTED" is printed only when of every node another  *)
(* packet or copy has arrived since the time before, for any number of     *)
(* nodes, losses and copies.                                               *)
(***************************************************************************)
THEOREM CollectionsAreComplete == CollectSpec => []CollectedFromAll
<1>1. CollectInv => CollectedFromAll
  <2> SUFFICES ASSUME CollectInv, NEW n \in Node \ {Coordinator}
               PROVE  collected + Counted(n) <= Made(n)
    BY DEF CollectedFromAll, Counted, Made
  <2>1. /\ collected + Cardinality(InFlight(n)) + Counted(n) <= Made(n)
        /\ Cardinality(InFlight(n)) \in Nat /\ collected \in Nat /\ Made(n) \in Nat
        /\ Counted(n) \in Nat
    BY FlightFinite DEF CollectInv, PacketsBounded, CountersTyped, Counted, Made
  <2>2. QED BY <2>1
<1>2. QED BY <1>1, CollectInvariant, PTL
=============================================================================
