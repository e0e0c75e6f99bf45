-------------------------- MODULE MasterFlow_proofs --------------------------
(***************************************************************************)
(* Proofs about the flows of the MASTER routing layer: types, the windows  *)
(* of a flow, the order in which the application gets its packets, and     *)
(* when packets are sent.                                                  *)
(*                                                                         *)
(* FlowInv is the invariant the others build on.  Besides the types it     *)
(* says that no packet or record is ahead of the numbers the sender has    *)
(* given out, and that no window begins more than two slotframes ahead.    *)
(* Both bound how far apart two numbers can be whose low bits are compared *)
(* with TSCH_SLOTNUM_LT; BeforeNear and NotBeforeNear say what comes out   *)
(* of the comparison.                                                      *)
(*                                                                         *)
(* OrderInv is about what lies behind what.  The parts of the slotframes   *)
(* make a sequence of cycles.  Each window of a flow lies in a cycle of    *)
(* its own, and in each queue and receive buffer packets come in the order *)
(* of those cycles; a vector comes no later than the last packet of the    *)
(* flow that its node knows, and so before the next.                       *)
(* The order survives the configuration that vectors and packets share     *)
(* because a node that relays handles packets in the order of their        *)
(* windows, and is no sender.                                              *)
(*                                                                         *)
(* KeptInv is about what becomes of a packet until its window is over:     *)
(* every node that has seen it has handed it to the next node of the       *)
(* route, or still has it.  RouteInv says that queued and received packets *)
(* are on the route of their flow, RecordInv that a packet marked as heard *)
(* has reached the next node.                                              *)
(***************************************************************************)
EXTENDS MasterFlow, TLAPS, WellFoundedInduction

-----------------------------------------------------------------------------
(***************************************************************************)
(* Arithmetic on numbers that wrap.                                        *)
(***************************************************************************)

\* A multiple of the modulus makes no difference.
LEMMA Multiple ==
  ASSUME NEW m \in Nat \ {0}, NEW q \in Nat, NEW c \in 0 .. m - 1
  PROVE  (q * m + c) % m = c
OBVIOUS

LEMMA DivMod ==
  ASSUME NEW m \in Nat \ {0}, NEW x \in Nat
  PROVE  \E q \in Nat : x = q * m + (x % m) /\ x % m \in 0 .. m - 1
<1>1. x = (x \div m) * m + (x % m) /\ x \div m \in Nat /\ x % m \in 0 .. m - 1
  OBVIOUS
<1>2. QED BY <1>1

(***************************************************************************)
(* TSCH_SLOTNUM_LT tells the order of two numbers by their low bits when   *)
(* they are no further apart than half the modulus.                        *)
(***************************************************************************)
LEMMA BeforeNear ==
  ASSUME NEW m \in Nat \ {0}, NEW a \in Nat, NEW b \in Nat, a < b, 2 * (b - a) <= m
  PROVE  Before(a, b, m)
<1>1. PICK q \in Nat : b = q * m + (b % m) /\ b % m \in 0 .. m - 1
  BY DivMod
<1>2. m - (b - a) \in 0 .. m - 1
  OBVIOUS
<1>3. a + m - (b % m) = q * m + (m - (b - a))
  <2> DEFINE k == q * m
  <2>1. k \in Nat
    OBVIOUS
  <2>2. b = k + (b % m)
    BY <1>1
  <2> HIDE DEF k
  <2>3. a + m - (b % m) = k + (m - (b - a))
    BY <1>1, <2>1, <2>2
  <2>4. QED BY <2>3 DEF k
<1>4. (a + m - (b % m)) % m = m - (b - a)
  BY <1>2, <1>3, Multiple
<1>5. QED BY <1>2, <1>4 DEF Before

LEMMA NotBeforeNear ==
  ASSUME NEW m \in Nat \ {0}, NEW a \in Nat, NEW b \in Nat, b <= a, 2 * (a - b) < m
  PROVE  ~Before(a, b, m)
<1>1. PICK q \in Nat : b = q * m + (b % m) /\ b % m \in 0 .. m - 1
  BY DivMod
<1>2. a - b \in 0 .. m - 1 /\ q + 1 \in Nat
  OBVIOUS
<1>3. a + m - (b % m) = (q + 1) * m + (a - b)
  <2> DEFINE k == q * m
  <2>1. k \in Nat /\ (q + 1) * m = k + m
    OBVIOUS
  <2>2. b = k + (b % m)
    BY <1>1
  <2> HIDE DEF k
  <2>3. a + m - (b % m) = k + m + (a - b)
    BY <1>1, <2>1, <2>2
  <2>4. QED BY <2>1, <2>3
<1>4. (a + m - (b % m)) % m = a - b
  BY <1>2, <1>3, Multiple
<1>5. QED BY <1>2, <1>4 DEF Before

(***************************************************************************)
(* The next slot from x on that has place s in a slotframe of m slots.     *)
(***************************************************************************)
LEMMA NextPlace ==
  ASSUME NEW m \in Nat \ {0}, NEW x \in Nat, NEW s \in 0 .. m - 1,
         NEW y, y = x + ((m + s - (x % m)) % m)
  PROVE  y \in x .. x + m - 1 /\ y % m = s
<1>1. PICK q \in Nat : x = q * m + (x % m) /\ x % m \in 0 .. m - 1
  BY DivMod
<1> DEFINE k == q * m
           r == x % m
           d == (m + s - r) % m
<1>2. k \in Nat /\ (q + 1) * m = k + m /\ q + 1 \in Nat /\ 0 * m = 0 /\ 1 * m = m
  OBVIOUS
<1>3. x = k + r /\ r \in 0 .. m - 1 /\ y = x + d
  BY <1>1
<1>4. CASE r <= s
  <2>1. d = s - r
    <3>1. s - r \in 0 .. m - 1 /\ m + s - r = 1 * m + (s - r)
      BY <1>2, <1>3, <1>4
    <3> HIDE DEF r
    <3>2. (1 * m + (s - r)) % m = s - r
      BY <3>1, Multiple
    <3>3. QED BY <3>1, <3>2
  <2> HIDE DEF k, d, r
  <2>2. y = k + s /\ y \in x .. x + m - 1
    BY <1>2, <1>3, <1>4, <2>1
  <2>3. (q * m + s) % m = s
    BY Multiple
  <2>4. QED BY <2>2, <2>3 DEF k
<1>5. CASE s < r
  <2>1. d = m + s - r
    <3>1. m + s - r \in 0 .. m - 1 /\ m + s - r = 0 * m + (m + s - r)
      BY <1>2, <1>3, <1>5
    <3> HIDE DEF r
    <3>2. (0 * m + (m + s - r)) % m = m + s - r
      BY <3>1, Multiple
    <3>3. QED BY <3>1, <3>2
  <2> HIDE DEF k, d, r
  <2>2. y = k + m + s /\ y \in x .. x + m - 1
    BY <1>2, <1>3, <1>5, <2>1
  <2>3. ((q + 1) * m + s) % m = s
    BY <1>2, Multiple
  <2>4. QED BY <1>2, <2>2, <2>3
<1>6. QED BY <1>3, <1>4, <1>5

\* Every non-empty set of naturals has a least element.
LEMMA LeastNat ==
  ASSUME NEW T, T \subseteq Nat, T # {}
  PROVE  \E x \in T : \A y \in T : x <= y
<1>1. IsWellFoundedOn(OpToRel(<, Nat), Nat)
  BY NatLessThanWellFounded
<1>2. PICK x \in T : \A y \in T : ~(<<y, x>> \in OpToRel(<, Nat))
  BY <1>1, WFMin
<1>3. \A y \in T : ~(y < x)
  BY <1>2 DEF OpToRel
<1>4. QED BY <1>3

-----------------------------------------------------------------------------
(***************************************************************************)
(* Slots and windows.                                                      *)
(***************************************************************************)

(***************************************************************************)
(* Every node has a link in the slotframe, so that the process always sees *)
(* a slot number, at most a slotframe ahead.                               *)
(***************************************************************************)
LEMMA NowExists ==
  ASSUME asn \in Nat, NEW n \in Node
  PROVE  /\ CurrentAsn(n) \in asn .. asn + SfSize - 1
         /\ Active(n, CurrentAsn(n))
         /\ \A b \in asn .. CurrentAsn(n) - 1 : ~Active(n, b)
<1> DEFINE T == { a \in asn .. asn + SfSize - 1 : Active(n, a) }
<1>1. PICK s \in 0 .. SfSize - 1 : n \in Cell[s].tx \cup Cell[s].rx
  BY FlowAssumption
<1>2. SfSize \in Nat \ {0}
  BY FlowAssumption
<1> DEFINE y == asn + ((SfSize + s - (asn % SfSize)) % SfSize)
<1>3. y \in asn .. asn + SfSize - 1 /\ y % SfSize = s
  <2>1. \A z : z = asn + ((SfSize + s - (asn % SfSize)) % SfSize)
          => z \in asn .. asn + SfSize - 1 /\ z % SfSize = s
    BY <1>2, NextPlace
  <2>2. QED BY <2>1
<1>4. y \in T
  <2> HIDE DEF y
  <2>1. QED BY <1>1, <1>3 DEF Active
<1>5. PICK a \in T : \A b \in T : a <= b
  <2>1. T \subseteq Nat /\ T # {}
    BY <1>2, <1>4
  <2> HIDE DEF T
  <2>2. QED BY <2>1, LeastNat
<1>6. /\ a \in asn .. asn + SfSize - 1 /\ Active(n, a)
      /\ \A b \in asn .. a - 1 : ~Active(n, b)
  BY <1>2, <1>5
<1>7. QED BY <1>6 DEF CurrentAsn

\* The slot number the process sees never goes back.
LEMMA NowMoves ==
  ASSUME asn \in Nat, asn' = asn \/ asn' = asn + 1, NEW n \in Node
  PROVE  CurrentAsn(n)' \in Nat /\ CurrentAsn(n) <= CurrentAsn(n)'
<1> DEFINE now == CurrentAsn(n)
           then == CurrentAsn(n)'
<1>1. /\ now \in asn .. asn + SfSize - 1
      /\ \A b \in asn .. now - 1 : ~Active(n, b)
  BY NowExists
<1>2. CASE asn' = asn
  <2>1. then = now
    BY <1>2 DEF CurrentAsn
  <2>2. QED BY <1>1, <2>1, FlowAssumption
<1>3. CASE asn' = asn + 1
  <2>1. asn \in Nat => now \in asn .. asn + SfSize - 1 /\ Active(n, now)
    BY NowExists
  <2>2. (asn \in Nat => now \in asn .. asn + SfSize - 1 /\ Active(n, now))'
    BY NowExists, PTL
  <2>3. asn' \in Nat
    BY <1>3
  <2>4. then \in asn' .. asn' + SfSize - 1 /\ Active(n, then)
    BY <2>2, <2>3 DEF Active
  <2>5. SfSize \in Nat \ {0}
    BY FlowAssumption
  <2> HIDE DEF now, then
  <2>6. then \in Nat /\ then >= asn + 1 /\ now \in Nat
    BY <1>1, <1>3, <2>3, <2>4, <2>5
  <2>7. ~(then \in asn .. now - 1)
    BY <1>1, <2>4
  <2>8. QED BY <2>6, <2>7 DEF now, then
<1>4. QED BY <1>2, <1>3

\* The first and last slots of the windows of a flow lie in the slotframe.
LEMMA SlotsOfWindows ==
  ASSUME NEW f \in Flow
  PROVE  /\ Len(FirstTx[f]) \in Nat \ {0}
         /\ \A i \in WindowsOf(f) :
              FirstTx[f][i] \in 0 .. SfSize - 1 /\ LastTx[f][i] \in 0 .. SfSize - 1
<1>1. /\ FirstTx[f] \in Seq(0 .. SfSize - 1) /\ FirstTx[f] # <<>>
      /\ LastTx[f] \in Seq(0 .. SfSize - 1) /\ Len(LastTx[f]) = Len(FirstTx[f])
  BY FlowAssumption
<1> DEFINE first == FirstTx[f]
           last == LastTx[f]
<1>2. /\ first \in Seq(0 .. SfSize - 1) /\ first # <<>>
      /\ last \in Seq(0 .. SfSize - 1) /\ Len(last) = Len(first)
  BY <1>1
<1>3. WindowsOf(f) = 1 .. Len(first)
  BY DEF WindowsOf
<1> HIDE DEF first, last
<1>4. Len(first) \in Nat \ {0}
  BY <1>2
<1> DEFINE S == 0 .. SfSize - 1
<1>5. \A i \in 1 .. Len(first) : first[i] \in S /\ last[i] \in S
  <2>1. first \in Seq(S) /\ last \in Seq(S) /\ Len(last) = Len(first)
    BY <1>2
  <2> HIDE DEF S
  <2>2. QED BY <2>1
<1>6. QED BY <1>3, <1>4, <1>5 DEF first, last

LEMMA NextIndexIsWindow ==
  ASSUME NEW f \in Flow, NEW slot \in Nat
  PROVE  NextIndex(f, slot) \in WindowsOf(f)
<1> DEFINE n == Len(FirstTx[f])
           ahead == { i \in WindowsOf(f) : slot <= FirstTx[f][i] }
<1>1. n \in Nat \ {0} /\ \A i \in WindowsOf(f) : FirstTx[f][i] \in 0 .. SfSize - 1
  BY SlotsOfWindows
<1>2. WindowsOf(f) = 1 .. n /\ SfSize \in Nat
  BY FlowAssumption DEF WindowsOf
<1>3. CASE slot > FirstTx[f][n]
  <2>1. NextIndex(f, slot) = 1
    BY <1>3 DEF NextIndex
  <2> HIDE DEF n
  <2>2. QED BY <1>1, <1>2, <2>1
<1>4. CASE ~(slot > FirstTx[f][n])
  <2>1. NextIndex(f, slot) = Min(ahead)
    BY <1>4 DEF NextIndex
  <2>2. n \in ahead /\ ahead \subseteq Nat
    BY <1>1, <1>2, <1>4
  <2>3. \A i \in ahead : i \in WindowsOf(f)
    OBVIOUS
  <2> HIDE DEF ahead, n
  <2>4. \E x \in ahead : \A y \in ahead : x <= y
    BY <2>2, LeastNat
  <2>5. Min(ahead) \in ahead
    BY <2>4 DEF Min
  <2>6. QED BY <2>1, <2>3, <2>5
<1>5. QED BY <1>3, <1>4

(***************************************************************************)
(* A window begins in a first slot of the flow, at most a slotframe ahead, *)
(* and ends in the last slot that belongs to it.                           *)
(***************************************************************************)
LEMMA WindowFacts ==
  ASSUME asn \in Nat, NEW f \in Flow
  PROVE  LET w == NextWindow(f)
             now == CurrentAsn(SenderOf[f])
         IN /\ w \in [earliest : Nat, ttl : Nat]
            /\ now \in Nat /\ now <= w.earliest /\ w.earliest <= w.ttl
            /\ w.earliest <= now + (SfSize - 1)
            /\ w.ttl <= now + 2 * (SfSize - 1)
            /\ \E i \in WindowsOf(f) :
                 /\ w.earliest % SfSize = FirstTx[f][i]
                 /\ w.ttl % SfSize = LastTx[f][i]
                 /\ w.ttl = w.earliest + ((SfSize + LastTx[f][i] - FirstTx[f][i]) % SfSize)
<1> DEFINE now == CurrentAsn(SenderOf[f])
           i == NextIndex(f, now % SfSize)
           first == FirstTx[f][i]
           last == LastTx[f][i]
           e == now + ((SfSize + first - (now % SfSize)) % SfSize)
           t == e + ((SfSize + last - first) % SfSize)
<1>1. SfSize \in Nat \ {0} /\ SenderOf[f] \in Node
  BY FlowAssumption
<1>2. now \in Nat
  BY <1>1, NowExists
<1>3. NextWindow(f) = [earliest |-> e, ttl |-> t]
  BY DEF NextWindow
<1> HIDE DEF now
<1>i. i \in WindowsOf(f)
  <2>1. now % SfSize \in Nat
    BY <1>1, <1>2
  <2>2. QED BY <2>1, NextIndexIsWindow
<1> HIDE DEF i
<1>s. first \in 0 .. SfSize - 1 /\ last \in 0 .. SfSize - 1
  BY <1>i, SlotsOfWindows
<1>n. first = FirstTx[f][i] /\ last = LastTx[f][i]
  OBVIOUS
<1> HIDE DEF first, last
<1>4. e \in now .. now + SfSize - 1 /\ e % SfSize = first
  <2>1. \A y : y = now + ((SfSize + first - (now % SfSize)) % SfSize)
          => y \in now .. now + SfSize - 1 /\ y % SfSize = first
    BY <1>1, <1>2, <1>s, NextPlace
  <2>2. QED BY <2>1
<1> HIDE DEF e
<1>e. e \in Nat
  BY <1>1, <1>2, <1>4
<1>5. t \in e .. e + SfSize - 1 /\ t % SfSize = last
  <2>1. \A y : y = e + ((SfSize + last - (e % SfSize)) % SfSize)
          => y \in e .. e + SfSize - 1 /\ y % SfSize = last
    BY <1>1, <1>e, <1>s, NextPlace
  <2>2. QED BY <1>4, <2>1
<1>6. t = e + ((SfSize + last - first) % SfSize)
  OBVIOUS
<1> HIDE DEF t
<1>7. QED BY <1>1, <1>2, <1>3, <1>4, <1>5, <1>6, <1>i, <1>n, <1>e DEF now
-----------------------------------------------------------------------------
(***************************************************************************)
(* The invariant of types and numbers.                                     *)
(***************************************************************************)
QueueName == Flow \cup {BeaconQueue}
Window == [earliest : Nat, ttl : Nat]

\* No window begins later: the process sees a slot less than a slotframe ahead,
\* and the first slot of the flow comes less than a slotframe after it.
Horizon == asn + 2 * (SfSize - 1)

\* A packet of a flow carries a number its sender has given out.
FinePacket ==
  { p \in Packet : /\ p.kind = "flow" => p.flow \in Flow /\ p.nr <= OwnNumber(p.flow)
                   /\ p.earliest <= Horizon }

Configuration == { c \in [flow : QueueName, earliest : Nat, ttl : Nat] : c.earliest <= Horizon }

Types ==
  /\ asn \in Nat \ {0}
  /\ windows \in [Flow -> Seq(Window)]
  /\ lastTtl \in [Flow -> Nat]
  /\ config \in [Node -> Configuration]
  /\ seen \in [Node -> [Flow -> Nat]]
  /\ delivered \in [Flow -> Seq(Nat)]
  /\ vectors \in Nat
  /\ adverts \in Nat

Traffic ==
  /\ queue \in [Node -> [QueueName -> Seq(FinePacket)]]
  /\ input \in [Node -> Seq(FinePacket)]
  /\ \A n \in Node : Len(input[n]) <= RingSize

\* No node has seen a number that has not been given out.
Numbers == \A f \in Flow : \A n \in Node : seen[n][f] <= OwnNumber(f)

FlowInv == Types /\ Traffic /\ Numbers

LEMMA OwnNumberIsNat ==
  ASSUME Types, NEW f \in Flow
  PROVE  OwnNumber(f) \in Nat /\ Len(windows[f]) \in Nat
  BY FlowAssumption DEF Types, OwnNumber

\* What packets are made of.
LEMMA VectorIsFine ==
  ASSUME Types, NEW n \in Node
  PROVE  Vector(n) \in FinePacket
<1>1. /\ config[n] \in [flow : QueueName, earliest : Nat, ttl : Nat] /\ Parent[n] \in Node
      /\ config[n].earliest <= Horizon
  BY FlowAssumption DEF Types, Configuration
<1>2. Vector(n) \in Packet /\ Vector(n).kind = "vector" /\ Vector(n).earliest <= Horizon
  BY <1>1 DEF Vector, Packet
<1>3. QED BY <1>2 DEF FinePacket

(***************************************************************************)
(* The queue of the configured flow takes the packet or stays as it is.    *)
(***************************************************************************)
LEMMA OutputKeepsType ==
  ASSUME NEW S, NEW n \in Node, NEW p \in S, Output(n, p),
         queue \in [Node -> [QueueName -> Seq(S)]], config'[n].flow \in QueueName
  PROVE  queue' \in [Node -> [QueueName -> Seq(S)]]
<1> DEFINE q == config'[n].flow
<1>1. Append(queue[n][q], p) \in Seq(S)
  OBVIOUS
<1>2. queue' = queue \/ queue' = [queue EXCEPT ![n][q] = Append(queue[n][q], p)]
  BY DEF Output
<1>q. q \in QueueName
  OBVIOUS
<1> HIDE DEF q
<1>3. CASE queue' = [queue EXCEPT ![n][q] = Append(queue[n][q], p)]
  <2> DEFINE new == [queue[n] EXCEPT ![q] = Append(queue[n][q], p)]
  <2>1. new \in [QueueName -> Seq(S)]
    BY <1>1, <1>q
  <2>2. queue' = [queue EXCEPT ![n] = new]
    BY <1>3
  <2> HIDE DEF new
  <2>3. QED BY <2>1, <2>2
<1>4. QED BY <1>2, <1>3

\* As the sender goes on, packets that were fine remain so.
LEMMA StillFine ==
  ASSUME Types, NEW f \in Flow, NEW w, windows' = [windows EXCEPT ![f] = Append(@, w)],
         w \in Window, asn' = asn
  PROVE  /\ FinePacket \subseteq FinePacket'
         /\ windows' \in [Flow -> Seq(Window)]
         /\ \A g \in Flow : OwnNumber(g)' = IF g = f THEN OwnNumber(g) + 1 ELSE OwnNumber(g)
<1>1. \A g \in Flow : windows[g] \in Seq(Window) /\ Len(windows[g]) \in Nat
  BY DEF Types
<1>2. Append(windows[f], w) \in Seq(Window) /\ Len(Append(windows[f], w)) = Len(windows[f]) + 1
  BY <1>1
<1>3. windows' \in [Flow -> Seq(Window)]
  BY <1>2 DEF Types
<1>4. \A g \in Flow : windows'[g] = IF g = f THEN Append(windows[f], w) ELSE windows[g]
  BY DEF Types
<1>5. \A g \in Flow : OwnNumber(g)' = IF g = f THEN OwnNumber(g) + 1 ELSE OwnNumber(g)
  <2>1. StartNumber \in Nat
    BY FlowAssumption
  <2>2. \A g : OwnNumber(g)' = StartNumber + Len(windows'[g])
    BY DEF OwnNumber
  <2>3. ASSUME NEW g \in Flow, g # f PROVE OwnNumber(g)' = OwnNumber(g)
    BY <1>4, <2>2, <2>3 DEF OwnNumber
  <2>4. OwnNumber(f)' = OwnNumber(f) + 1
    <3>1. Len(windows'[f]) = Len(windows[f]) + 1 /\ Len(windows[f]) \in Nat
      BY <1>1, <1>2, <1>4
    <3>2. OwnNumber(f) = StartNumber + Len(windows[f])
      BY DEF OwnNumber
    <3>3. QED BY <2>1, <2>2, <3>1, <3>2
  <2>5. QED BY <2>3, <2>4
<1>6. \A g \in Flow : OwnNumber(g) \in Nat
  BY OwnNumberIsNat
<1>7. ASSUME NEW p \in FinePacket PROVE p \in FinePacket'
  <2>1. p \in Packet /\ p.nr \in Nat /\ p.earliest <= Horizon'
    BY DEF FinePacket, Packet, Horizon
  <2>2. p.kind = "flow" => p.flow \in Flow /\ p.nr <= OwnNumber(p.flow)'
    BY <1>5, <1>6, <2>1 DEF FinePacket
  <2>3. QED BY <2>1, <2>2 DEF FinePacket, Packet
<1>8. QED BY <1>3, <1>5, <1>7

LEMMA MoreIsMore ==
  ASSUME NEW S, NEW T, S \subseteq T, NEW A, NEW B, NEW q
  PROVE  /\ q \in [A -> Seq(S)] => q \in [A -> Seq(T)]
         /\ q \in [A -> [B -> Seq(S)]] => q \in [A -> [B -> Seq(T)]]
<1>1. Seq(S) \subseteq Seq(T)
  OBVIOUS
<1>2. QED BY <1>1

(***************************************************************************)
(* While the windows stay, so does what a fine packet is.                  *)
(***************************************************************************)
LEMMA SameFine ==
  ASSUME windows' = windows, asn' = asn
  PROVE  /\ FinePacket' = FinePacket /\ Configuration' = Configuration
         /\ \A f \in Flow : OwnNumber(f)' = OwnNumber(f)
<1>1. \A f : OwnNumber(f)' = OwnNumber(f)
  BY DEF OwnNumber
<1>2. Horizon' = Horizon
  BY DEF Horizon
<1>3. QED BY <1>1, <1>2 DEF FinePacket, Packet, Configuration

-----------------------------------------------------------------------------
LEMMA FlowSendKeeps ==
  ASSUME FlowInv, NEW f \in Flow, FlowSend(f)
  PROVE  FlowInv'
<1> DEFINE n == SenderOf[f]
           w == NextWindow(f)
           p == [kind |-> "flow", flow |-> f, nr |-> OwnNumber(f) + 1, to |-> ForwardTo[n][f],
                 earliest |-> w.earliest, ttl |-> w.ttl, heard |-> FALSE]
<1>0. Types /\ Traffic /\ Numbers
  BY DEF FlowInv
<1>1. n \in Node /\ ForwardTo[n][f] \in Node
  <2>1. n \in Node
    BY FlowAssumption
  <2>2. ForwardTo[n] \in [Flow -> Node \cup {NoNode}]
    BY <2>1, FlowAssumption
  <2>3. ForwardTo[n][f] # NoNode
    BY FlowAssumption
  <2>4. QED BY <2>1, <2>2, <2>3
<1>2. w \in Window /\ w.earliest <= Horizon
  <2> DEFINE now == CurrentAsn(n)
  <2>1. asn \in Nat /\ SfSize \in Nat \ {0} /\ now \in asn .. asn + SfSize - 1
    BY <1>0, <1>1, NowExists, FlowAssumption DEF Types
  <2>2. w \in Window /\ w.earliest <= now + (SfSize - 1)
    BY <1>0, WindowFacts DEF Types, Window
  <2>3. w.earliest \in Nat
    BY <2>2 DEF Window
  <2> HIDE DEF w, now
  <2>4. QED BY <2>1, <2>2, <2>3 DEF Horizon
<1> HIDE DEF w
<1>3. /\ windows' = [windows EXCEPT ![f] = Append(@, w)]
      /\ lastTtl' = [lastTtl EXCEPT ![f] = w.ttl]
      /\ config' = [config EXCEPT ![n] = [flow |-> f, earliest |-> w.earliest, ttl |-> w.ttl]]
      /\ Output(n, p)
      /\ UNCHANGED <<asn, seen, input, delivered, vectors, adverts>>
  BY DEF FlowSend, w
<1>4. /\ FinePacket \subseteq FinePacket'
      /\ windows' \in [Flow -> Seq(Window)]
      /\ \A g \in Flow : OwnNumber(g)' = IF g = f THEN OwnNumber(g) + 1 ELSE OwnNumber(g)
  BY <1>0, <1>2, <1>3, StillFine
<1>5. \A g \in Flow : OwnNumber(g) \in Nat
  BY <1>0, OwnNumberIsNat
<1>6. Types'
  <2>1. Configuration' = Configuration
    BY <1>3 DEF Configuration, Horizon
  <2> DEFINE c == [flow |-> f, earliest |-> w.earliest, ttl |-> w.ttl]
  <2>2. c \in Configuration
    BY <1>2 DEF Window, Configuration, QueueName
  <2>3. config' = [config EXCEPT ![n] = c]
    BY <1>3
  <2> HIDE DEF c
  <2>4. config' \in [Node -> Configuration]
    BY <1>0, <2>2, <2>3 DEF Types
  <2>5. w.ttl \in Nat
    BY <1>2 DEF Window
  <2>6. lastTtl' \in [Flow -> Nat]
    BY <1>0, <1>3, <2>5 DEF Types
  <2>7. QED BY <1>0, <1>3, <1>4, <2>1, <2>4, <2>6 DEF Types
<1>7. p \in FinePacket'
  <2>1. p \in Packet /\ p.flow = f /\ p.nr = OwnNumber(f)' /\ p.earliest = w.earliest
    <3>1. OwnNumber(f)' = OwnNumber(f) + 1 /\ OwnNumber(f) + 1 \in Nat
      BY <1>4, <1>5
    <3>2. w.earliest \in Nat /\ w.ttl \in Nat
      BY <1>2 DEF Window
    <3> DEFINE nr == OwnNumber(f) + 1
               dest == ForwardTo[n][f]
    <3>3. nr \in Nat /\ nr = OwnNumber(f)' /\ dest \in Node
      BY <1>1, <3>1
    <3>4. p = [kind |-> "flow", flow |-> f, nr |-> nr, to |-> dest,
               earliest |-> w.earliest, ttl |-> w.ttl, heard |-> FALSE]
      OBVIOUS
    <3> HIDE DEF p, nr, dest
    <3>5. p \in [kind : {"flow", "vector"}, flow : Flow \cup {BeaconQueue}, nr : Nat, to : Node,
                  earliest : Nat, ttl : Nat, heard : BOOLEAN]
      BY <3>2, <3>3, <3>4
    <3>6. p.flow = f /\ p.nr = nr /\ p.earliest = w.earliest
      BY <3>4
    <3>7. QED BY <3>3, <3>5, <3>6 DEF Packet
  <2> HIDE DEF p
  <2>o. OwnNumber(f)' = OwnNumber(f) + 1 /\ OwnNumber(f) \in Nat
    BY <1>4, <1>5
  <2>h. Horizon' = Horizon
    BY <1>3 DEF Horizon
  <2>2. \A x \in Packet : x.flow = f /\ x.nr = OwnNumber(f)' /\ x.earliest <= Horizon
          => x \in FinePacket'
    <3>1. SUFFICES ASSUME NEW x \in Packet, x.flow = f, x.nr = OwnNumber(f)',
                          x.earliest <= Horizon
                   PROVE  x \in FinePacket'
      OBVIOUS
    <3>2. x.flow \in Flow /\ x.nr <= OwnNumber(x.flow)'
      BY <2>o, <3>1
    <3>3. QED BY <2>h, <3>1, <3>2 DEF FinePacket, Packet
  <2>3. QED BY <1>2, <2>1, <2>2
<1> HIDE DEF p
<1>8. Traffic'
  <2>1. /\ queue \in [Node -> [QueueName -> Seq(FinePacket')]]
        /\ input \in [Node -> Seq(FinePacket')]
    BY <1>0, <1>4, MoreIsMore DEF Traffic
  <2>2. config'[n].flow \in QueueName
    BY <1>0, <1>1, <1>3 DEF Types, QueueName
  <2>3. queue' \in [Node -> [QueueName -> Seq(FinePacket')]]
    BY <1>1, <1>3, <1>7, <2>1, <2>2, OutputKeepsType
  <2>4. QED BY <1>0, <1>3, <2>1, <2>3 DEF Traffic, QueueName
<1>9. Numbers'
  <2>1. ASSUME NEW g \in Flow, NEW m \in Node PROVE seen'[m][g] <= OwnNumber(g)'
    <3>1. seen[m][g] \in Nat /\ seen[m][g] <= OwnNumber(g)
      BY <1>0 DEF Types, Numbers
    <3>2. QED BY <1>3, <1>4, <1>5, <3>1
  <2>2. QED BY <1>0, <1>3, <2>1 DEF Numbers
<1>10. QED BY <1>6, <1>8, <1>9 DEF FlowInv

LEMMA SendAdvertisementKeeps ==
  ASSUME FlowInv, NEW n \in Node, SendAdvertisement(n)
  PROVE  FlowInv'
<1>1. /\ config' = [config EXCEPT ![n].flow = BeaconQueue] /\ adverts' = adverts + 1
      /\ UNCHANGED <<asn, windows, lastTtl, seen, queue, input, delivered, vectors>>
  BY DEF SendAdvertisement
<1>2. Types'
  <2>1. /\ config[n] \in [flow : QueueName, earliest : Nat, ttl : Nat]
        /\ config[n].earliest <= Horizon
    BY DEF FlowInv, Types, Configuration
  <2> DEFINE new == [config[n] EXCEPT !.flow = BeaconQueue]
  <2>2. new \in Configuration
    BY <2>1 DEF QueueName, Configuration
  <2>3. config' = [config EXCEPT ![n] = new]
    BY <1>1
  <2> HIDE DEF new
  <2>4. config' \in [Node -> Configuration]
    BY <2>2, <2>3 DEF FlowInv, Types
  <2>5. Configuration' = Configuration
    BY <1>1, SameFine
  <2>6. QED BY <1>1, <2>4, <2>5 DEF FlowInv, Types
<1>3. FinePacket' = FinePacket /\ \A f \in Flow : OwnNumber(f)' = OwnNumber(f)
  BY <1>1, SameFine
<1>4. Traffic'
  BY <1>1, <1>3 DEF FlowInv, Traffic, QueueName
<1>5. Numbers'
  BY <1>1, <1>3 DEF FlowInv, Numbers
<1>6. QED BY <1>2, <1>4, <1>5 DEF FlowInv

LEMMA UnicastSendKeeps ==
  ASSUME Types, Traffic, NEW n \in Node, UnicastSend(n)
  PROVE  config' = config /\ queue' \in [Node -> [QueueName -> Seq(FinePacket)]]
<1>1. Vector(n) \in FinePacket /\ config' = config /\ Output(n, Vector(n))
  BY VectorIsFine DEF UnicastSend
<1>2. config'[n].flow \in QueueName
  BY <1>1 DEF Types, Configuration
<1>3. QED BY <1>1, <1>2, OutputKeepsType DEF Traffic

LEMMA SendVectorKeeps ==
  ASSUME FlowInv, NEW n \in Node, SendVector(n)
  PROVE  FlowInv'
<1>1. /\ UnicastSend(n) /\ vectors' = vectors + 1
      /\ UNCHANGED <<asn, windows, lastTtl, seen, input, delivered, adverts>>
  BY DEF SendVector
<1>2. config' = config /\ queue' \in [Node -> [QueueName -> Seq(FinePacket)]]
  BY <1>1, UnicastSendKeeps DEF FlowInv
<1>3. Types'
  BY <1>1, <1>2, SameFine DEF FlowInv, Types
<1>4. FinePacket' = FinePacket /\ \A f \in Flow : OwnNumber(f)' = OwnNumber(f)
  BY <1>1, SameFine
<1>5. Traffic'
  BY <1>1, <1>2, <1>4 DEF FlowInv, Traffic, QueueName
<1>6. Numbers'
  BY <1>1, <1>4 DEF FlowInv, Numbers
<1>7. QED BY <1>3, <1>5, <1>6 DEF FlowInv
-----------------------------------------------------------------------------
(***************************************************************************)
(* The process of a node handles a received packet.                        *)
(***************************************************************************)

\* A relay addresses the packet to its own next node.
LEMMA RelayedIsFine ==
  ASSUME NEW p \in FinePacket, NEW to \in Node
  PROVE  [p EXCEPT !.to = to, !.heard = FALSE] \in FinePacket
<1> DEFINE r == [p EXCEPT !.to = to, !.heard = FALSE]
<1>1. p \in [kind : {"flow", "vector"}, flow : Flow \cup {BeaconQueue}, nr : Nat, to : Node,
             earliest : Nat, ttl : Nat, heard : BOOLEAN]
  BY DEF FinePacket, Packet
<1>2. r \in [kind : {"flow", "vector"}, flow : Flow \cup {BeaconQueue}, nr : Nat, to : Node,
             earliest : Nat, ttl : Nat, heard : BOOLEAN]
  BY <1>1
<1>3. r.kind = p.kind /\ r.flow = p.flow /\ r.nr = p.nr /\ r.earliest = p.earliest
  BY <1>1
<1>4. /\ p.kind = "flow" => p.flow \in Flow /\ p.nr <= OwnNumber(p.flow)
      /\ p.earliest <= Horizon
  BY DEF FinePacket
<1> HIDE DEF r
<1>5. r.kind = "flow" => r.flow \in Flow /\ r.nr <= OwnNumber(r.flow)
  BY <1>3, <1>4
<1>6. r \in Packet
  BY <1>2 DEF Packet
<1>7. QED BY <1>3, <1>4, <1>5, <1>6 DEF FinePacket, r

\* Where a packet is noted, the number is one that has been given out.
LEMMA SeenStaysGivenOut ==
  ASSUME Types, Numbers, NEW n \in Node, NEW f \in Flow, NEW k \in Nat, k <= OwnNumber(f),
         seen' = [seen EXCEPT ![n][f] = k], windows' = windows
  PROVE  seen' \in [Node -> [Flow -> Nat]] /\ Numbers'
<1> DEFINE new == [seen[n] EXCEPT ![f] = k]
<1>1. seen \in [Node -> [Flow -> Nat]]
  BY DEF Types
<1>2. new \in [Flow -> Nat] /\ new[f] = k /\ \A g \in Flow : g # f => new[g] = seen[n][g]
  BY <1>1
<1>3. seen' = [seen EXCEPT ![n] = new]
  OBVIOUS
<1> HIDE DEF new
<1>4. seen' \in [Node -> [Flow -> Nat]]
  BY <1>1, <1>2, <1>3
<1>5. \A g \in Flow : OwnNumber(g)' = OwnNumber(g)
  BY DEF OwnNumber
<1>6. ASSUME NEW g \in Flow, NEW m \in Node PROVE seen'[m][g] <= OwnNumber(g)
  BY <1>1, <1>2, <1>3 DEF Numbers
<1>7. QED BY <1>4, <1>5, <1>6 DEF Numbers

LEMMA DeliveredKeepsType ==
  ASSUME Types, NEW f \in Flow, NEW k \in Nat,
         delivered' = [delivered EXCEPT ![f] = Append(@, k)]
  PROVE  delivered' \in [Flow -> Seq(Nat)]
<1>1. Append(delivered[f], k) \in Seq(Nat)
  BY DEF Types
<1>2. QED BY <1>1 DEF Types

\* The three ways to handle a packet keep types and numbers.
HandlingKeeps ==
  /\ config' \in [Node -> Configuration]
  /\ queue' \in [Node -> [QueueName -> Seq(FinePacket)]]
  /\ seen' \in [Node -> [Flow -> Nat]]
  /\ delivered' \in [Flow -> Seq(Nat)]
  /\ Numbers'

LEMMA InputVectorKeeps ==
  ASSUME FlowInv, NEW n \in Node, InputVector(n), windows' = windows
  PROVE  HandlingKeeps
<1>1. Types /\ Traffic /\ Numbers
  BY DEF FlowInv
<1>2. seen' = seen /\ delivered' = delivered /\ \A f \in Flow : OwnNumber(f)' = OwnNumber(f)
  BY DEF InputVector, OwnNumber
<1>3. Numbers'
  BY <1>1, <1>2 DEF Numbers
<1>4. config' = config /\ queue' \in [Node -> [QueueName -> Seq(FinePacket)]]
  BY <1>1, UnicastSendKeeps DEF InputVector, Traffic
<1>5. QED BY <1>1, <1>2, <1>3, <1>4 DEF HandlingKeeps, Types

LEMMA InputAtReceiverKeeps ==
  ASSUME FlowInv, NEW n \in Node, NEW p \in FinePacket, p.kind = "flow",
         InputAtReceiver(n, p), windows' = windows
  PROVE  HandlingKeeps
<1>1. Types /\ Traffic /\ Numbers
  BY DEF FlowInv
<1>2. p.flow \in Flow /\ p.nr \in Nat /\ p.nr <= OwnNumber(p.flow)
  BY DEF FinePacket, Packet
<1>3. config' = config /\ queue' = queue
  BY DEF InputAtReceiver
<1>4. CASE IsNew(n, p)
  <2>1. /\ seen' = [seen EXCEPT ![n][p.flow] = p.nr]
        /\ delivered' = [delivered EXCEPT ![p.flow] = Append(@, p.nr)]
    BY <1>4 DEF InputAtReceiver
  <2>2. seen' \in [Node -> [Flow -> Nat]] /\ Numbers'
    BY <1>1, <1>2, <2>1, SeenStaysGivenOut
  <2>3. delivered' \in [Flow -> Seq(Nat)]
    BY <1>1, <1>2, <2>1, DeliveredKeepsType
  <2>4. QED BY <1>1, <1>3, <2>2, <2>3 DEF HandlingKeeps, Types, Traffic
<1>5. CASE ~IsNew(n, p)
  <2>1. seen' = seen /\ delivered' = delivered
    BY <1>5 DEF InputAtReceiver
  <2>2. Numbers'
    BY <1>1, <2>1 DEF Numbers, OwnNumber
  <2>3. QED BY <1>1, <1>3, <2>1, <2>2 DEF HandlingKeeps, Types, Traffic
<1>6. QED BY <1>4, <1>5

LEMMA InputAtRelayKeeps ==
  ASSUME FlowInv, NEW n \in Node, NEW p \in FinePacket, p.kind = "flow",
         InputAtRelay(n, p), windows' = windows
  PROVE  HandlingKeeps
<1>1. Types /\ Traffic /\ Numbers
  BY DEF FlowInv
<1>2. /\ p.flow \in Flow /\ p.nr \in Nat /\ p.nr <= OwnNumber(p.flow)
      /\ p.earliest \in Nat /\ p.ttl \in Nat /\ p.flow \in QueueName /\ p.earliest <= Horizon
  BY DEF FinePacket, Packet, QueueName
<1>3. delivered' = delivered
  BY DEF InputAtRelay
<1>4. CASE ForwardTo[n][p.flow] # NoNode /\ IsNew(n, p)
  <2> DEFINE to == ForwardTo[n][p.flow]
             r == [p EXCEPT !.to = to, !.heard = FALSE]
  <2>1. to \in Node
    <3>1. ForwardTo[n] \in [Flow -> Node \cup {NoNode}]
      BY FlowAssumption
    <3>2. QED BY <1>2, <1>4, <3>1
  <2>2. seen' = [seen EXCEPT ![n][p.flow] = p.nr]
    BY <1>4 DEF InputAtRelay
  <2>3. seen' \in [Node -> [Flow -> Nat]] /\ Numbers'
    BY <1>1, <1>2, <2>2, SeenStaysGivenOut
  <2>4. config \in [Node -> Configuration]
    BY <1>1 DEF Types
  <2>5. CASE InTime(n, p)
    <3>1. /\ config' = [config EXCEPT ![n] =
                          [flow |-> p.flow, earliest |-> p.earliest, ttl |-> p.ttl]]
          /\ Output(n, r)
      BY <1>4, <2>5 DEF InputAtRelay
    <3>2. r \in FinePacket
      BY <2>1, RelayedIsFine
    <3> DEFINE c == [flow |-> p.flow, earliest |-> p.earliest, ttl |-> p.ttl]
    <3>c. c \in Configuration /\ c.flow \in QueueName /\ config' = [config EXCEPT ![n] = c]
      BY <1>2, <3>1 DEF Configuration
    <3> HIDE DEF c
    <3>3. /\ config' \in [Node -> Configuration]
          /\ config'[n].flow \in QueueName
      BY <2>4, <3>c
    <3> HIDE DEF r
    <3>4. queue' \in [Node -> [QueueName -> Seq(FinePacket)]]
      BY <1>1, <3>1, <3>2, <3>3, OutputKeepsType DEF Traffic
    <3>5. QED BY <1>1, <1>3, <2>3, <3>3, <3>4 DEF HandlingKeeps, Types
  <2>6. CASE ~InTime(n, p)
    <3>1. config' = [config EXCEPT ![n].flow = p.flow] /\ queue' = queue
      BY <1>4, <2>6 DEF InputAtRelay
    <3> DEFINE new == [config[n] EXCEPT !.flow = p.flow]
    <3>2. new \in Configuration
      BY <1>2, <2>4 DEF Configuration
    <3>3. config' = [config EXCEPT ![n] = new]
      BY <3>1
    <3> HIDE DEF new
    <3>4. config' \in [Node -> Configuration]
      BY <2>4, <3>2, <3>3
    <3>5. QED BY <1>1, <1>3, <2>3, <3>1, <3>4 DEF HandlingKeeps, Types, Traffic
  <2>7. QED BY <2>5, <2>6
<1>5. CASE ~(ForwardTo[n][p.flow] # NoNode /\ IsNew(n, p))
  <2>1. seen' = seen /\ config' = config /\ queue' = queue
    BY <1>5 DEF InputAtRelay
  <2>2. Numbers'
    BY <1>1, <2>1 DEF Numbers, OwnNumber
  <2>3. QED BY <1>1, <1>3, <2>1, <2>2 DEF HandlingKeeps, Types, Traffic
<1>6. QED BY <1>4, <1>5

LEMMA InputKeeps ==
  ASSUME FlowInv, NEW n \in Node, Input(n)
  PROVE  FlowInv'
<1> DEFINE p == Head(input[n])
<1>1. Types /\ Traffic /\ Numbers
  BY DEF FlowInv
<1>2. input[n] \in Seq(FinePacket) /\ input[n] # <<>> /\ Len(input[n]) <= RingSize
  BY <1>1 DEF Traffic, Input
<1>3. /\ p \in FinePacket /\ Tail(input[n]) \in Seq(FinePacket)
      /\ Len(Tail(input[n])) = Len(input[n]) - 1 /\ Len(input[n]) \in Nat
  BY <1>2
<1>4. /\ input' = [input EXCEPT ![n] = Tail(@)]
      /\ UNCHANGED <<asn, windows, lastTtl, vectors, adverts>>
  BY DEF Input
<1>5. HandlingKeeps
  <2>1. CASE p.kind = "vector"
    BY <1>4, <2>1, InputVectorKeeps DEF Input
  <2>2. CASE p.kind # "vector"
    <3>1. p.kind = "flow"
      BY <1>3, <2>2 DEF FinePacket, Packet
    <3>2. InputAtReceiver(n, p) \/ InputAtRelay(n, p)
      BY <2>2 DEF Input
    <3> HIDE DEF p
    <3>3. QED BY <1>3, <1>4, <3>1, <3>2, InputAtReceiverKeeps, InputAtRelayKeeps
  <2>3. QED BY <2>1, <2>2
<1>6. FinePacket' = FinePacket /\ Configuration' = Configuration
  BY <1>4, SameFine
<1>7. Types'
  BY <1>1, <1>4, <1>5, <1>6 DEF Types, HandlingKeeps
<1>8. Traffic'
  <2>1. input' \in [Node -> Seq(FinePacket)]
    BY <1>1, <1>3, <1>4 DEF Traffic
  <2>2. ASSUME NEW m \in Node PROVE Len(input'[m]) <= RingSize
    <3>1. RingSize \in Nat
      BY FlowAssumption
    <3>2. CASE m = n
      BY <1>1, <1>2, <1>3, <1>4, <3>1, <3>2 DEF Traffic
    <3>3. CASE m # n
      BY <1>1, <1>4, <3>3 DEF Traffic
    <3>4. QED BY <3>2, <3>3
  <2>3. QED BY <1>5, <1>6, <2>1, <2>2 DEF Traffic, HandlingKeeps
<1>9. QED BY <1>5, <1>7, <1>8 DEF FlowInv, HandlingKeeps
-----------------------------------------------------------------------------
(***************************************************************************)
(* A slot.                                                                 *)
(***************************************************************************)

\* Dropping expired packets leaves a part of the queue.
LEMMA UnexpiredIsQueue ==
  ASSUME NEW S, NEW q \in Seq(S)
  PROVE  Unexpired(q) \in Seq(S)
<1> DEFINE alive == { i \in 1 .. Len(q) : SlotBefore(asn - 1, q[i].ttl) }
<1>1. Unexpired(q) = IF alive = {} THEN <<>> ELSE SubSeq(q, Min(alive), Len(q))
  BY DEF Unexpired
<1>2. CASE alive = {}
  BY <1>1, <1>2
<1>3. CASE alive # {}
  <2>1. alive \subseteq Nat /\ alive \subseteq 1 .. Len(q)
    OBVIOUS
  <2> HIDE DEF alive
  <2>2. \E x \in alive : \A y \in alive : x <= y
    BY <1>3, <2>1, LeastNat
  <2>3. Min(alive) \in 1 .. Len(q)
    BY <2>1, <2>2 DEF Min
  <2>4. SubSeq(q, Min(alive), Len(q)) \in Seq(S)
    BY <2>3
  <2>5. QED BY <1>1, <1>3, <2>4
<1>4. QED BY <1>2, <1>3

LEMMA HereIsCell ==
  ASSUME asn \in Nat
  PROVE  /\ Here.flow \in QueueName /\ Here.tx \subseteq Node /\ Here.rx \subseteq Node
<1>1. SfSize \in Nat \ {0}
  BY FlowAssumption
<1>2. asn % SfSize \in 0 .. SfSize - 1
  BY <1>1
<1>3. Here \in [flow : Flow \cup {BeaconQueue}, tx : SUBSET Node, rx : SUBSET Node]
  BY <1>2, FlowAssumption DEF Here
<1>4. QED BY <1>3 DEF QueueName

LEMMA SlotQueueIsQueue ==
  ASSUME asn \in Nat, Traffic, NEW n \in Node
  PROVE  SlotQueue(n) \in Seq(FinePacket)
<1>1. queue[n][Here.flow] \in Seq(FinePacket)
  BY HereIsCell DEF Traffic
<1>2. Here.flow = BeaconQueue => queue[n][BeaconQueue] \in Seq(FinePacket)
  BY <1>1
<1>3. QED BY <1>1, <1>2, UnexpiredIsQueue DEF SlotQueue

\* What the receiver may have heard makes no difference to the rest.
LEMMA HeardIsFine ==
  ASSUME NEW p \in FinePacket, NEW b \in BOOLEAN
  PROVE  [p EXCEPT !.heard = b] \in FinePacket
<1> DEFINE r == [p EXCEPT !.heard = b]
<1>1. p \in [kind : {"flow", "vector"}, flow : Flow \cup {BeaconQueue}, nr : Nat, to : Node,
             earliest : Nat, ttl : Nat, heard : BOOLEAN]
  BY DEF FinePacket, Packet
<1>2. r \in [kind : {"flow", "vector"}, flow : Flow \cup {BeaconQueue}, nr : Nat, to : Node,
             earliest : Nat, ttl : Nat, heard : BOOLEAN]
  BY <1>1
<1>3. r.kind = p.kind /\ r.flow = p.flow /\ r.nr = p.nr /\ r.earliest = p.earliest
  BY <1>1
<1>4. /\ p.kind = "flow" => p.flow \in Flow /\ p.nr <= OwnNumber(p.flow)
      /\ p.earliest <= Horizon
  BY DEF FinePacket
<1> HIDE DEF r
<1>5. r.kind = "flow" => r.flow \in Flow /\ r.nr <= OwnNumber(r.flow)
  BY <1>3, <1>4
<1>6. r \in Packet
  BY <1>2 DEF Packet
<1>7. QED BY <1>3, <1>4, <1>5, <1>6 DEF FinePacket, r

LEMMA AfterIsQueue ==
  ASSUME asn \in Nat, Traffic, NEW n \in Node, NEW S, NEW got, NEW acked,
         n \in S => SlotQueue(n) # <<>>
  PROVE  After(n, S, got, acked) \in Seq(FinePacket)
<1> DEFINE q == SlotQueue(n)
           h == Head(q)
           b == h.heard \/ n \in got
<1>1. q \in Seq(FinePacket)
  BY SlotQueueIsQueue
<1>2. CASE n \notin S
  BY <1>1, <1>2 DEF After
<1>3. CASE n \in S /\ (n \in acked \/ Here.flow = BeaconQueue \/ ~Retries(h))
  <2>1. q # <<>>
    BY <1>3
  <2>2. After(n, S, got, acked) = Tail(q)
    BY <1>3 DEF After
  <2> HIDE DEF q
  <2>3. QED BY <1>1, <2>1, <2>2
<1>4. CASE n \in S /\ ~(n \in acked \/ Here.flow = BeaconQueue \/ ~Retries(h))
  <2>1. q # <<>>
    BY <1>4
  <2>2. After(n, S, got, acked) = <<[h EXCEPT !.heard = b]>> \o Tail(q)
    BY <1>4 DEF After
  <2>3. b \in BOOLEAN
    OBVIOUS
  <2> HIDE DEF q, b
  <2>4. h \in FinePacket /\ Tail(q) \in Seq(FinePacket)
    BY <1>1, <2>1
  <2> HIDE DEF h
  <2>5. [h EXCEPT !.heard = b] \in FinePacket
    BY <2>3, <2>4, HeardIsFine
  <2>6. QED BY <2>2, <2>4, <2>5
<1>5. QED BY <1>2, <1>3, <1>4

\* As time goes on, packets that were fine remain so.
LEMMA LaterFine ==
  ASSUME asn \in Nat, asn' = asn + 1, windows' = windows
  PROVE  FinePacket \subseteq FinePacket' /\ Configuration \subseteq Configuration'
<1>1. Horizon \in Nat /\ Horizon' = Horizon + 1
  BY FlowAssumption DEF Horizon
<1>2. \A f : OwnNumber(f)' = OwnNumber(f)
  BY DEF OwnNumber
<1>3. ASSUME NEW p \in FinePacket PROVE p \in FinePacket'
  <2>1. p \in Packet /\ p.earliest \in Nat /\ p.earliest <= Horizon
    BY DEF FinePacket, Packet
  <2>2. p.earliest <= Horizon'
    BY <1>1, <2>1
  <2>3. QED BY <1>2, <2>2 DEF FinePacket, Packet
<1>4. ASSUME NEW c \in Configuration PROVE c \in Configuration'
  BY <1>1 DEF Configuration
<1>5. QED BY <1>3, <1>4

LEMMA SlotKeeps ==
  ASSUME FlowInv, Slot
  PROVE  FlowInv'
<1>1. Types /\ Traffic /\ Numbers /\ asn \in Nat /\ asn' = asn + 1
  BY DEF FlowInv, Types, Slot
<1>2. UNCHANGED <<windows, lastTtl, config, seen, delivered, vectors, adverts>>
  BY DEF Slot
<1> DEFINE to(n) == Head(SlotQueue(n)).to
<1>3. PICK S \in IF Here.flow = BeaconQueue THEN SUBSET {n \in Here.tx : Sends(n)}
                                            ELSE {{n \in Here.tx : Sends(n)}} :
        \E got \in SUBSET {n \in S : to(n) \in Here.rx \ S /\ HasRoom(to(n))} :
            /\ \A m, n \in got : to(m) = to(n) => m = n
            /\ \E acked \in SUBSET got :
               \E known \in SUBSET {n \in got : Head(SlotQueue(n)).heard} :
                 /\ queue' = [n \in Node |->
                      IF n \in Here.tx
                      THEN [queue[n] EXCEPT ![Here.flow] = After(n, S, got, acked)]
                      ELSE queue[n]]
                 /\ input' = [r \in Node |->
                      IF \E n \in got \ known : to(n) = r
                      THEN Append(input[r], Head(SlotQueue(CHOOSE n \in got : to(n) = r)))
                      ELSE input[r]]
  BY DEF Slot
<1>4. PICK got \in SUBSET {n \in S : to(n) \in Here.rx \ S /\ HasRoom(to(n))} :
            \E acked \in SUBSET got :
               \E known \in SUBSET {n \in got : Head(SlotQueue(n)).heard} :
                 /\ queue' = [n \in Node |->
                      IF n \in Here.tx
                      THEN [queue[n] EXCEPT ![Here.flow] = After(n, S, got, acked)]
                      ELSE queue[n]]
                 /\ input' = [r \in Node |->
                      IF \E n \in got \ known : to(n) = r
                      THEN Append(input[r], Head(SlotQueue(CHOOSE n \in got : to(n) = r)))
                      ELSE input[r]]
  BY <1>3
<1>5. PICK acked \in SUBSET got, known \in SUBSET got :
                 /\ queue' = [n \in Node |->
                      IF n \in Here.tx
                      THEN [queue[n] EXCEPT ![Here.flow] = After(n, S, got, acked)]
                      ELSE queue[n]]
                 /\ input' = [r \in Node |->
                      IF \E n \in got \ known : to(n) = r
                      THEN Append(input[r], Head(SlotQueue(CHOOSE n \in got : to(n) = r)))
                      ELSE input[r]]
  BY <1>4
<1>6. \A n \in S : n \in Node /\ SlotQueue(n) # <<>>
  <2>1. S \subseteq {n \in Here.tx : Sends(n)}
    BY <1>3
  <2>2. QED BY <1>1, <2>1, HereIsCell DEF Sends
<1>7. \A n \in got : n \in S /\ Len(input[to(n)]) < RingSize
  BY <1>4 DEF HasRoom
<1>8. FinePacket \subseteq FinePacket' /\ Configuration \subseteq Configuration'
  BY <1>1, <1>2, LaterFine
<1>9. queue' \in [Node -> [QueueName -> Seq(FinePacket)]]
  <2>1. ASSUME NEW n \in Node
        PROVE  [queue[n] EXCEPT ![Here.flow] = After(n, S, got, acked)]
                 \in [QueueName -> Seq(FinePacket)]
    <3>1. After(n, S, got, acked) \in Seq(FinePacket)
      BY <1>1, <1>6, AfterIsQueue
    <3>2. queue[n] \in [QueueName -> Seq(FinePacket)]
      BY <1>1 DEF Traffic
    <3>3. QED BY <3>1, <3>2
  <2>2. QED BY <1>1, <1>5, <2>1 DEF Traffic
<1>10. ASSUME NEW r \in Node
       PROVE  input'[r] \in Seq(FinePacket) /\ Len(input'[r]) <= RingSize
  <2>1. input[r] \in Seq(FinePacket) /\ Len(input[r]) <= RingSize /\ RingSize \in Nat
    BY <1>1, FlowAssumption DEF Traffic
  <2>2. CASE \E n \in got \ known : to(n) = r
    <3> DEFINE c == CHOOSE n \in got : to(n) = r
    <3>1. c \in got /\ to(c) = r
      BY <2>2
    <3>2. input'[r] = Append(input[r], Head(SlotQueue(c)))
      BY <1>5, <2>2
    <3> HIDE DEF c
    <3>3. c \in Node /\ SlotQueue(c) # <<>> /\ Len(input[r]) < RingSize
      BY <1>6, <1>7, <3>1
    <3>4. Head(SlotQueue(c)) \in FinePacket
      BY <1>1, <3>3, SlotQueueIsQueue
    <3> DEFINE h == Head(SlotQueue(c))
    <3> HIDE DEF h, to
    <3>5. QED BY <2>1, <3>2, <3>3, <3>4 DEF h
  <2>3. CASE ~(\E n \in got \ known : to(n) = r)
    <3>1. input'[r] = input[r]
      BY <1>5, <2>3
    <3>2. QED BY <2>1, <3>1
  <2>4. QED BY <2>2, <2>3
<1>11. Types'
  <2>1. config' \in [Node -> Configuration']
    BY <1>1, <1>2, <1>8 DEF Types
  <2>2. QED BY <1>1, <1>2, <2>1 DEF Types
<1>12. Traffic'
  <2>1. input' \in [Node -> Seq(FinePacket)]
    BY <1>5, <1>10
  <2>2. /\ queue' \in [Node -> [QueueName -> Seq(FinePacket')]]
        /\ input' \in [Node -> Seq(FinePacket')]
    BY <1>8, <1>9, <2>1, MoreIsMore
  <2>3. QED BY <1>10, <2>2 DEF Traffic
<1>13. Numbers'
  BY <1>1, <1>2 DEF Numbers, OwnNumber
<1>14. QED BY <1>11, <1>12, <1>13 DEF FlowInv

-----------------------------------------------------------------------------
\* The windows held at the start are over, or there were none.
LEMMA HeldWindows ==
  /\ \A f \in Flow : LastWindow[f] \in Window /\ LastWindow[f].ttl <= StartAsn - 1
                                          /\ LastWindow[f].earliest <= LastWindow[f].ttl
  /\ \A n \in Node : /\ ConfiguredWindow(n) \in Window
                     /\ ConfiguredWindow(n).ttl <= StartAsn - 1
                     /\ ConfiguredWindow(n).earliest <= ConfiguredWindow(n).ttl
<1>1. StartAsn \in Nat \ {0} /\ SfSize \in Nat \ {0}
  BY FlowAssumption
<1>2. NoWindow \in Window /\ NoWindow.ttl = 0 /\ NoWindow.earliest = 0
  BY DEF NoWindow, Window
<1>3. ASSUME NEW f \in Flow
      PROVE  /\ LastWindow[f] \in Window /\ LastWindow[f].ttl <= StartAsn - 1
             /\ LastWindow[f].earliest <= LastWindow[f].ttl
  <2>1. CASE StartNumber = 0
    <3>1. LastWindow[f] = NoWindow
      BY <1>3, <2>1, FlowAssumption
    <3>2. QED BY <1>1, <1>2, <3>1
  <2>2. CASE StartNumber # 0
    <3> DEFINE w == LastWindow[f]
    <3>1. w \in Window /\ IsWindowBefore(f)
      BY <1>3, <2>2, FlowAssumption DEF Window
    <3>i. PICK i \in WindowsOf(f) :
            w.ttl = w.earliest + ((SfSize + LastTx[f][i] - FirstTx[f][i]) % SfSize)
      BY <3>1 DEF IsWindowBefore
    <3> DEFINE d == SfSize + LastTx[f][i] - FirstTx[f][i]
    <3>2. w.ttl < StartAsn /\ w.ttl = w.earliest + (d % SfSize)
      BY <3>1, <3>i DEF IsWindowBefore
    <3>3. d \in Nat
      BY <1>1, <3>i, SlotsOfWindows
    <3> HIDE DEF d
    <3>4. d % SfSize \in Nat
      BY <1>1, <3>3
    <3>5. w.earliest \in Nat /\ w.ttl \in Nat
      BY <3>1 DEF Window
    <3> HIDE DEF w
    <3>6. w.ttl <= StartAsn - 1 /\ w.earliest <= w.ttl
      BY <1>1, <3>2, <3>4, <3>5
    <3>7. QED BY <3>1, <3>6 DEF w
  <2>3. QED BY <2>1, <2>2
<1>4. ASSUME NEW n \in Node
      PROVE  /\ ConfiguredWindow(n) \in Window
             /\ ConfiguredWindow(n).ttl <= StartAsn - 1
             /\ ConfiguredWindow(n).earliest <= ConfiguredWindow(n).ttl
  <2>1. CASE LastFlow[n] = BeaconQueue
    BY <1>1, <1>2, <2>1 DEF ConfiguredWindow
  <2>2. CASE LastFlow[n] # BeaconQueue
    <3>1. LastFlow[n] \in Flow
      BY <2>2, FlowAssumption
    <3>2. ConfiguredWindow(n) = LastWindow[LastFlow[n]]
      BY <2>2 DEF ConfiguredWindow
    <3>3. QED BY <1>3, <3>1, <3>2
  <2>3. QED BY <2>1, <2>2
<1>5. QED BY <1>3, <1>4

LEMMA FlowInit ==
  ASSUME Init
  PROVE  FlowInv
<1>1. /\ StartAsn \in Nat \ {0} /\ StartNumber \in Nat /\ RingSize \in Nat
      /\ SenderOf \in [Flow -> Node] /\ ReceiverOf \in [Flow -> Node]
  BY FlowAssumption
<1>2. Types
  <2> DEFINE c(n) == [flow |-> BeaconQueue, earliest |-> ConfiguredWindow(n).earliest,
                      ttl |-> ConfiguredWindow(n).ttl]
  <2>1. ASSUME NEW n \in Node PROVE c(n) \in Configuration
    <3>1. /\ ConfiguredWindow(n).earliest \in Nat /\ ConfiguredWindow(n).ttl \in Nat
          /\ ConfiguredWindow(n).ttl <= StartAsn - 1
          /\ ConfiguredWindow(n).earliest <= ConfiguredWindow(n).ttl
      BY HeldWindows DEF Window
    <3>2. SfSize \in Nat \ {0} /\ asn = StartAsn
      BY FlowAssumption DEF Init
    <3>3. ConfiguredWindow(n).earliest <= Horizon
      BY <1>1, <3>1, <3>2 DEF Horizon
    <3>4. QED BY <3>1, <3>3 DEF Configuration, QueueName
  <2>2. config = [n \in Node |-> c(n)]
    BY DEF Init
  <2> HIDE DEF c
  <2>3. config \in [Node -> Configuration]
    BY <2>1, <2>2
  <2>4. lastTtl \in [Flow -> Nat]
    <3>1. \A f \in Flow : LastWindow[f].ttl \in Nat
      BY HeldWindows DEF Window
    <3>2. QED BY <3>1 DEF Init
  <2>5. QED BY <1>1, <2>3, <2>4 DEF Init, Types
<1>3. Traffic
  BY <1>1 DEF Init, Traffic, QueueName
<1>4. Numbers
  BY <1>1 DEF Init, Numbers, OwnNumber
<1>5. QED BY <1>2, <1>3, <1>4 DEF FlowInv

LEMMA FlowStep ==
  ASSUME FlowInv, [Next]_vars
  PROVE  FlowInv'
<1>1. CASE \E f \in Flow : FlowSend(f)
  BY <1>1, FlowSendKeeps
<1>2. CASE \E n \in Node : SendAdvertisement(n) \/ SendVector(n) \/ Input(n)
  BY <1>2, SendAdvertisementKeeps, SendVectorKeeps, InputKeeps
<1>3. CASE Slot
  BY <1>3, SlotKeeps
<1>4. CASE UNCHANGED vars
  <2>1. UNCHANGED <<asn, windows, lastTtl, config, seen, queue, input, delivered, vectors, adverts>>
    BY <1>4 DEF vars
  <2>2. /\ FinePacket' = FinePacket /\ Configuration' = Configuration
        /\ \A f \in Flow : OwnNumber(f)' = OwnNumber(f)
    BY <2>1, SameFine
  <2>3. Types' /\ Traffic' /\ Numbers'
    BY <2>1, <2>2 DEF FlowInv, Types, Traffic, Numbers
  <2>4. QED BY <2>3 DEF FlowInv
<1>5. QED BY <1>1, <1>2, <1>3, <1>4 DEF Next

(***************************************************************************)
(* Numbers and windows stay within reach of each other, whatever the       *)
(* network does (FlowInv).                                                 *)
(***************************************************************************)
THEOREM FlowInvAlways == Spec => []FlowInv
<1>1. Init => FlowInv
  BY FlowInit
<1>2. FlowInv /\ [Next]_vars => FlowInv'
  BY FlowStep
<1>3. QED BY <1>1, <1>2, PTL DEF Spec

(***************************************************************************)
(* The types of the routing layer's variables; input_ringbuf never takes   *)
(* more than TSCH_MAX_INCOMING_PACKETS.                                    *)
(***************************************************************************)
THEOREM FlowTypeCorrect == Spec => []FlowTypeOK
<1>1. FinePacket \subseteq Packet
  BY DEF FinePacket
<1>2. FlowInv => FlowTypeOK
  <2>1. SUFFICES ASSUME FlowInv PROVE FlowTypeOK
    OBVIOUS
  <2>2. /\ queue \in [Node -> [QueueName -> Seq(Packet)]]
        /\ input \in [Node -> Seq(Packet)]
    BY <1>1, <2>1, MoreIsMore DEF FlowInv, Traffic
  <2>3. config \in [Node -> [flow : QueueName, earliest : Nat, ttl : Nat]]
    BY <2>1 DEF FlowInv, Types, Configuration
  <2>4. QED BY <2>1, <2>2, <2>3 DEF FlowInv, Types, Traffic, FlowTypeOK, Window, QueueName
<1>3. QED BY <1>2, FlowInvAlways, PTL
-----------------------------------------------------------------------------
(***************************************************************************)
(* Windows.  What keeps the windows of a flow apart is the test of         *)
(* master_routing_send, which compares the low bits of two slot numbers:   *)
(* it tells their order as long as a window never ends half the slot       *)
(* numbers or more after it was given.                                     *)
(***************************************************************************)
FlowWindows(f) ==
  /\ lastTtl[f] <= CurrentAsn(SenderOf[f]) + 2 * (SfSize - 1)
  /\ windows[f] # <<>> => \E i \in WindowsOf(f) : lastTtl[f] % SfSize = LastTx[f][i]
  /\ \A i \in 1 .. Len(windows[f]) : windows[f][i].ttl <= lastTtl[f]
  /\ \A i, j \in 1 .. Len(windows[f]) :
       i < j => \/ windows[f][i].ttl < windows[f][j].earliest
                \/ ShareASlot(f) /\ windows[f][i].ttl = windows[f][j].earliest

WindowsInv == \A f \in Flow : FlowWindows(f)

LEMMA NewWindow ==
  ASSUME 4 * (SfSize - 1) <= SlotModulus, Types, NEW f \in Flow, FlowWindows(f), FlowSend(f)
  PROVE  FlowWindows(f)'
<1> DEFINE w == NextWindow(f)
           now == CurrentAsn(SenderOf[f])
           ws == windows[f]
           last == lastTtl[f]
<1>1. /\ asn \in Nat /\ last \in Nat /\ ws \in Seq(Window) /\ Len(ws) \in Nat
      /\ SfSize \in Nat \ {0} /\ SlotModulus \in Nat \ {0}
  BY FlowAssumption DEF Types
<1>2. /\ w \in Window /\ now \in Nat /\ now <= w.earliest /\ w.earliest <= w.ttl
      /\ w.ttl <= now + 2 * (SfSize - 1)
      /\ \E i \in WindowsOf(f) : w.earliest % SfSize = FirstTx[f][i]
      /\ \E i \in WindowsOf(f) : w.ttl % SfSize = LastTx[f][i]
  BY <1>1, WindowFacts DEF Window
<1>3. w.earliest \in Nat /\ w.ttl \in Nat
  BY <1>2 DEF Window
<1>4. /\ last <= now + 2 * (SfSize - 1)
      /\ ws # <<>> => \E i \in WindowsOf(f) : last % SfSize = LastTx[f][i]
      /\ \A i \in 1 .. Len(ws) : ws[i].ttl <= last
      /\ \A i, j \in 1 .. Len(ws) :
           i < j => \/ ws[i].ttl < ws[j].earliest
                    \/ ShareASlot(f) /\ ws[i].ttl = ws[j].earliest
  BY DEF FlowWindows
<1>5. /\ ~SlotBefore(w.earliest, last)
      /\ windows'[f] = Append(ws, w) /\ lastTtl'[f] = w.ttl /\ asn' = asn
  BY DEF FlowSend, TooFrequent, Types
<1>6. CurrentAsn(SenderOf[f])' = now
  BY <1>5 DEF CurrentAsn
<1>7. last <= w.earliest
  <2>1. SUFFICES ASSUME w.earliest < last PROVE FALSE
    BY <1>1, <1>3
  <2> DEFINE e == w.earliest
  <2>2. e \in Nat /\ now <= e /\ e < last
    BY <1>2, <1>3, <2>1
  <2> HIDE DEF e, last, now, w
  <2>3. 2 * (last - e) <= SlotModulus
    BY <1>1, <1>2, <1>4, <2>2
  <2>4. Before(e, last, SlotModulus)
    BY <1>1, <2>2, <2>3, BeforeNear
  <2>5. QED BY <1>5, <2>4 DEF SlotBefore, e
<1> DEFINE vs == Append(ws, w)
<1>8. /\ Len(vs) = Len(ws) + 1 /\ vs[Len(ws) + 1] = w /\ vs # <<>>
      /\ \A i \in 1 .. Len(ws) : vs[i] = ws[i] /\ ws[i].ttl \in Nat
  <2>1. \A i \in 1 .. Len(ws) : ws[i] \in Window
    BY <1>1
  <2> HIDE DEF w, ws
  <2>2. \A i \in 1 .. Len(ws) : ws[i].ttl \in Nat
    BY <2>1 DEF Window
  <2>3. vs = Append(ws, w) /\ Len(vs) = Len(ws) + 1
    BY <1>1, <1>2
  <2>4. vs # <<>> /\ vs[Len(ws) + 1] = w
    BY <1>1, <1>2, <2>3
  <2>5. \A i \in 1 .. Len(ws) : vs[i] = ws[i]
    BY <1>1, <1>2
  <2>6. QED BY <2>2, <2>3, <2>4, <2>5
<1>w. w.earliest <= w.ttl
  BY <1>2
<1> HIDE DEF vs, w, ws, last, now
<1>9. ASSUME NEW i \in 1 .. Len(vs) PROVE vs[i].ttl <= w.ttl
  <2>1. CASE i = Len(ws) + 1
    BY <1>3, <1>8, <2>1
  <2>2. CASE i # Len(ws) + 1
    <3>1. i \in 1 .. Len(ws)
      BY <1>1, <1>8, <2>2
    <3>2. vs[i].ttl \in Nat /\ vs[i].ttl <= last
      BY <1>4, <1>8, <3>1
    <3>3. QED BY <1>1, <1>3, <1>7, <1>w, <3>2
  <2>3. QED BY <2>1, <2>2
<1>10. ASSUME NEW i \in 1 .. Len(vs), NEW j \in 1 .. Len(vs), i < j
       PROVE  \/ vs[i].ttl < vs[j].earliest
              \/ ShareASlot(f) /\ vs[i].ttl = vs[j].earliest
  <2>1. i \in 1 .. Len(ws)
    BY <1>1, <1>8, <1>10
  <2>2. CASE j = Len(ws) + 1
    <3>1. vs[i].ttl \in Nat /\ vs[i].ttl <= last /\ vs[j] = w
      BY <1>4, <1>8, <2>1, <2>2
    <3>2. CASE last < w.earliest
      BY <1>1, <1>3, <3>1, <3>2
    <3>3. CASE last = w.earliest
      <4>1. ws # <<>>
        BY <1>1, <2>1
      <4>2. ShareASlot(f)
        BY <1>2, <1>4, <3>3, <4>1 DEF ShareASlot
      <4>3. QED BY <1>1, <1>3, <3>1, <3>3, <4>2
    <3>4. QED BY <1>1, <1>3, <1>7, <3>2, <3>3
  <2>3. CASE j # Len(ws) + 1
    <3>1. j \in 1 .. Len(ws)
      BY <1>1, <1>8, <2>3
    <3>2. vs[i] = ws[i] /\ vs[j] = ws[j]
      BY <1>8, <2>1, <3>1
    <3>3. QED BY <1>4, <1>10, <2>1, <3>1, <3>2
  <2>4. QED BY <2>2, <2>3
<1>11. windows'[f] = vs /\ lastTtl'[f] = w.ttl
  BY <1>5 DEF vs
<1>12. QED BY <1>2, <1>6, <1>8, <1>9, <1>10, <1>11 DEF FlowWindows

\* What the rest of the system does leaves the windows of a flow alone.
LEMMA OldWindows ==
  ASSUME Types, NEW f \in Flow, FlowWindows(f), asn' = asn \/ asn' = asn + 1,
         windows'[f] = windows[f], lastTtl'[f] = lastTtl[f]
  PROVE  FlowWindows(f)'
<1> DEFINE now == CurrentAsn(SenderOf[f])
           then == CurrentAsn(SenderOf[f])'
<1>1. asn \in Nat /\ SenderOf[f] \in Node /\ SfSize \in Nat \ {0} /\ lastTtl[f] \in Nat
  BY FlowAssumption DEF Types
<1>2. then \in Nat /\ now <= then
  BY <1>1, NowMoves
<1>3. now \in Nat
  BY <1>1, NowExists
<1>4. lastTtl[f] <= now + 2 * (SfSize - 1)
  BY DEF FlowWindows
<1> HIDE DEF now, then
<1>5. lastTtl'[f] <= then + 2 * (SfSize - 1)
  BY <1>1, <1>2, <1>3, <1>4
<1>6. QED BY <1>5 DEF FlowWindows, then

LEMMA WindowsStep ==
  ASSUME 4 * (SfSize - 1) <= SlotModulus, FlowInv, WindowsInv, [Next]_vars
  PROVE  WindowsInv'
<1> SUFFICES ASSUME NEW f \in Flow PROVE FlowWindows(f)'
  BY DEF WindowsInv
<1>1. Types /\ FlowWindows(f)
  BY DEF FlowInv, WindowsInv
<1>2. CASE FlowSend(f)
  BY <1>1, <1>2, NewWindow
<1>3. CASE \E g \in Flow : g # f /\ FlowSend(g)
  <2>1. asn' = asn /\ windows'[f] = windows[f] /\ lastTtl'[f] = lastTtl[f]
    BY <1>1, <1>3 DEF FlowSend, Types
  <2>2. QED BY <1>1, <2>1, OldWindows
<1>4. CASE \E n \in Node : SendAdvertisement(n) \/ SendVector(n) \/ Input(n)
  <2>1. asn' = asn /\ windows' = windows /\ lastTtl' = lastTtl
    BY <1>4 DEF SendAdvertisement, SendVector, Input
  <2>2. QED BY <1>1, <2>1, OldWindows
<1>5. CASE Slot \/ UNCHANGED vars
  <2>1. (asn' = asn \/ asn' = asn + 1) /\ windows' = windows /\ lastTtl' = lastTtl
    BY <1>5 DEF Slot, vars
  <2>2. QED BY <1>1, <2>1, OldWindows
<1>6. QED BY <1>2, <1>3, <1>4, <1>5 DEF Next

LEMMA WindowsInit ==
  ASSUME Init
  PROVE  WindowsInv
<1> SUFFICES ASSUME NEW f \in Flow PROVE FlowWindows(f)
  BY DEF WindowsInv
<1>1. asn \in Nat \ {0} /\ SenderOf[f] \in Node /\ SfSize \in Nat \ {0}
  BY FlowAssumption DEF Init
<1>2. CurrentAsn(SenderOf[f]) \in Nat /\ asn <= CurrentAsn(SenderOf[f])
  BY <1>1, NowExists
<1>3. windows[f] = <<>> /\ lastTtl[f] \in Nat /\ lastTtl[f] <= asn - 1
  BY HeldWindows DEF Init, Window
<1>4. QED BY <1>1, <1>2, <1>3 DEF FlowWindows

(***************************************************************************)
(* Whenever the application sends, the windows of a flow do not overlap,   *)
(* in a network whose slotframe is at most a quarter of the slot numbers.  *)
(***************************************************************************)
THEOREM WindowsStayApart ==
  ASSUME 4 * (SfSize - 1) <= SlotModulus
  PROVE  Spec => []WindowsApart
<1>1. Init => WindowsInv
  BY WindowsInit
<1>2. FlowInv /\ WindowsInv /\ [Next]_vars => WindowsInv'
  BY WindowsStep
<1>3. WindowsInv => WindowsApart
  BY DEF WindowsInv, FlowWindows, WindowsApart
<1>4. QED BY <1>1, <1>2, <1>3, FlowInvAlways, PTL DEF Spec

-----------------------------------------------------------------------------
(***************************************************************************)
(* Duplicates.  A node drops what its record of the flow says is not new.  *)
(* The packet numbers wrap, so that a packet half of them old is new       *)
(* again: none lies that long in a receive buffer.                         *)
(***************************************************************************)
NumbersInReach ==
  \A n \in Node : \A k \in 1 .. Len(input[n]) :
    LET p == input[n][k]
    IN p.kind = "flow" => 2 * (OwnNumber(p.flow) - p.nr) < NumberModulus

\* What the application has been given came in order, and the record is not behind it.
FlowDelivered(f) ==
  /\ \A k \in 1 .. Len(delivered[f]) : delivered[f][k] <= seen[ReceiverOf[f]][f]
  /\ \A i, j \in 1 .. Len(delivered[f]) : i < j => delivered[f][i] < delivered[f][j]

DeliveredInv == \A f \in Flow : FlowDelivered(f)

\* What the record lets pass has a higher number than all before.
LEMMA NewIsHigher ==
  ASSUME FlowInv, NEW n \in Node, NEW p \in FinePacket, p.kind = "flow", IsNew(n, p),
         2 * (OwnNumber(p.flow) - p.nr) < NumberModulus
  PROVE  seen[n][p.flow] < p.nr
<1> DEFINE last == seen[n][p.flow]
           own == OwnNumber(p.flow)
<1>1. p.flow \in Flow /\ p.nr \in Nat /\ p.nr <= own
  BY DEF FinePacket, Packet
<1>2. last \in Nat /\ last <= own /\ own \in Nat
  BY <1>1, OwnNumberIsNat DEF FlowInv, Types, Numbers
<1>3. NumberModulus \in Nat \ {0}
  BY FlowAssumption
<1>4. Before(last, p.nr, NumberModulus)
  BY DEF IsNew, Newer
<1> HIDE DEF last, own
<1>5. SUFFICES ASSUME p.nr <= last PROVE FALSE
  BY <1>1, <1>2 DEF last
<1>6. 2 * (last - p.nr) < NumberModulus
  <2>1. 2 * (own - p.nr) < NumberModulus
    BY DEF own
  <2>2. QED BY <1>1, <1>2, <1>3, <1>5, <2>1
<1>7. ~Before(last, p.nr, NumberModulus)
  BY <1>1, <1>2, <1>3, <1>5, <1>6, NotBeforeNear
<1>8. QED BY <1>4, <1>7

LEMMA ReceiverKeepsOrder ==
  ASSUME FlowInv, DeliveredInv, NEW n \in Node, NEW p \in FinePacket, p.kind = "flow",
         2 * (OwnNumber(p.flow) - p.nr) < NumberModulus, InputAtReceiver(n, p)
  PROVE  DeliveredInv'
<1> SUFFICES ASSUME NEW f \in Flow PROVE FlowDelivered(f)'
  BY DEF DeliveredInv
<1>1. p.flow \in Flow /\ p.nr \in Nat /\ n = ReceiverOf[p.flow]
  BY DEF FinePacket, Packet, InputAtReceiver
<1>2. /\ seen \in [Node -> [Flow -> Nat]] /\ delivered \in [Flow -> Seq(Nat)]
      /\ ReceiverOf[f] \in Node
  BY FlowAssumption DEF FlowInv, Types
<1>3. FlowDelivered(f)
  BY DEF DeliveredInv
<1>4. CASE IsNew(n, p) /\ p.flow = f
  <2> DEFINE ds == delivered[f]
             last == seen[n][f]
  <2>1. last < p.nr /\ last \in Nat
    BY <1>1, <1>2, <1>4, NewIsHigher
  <2>2. seen'[n][f] = p.nr /\ delivered'[f] = Append(ds, p.nr) /\ n = ReceiverOf[f]
    BY <1>1, <1>2, <1>4 DEF InputAtReceiver
  <2>3. ds \in Seq(Nat) /\ Len(ds) \in Nat
    BY <1>2
  <2>4. /\ \A k \in 1 .. Len(ds) : ds[k] <= last
        /\ \A i, j \in 1 .. Len(ds) : i < j => ds[i] < ds[j]
    BY <1>3, <2>2 DEF FlowDelivered
  <2> DEFINE es == Append(ds, p.nr)
  <2> HIDE DEF ds
  <2>5. /\ Len(es) = Len(ds) + 1 /\ es[Len(ds) + 1] = p.nr
        /\ \A k \in 1 .. Len(ds) : es[k] = ds[k] /\ ds[k] \in Nat
    BY <1>1, <2>3
  <2> HIDE DEF es, last
  <2>6. ASSUME NEW k \in 1 .. Len(es)
        PROVE  es[k] <= p.nr /\ (k # Len(ds) + 1 => k \in 1 .. Len(ds) /\ es[k] < p.nr)
    <3>1. CASE k = Len(ds) + 1
      BY <1>1, <2>5, <3>1
    <3>2. CASE k # Len(ds) + 1
      <4>1. k \in 1 .. Len(ds)
        BY <2>3, <2>5, <3>2
      <4>2. es[k] \in Nat /\ es[k] <= last
        BY <2>4, <2>5, <4>1
      <4>3. QED BY <1>1, <2>1, <4>1, <4>2
    <3>3. QED BY <3>1, <3>2
  <2>7. ASSUME NEW i \in 1 .. Len(es), NEW j \in 1 .. Len(es), i < j
        PROVE  es[i] < es[j]
    <3>1. i # Len(ds) + 1
      BY <2>3, <2>5, <2>7
    <3>2. CASE j = Len(ds) + 1
      BY <2>5, <2>6, <3>1, <3>2
    <3>3. CASE j # Len(ds) + 1
      <4>1. i \in 1 .. Len(ds) /\ j \in 1 .. Len(ds)
        BY <2>6, <3>1, <3>3
      <4>2. QED BY <2>4, <2>5, <2>7, <4>1
    <3>4. QED BY <3>2, <3>3
  <2>8. delivered'[f] = es
    BY <2>2 DEF es
  <2>9. QED BY <2>2, <2>6, <2>7, <2>8 DEF FlowDelivered
<1>5. CASE ~(IsNew(n, p) /\ p.flow = f)
  <2>1. seen'[ReceiverOf[f]][f] = seen[ReceiverOf[f]][f] /\ delivered'[f] = delivered[f]
    <3>1. CASE IsNew(n, p)
      <4>1. p.flow # f
        BY <1>5, <3>1
      <4>2. /\ seen' = [seen EXCEPT ![n][p.flow] = p.nr]
            /\ delivered' = [delivered EXCEPT ![p.flow] = Append(@, p.nr)]
        BY <3>1 DEF InputAtReceiver
      <4>3. delivered'[f] = delivered[f]
        BY <1>2, <4>1, <4>2
      <4> DEFINE new == [seen[n] EXCEPT ![p.flow] = p.nr]
      <4>4. new[f] = seen[n][f] /\ seen' = [seen EXCEPT ![n] = new]
        BY <1>2, <4>1, <4>2
      <4> HIDE DEF new
      <4>5. QED BY <1>2, <4>3, <4>4
    <3>2. CASE ~IsNew(n, p)
      BY <3>2 DEF InputAtReceiver
    <3>3. QED BY <3>1, <3>2
  <2>2. QED BY <1>3, <2>1 DEF FlowDelivered
<1>6. QED BY <1>4, <1>5

LEMMA RelayKeepsOrder ==
  ASSUME FlowInv, DeliveredInv, NEW n \in Node, NEW p \in FinePacket, p.kind = "flow",
         InputAtRelay(n, p)
  PROVE  DeliveredInv'
<1> SUFFICES ASSUME NEW f \in Flow PROVE FlowDelivered(f)'
  BY DEF DeliveredInv
<1>1. p.flow \in Flow /\ n # ReceiverOf[p.flow] /\ delivered' = delivered
  BY DEF FinePacket, InputAtRelay
<1>2. seen \in [Node -> [Flow -> Nat]] /\ ReceiverOf[f] \in Node
  BY FlowAssumption DEF FlowInv, Types
<1>3. seen' = seen \/ seen' = [seen EXCEPT ![n][p.flow] = p.nr]
  BY DEF InputAtRelay
<1>4. seen'[ReceiverOf[f]][f] = seen[ReceiverOf[f]][f]
  BY <1>1, <1>2, <1>3
<1>5. FlowDelivered(f)
  BY DEF DeliveredInv
<1>6. QED BY <1>1, <1>4, <1>5 DEF FlowDelivered

LEMMA DeliveredStep ==
  ASSUME FlowInv, NumbersInReach, DeliveredInv, [Next]_vars
  PROVE  DeliveredInv'
<1>1. CASE \E n \in Node : Input(n)
  <2>1. PICK n \in Node : Input(n)
    BY <1>1
  <2> DEFINE p == Head(input[n])
  <2>2. input[n] \in Seq(FinePacket) /\ input[n] # <<>>
    BY <2>1 DEF FlowInv, Traffic, Input
  <2>3. p \in FinePacket /\ p = input[n][1] /\ 1 \in 1 .. Len(input[n])
    BY <2>2
  <2>4. p.kind = "flow" => 2 * (OwnNumber(p.flow) - p.nr) < NumberModulus
    BY <2>3 DEF NumbersInReach
  <2>5. CASE p.kind = "vector"
    <3>1. seen' = seen /\ delivered' = delivered
      BY <2>1, <2>5 DEF Input, InputVector
    <3>2. QED BY <3>1 DEF DeliveredInv, FlowDelivered
  <2>6. CASE p.kind # "vector"
    <3>1. p.kind = "flow"
      BY <2>3, <2>6 DEF FinePacket, Packet
    <3>2. InputAtReceiver(n, p) \/ InputAtRelay(n, p)
      BY <2>1, <2>6 DEF Input
    <3> HIDE DEF p
    <3>3. QED BY <2>3, <2>4, <3>1, <3>2, ReceiverKeepsOrder, RelayKeepsOrder
  <2>7. QED BY <2>5, <2>6
<1>2. CASE ~(\E n \in Node : Input(n))
  <2>1. seen' = seen /\ delivered' = delivered
    BY <1>2 DEF Next, FlowSend, SendAdvertisement, SendVector, Slot, vars
  <2>2. QED BY <2>1 DEF DeliveredInv, FlowDelivered
<1>3. QED BY <1>1, <1>2

LEMMA DeliveredInit ==
  ASSUME Init
  PROVE  DeliveredInv
  BY DEF Init, DeliveredInv, FlowDelivered

(***************************************************************************)
(* While packets are handled before half the packet numbers have gone by,  *)
(* the application gets every packet at most once, and in order, whatever  *)
(* happens to acknowledgements and to the duplicate test of the MAC layer. *)
(***************************************************************************)
THEOREM PacketsComeInOrder == Spec /\ []NumbersInReach => []DeliveredInOrder
<1>1. Init => DeliveredInv
  BY DeliveredInit
<1>2. FlowInv /\ NumbersInReach /\ DeliveredInv /\ [Next]_vars => DeliveredInv'
  BY DeliveredStep
<1>3. DeliveredInv => DeliveredInOrder
  BY DEF DeliveredInv, FlowDelivered, DeliveredInOrder
<1>4. QED BY <1>1, <1>2, <1>3, FlowInvAlways, PTL DEF Spec
-----------------------------------------------------------------------------
(***************************************************************************)
(* Transmissions.  The low bits tell whether the window of a queued packet *)
(* has begun: no window lies further ahead than the horizon.  They tell    *)
(* whether it is over as long as no packet has been in the queue of a flow *)
(* for half the slot numbers since.                                        *)
(***************************************************************************)
SlotsInReach ==
  \A n \in Node : \A f \in Flow : \A k \in 1 .. Len(queue[n][f]) :
    2 * asn < 2 * (queue[n][f][k].ttl + 1) + SlotModulus

\* The head of what has not expired is a packet of the queue that has not expired.
LEMMA UnexpiredHead ==
  ASSUME NEW S, NEW q \in Seq(S), Unexpired(q) # <<>>
  PROVE  \E k \in 1 .. Len(q) : Head(Unexpired(q)) = q[k] /\ SlotBefore(asn - 1, q[k].ttl)
<1> DEFINE alive == { i \in 1 .. Len(q) : SlotBefore(asn - 1, q[i].ttl) }
<1>1. Unexpired(q) = IF alive = {} THEN <<>> ELSE SubSeq(q, Min(alive), Len(q))
  BY DEF Unexpired
<1>2. alive # {} /\ alive \subseteq Nat
  BY <1>1
<1>3. \A i \in alive : i \in 1 .. Len(q) /\ SlotBefore(asn - 1, q[i].ttl)
  OBVIOUS
<1> HIDE DEF alive
<1>4. \E x \in alive : \A y \in alive : x <= y
  BY <1>2, LeastNat
<1> DEFINE k == Min(alive)
<1>5. k \in 1 .. Len(q) /\ SlotBefore(asn - 1, q[k].ttl)
  BY <1>3, <1>4 DEF Min
<1>6. Unexpired(q) = SubSeq(q, k, Len(q))
  BY <1>1, <1>2
<1> HIDE DEF k
<1>7. Head(SubSeq(q, k, Len(q))) = q[k]
  BY <1>5
<1>8. QED BY <1>5, <1>6, <1>7

LEMMA SlotSendsInWindow ==
  ASSUME 4 * (SfSize - 1) <= SlotModulus, FlowInv, SlotsInReach, Here.flow # BeaconQueue,
         NEW n \in Here.tx, Sends(n)
  PROVE  Head(SlotQueue(n)).earliest <= asn /\ asn <= Head(SlotQueue(n)).ttl
<1> DEFINE q == queue[n][Here.flow]
<1>1. asn \in Nat \ {0} /\ SlotModulus \in Nat \ {0}
  BY FlowAssumption DEF FlowInv, Types
<1>2. n \in Node /\ Here.flow \in Flow
  BY <1>1, HereIsCell DEF QueueName
<1>3. q \in Seq(FinePacket)
  BY <1>2 DEF FlowInv, Traffic, QueueName
<1>4. SlotQueue(n) = Unexpired(q) /\ Unexpired(q) # <<>>
  BY DEF SlotQueue, Sends
<1>5. ~SlotBefore(asn, Head(SlotQueue(n)).earliest)
  BY DEF Sends
<1>6. \A k \in 1 .. Len(q) : 2 * asn < 2 * (q[k].ttl + 1) + SlotModulus
  BY <1>2 DEF SlotsInReach
<1> HIDE DEF q
<1>7. PICK k \in 1 .. Len(q) : Head(Unexpired(q)) = q[k] /\ SlotBefore(asn - 1, q[k].ttl)
  BY <1>3, <1>4, UnexpiredHead
<1> DEFINE p == q[k]
<1>8. p.earliest \in Nat /\ p.ttl \in Nat /\ 2 * p.earliest <= 2 * asn + SlotModulus
  <2>1. p.earliest \in Nat /\ p.ttl \in Nat /\ p.earliest <= asn + 2 * (SfSize - 1)
    BY <1>3 DEF FinePacket, Packet, Horizon
  <2>2. SfSize \in Nat \ {0}
    BY FlowAssumption
  <2> HIDE DEF p
  <2>3. QED BY <1>1, <2>1, <2>2
<1> DEFINE e == p.earliest
           t == p.ttl
<1>9. /\ e \in Nat /\ t \in Nat
      /\ 2 * asn < 2 * (t + 1) + SlotModulus /\ 2 * e <= 2 * asn + SlotModulus
      /\ Before(asn - 1, t, SlotModulus) /\ ~Before(asn, e, SlotModulus)
  BY <1>4, <1>5, <1>6, <1>7, <1>8 DEF SlotBefore
<1>10. Head(SlotQueue(n)).earliest = e /\ Head(SlotQueue(n)).ttl = t
  BY <1>4, <1>7
<1> HIDE DEF e, t
<1>11. e <= asn
  <2>1. SUFFICES ASSUME asn < e PROVE FALSE
    BY <1>1, <1>9
  <2>2. 2 * (e - asn) <= SlotModulus
    BY <1>1, <1>9, <2>1
  <2>3. QED BY <1>1, <1>9, <2>1, <2>2, BeforeNear
<1>12. asn <= t
  <2>1. SUFFICES ASSUME t < asn PROVE FALSE
    BY <1>1, <1>9
  <2> DEFINE a == asn - 1
  <2>2. a \in Nat /\ t <= a /\ 2 * (a - t) < SlotModulus
    BY <1>1, <1>9, <2>1
  <2>3. Before(a, t, SlotModulus)
    BY <1>9
  <2> HIDE DEF a
  <2>4. QED BY <1>1, <1>9, <2>2, <2>3, NotBeforeNear
<1>13. QED BY <1>10, <1>11, <1>12

(***************************************************************************)
(* In the slots of a flow, what goes out goes out in its window.           *)
(***************************************************************************)
THEOREM SendingKeepsToWindows ==
  ASSUME 4 * (SfSize - 1) <= SlotModulus
  PROVE  Spec /\ []SlotsInReach => SentInWindow
<1>1. FlowInv /\ SlotsInReach =>
        (asn' # asn /\ Here.flow # BeaconQueue =>
           \A n \in Here.tx : Sends(n) =>
             Head(SlotQueue(n)).earliest <= asn /\ asn <= Head(SlotQueue(n)).ttl)
  BY SlotSendsInWindow
<1>2. QED BY <1>1, FlowInvAlways, PTL DEF SentInWindow
-----------------------------------------------------------------------------
(***************************************************************************)
(* Cycles. Cut as WindowsInParts has it, the slotframes make a sequence of *)
(* cycles. A window lies in one cycle, and the next packet of the flow has *)
(* its window in a later one.                                              *)
(***************************************************************************)
\* Sequence r is s with x behind it.
Longer(r, s, x) ==
  /\ Len(s) \in Nat /\ Len(r) = Len(s) + 1
  /\ r[Len(s) + 1] = x
  /\ \A i \in 1 .. Len(s) : r[i] = s[i]

LEMMA AppendIsLonger ==
  ASSUME NEW S, NEW s \in Seq(S), NEW x \in S
  PROVE  Longer(Append(s, x), s, x)
  BY DEF Longer

LEMMA LongerAt ==
  ASSUME NEW r, NEW s, NEW x, Longer(r, s, x)
  PROVE  \A i \in 1 .. Len(r) : \/ i = Len(s) + 1 /\ r[i] = x
                                \/ i \in 1 .. Len(s) /\ r[i] = s[i]
  BY DEF Longer

FrameOf(a) == a \div SfSize

LEMMA FramesOf ==
  ASSUME NEW a \in Nat
  PROVE  /\ FrameOf(a) \in Nat
         /\ a = FrameOf(a) * SfSize + (a % SfSize)
         /\ a % SfSize \in 0 .. SfSize - 1
<1>1. SfSize \in Nat \ {0}
  BY FlowAssumption
<1>2. QED BY <1>1 DEF FrameOf

LEMMA FrameIs ==
  ASSUME NEW a \in Nat, NEW g \in Nat, NEW c \in 0 .. SfSize - 1, a = g * SfSize + c
  PROVE  FrameOf(a) = g
<1>1. SfSize \in Nat \ {0}
  BY FlowAssumption
<1>2. QED BY <1>1 DEF FrameOf

LEMMA FramesKeepOrder ==
  ASSUME NEW a \in Nat, NEW b \in Nat, a <= b
  PROVE  FrameOf(a) <= FrameOf(b)
<1>1. SfSize \in Nat \ {0}
  BY FlowAssumption
<1>2. /\ FrameOf(a) \in Nat /\ a = FrameOf(a) * SfSize + (a % SfSize)
      /\ FrameOf(b) \in Nat /\ b = FrameOf(b) * SfSize + (b % SfSize)
      /\ a % SfSize \in 0 .. SfSize - 1 /\ b % SfSize \in 0 .. SfSize - 1
  BY FramesOf
<1>3. SUFFICES ASSUME FrameOf(b) < FrameOf(a) PROVE FALSE
  BY <1>2
<1> DEFINE g == FrameOf(a)
           h == FrameOf(b)
           k == g - h - 1
<1>4. g \in Nat /\ h \in Nat /\ k \in Nat /\ g = h + 1 + k
  BY <1>2, <1>3
<1>5. a = g * SfSize + (a % SfSize) /\ b = h * SfSize + (b % SfSize)
  BY <1>2
<1> HIDE DEF g, h, k
<1>6. g * SfSize = h * SfSize + SfSize + k * SfSize /\ k * SfSize \in Nat /\ h * SfSize \in Nat
  BY <1>1, <1>4
<1>7. QED BY <1>1, <1>2, <1>5, <1>6

\* Somewhere to cut, if there is one.
Cuts ==
  LET fit == { cuts \in SUBSET (0 .. SfSize - 1) : WindowsInParts(cuts) }
  IN IF fit = {} THEN {} ELSE CHOOSE cuts \in fit : TRUE

LEMMA CutsFit ==
  /\ Cuts \subseteq Nat
  /\ \A cuts \in SUBSET (0 .. SfSize - 1) : WindowsInParts(cuts) => WindowsInParts(Cuts)
<1> DEFINE fit == { cuts \in SUBSET (0 .. SfSize - 1) : WindowsInParts(cuts) }
<1>1. SfSize \in Nat
  BY FlowAssumption
<1>2. fit # {} => Cuts \in fit
  BY DEF Cuts
<1>3. fit = {} => Cuts = {}
  BY DEF Cuts
<1>4. \A cuts \in fit : cuts \subseteq Nat /\ WindowsInParts(cuts)
  BY <1>1
<1>5. \A cuts \in SUBSET (0 .. SfSize - 1) : WindowsInParts(cuts) => cuts \in fit
  OBVIOUS
<1> HIDE DEF fit
<1>6. Cuts \subseteq Nat
  BY <1>2, <1>3, <1>4
<1>7. QED BY <1>2, <1>4, <1>5, <1>6

LEMMA PartsOf ==
  ASSUME NEW s \in Nat
  PROVE  /\ PartOf(Cuts, s) \in 0 .. s
         /\ PartOf(Cuts, s) \in {0} \cup Cuts
         /\ \A c \in Cuts : c <= s => c <= PartOf(Cuts, s)
<1> DEFINE T == {0} \cup { c \in Cuts : c <= s }
           D == { s - x : x \in T }
<1>1. T \subseteq 0 .. s /\ 0 \in T /\ T \subseteq {0} \cup Cuts
  <2>1. Cuts \subseteq Nat
    BY CutsFit
  <2>2. T \subseteq {0} \cup Cuts /\ 0 \in T
    OBVIOUS
  <2>3. \A x \in T : x = 0 \/ (x \in Cuts /\ x <= s)
    OBVIOUS
  <2> HIDE DEF T, D
  <2>4. ASSUME NEW x \in T PROVE x \in 0 .. s
    <3>1. CASE x = 0
      BY <3>1
    <3>2. CASE x \in Cuts /\ x <= s
      <4>1. x \in Nat
        BY <2>1, <3>2
      <4>2. QED BY <3>2, <4>1
    <3>3. QED BY <2>3, <3>1, <3>2
  <2>5. QED BY <2>2, <2>4
<1>2. \A c \in Cuts : c <= s => c \in T
  OBVIOUS
<1>3. D \subseteq Nat /\ D # {}
  <2> HIDE DEF T
  <2>1. \A x \in T : s - x \in Nat
    BY <1>1
  <2>2. s - 0 \in D
    BY <1>1
  <2>3. QED BY <2>1, <2>2
<1>4. PICK d \in D : \A y \in D : d <= y
  BY <1>3, LeastNat
<1>5. PICK m \in T : d = s - m
  BY <1>4
<1>6. \A x \in T : s - x \in D
  OBVIOUS
<1>7. PartOf(Cuts, s) = Max(T)
  BY DEF PartOf
<1> HIDE DEF T, D
<1>8. \A x \in T : m >= x
  <2>1. SUFFICES ASSUME NEW x \in T PROVE m >= x
    OBVIOUS
  <2>2. s - m <= s - x /\ m \in 0 .. s /\ x \in 0 .. s
    BY <1>1, <1>4, <1>5, <1>6
  <2>3. QED BY <2>2
<1>9. Max(T) \in T /\ \A x \in T : Max(T) >= x
  BY <1>8 DEF Max
<1>10. Max(T) \in 0 .. s
  BY <1>1, <1>9
<1>11. \A c \in Cuts : c <= s => c <= Max(T)
  BY <1>1, <1>2, <1>9, <1>10
<1>12. QED BY <1>1, <1>7, <1>9, <1>10, <1>11

LEMMA PartsKeepOrder ==
  ASSUME NEW s \in Nat, NEW t \in Nat, s <= t
  PROVE  PartOf(Cuts, s) <= PartOf(Cuts, t)
<1>1. /\ PartOf(Cuts, s) \in 0 .. s /\ PartOf(Cuts, s) \in {0} \cup Cuts
      /\ PartOf(Cuts, t) \in 0 .. t
      /\ \A c \in Cuts : c <= t => c <= PartOf(Cuts, t)
  BY PartsOf
<1>2. QED BY <1>1

\* The cycle of slot a is named by its first slot.
CycleOf(a) == FrameOf(a) * SfSize + PartOf(Cuts, a % SfSize)

LEMMA CyclesOf ==
  ASSUME NEW a \in Nat
  PROVE  /\ CycleOf(a) \in Nat
         /\ FrameOf(a) * SfSize \in Nat
         /\ PartOf(Cuts, a % SfSize) \in 0 .. SfSize - 1
         /\ FrameOf(CycleOf(a)) = FrameOf(a)
<1>1. SfSize \in Nat \ {0} /\ FrameOf(a) \in Nat /\ a % SfSize \in 0 .. SfSize - 1
  BY FlowAssumption, FramesOf
<1> DEFINE g == FrameOf(a)
           c == PartOf(Cuts, a % SfSize)
<1>2. c \in 0 .. SfSize - 1
  <2>1. c \in 0 .. a % SfSize
    BY <1>1, PartsOf
  <2> HIDE DEF c
  <2>2. QED BY <1>1, <2>1
<1>3. g \in Nat /\ CycleOf(a) = g * SfSize + c
  BY <1>1 DEF CycleOf
<1> HIDE DEF g, c
<1>4. g * SfSize \in Nat
  BY <1>1, <1>3
<1>5. CycleOf(a) \in Nat
  BY <1>1, <1>2, <1>3, <1>4
<1>6. FrameOf(CycleOf(a)) = g
  BY <1>2, <1>3, <1>5, FrameIs
<1>7. QED BY <1>2, <1>4, <1>5, <1>6 DEF g, c

LEMMA CyclesKeepOrder ==
  ASSUME NEW a \in Nat, NEW b \in Nat, a <= b
  PROVE  CycleOf(a) <= CycleOf(b)
<1>1. SfSize \in Nat \ {0}
  BY FlowAssumption
<1>2. /\ FrameOf(a) \in Nat /\ a = FrameOf(a) * SfSize + (a % SfSize)
      /\ FrameOf(b) \in Nat /\ b = FrameOf(b) * SfSize + (b % SfSize)
      /\ a % SfSize \in 0 .. SfSize - 1 /\ b % SfSize \in 0 .. SfSize - 1
  BY FramesOf
<1>3. /\ CycleOf(a) = FrameOf(a) * SfSize + PartOf(Cuts, a % SfSize)
      /\ CycleOf(b) = FrameOf(b) * SfSize + PartOf(Cuts, b % SfSize)
  BY DEF CycleOf
<1>4. PartOf(Cuts, a % SfSize) \in 0 .. SfSize - 1 /\ PartOf(Cuts, b % SfSize) \in 0 .. SfSize - 1
  BY CyclesOf
<1>5. FrameOf(a) <= FrameOf(b)
  BY FramesKeepOrder
<1>6. CASE FrameOf(a) = FrameOf(b)
  <2> DEFINE g == FrameOf(a) * SfSize
             x == a % SfSize
             y == b % SfSize
  <2>1. g \in Nat /\ a = g + x /\ b = g + y /\ x \in Nat /\ y \in Nat
    BY <1>1, <1>2, <1>6, CyclesOf
  <2>2. CycleOf(a) = g + PartOf(Cuts, x) /\ CycleOf(b) = g + PartOf(Cuts, y)
    BY <1>3, <1>6
  <2>3. PartOf(Cuts, x) \in Nat /\ PartOf(Cuts, y) \in Nat
    BY <1>1, <1>4
  <2> HIDE DEF g, x, y
  <2>4. x <= y
    BY <2>1
  <2>5. PartOf(Cuts, x) <= PartOf(Cuts, y)
    BY <2>1, <2>4, PartsKeepOrder
  <2>6. QED BY <2>1, <2>2, <2>3, <2>5
<1>7. CASE FrameOf(a) < FrameOf(b)
  <2> DEFINE g == FrameOf(a)
             h == FrameOf(b)
             k == h - g - 1
             x == PartOf(Cuts, a % SfSize)
             y == PartOf(Cuts, b % SfSize)
  <2>1. g \in Nat /\ h \in Nat /\ k \in Nat /\ h = g + 1 + k
    BY <1>2, <1>7
  <2>2. /\ CycleOf(a) = g * SfSize + x /\ CycleOf(b) = h * SfSize + y
        /\ x \in 0 .. SfSize - 1 /\ y \in 0 .. SfSize - 1
    BY <1>3, <1>4
  <2> HIDE DEF g, h, k, x, y
  <2>3. h * SfSize = g * SfSize + SfSize + k * SfSize /\ k * SfSize \in Nat /\ g * SfSize \in Nat
    BY <1>1, <2>1
  <2>4. QED BY <1>1, <2>2, <2>3
<1>8. QED BY <1>2, <1>5, <1>6, <1>7

LEMMA CyclesGrow ==
  ASSUME NEW a \in Nat, NEW b \in Nat
  PROVE  /\ CycleOf(a) \in Nat
         /\ a <= b => CycleOf(a) <= CycleOf(b)
         /\ CycleOf(a) < CycleOf(b) => a < b
<1>1. CycleOf(a) \in Nat /\ CycleOf(b) \in Nat
  BY CyclesOf
<1>2. b <= a => CycleOf(b) <= CycleOf(a)
  BY CyclesKeepOrder
<1>3. QED BY <1>1, <1>2, CyclesKeepOrder

\* Slots of one cycle are in the same part of the same slotframe, and conversely.
LEMMA SameCycle ==
  ASSUME NEW a \in Nat, NEW b \in Nat
  PROVE  CycleOf(a) = CycleOf(b) <=>
           /\ FrameOf(a) = FrameOf(b)
           /\ PartOf(Cuts, a % SfSize) = PartOf(Cuts, b % SfSize)
<1>1. /\ FrameOf(CycleOf(a)) = FrameOf(a) /\ FrameOf(CycleOf(b)) = FrameOf(b)
      /\ FrameOf(a) * SfSize \in Nat /\ FrameOf(b) * SfSize \in Nat
      /\ PartOf(Cuts, a % SfSize) \in 0 .. SfSize - 1 /\ PartOf(Cuts, b % SfSize) \in 0 .. SfSize - 1
  BY CyclesOf
<1>2. SfSize \in Nat
  BY FlowAssumption
<1> DEFINE g == FrameOf(a) * SfSize
           h == FrameOf(b) * SfSize
           x == PartOf(Cuts, a % SfSize)
           y == PartOf(Cuts, b % SfSize)
<1>3. CycleOf(a) = g + x /\ CycleOf(b) = h + y
  BY DEF CycleOf
<1>4. g \in Nat /\ h \in Nat /\ x \in Nat /\ y \in Nat
  BY <1>1, <1>2
<1>5. ASSUME CycleOf(a) = CycleOf(b) PROVE FrameOf(a) = FrameOf(b) /\ x = y
  <2>1. FrameOf(a) = FrameOf(b) /\ g = h
    BY <1>1, <1>5
  <2> HIDE DEF g, h, x, y
  <2>2. QED BY <1>3, <1>4, <1>5, <2>1
<1>6. QED BY <1>3, <1>5

\* A window of a flow begins and ends in the slots of one of its windows.
InSlots(w, f) ==
  \E i \in WindowsOf(f) :
    /\ w.earliest % SfSize = FirstTx[f][i]
    /\ w.ttl = w.earliest + (LastTx[f][i] - FirstTx[f][i])

Framed(f) == \A i \in 1 .. Len(windows[f]) : InSlots(windows[f][i], f)

\* The windows of a flow lie inside the slotframe and have no slot in common.
SlotsInOrder ==
  \A f \in Flow : ~ShareASlot(f) /\ \A i \in WindowsOf(f) : FirstTx[f][i] < LastTx[f][i]

LEMMA PartsAreInOrder ==
  ASSUME WindowsInParts(Cuts)
  PROVE  SlotsInOrder
<1>1. SUFFICES ASSUME NEW f \in Flow, NEW i \in WindowsOf(f), NEW j \in WindowsOf(f),
                      LastTx[f][i] = FirstTx[f][j]
               PROVE  FALSE
  BY DEF SlotsInOrder, ShareASlot, WindowsInParts
<1>2. FirstTx[f][i] < LastTx[f][i]
      /\ PartOf(Cuts, FirstTx[f][i]) = PartOf(Cuts, FirstTx[f][j])
  BY <1>1 DEF WindowsInParts
<1>3. i = j
  BY <1>2 DEF WindowsInParts
<1>4. QED BY <1>1, <1>2, <1>3, SlotsOfWindows

\* The slotframe in which a window begins is that in which it ends.
LEMMA WindowInFrame ==
  ASSUME SlotsInOrder, NEW f \in Flow, NEW w, w.earliest \in Nat, w.ttl \in Nat,
         NEW i \in WindowsOf(f), w.earliest % SfSize = FirstTx[f][i],
         w.ttl = w.earliest + (LastTx[f][i] - FirstTx[f][i])
  PROVE  /\ w.earliest \in Nat /\ w.ttl \in Nat /\ w.earliest < w.ttl
         /\ FrameOf(w.earliest) = FrameOf(w.ttl)
         /\ w.ttl % SfSize = LastTx[f][i]
<1> DEFINE e == w.earliest
           t == w.ttl
           g == FrameOf(e)
           first == FirstTx[f][i]
           last == LastTx[f][i]
<1>1. /\ SfSize \in Nat \ {0} /\ first \in 0 .. SfSize - 1 /\ last \in 0 .. SfSize - 1 /\ first < last
  BY SlotsOfWindows, FlowAssumption DEF SlotsInOrder
<1>2. e \in Nat /\ t \in Nat /\ e % SfSize = first /\ t = e + (last - first)
  OBVIOUS
<1> HIDE DEF e, t, first, last
<1>3. g \in Nat /\ e = g * SfSize + first
  BY <1>2, FramesOf
<1>4. g * SfSize \in Nat
  BY <1>1, <1>3
<1>5. t = g * SfSize + last
  BY <1>1, <1>2, <1>3, <1>4
<1>6. e < t
  BY <1>1, <1>2
<1> HIDE DEF g
<1>7. FrameOf(t) = g /\ t % SfSize = last
  BY <1>1, <1>2, <1>3, <1>5, FrameIs, Multiple
<1>8. QED BY <1>2, <1>6, <1>7 DEF g, e, t, last

\* The windows of a flow, one cycle after the other.
InOrder(ws) ==
  /\ \A i \in 1 .. Len(ws) : CycleOf(ws[i].earliest) = CycleOf(ws[i].ttl)
  /\ \A i, j \in 1 .. Len(ws) : i < j => CycleOf(ws[i].ttl) < CycleOf(ws[j].earliest)

LEMMA WindowsInOrder ==
  ASSUME WindowsInParts(Cuts), NEW f \in Flow, NEW ws \in Seq(Window),
         \A i \in 1 .. Len(ws) : InSlots(ws[i], f),
         \A i, j \in 1 .. Len(ws) : i < j => ws[i].ttl < ws[j].earliest
  PROVE  InOrder(ws)
<1>1. ASSUME NEW i \in 1 .. Len(ws)
      PROVE  \E a \in WindowsOf(f) :
               /\ ws[i].earliest \in Nat /\ ws[i].ttl \in Nat /\ ws[i].earliest < ws[i].ttl
               /\ ws[i].earliest % SfSize = FirstTx[f][a]
               /\ CycleOf(ws[i].earliest) = CycleOf(ws[i].ttl)
  <2> DEFINE w == ws[i]
  <2>1. w \in Window /\ InSlots(w, f)
    OBVIOUS
  <2> HIDE DEF w
  <2>2. PICK a \in WindowsOf(f) : /\ w.earliest % SfSize = FirstTx[f][a]
                                  /\ w.ttl = w.earliest + (LastTx[f][a] - FirstTx[f][a])
    BY <2>1 DEF InSlots
  <2>3. /\ w.earliest \in Nat /\ w.ttl \in Nat /\ w.earliest < w.ttl
        /\ FrameOf(w.earliest) = FrameOf(w.ttl) /\ w.ttl % SfSize = LastTx[f][a]
    <3>1. w.earliest \in Nat /\ w.ttl \in Nat
      BY <2>1 DEF Window
    <3>2. QED BY <2>2, <3>1, PartsAreInOrder, WindowInFrame
  <2>4. PartOf(Cuts, FirstTx[f][a]) = PartOf(Cuts, LastTx[f][a])
    BY DEF WindowsInParts
  <2>5. CycleOf(w.earliest) = CycleOf(w.ttl)
    BY <2>2, <2>3, <2>4, SameCycle
  <2>6. QED BY <2>2, <2>3, <2>5 DEF w
<1>2. ASSUME NEW i \in 1 .. Len(ws), NEW j \in 1 .. Len(ws), i < j
      PROVE  CycleOf(ws[i].ttl) < CycleOf(ws[j].earliest)
  <2> DEFINE d == ws[i].earliest
             t == ws[i].ttl
             e == ws[j].earliest
  <2>1. PICK a \in WindowsOf(f) : /\ d \in Nat /\ t \in Nat /\ d < t
                                  /\ d % SfSize = FirstTx[f][a] /\ CycleOf(d) = CycleOf(t)
    BY <1>1
  <2>2. PICK b \in WindowsOf(f) : e \in Nat /\ e % SfSize = FirstTx[f][b]
    BY <1>1
  <2>3. t < e
    BY <1>2
  <2> HIDE DEF d, t, e
  <2>4. CycleOf(t) <= CycleOf(e) /\ CycleOf(t) \in Nat /\ CycleOf(e) \in Nat
    BY <2>1, <2>2, <2>3, CyclesGrow
  <2>5. CycleOf(d) # CycleOf(e)
    <3>1. SUFFICES ASSUME CycleOf(d) = CycleOf(e) PROVE FALSE
      OBVIOUS
    <3>2. /\ FrameOf(d) = FrameOf(e)
          /\ PartOf(Cuts, FirstTx[f][a]) = PartOf(Cuts, FirstTx[f][b])
      BY <2>1, <2>2, <3>1, SameCycle
    <3>3. a = b
      BY <3>2 DEF WindowsInParts
    <3>4. d = FrameOf(d) * SfSize + (d % SfSize) /\ e = FrameOf(e) * SfSize + (e % SfSize)
      BY <2>1, <2>2, FramesOf
    <3>5. d = e
      BY <2>1, <2>2, <3>2, <3>3, <3>4
    <3>6. QED BY <2>1, <2>2, <2>3, <3>5
  <2>6. QED BY <2>1, <2>4, <2>5 DEF t, e
<1>3. QED BY <1>1, <1>2 DEF InOrder

LEMMA FlowInOrder ==
  ASSUME WindowsInParts(Cuts), Types, NEW f \in Flow, FlowWindows(f), Framed(f)
  PROVE  InOrder(windows[f])
<1>1. windows[f] \in Seq(Window) /\ \A i \in 1 .. Len(windows[f]) : InSlots(windows[f][i], f)
  BY DEF Types, Framed
<1>2. \A i, j \in 1 .. Len(windows[f]) : i < j => windows[f][i].ttl < windows[f][j].earliest
  BY PartsAreInOrder DEF FlowWindows, SlotsInOrder
<1>3. QED BY <1>1, <1>2, WindowsInOrder

\* A new window begins and ends in the slots of the flow.
LEMMA FramedStep ==
  ASSUME SlotsInOrder, Types, NEW f \in Flow, Framed(f), [Next]_vars
  PROVE  Framed(f)'
<1>1. /\ SfSize \in Nat \ {0} /\ asn \in Nat /\ windows[f] \in Seq(Window)
  BY FlowAssumption DEF Types
<1>2. CASE FlowSend(f)
  <2> DEFINE w == NextWindow(f)
             ws == windows[f]
  <2>1. windows'[f] = Append(ws, w)
    BY <1>2 DEF FlowSend, Types
  <2>2. w \in Window
    BY <1>1, WindowFacts DEF Window
  <2>3. PICK i \in WindowsOf(f) :
          /\ w.earliest % SfSize = FirstTx[f][i]
          /\ w.ttl = w.earliest + ((SfSize + LastTx[f][i] - FirstTx[f][i]) % SfSize)
    BY <1>1, WindowFacts
  <2> HIDE DEF w, ws
  <2>4. (SfSize + LastTx[f][i] - FirstTx[f][i]) % SfSize = LastTx[f][i] - FirstTx[f][i]
    <3> DEFINE first == FirstTx[f][i]
               last == LastTx[f][i]
               c == last - first
    <3>1. first \in 0 .. SfSize - 1 /\ last \in 0 .. SfSize - 1 /\ first < last
      BY SlotsOfWindows DEF SlotsInOrder
    <3> HIDE DEF first, last
    <3>2. c \in 0 .. SfSize - 1 /\ SfSize + last - first = 1 * SfSize + c
      BY <1>1, <3>1
    <3> HIDE DEF c
    <3>3. (1 * SfSize + c) % SfSize = c
      BY <1>1, <3>2, Multiple
    <3>4. QED BY <3>2, <3>3 DEF c, first, last
  <2>5. InSlots(w, f)
    BY <2>3, <2>4 DEF InSlots
  <2>6. Longer(Append(ws, w), ws, w)
    BY <1>1, <2>2, AppendIsLonger DEF ws
  <2>7. \A k \in 1 .. Len(ws) : InSlots(ws[k], f)
    BY DEF Framed, ws
  <2>8. \A k \in 1 .. Len(Append(ws, w)) : InSlots(Append(ws, w)[k], f)
    BY <2>5, <2>6, <2>7, LongerAt
  <2>9. QED BY <2>1, <2>8 DEF Framed, InSlots, WindowsOf
<1>3. CASE windows'[f] = windows[f]
  BY <1>3 DEF Framed, InSlots, WindowsOf
<1>4. FlowSend(f) \/ windows'[f] = windows[f]
  BY DEF Next, FlowSend, SendAdvertisement, SendVector, Input, Slot, vars, Types
<1>5. QED BY <1>2, <1>3, <1>4

-----------------------------------------------------------------------------
(***************************************************************************)
(* The order in the queue of a flow. Each packet in the queue, and the     *)
(* window that is configured for it, comes no later than the cycle of      *)
(* the last packet of the flow that the node knows; a new packet comes     *)
(* behind all of them, and has a later cycle than all of them.             *)
(***************************************************************************)
\* Slot t comes no later than the cycle of packet k.
Reaches(ws, k, t) ==
  /\ StartNumber < k
  /\ CycleOf(t) <= CycleOf(ws[k - StartNumber].ttl)

\* A packet of a flow carries the window that its sender gave it, along a route.
Genuine(p, ws) ==
  /\ StartNumber < p.nr
  /\ p.earliest = ws[p.nr - StartNumber].earliest
  /\ p.ttl = ws[p.nr - StartNumber].ttl
  /\ \E m \in Node : p.to = ForwardTo[m][p.flow]

Ahead(p, r) == r.kind = "flow" => CycleOf(p.ttl) < CycleOf(r.earliest)

Queued(q, f, ws, k) ==
  /\ \A i \in 1 .. Len(q) :
       /\ Reaches(ws, k, q[i].ttl)
       /\ q[i].kind = "flow" => q[i].flow = f /\ Genuine(q[i], ws)
  /\ \A i, j \in 1 .. Len(q) : i < j => Ahead(q[i], q[j])

\* The windows of a flow, perhaps with one more.
Extends(ws, vs) ==
  /\ ws \in Seq(Window) /\ vs \in Seq(Window)
  /\ vs = ws \/ \E w \in Window : vs = Append(ws, w)

Grows(ws, vs) == Extends(ws, vs) /\ InOrder(vs)

LEMMA GrownWindows ==
  ASSUME NEW ws, NEW vs, Extends(ws, vs)
  PROVE  /\ Len(ws) \in Nat /\ Len(vs) \in Nat /\ Len(ws) <= Len(vs)
         /\ \A i \in 1 .. Len(ws) : vs[i] = ws[i]
         /\ \A i \in 1 .. Len(vs) : vs[i].earliest \in Nat /\ vs[i].ttl \in Nat
<1>1. ws \in Seq(Window) /\ vs \in Seq(Window)
  BY DEF Extends
<1>2. \A i \in 1 .. Len(vs) : vs[i] \in Window
  BY <1>1
<1>3. CASE vs = ws
  BY <1>1, <1>2, <1>3 DEF Window
<1>4. CASE \E w \in Window : vs = Append(ws, w)
  <2>1. Len(vs) = Len(ws) + 1 /\ \A i \in 1 .. Len(ws) : vs[i] = ws[i]
    BY <1>1, <1>4
  <2>2. QED BY <1>1, <1>2, <2>1 DEF Window
<1>5. QED BY <1>3, <1>4 DEF Extends

LEMMA ReachesMore ==
  ASSUME NEW ws, NEW vs, Grows(ws, vs), StartNumber \in Nat,
         NEW k \in Nat, NEW l \in Nat, k <= l,
         k <= StartNumber + Len(ws), l <= StartNumber + Len(vs),
         NEW t \in Nat, Reaches(ws, k, t)
  PROVE  Reaches(vs, l, t)
<1>1. /\ Len(ws) \in Nat /\ Len(vs) \in Nat /\ Len(ws) <= Len(vs)
      /\ \A i \in 1 .. Len(ws) : vs[i] = ws[i]
      /\ \A i \in 1 .. Len(vs) : vs[i].earliest \in Nat /\ vs[i].ttl \in Nat
  BY GrownWindows DEF Grows
<1>2. StartNumber < k /\ CycleOf(t) <= CycleOf(ws[k - StartNumber].ttl)
  BY DEF Reaches
<1> DEFINE a == k - StartNumber
           b == l - StartNumber
<1>3. a \in 1 .. Len(ws) /\ b \in 1 .. Len(vs) /\ a \in 1 .. Len(vs) /\ a <= b /\ StartNumber < l
  BY <1>1, <1>2
<1>4. CycleOf(t) <= CycleOf(vs[a].ttl)
  BY <1>1, <1>2, <1>3
<1> HIDE DEF a, b
<1>5. CASE a = b
  BY <1>3, <1>4, <1>5 DEF Reaches, b
<1>6. CASE a < b
  <2>1. CycleOf(vs[a].ttl) < CycleOf(vs[b].earliest) /\ CycleOf(vs[b].earliest) = CycleOf(vs[b].ttl)
    BY <1>3, <1>6 DEF Grows, InOrder
  <2>2. CycleOf(t) \in Nat /\ CycleOf(vs[a].ttl) \in Nat /\ CycleOf(vs[b].ttl) \in Nat
    BY <1>1, <1>3, CyclesOf
  <2>3. CycleOf(t) <= CycleOf(vs[b].ttl)
    BY <1>4, <2>1, <2>2
  <2>4. QED BY <1>3, <2>3 DEF Reaches, b
<1>7. a = b \/ a < b
  BY <1>3
<1>8. QED BY <1>5, <1>6, <1>7

LEMMA GenuineStays ==
  ASSUME NEW ws, NEW vs, Extends(ws, vs), StartNumber \in Nat,
         NEW p, p.nr \in Nat, p.nr <= StartNumber + Len(ws), Genuine(p, ws)
  PROVE  Genuine(p, vs)
<1>1. Len(ws) \in Nat /\ \A i \in 1 .. Len(ws) : vs[i] = ws[i]
  BY GrownWindows
<1>2. p.nr - StartNumber \in 1 .. Len(ws)
  BY <1>1 DEF Genuine
<1>3. vs[p.nr - StartNumber] = ws[p.nr - StartNumber]
  BY <1>1, <1>2
<1>4. QED BY <1>3 DEF Genuine

\* Packets as they are in a queue whose flow has n numbers.
Numbered(p, n) == p.ttl \in Nat /\ p.nr \in Nat /\ (p.kind = "flow" => p.nr <= n)

LEMMA QueuedMore ==
  ASSUME NEW ws, NEW vs, Grows(ws, vs), StartNumber \in Nat,
         NEW k \in Nat, NEW l \in Nat, k <= l,
         k <= StartNumber + Len(ws), l <= StartNumber + Len(vs),
         NEW q, NEW f, Queued(q, f, ws, k),
         \A i \in 1 .. Len(q) : Numbered(q[i], StartNumber + Len(ws))
  PROVE  Queued(q, f, vs, l)
<1>1. ASSUME NEW i \in 1 .. Len(q)
      PROVE  /\ Reaches(vs, l, q[i].ttl)
             /\ q[i].kind = "flow" => q[i].flow = f /\ Genuine(q[i], vs)
  <2> DEFINE p == q[i]
  <2>1. Numbered(p, StartNumber + Len(ws))
    OBVIOUS
  <2>2. Reaches(ws, k, p.ttl) /\ (p.kind = "flow" => p.flow = f /\ Genuine(p, ws))
    BY DEF Queued
  <2> HIDE DEF p
  <2>3. Reaches(vs, l, p.ttl)
    BY <2>1, <2>2, ReachesMore DEF Numbered
  <2>4. p.kind = "flow" => p.flow = f /\ Genuine(p, vs)
    BY <2>1, <2>2, GenuineStays DEF Numbered, Grows
  <2>5. QED BY <2>3, <2>4 DEF p
<1>2. QED BY <1>1 DEF Queued

\* A strength vector goes to the end of the queue.
LEMMA QueuedVector ==
  ASSUME NEW S, NEW q \in Seq(S), NEW v \in S, NEW f, NEW ws, NEW k,
         Queued(q, f, ws, k), v.kind = "vector", Reaches(ws, k, v.ttl)
  PROVE  Queued(Append(q, v), f, ws, k)
<1> DEFINE r == Append(q, v)
<1>0. Longer(r, q, v)
  BY AppendIsLonger
<1> HIDE DEF r
<1>1. Len(r) = Len(q) + 1 /\ r[Len(q) + 1] = v /\ Len(q) \in Nat
  BY <1>0 DEF Longer
<1>2. \A i \in 1 .. Len(r) : \/ i = Len(q) + 1 /\ r[i] = v
                             \/ i \in 1 .. Len(q) /\ r[i] = q[i]
  BY <1>0 DEF Longer
<1>3. \A i \in 1 .. Len(q) : r[i] = q[i]
  BY <1>0 DEF Longer
<1>4. \A i \in 1 .. Len(r) :
        /\ Reaches(ws, k, r[i].ttl)
        /\ r[i].kind = "flow" => r[i].flow = f /\ Genuine(r[i], ws)
  BY <1>2 DEF Queued
<1>5. ASSUME NEW i \in 1 .. Len(r), NEW j \in 1 .. Len(r), i < j PROVE Ahead(r[i], r[j])
  <2>1. CASE r[j] = v
    BY <2>1 DEF Ahead
  <2>2. CASE r[j] # v
    <3>1. j \in 1 .. Len(q)
      BY <1>2, <2>2
    <3>2. i \in 1 .. Len(q)
      BY <1>1, <1>5, <3>1
    <3>3. Ahead(q[i], q[j])
      BY <1>5, <3>1, <3>2 DEF Queued
    <3>4. QED BY <1>3, <3>1, <3>2, <3>3
  <2>3. QED BY <2>1, <2>2
<1>6. QED BY <1>4, <1>5 DEF Queued, r

\* A new packet of the flow goes to the end of the queue.
LEMMA QueuedPacket ==
  ASSUME NEW S, NEW q \in Seq(S), NEW p \in S, NEW f, NEW ws \in Seq(Window), InOrder(ws),
         StartNumber \in Nat, NEW k \in Nat, Queued(q, f, ws, k),
         \A i \in 1 .. Len(q) : q[i].ttl \in Nat,
         p.kind = "flow", p.flow = f, Genuine(p, ws),
         p.nr \in Nat, k < p.nr, p.nr <= StartNumber + Len(ws)
  PROVE  Queued(Append(q, p), f, ws, p.nr)
<1> DEFINE r == Append(q, p)
           b == p.nr - StartNumber
<1>0. Longer(r, q, p)
  BY AppendIsLonger
<1> HIDE DEF r
<1>1. Len(r) = Len(q) + 1 /\ r[Len(q) + 1] = p /\ Len(q) \in Nat /\ Len(ws) \in Nat
  BY <1>0 DEF Longer
<1>2. \A i \in 1 .. Len(r) : \/ i = Len(q) + 1 /\ r[i] = p
                             \/ i \in 1 .. Len(q) /\ r[i] = q[i]
  BY <1>0 DEF Longer
<1>3. \A i \in 1 .. Len(ws) : ws[i].earliest \in Nat /\ ws[i].ttl \in Nat
  <2>1. \A i \in 1 .. Len(ws) : ws[i] \in Window
    OBVIOUS
  <2>2. QED BY <2>1 DEF Window
<1>4. b \in 1 .. Len(ws) /\ p.earliest = ws[b].earliest /\ p.ttl = ws[b].ttl /\ StartNumber < p.nr
  BY <1>1 DEF Genuine
<1>5. CycleOf(p.earliest) = CycleOf(p.ttl) /\ CycleOf(p.ttl) \in Nat
  <2>1. CycleOf(ws[b].earliest) = CycleOf(ws[b].ttl)
    BY <1>4 DEF InOrder
  <2>2. CycleOf(ws[b].ttl) \in Nat
    BY <1>3, <1>4, CyclesOf
  <2>3. QED BY <1>4, <2>1, <2>2
<1>6. ASSUME NEW i \in 1 .. Len(q) PROVE CycleOf(q[i].ttl) < CycleOf(p.earliest)
  <2> DEFINE a == k - StartNumber
             t == q[i].ttl
  <2>1. StartNumber < k /\ CycleOf(t) <= CycleOf(ws[a].ttl) /\ t \in Nat
    BY DEF Queued, Reaches
  <2>2. a \in 1 .. Len(ws) /\ a < b
    BY <1>1, <2>1
  <2>3. CycleOf(ws[a].ttl) < CycleOf(ws[b].earliest)
    BY <1>4, <2>2 DEF InOrder
  <2> HIDE DEF a, b, t
  <2>4. CycleOf(t) \in Nat /\ CycleOf(ws[a].ttl) \in Nat /\ CycleOf(ws[b].earliest) \in Nat
    BY <1>3, <1>4, <2>1, <2>2, CyclesOf
  <2>5. CycleOf(t) < CycleOf(ws[b].earliest)
    BY <2>1, <2>3, <2>4
  <2>6. QED BY <1>4, <2>5 DEF t
<1>7. ASSUME NEW i \in 1 .. Len(r)
      PROVE  /\ Reaches(ws, p.nr, r[i].ttl)
             /\ r[i].kind = "flow" => r[i].flow = f /\ Genuine(r[i], ws)
  <2>1. CASE r[i] = p
    BY <1>4, <1>5, <2>1 DEF Reaches
  <2>2. CASE i \in 1 .. Len(q) /\ r[i] = q[i]
    <3>1. q[i].kind = "flow" => q[i].flow = f /\ Genuine(q[i], ws)
      BY <2>2 DEF Queued
    <3>2. CycleOf(q[i].ttl) < CycleOf(p.earliest) /\ CycleOf(q[i].ttl) \in Nat
      BY <1>6, <2>2, CyclesOf
    <3>3. CycleOf(q[i].ttl) <= CycleOf(ws[b].ttl)
      BY <1>4, <1>5, <3>2
    <3>4. QED BY <1>4, <2>2, <3>1, <3>3 DEF Reaches
  <2>3. QED BY <1>2, <2>1, <2>2
<1>8. ASSUME NEW i \in 1 .. Len(r), NEW j \in 1 .. Len(r), i < j PROVE Ahead(r[i], r[j])
  <2>1. i \in 1 .. Len(q) /\ r[i] = q[i]
    BY <1>1, <1>2, <1>8
  <2>2. CASE r[j] = p
    BY <1>6, <2>1, <2>2 DEF Ahead
  <2>3. CASE j \in 1 .. Len(q) /\ r[j] = q[j]
    BY <1>8, <2>1, <2>3 DEF Queued
  <2>4. QED BY <1>2, <2>2, <2>3
<1>9. QED BY <1>7, <1>8 DEF Queued, r

\* What a slot leaves of a queue: its end, in which only the mark of a packet that the
\* receiver may have heard changes.
Alike(p, r) ==
  /\ p.kind = r.kind /\ p.flow = r.flow /\ p.nr = r.nr /\ p.to = r.to
  /\ p.earliest = r.earliest /\ p.ttl = r.ttl

RestOf(r, q) ==
  \E d \in Nat : /\ Len(r) + d <= Len(q)
                 /\ \A i \in 1 .. Len(r) : Alike(r[i], q[i + d])

LEMMA QueuedRest ==
  ASSUME NEW q, Len(q) \in Nat, NEW r, Len(r) \in Nat, RestOf(r, q),
         NEW f, NEW ws, NEW k, Queued(q, f, ws, k)
  PROVE  Queued(r, f, ws, k)
<1>1. PICK d \in Nat : Len(r) + d <= Len(q) /\ \A i \in 1 .. Len(r) : Alike(r[i], q[i + d])
  BY DEF RestOf
<1>2. \A i \in 1 .. Len(r) : i + d \in 1 .. Len(q)
  BY <1>1
<1>3. ASSUME NEW i \in 1 .. Len(r)
      PROVE  /\ Reaches(ws, k, r[i].ttl)
             /\ r[i].kind = "flow" => r[i].flow = f /\ Genuine(r[i], ws)
  <2>1. /\ Reaches(ws, k, q[i + d].ttl)
        /\ q[i + d].kind = "flow" => q[i + d].flow = f /\ Genuine(q[i + d], ws)
    BY <1>2 DEF Queued
  <2>2. Alike(r[i], q[i + d])
    BY <1>1
  <2>3. QED BY <2>1, <2>2 DEF Alike, Genuine
<1>4. ASSUME NEW i \in 1 .. Len(r), NEW j \in 1 .. Len(r), i < j PROVE Ahead(r[i], r[j])
  <2>1. i + d < j + d
    BY <1>4
  <2>2. Ahead(q[i + d], q[j + d])
    BY <1>2, <2>1 DEF Queued
  <2>3. Alike(r[i], q[i + d]) /\ Alike(r[j], q[j + d])
    BY <1>1
  <2>4. QED BY <2>2, <2>3 DEF Ahead, Alike
<1>5. QED BY <1>3, <1>4 DEF Queued

-----------------------------------------------------------------------------
(***************************************************************************)
(* The invariant of the order of packets.                                  *)
(***************************************************************************)
\* The last packet of flow f that n has given out or let pass.
Known(n, f) == IF n = SenderOf[f] THEN OwnNumber(f) ELSE seen[n][f]

InQueue(n, f) == Queued(queue[n][f], f, windows[f], Known(n, f))

\* The queue of the beacons has no packet of a flow.
OnlyVectors(q) == \A i \in 1 .. Len(q) : q[i].kind = "vector"

Configured(n) ==
  config[n].flow \in Flow =>
    Reaches(windows[config[n].flow], Known(n, config[n].flow), config[n].ttl)

\* Packets come in in the order of their cycles, and not before these.
Arrived(in, n, ws, a) ==
  /\ \A k \in 1 .. Len(in) : in[k].kind = "flow" =>
       /\ Genuine(in[k], ws[in[k].flow])
       /\ in[k].to = n
       /\ CycleOf(in[k].ttl) <= CycleOf(a)
  /\ \A i, k \in 1 .. Len(in) : i < k /\ in[i].kind = "flow" /\ in[k].kind = "flow" =>
       CycleOf(in[i].ttl) <= CycleOf(in[k].ttl)

\* The configured window comes no later than what the node has yet to handle.
Lags(t, in, a) ==
  /\ CycleOf(t) <= CycleOf(a)
  /\ \A k \in 1 .. Len(in) : in[k].kind = "flow" => CycleOf(t) <= CycleOf(in[k].ttl)

IsSender(n) == \E f \in Flow : n = SenderOf[f]

QueuesInOrder(n) ==
  /\ \A f \in Flow : InQueue(n, f)
  /\ OnlyVectors(queue[n][BeaconQueue])

NodeInOrder(n) ==
  /\ \A f \in Flow : StartNumber <= seen[n][f]
  /\ QueuesInOrder(n)
  /\ Configured(n)
  /\ Arrived(input[n], n, windows, asn)
  /\ ~IsSender(n) => Lags(config[n].ttl, input[n], asn)

FramedInv == \A f \in Flow : Framed(f)

OrderInv == \A n \in Node : NodeInOrder(n)

(***************************************************************************)
(* What every step does: windows are added, nodes know more, time goes on. *)
(***************************************************************************)
Forward ==
  /\ StartNumber \in Nat /\ asn \in Nat /\ asn' \in Nat /\ asn <= asn'
  /\ \A f \in Flow : Extends(windows[f], windows'[f])
  /\ \A n \in Node : \A f \in Flow :
       /\ Known(n, f) \in Nat /\ Known(n, f) <= StartNumber + Len(windows[f])
       /\ Known(n, f)' \in Nat /\ Known(n, f)' <= StartNumber + Len(windows'[f])
       /\ Known(n, f) <= Known(n, f)'
       /\ seen[n][f] \in Nat /\ seen'[n][f] \in Nat /\ seen[n][f] <= seen'[n][f]

Onward == Forward /\ \A f \in Flow : InOrder(windows'[f])

LEMMA KnownIsNat ==
  ASSUME FlowInv, NEW n \in Node, NEW f \in Flow
  PROVE  Known(n, f) \in Nat /\ Known(n, f) <= StartNumber + Len(windows[f])
<1>1. Types /\ Numbers
  BY DEF FlowInv
<1>2. OwnNumber(f) \in Nat /\ OwnNumber(f) = StartNumber + Len(windows[f])
  BY <1>1, OwnNumberIsNat DEF OwnNumber
<1>3. seen[n][f] \in Nat /\ seen[n][f] <= OwnNumber(f)
  BY <1>1 DEF Types, Numbers
<1>4. QED BY <1>2, <1>3 DEF Known

\* A node never forgets: what it lets pass is new.
LEMMA SeenGrows ==
  ASSUME FlowInv, NumbersInReach, [Next]_vars, NEW n \in Node, NEW f \in Flow
  PROVE  seen[n][f] <= seen'[n][f]
<1>1. seen \in [Node -> [Flow -> Nat]]
  BY DEF FlowInv, Types
<1>2. CASE \E m \in Node : Input(m)
  <2>1. PICK m \in Node : Input(m)
    BY <1>2
  <2> DEFINE p == Head(input[m])
  <2>2. input[m] \in Seq(FinePacket) /\ input[m] # <<>>
    BY <2>1 DEF FlowInv, Traffic, Input
  <2>3. p \in FinePacket /\ p = input[m][1] /\ 1 \in 1 .. Len(input[m])
    BY <2>2
  <2>4. p.kind = "flow" => 2 * (OwnNumber(p.flow) - p.nr) < NumberModulus
    BY <2>3 DEF NumbersInReach
  <2>5. \/ seen' = seen
        \/ p.kind = "flow" /\ IsNew(m, p) /\ seen' = [seen EXCEPT ![m][p.flow] = p.nr]
    <3>1. p.kind = "vector" \/ p.kind = "flow"
      BY <2>3 DEF FinePacket, Packet
    <3>2. CASE p.kind = "vector"
      BY <2>1, <3>2 DEF Input, InputVector
    <3>3. CASE p.kind = "flow"
      <4>1. InputAtReceiver(m, p) \/ InputAtRelay(m, p)
        BY <2>1, <3>3 DEF Input
      <4> HIDE DEF p
      <4>2. QED BY <3>3, <4>1 DEF InputAtReceiver, InputAtRelay
    <3>4. QED BY <3>1, <3>2, <3>3
  <2> HIDE DEF p
  <2>6. CASE seen' = seen
    BY <1>1, <2>6
  <2>7. CASE p.kind = "flow" /\ IsNew(m, p) /\ seen' = [seen EXCEPT ![m][p.flow] = p.nr]
    <3>1. p.flow \in Flow /\ p.nr \in Nat
      BY <2>3, <2>7 DEF FinePacket, Packet
    <3>2. seen[m][p.flow] < p.nr
      BY <2>3, <2>4, <2>7, NewIsHigher
    <3> DEFINE new == [seen[m] EXCEPT ![p.flow] = p.nr]
    <3>3. \A g \in Flow : new[g] = IF g = p.flow THEN p.nr ELSE seen[m][g]
      BY <1>1
    <3>4. seen' = [seen EXCEPT ![m] = new]
      BY <2>7
    <3> HIDE DEF new
    <3>5. seen'[n] = IF n = m THEN new ELSE seen[n]
      BY <1>1, <3>4
    <3>6. seen[n][f] \in Nat
      BY <1>1
    <3>7. QED BY <3>1, <3>2, <3>3, <3>5, <3>6
  <2>8. QED BY <2>5, <2>6, <2>7
<1>3. CASE ~(\E m \in Node : Input(m))
  <2>1. seen' = seen
    BY <1>3 DEF Next, FlowSend, SendAdvertisement, SendVector, Slot, vars
  <2>2. QED BY <1>1, <2>1
<1>4. QED BY <1>2, <1>3

LEMMA StepIsForward ==
  ASSUME SlotsInOrder, FlowInv, NumbersInReach, [Next]_vars
  PROVE  Forward
<1>1. FlowInv'
  BY FlowStep
<1>2. StartNumber \in Nat /\ asn \in Nat /\ asn' \in Nat
  BY <1>1, FlowAssumption DEF FlowInv, Types
<1>3. asn <= asn'
  <2>1. asn' = asn \/ asn' = asn + 1
    BY DEF Next, FlowSend, SendAdvertisement, SendVector, Input, Slot, vars
  <2>2. QED BY <1>2, <2>1
<1>4. ASSUME NEW f \in Flow PROVE Extends(windows[f], windows'[f])
  <2>1. windows[f] \in Seq(Window) /\ windows'[f] \in Seq(Window)
    BY <1>1 DEF FlowInv, Types
  <2>2. windows'[f] = windows[f] \/ \E w \in Window : windows'[f] = Append(windows[f], w)
    <3>1. CASE FlowSend(f)
      <4> DEFINE w == NextWindow(f)
      <4>1. w \in Window
        BY <1>2, WindowFacts DEF Window
      <4>2. windows'[f] = Append(windows[f], w)
        BY <3>1 DEF FlowSend, FlowInv, Types
      <4> HIDE DEF w
      <4>3. QED BY <4>1, <4>2
    <3>2. CASE ~FlowSend(f)
      BY <3>2 DEF Next, FlowSend, SendAdvertisement, SendVector, Input, Slot, vars, FlowInv, Types
    <3>3. QED BY <3>1, <3>2
  <2>3. QED BY <2>1, <2>2 DEF Extends
<1>5. ASSUME NEW n \in Node, NEW f \in Flow
      PROVE  /\ Known(n, f) \in Nat /\ Known(n, f) <= StartNumber + Len(windows[f])
             /\ Known(n, f)' \in Nat /\ Known(n, f)' <= StartNumber + Len(windows'[f])
             /\ Known(n, f) <= Known(n, f)'
             /\ seen[n][f] \in Nat /\ seen'[n][f] \in Nat /\ seen[n][f] <= seen'[n][f]
  <2>1. FlowInv => Known(n, f) \in Nat /\ Known(n, f) <= StartNumber + Len(windows[f])
    BY KnownIsNat
  <2>2. (FlowInv => Known(n, f) \in Nat /\ Known(n, f) <= StartNumber + Len(windows[f]))'
    BY KnownIsNat, PTL
  <2>3. Known(n, f) <= Known(n, f)'
    <3>1. seen[n][f] <= seen'[n][f]
      BY SeenGrows
    <3>2. OwnNumber(f) <= OwnNumber(f)'
      <4>1. Len(windows[f]) \in Nat /\ Len(windows'[f]) \in Nat /\ Len(windows[f]) <= Len(windows'[f])
        BY <1>4, GrownWindows
      <4>2. QED BY <1>2, <4>1 DEF OwnNumber
    <3>3. QED BY <3>1, <3>2 DEF Known
  <2>4. seen[n][f] \in Nat /\ seen'[n][f] \in Nat /\ seen[n][f] <= seen'[n][f]
    BY <1>1, SeenGrows DEF FlowInv, Types
  <2>5. QED BY <1>1, <2>1, <2>2, <2>3, <2>4
<1>6. QED BY <1>2, <1>3, <1>4, <1>5 DEF Forward

LEMMA StepIsOnward ==
  ASSUME 4 * (SfSize - 1) <= SlotModulus, WindowsInParts(Cuts),
         FlowInv, WindowsInv, FramedInv, NumbersInReach, [Next]_vars
  PROVE  Onward
<1>1. SlotsInOrder
  BY PartsAreInOrder
<1>2. FlowInv' /\ WindowsInv'
  BY FlowStep, WindowsStep
<1>3. Forward
  BY <1>1, StepIsForward
<1>4. ASSUME NEW f \in Flow PROVE InOrder(windows'[f])
  <2> DEFINE ws == windows'[f]
  <2>1. Framed(f)'
    BY <1>1, FramedStep DEF FramedInv, FlowInv
  <2>2. ws \in Seq(Window)
    BY <1>2 DEF FlowInv, Types
  <2>3. \A i \in 1 .. Len(ws) : InSlots(ws[i], f)
    BY <2>1 DEF Framed, InSlots, WindowsOf
  <2>4. \A i, j \in 1 .. Len(ws) : i < j => ws[i].ttl < ws[j].earliest
    <3>1. FlowWindows(f)'
      BY <1>2 DEF WindowsInv
    <3>2. ~ShareASlot(f)
      BY <1>1 DEF SlotsInOrder
    <3>3. QED BY <3>1, <3>2 DEF FlowWindows, ShareASlot, WindowsOf
  <2> HIDE DEF ws
  <2>5. InOrder(ws)
    BY <2>2, <2>3, <2>4, WindowsInOrder
  <2>6. QED BY <2>5 DEF ws
<1>5. QED BY <1>3, <1>4 DEF Onward
-----------------------------------------------------------------------------
(***************************************************************************)
(* What is in order stays so while the rest of the system goes on.         *)
(***************************************************************************)
LEMMA QueueOnward ==
  ASSUME Onward, FlowInv, NEW n \in Node, NEW f \in Flow, InQueue(n, f)
  PROVE  Queued(queue[n][f], f, windows'[f], Known(n, f)')
<1> DEFINE q == queue[n][f]
<1>1. q \in Seq(FinePacket)
  BY DEF FlowInv, Traffic, QueueName
<1>2. Queued(q, f, windows[f], Known(n, f))
  BY DEF InQueue
<1> HIDE DEF q
<1>3. ASSUME NEW i \in 1 .. Len(q) PROVE Numbered(q[i], StartNumber + Len(windows[f]))
  <2>1. q[i] \in FinePacket
    BY <1>1
  <2>2. q[i].ttl \in Nat /\ q[i].nr \in Nat
    BY <2>1 DEF FinePacket, Packet
  <2>3. q[i].kind = "flow" => q[i].nr <= OwnNumber(f)
    BY <1>2, <2>1 DEF FinePacket, Queued
  <2>4. QED BY <2>2, <2>3 DEF Numbered, OwnNumber
<1> DEFINE k == Known(n, f)
           l == Known(n, f)'
           ws == windows[f]
           vs == windows'[f]
<1>4. /\ StartNumber \in Nat /\ Grows(ws, vs) /\ k \in Nat /\ l \in Nat /\ k <= l
      /\ k <= StartNumber + Len(ws) /\ l <= StartNumber + Len(vs)
  BY DEF Onward, Forward, Grows
<1> HIDE DEF k, l, ws, vs
<1>5. Queued(q, f, vs, l)
  BY <1>2, <1>3, <1>4, QueuedMore DEF ws, k
<1>6. QED BY <1>5 DEF q, vs, l

LEMMA ConfigOnward ==
  ASSUME Onward, FlowInv, NEW n \in Node, NEW f \in Flow,
         Reaches(windows[f], Known(n, f), config[n].ttl)
  PROVE  Reaches(windows'[f], Known(n, f)', config[n].ttl)
<1>1. config[n].ttl \in Nat
  BY DEF FlowInv, Types, Configuration
<1> DEFINE k == Known(n, f)
           l == Known(n, f)'
           ws == windows[f]
           vs == windows'[f]
           t == config[n].ttl
<1>2. /\ StartNumber \in Nat /\ Grows(ws, vs) /\ k \in Nat /\ l \in Nat /\ k <= l
      /\ k <= StartNumber + Len(ws) /\ l <= StartNumber + Len(vs)
  BY DEF Onward, Forward, Grows
<1>3. Reaches(ws, k, t) /\ t \in Nat
  BY <1>1
<1> HIDE DEF k, l, ws, vs, t
<1>4. Reaches(vs, l, t)
  BY <1>2, <1>3, ReachesMore
<1>5. QED BY <1>4 DEF vs, l, t

LEMMA ArrivedOnward ==
  ASSUME Onward, NEW in \in Seq(FinePacket), NEW n, Arrived(in, n, windows, asn)
  PROVE  Arrived(in, n, windows', asn')
<1>1. ASSUME NEW k \in 1 .. Len(in), in[k].kind = "flow"
      PROVE  /\ Genuine(in[k], windows'[in[k].flow])
             /\ in[k].to = n
             /\ CycleOf(in[k].ttl) <= CycleOf(asn')
  <2> DEFINE p == in[k]
             f == p.flow
             ws == windows[f]
             vs == windows'[f]
  <2>1. p \in FinePacket
    OBVIOUS
  <2>2. f \in Flow /\ p.nr \in Nat /\ p.ttl \in Nat /\ p.nr <= StartNumber + Len(ws)
    BY <1>1, <2>1 DEF FinePacket, Packet, OwnNumber
  <2>3. Genuine(p, ws) /\ p.to = n /\ CycleOf(p.ttl) <= CycleOf(asn)
    BY <1>1 DEF Arrived
  <2>4. StartNumber \in Nat /\ Grows(ws, vs) /\ asn \in Nat /\ asn' \in Nat /\ asn <= asn'
    BY <2>2 DEF Onward, Forward, Grows
  <2>5. CycleOf(asn) <= CycleOf(asn')
    BY <2>4, CyclesKeepOrder
  <2>6. CycleOf(p.ttl) \in Nat /\ CycleOf(asn) \in Nat /\ CycleOf(asn') \in Nat
    BY <2>2, <2>4, CyclesOf
  <2> HIDE DEF p, f, ws, vs
  <2>7. Genuine(p, vs)
    BY <2>2, <2>3, <2>4, GenuineStays DEF Grows
  <2>8. CycleOf(p.ttl) <= CycleOf(asn')
    BY <2>3, <2>5, <2>6
  <2>9. QED BY <2>3, <2>7, <2>8 DEF p, f, vs
<1>2. QED BY <1>1 DEF Arrived

LEMMA LagsOnward ==
  ASSUME Onward, NEW in, NEW t \in Nat, Lags(t, in, asn)
  PROVE  Lags(t, in, asn')
<1>1. asn \in Nat /\ asn' \in Nat /\ asn <= asn'
  BY DEF Onward, Forward, Grows
<1>2. CycleOf(asn) <= CycleOf(asn')
  BY <1>1, CyclesKeepOrder
<1>3. CycleOf(t) \in Nat /\ CycleOf(asn) \in Nat /\ CycleOf(asn') \in Nat
  BY <1>1, CyclesOf
<1>4. CycleOf(t) <= CycleOf(asn)
  BY DEF Lags
<1>5. CycleOf(t) <= CycleOf(asn')
  BY <1>2, <1>3, <1>4
<1>6. QED BY <1>5 DEF Lags

\* What is left when the oldest received packet is handled.
LEMMA RestOfInput ==
  ASSUME NEW S, NEW in \in Seq(S), in # <<>>, NEW n, NEW ws, NEW a, Arrived(in, n, ws, a)
  PROVE  /\ Arrived(Tail(in), n, ws, a)
         /\ \A t : Lags(t, in, a) => Lags(t, Tail(in), a)
         /\ Head(in).kind = "flow" => Lags(Head(in).ttl, Tail(in), a)
<1> DEFINE r == Tail(in)
           p == Head(in)
<1>1. /\ Len(in) \in Nat \ {0} /\ Len(r) = Len(in) - 1 /\ p = in[1]
      /\ \A i \in 1 .. Len(r) : r[i] = in[i + 1]
  OBVIOUS
<1> HIDE DEF r, p
<1>2. \A i \in 1 .. Len(r) : i + 1 \in 1 .. Len(in) /\ 1 < i + 1
  BY <1>1
<1>3. 1 \in 1 .. Len(in)
  BY <1>1
<1>4. Arrived(r, n, ws, a)
  <2>1. ASSUME NEW k \in 1 .. Len(r), r[k].kind = "flow"
        PROVE  /\ Genuine(r[k], ws[r[k].flow]) /\ r[k].to = n
               /\ CycleOf(r[k].ttl) <= CycleOf(a)
    BY <1>1, <1>2, <2>1 DEF Arrived
  <2>2. ASSUME NEW i \in 1 .. Len(r), NEW k \in 1 .. Len(r), i < k,
               r[i].kind = "flow", r[k].kind = "flow"
        PROVE  CycleOf(r[i].ttl) <= CycleOf(r[k].ttl)
    <3>1. i + 1 < k + 1
      BY <2>2
    <3>2. QED BY <1>1, <1>2, <2>2, <3>1 DEF Arrived
  <2>3. QED BY <2>1, <2>2 DEF Arrived
<1>5. \A t : Lags(t, in, a) => Lags(t, r, a)
  BY <1>1, <1>2 DEF Lags
<1>6. p.kind = "flow" => Lags(p.ttl, r, a)
  BY <1>1, <1>2, <1>3 DEF Arrived, Lags
<1>7. QED BY <1>4, <1>5, <1>6 DEF r, p

\* A packet that comes in now, behind all that came before.
LEMMA ArrivedOneMore ==
  ASSUME NEW S, NEW in \in Seq(S), NEW p \in S, NEW n, NEW ws, NEW a \in Nat,
         Arrived(in, n, ws, a), \A k \in 1 .. Len(in) : in[k].ttl \in Nat,
         p.kind = "flow" => /\ Genuine(p, ws[p.flow]) /\ p.to = n /\ p.ttl \in Nat
                            /\ CycleOf(p.ttl) = CycleOf(a)
  PROVE  /\ Arrived(Append(in, p), n, ws, a)
         /\ \A t : Lags(t, in, a) => Lags(t, Append(in, p), a)
<1> DEFINE r == Append(in, p)
<1>0. Longer(r, in, p)
  BY AppendIsLonger
<1> HIDE DEF r
<1>1. \A k \in 1 .. Len(r) : \/ k = Len(in) + 1 /\ r[k] = p
                             \/ k \in 1 .. Len(in) /\ r[k] = in[k]
  BY <1>0 DEF Longer
<1>2. Len(in) \in Nat /\ Len(r) = Len(in) + 1
  BY <1>0 DEF Longer
<1>3. CycleOf(a) \in Nat
  BY CyclesOf
<1>4. ASSUME NEW k \in 1 .. Len(r), r[k].kind = "flow"
      PROVE  /\ Genuine(r[k], ws[r[k].flow]) /\ r[k].to = n
             /\ CycleOf(r[k].ttl) <= CycleOf(a)
  <2>1. CASE r[k] = p
    BY <1>3, <1>4, <2>1
  <2>2. CASE k \in 1 .. Len(in) /\ r[k] = in[k]
    BY <1>4, <2>2 DEF Arrived
  <2>3. QED BY <1>1, <2>1, <2>2
<1>5. ASSUME NEW i \in 1 .. Len(r), NEW k \in 1 .. Len(r), i < k,
             r[i].kind = "flow", r[k].kind = "flow"
      PROVE  CycleOf(r[i].ttl) <= CycleOf(r[k].ttl)
  <2>1. i \in 1 .. Len(in) /\ r[i] = in[i]
    BY <1>1, <1>2, <1>5
  <2>2. CASE r[k] = p
    BY <1>5, <2>1, <2>2 DEF Arrived
  <2>3. CASE k \in 1 .. Len(in) /\ r[k] = in[k]
    BY <1>5, <2>1, <2>3 DEF Arrived
  <2>4. QED BY <1>1, <2>2, <2>3
<1>6. Arrived(r, n, ws, a)
  BY <1>4, <1>5 DEF Arrived
<1>7. ASSUME NEW t, Lags(t, in, a) PROVE Lags(t, r, a)
  <2>1. CycleOf(t) <= CycleOf(a)
    BY <1>7 DEF Lags
  <2>2. ASSUME NEW k \in 1 .. Len(r), r[k].kind = "flow" PROVE CycleOf(t) <= CycleOf(r[k].ttl)
    <3>1. CASE r[k] = p
      BY <2>1, <2>2, <3>1
    <3>2. CASE k \in 1 .. Len(in) /\ r[k] = in[k]
      BY <1>7, <2>2, <3>2 DEF Lags
    <3>3. QED BY <1>1, <3>1, <3>2
  <2>3. QED BY <2>1, <2>2 DEF Lags
<1>8. QED BY <1>6, <1>7 DEF r

\* The queue of the configured flow takes the packet or stays as it is; the others stay.
LEMMA OutputAppends ==
  ASSUME Traffic, NEW n \in Node, NEW p, Output(n, p), config'[n].flow \in QueueName
  PROVE  \A m \in Node : \A g \in QueueName :
           \/ queue'[m][g] = queue[m][g]
           \/ m = n /\ g = config'[n].flow /\ queue'[m][g] = Append(queue[m][g], p)
<1> DEFINE q == config'[n].flow
           r == Append(queue[n][q], p)
           new == [queue[n] EXCEPT ![q] = r]
<1>1. queue \in [Node -> [QueueName -> Seq(FinePacket)]]
  BY DEF Traffic
<1>2. queue' = queue \/ queue' = [queue EXCEPT ![n] = new]
  BY DEF Output
<1>3. \A g \in QueueName : new[g] = IF g = q THEN r ELSE queue[n][g]
  BY <1>1
<1> HIDE DEF new, r
<1>4. ASSUME NEW m \in Node, NEW g \in QueueName
      PROVE  \/ queue'[m][g] = queue[m][g]
             \/ m = n /\ g = q /\ queue'[m][g] = r
  BY <1>1, <1>2, <1>3
<1>5. QED BY <1>4 DEF r
-----------------------------------------------------------------------------
(***************************************************************************)
(* The steps keep the order: nodes that do nothing, and vectors.           *)
(***************************************************************************)
LEMMA QueuesOnward ==
  ASSUME Onward, FlowInv, NEW n \in Node, QueuesInOrder(n), queue'[n] = queue[n]
  PROVE  QueuesInOrder(n)'
<1>1. ASSUME NEW f \in Flow PROVE InQueue(n, f)'
  <2>1. Queued(queue[n][f], f, windows'[f], Known(n, f)')
    BY QueueOnward DEF QueuesInOrder
  <2>2. QED BY <2>1 DEF InQueue
<1>2. OnlyVectors(queue'[n][BeaconQueue])
  BY DEF QueuesInOrder
<1>3. QED BY <1>1, <1>2 DEF QueuesInOrder

LEMMA ConfiguredOnward ==
  ASSUME Onward, FlowInv, NEW n \in Node, Configured(n), config'[n] = config[n]
  PROVE  Configured(n)'
<1>1. SUFFICES ASSUME NEW f \in Flow, f = config[n].flow
               PROVE  Reaches(windows'[f], Known(n, f)', config[n].ttl)
  BY DEF Configured, Known, OwnNumber
<1>2. Reaches(windows[f], Known(n, f), config[n].ttl)
  BY <1>1 DEF Configured
<1>3. QED BY <1>2, ConfigOnward

LEMMA InputOnward ==
  ASSUME Onward, FlowInv, NEW n \in Node, NodeInOrder(n), input'[n] = input[n],
         config'[n].ttl = config[n].ttl
  PROVE  /\ Arrived(input[n], n, windows, asn)'
         /\ ~IsSender(n) => Lags(config[n].ttl, input[n], asn)'
<1>1. input[n] \in Seq(FinePacket) /\ config[n].ttl \in Nat
  BY DEF FlowInv, Traffic, Types, Configuration
<1>2. Arrived(input[n], n, windows, asn) /\ (~IsSender(n) => Lags(config[n].ttl, input[n], asn))
  BY DEF NodeInOrder
<1>3. Arrived(input[n], n, windows', asn')
  BY <1>1, <1>2, ArrivedOnward
<1>4. ~IsSender(n) => Lags(config[n].ttl, input[n], asn')
  BY <1>1, <1>2, LagsOnward
<1>5. QED BY <1>3, <1>4

LEMMA NodeOnward ==
  ASSUME Onward, FlowInv, NEW n \in Node, NodeInOrder(n), queue'[n] = queue[n],
         config'[n] = config[n], input'[n] = input[n], seen'[n] = seen[n]
  PROVE  NodeInOrder(n)'
<1>1. QueuesInOrder(n)' /\ Configured(n)'
  BY QueuesOnward, ConfiguredOnward DEF NodeInOrder
<1>2. /\ Arrived(input[n], n, windows, asn)'
      /\ ~IsSender(n) => Lags(config[n].ttl, input[n], asn)'
  BY InputOnward
<1>3. QED BY <1>1, <1>2 DEF NodeInOrder, IsSender

\* A vector goes to the end of the configured queue.
LEMMA UnicastSendInOrder ==
  ASSUME Onward, FlowInv, NEW n \in Node, QueuesInOrder(n), Configured(n), UnicastSend(n)
  PROVE  /\ QueuesInOrder(n)' /\ config' = config
         /\ \A m \in Node : m # n => queue'[m] = queue[m]
<1> DEFINE v == Vector(n)
           c == config[n].flow
<1>1. /\ config' = config /\ Output(n, v) /\ v \in FinePacket /\ c \in QueueName
      /\ v.kind = "vector" /\ v.ttl = config[n].ttl
  BY VectorIsFine DEF UnicastSend, Vector, FlowInv, Types, Configuration
<1> HIDE DEF v
<1>2. \A g \in QueueName :
        \/ queue'[n][g] = queue[n][g]
        \/ g = c /\ queue'[n][g] = Append(queue[n][g], v)
  <2>1. config'[n].flow \in QueueName /\ config'[n].flow = c
    BY <1>1
  <2>2. Traffic
    BY DEF FlowInv
  <2>3. QED BY <1>1, <2>1, <2>2, OutputAppends
<1>3. \A g \in QueueName : queue[n][g] \in Seq(FinePacket)
  BY DEF FlowInv, Traffic
<1>4. ASSUME NEW f \in Flow PROVE InQueue(n, f)'
  <2> DEFINE q == queue[n][f]
             ws == windows'[f]
             k == Known(n, f)'
  <2>1. Queued(q, f, ws, k)
    BY QueueOnward DEF QueuesInOrder
  <2>2. q \in Seq(FinePacket)
    BY <1>3 DEF QueueName
  <2>3. CASE queue'[n][f] = q
    BY <2>1, <2>3 DEF InQueue
  <2>4. CASE f = c /\ queue'[n][f] = Append(q, v)
    <3>1. Reaches(windows[f], Known(n, f), config[n].ttl)
      BY <2>4 DEF Configured
    <3>2. Reaches(ws, k, v.ttl)
      BY <1>1, <3>1, ConfigOnward
    <3> HIDE DEF q, ws, k
    <3>3. Queued(Append(q, v), f, ws, k)
      BY <1>1, <2>1, <2>2, <3>2, QueuedVector
    <3>4. QED BY <2>4, <3>3 DEF InQueue, ws, k
  <2>5. QED BY <1>2, <2>3, <2>4 DEF QueueName
<1>5. OnlyVectors(queue'[n][BeaconQueue])
  <2> DEFINE q == queue[n][BeaconQueue]
  <2>1. OnlyVectors(q) /\ q \in Seq(FinePacket)
    BY <1>3 DEF QueuesInOrder, QueueName
  <2>2. queue'[n][BeaconQueue] = q \/ queue'[n][BeaconQueue] = Append(q, v)
    BY <1>2 DEF QueueName
  <2> HIDE DEF q
  <2>3. OnlyVectors(Append(q, v))
    <3> DEFINE r == Append(q, v)
    <3>1. Longer(r, q, v)
      BY <1>1, <2>1, AppendIsLonger
    <3> HIDE DEF r
    <3>2. OnlyVectors(r)
      BY <1>1, <2>1, <3>1 DEF Longer, OnlyVectors
    <3>3. QED BY <3>2 DEF r
  <2>4. QED BY <2>1, <2>2, <2>3
<1>6. \A m \in Node : m # n => queue'[m] = queue[m]
  BY <1>1 DEF Output, FlowInv, Traffic
<1>7. QED BY <1>1, <1>4, <1>5, <1>6 DEF QueuesInOrder

LEMMA SendVectorInOrder ==
  ASSUME Onward, FlowInv, OrderInv, NEW n \in Node, SendVector(n)
  PROVE  OrderInv'
<1>1. UnicastSend(n) /\ seen' = seen /\ input' = input
  BY DEF SendVector
<1>2. NodeInOrder(n)
  BY DEF OrderInv
<1>3. /\ QueuesInOrder(n)' /\ config' = config
      /\ \A m \in Node : m # n => queue'[m] = queue[m]
  BY <1>1, <1>2, UnicastSendInOrder DEF NodeInOrder
<1>4. ASSUME NEW m \in Node PROVE NodeInOrder(m)'
  <2>1. NodeInOrder(m)
    BY DEF OrderInv
  <2>2. CASE m # n
    BY <1>1, <1>3, <2>1, <2>2, NodeOnward
  <2>3. CASE m = n
    <3>1. Configured(n)'
      BY <1>2, <1>3, ConfiguredOnward DEF NodeInOrder
    <3>2. /\ Arrived(input[n], n, windows, asn)'
          /\ ~IsSender(n) => Lags(config[n].ttl, input[n], asn)'
      BY <1>1, <1>2, <1>3, InputOnward
    <3>3. QED BY <1>1, <1>2, <1>3, <2>3, <3>1, <3>2 DEF NodeInOrder, IsSender
  <2>4. QED BY <2>2, <2>3
<1>5. QED BY <1>4 DEF OrderInv

LEMMA SendAdvertisementInOrder ==
  ASSUME Onward, FlowInv, OrderInv, NEW n \in Node, SendAdvertisement(n)
  PROVE  OrderInv'
<1>1. /\ config' = [config EXCEPT ![n].flow = BeaconQueue]
      /\ seen' = seen /\ queue' = queue /\ input' = input
  BY DEF SendAdvertisement
<1> DEFINE c == [config[n] EXCEPT !.flow = BeaconQueue]
<1>2. config \in [Node -> Configuration] /\ c.flow = BeaconQueue /\ c.ttl = config[n].ttl
  BY DEF FlowInv, Types, Configuration
<1>3. config' = [config EXCEPT ![n] = c]
  BY <1>1
<1> HIDE DEF c
<1>4. ASSUME NEW m \in Node PROVE NodeInOrder(m)'
  <2>1. NodeInOrder(m)
    BY DEF OrderInv
  <2>2. CASE m # n
    BY <1>1, <1>2, <1>3, <2>1, <2>2, NodeOnward
  <2>3. CASE m = n
    <3>1. config'[m] = c
      BY <1>2, <1>3, <2>3
    <3>2. Configured(m)'
      BY <1>2, <3>1, FlowAssumption DEF Configured
    <3>3. /\ Arrived(input[m], m, windows, asn)'
          /\ ~IsSender(m) => Lags(config[m].ttl, input[m], asn)'
      BY <1>1, <1>2, <2>1, <2>3, <3>1, InputOnward
    <3>4. QueuesInOrder(m)'
      BY <1>1, <2>1, QueuesOnward DEF NodeInOrder
    <3>5. QED BY <1>1, <2>1, <3>2, <3>3, <3>4 DEF NodeInOrder, IsSender
  <2>4. QED BY <2>2, <2>3
<1>5. QED BY <1>4 DEF OrderInv
-----------------------------------------------------------------------------
(***************************************************************************)
(* A new packet goes behind what is in the queue.                          *)
(***************************************************************************)
LEMMA PacketInOrder ==
  ASSUME Onward, FlowInv, NEW n \in Node, NEW f \in Flow, QueuesInOrder(n),
         NEW p \in FinePacket', p.kind = "flow", p.flow = f, Genuine(p, windows'[f]),
         Known(n, f) < p.nr, p.nr = Known(n, f)', Output(n, p), config'[n].flow = f
  PROVE  QueuesInOrder(n)' /\ \A m \in Node : m # n => queue'[m] = queue[m]
<1>1. \A g \in QueueName :
        \/ queue'[n][g] = queue[n][g]
        \/ g = f /\ queue'[n][g] = Append(queue[n][g], p)
  <2>1. config'[n].flow \in QueueName /\ Traffic
    BY DEF QueueName, FlowInv
  <2>2. \A m \in Node : \A g \in QueueName :
          \/ queue'[m][g] = queue[m][g]
          \/ m = n /\ g = config'[n].flow /\ queue'[m][g] = Append(queue[m][g], p)
    BY <2>1, OutputAppends
  <2>3. QED BY <2>2
<1>2. \A g \in Flow : queue[n][g] \in Seq(FinePacket) /\ Queued(queue[n][g], g, windows'[g], Known(n, g)')
  BY QueueOnward DEF FlowInv, Traffic, QueuesInOrder, QueueName
<1>3. ASSUME NEW g \in Flow PROVE InQueue(n, g)'
  <2>1. CASE queue'[n][g] = queue[n][g]
    BY <1>2, <2>1 DEF InQueue
  <2>2. CASE g = f /\ queue'[n][g] = Append(queue[n][g], p)
    <3> DEFINE q == queue[n][f]
               ws == windows'[f]
               vs == windows[f]
               k == Known(n, f)
    <3>1. q \in Seq(FinePacket) /\ InQueue(n, f)
      BY <1>2 DEF QueuesInOrder
    <3>2. /\ StartNumber \in Nat /\ Grows(vs, ws) /\ k \in Nat /\ k <= StartNumber + Len(vs)
          /\ p.nr \in Nat /\ p.nr <= StartNumber + Len(ws) /\ k < p.nr
      BY DEF Onward, Forward, Grows
    <3>3. /\ ws \in Seq(Window) /\ InOrder(ws) /\ Len(vs) \in Nat /\ Len(ws) \in Nat
          /\ Len(vs) <= Len(ws)
      <4>1. Extends(vs, ws) /\ InOrder(ws)
        BY <3>2 DEF Grows
      <4>2. QED BY <4>1, GrownWindows DEF Extends
    <3>4. /\ \A i \in 1 .. Len(q) : q[i].ttl \in Nat
          /\ \A i \in 1 .. Len(q) : Numbered(q[i], StartNumber + Len(vs))
      <4>1. ASSUME NEW i \in 1 .. Len(q) PROVE Numbered(q[i], StartNumber + Len(vs))
        <5>1. q[i] \in FinePacket /\ (q[i].kind = "flow" => q[i].flow = f)
          BY <3>1 DEF InQueue, Queued
        <5>2. QED BY <5>1 DEF FinePacket, Packet, Numbered, OwnNumber
      <4>2. QED BY <4>1 DEF Numbered
    <3>5. Queued(q, f, vs, k)
      BY <3>1 DEF InQueue
    <3> HIDE DEF q, ws, vs, k
    <3>6. Queued(q, f, ws, k)
      <4>1. k <= StartNumber + Len(ws) /\ k <= k
        BY <3>2, <3>3
      <4>2. QED BY <3>2, <3>4, <3>5, <4>1, QueuedMore
    <3> DEFINE T == FinePacket \cup {p}
    <3>7. q \in Seq(T) /\ p \in T
      BY <3>1
    <3> HIDE DEF T
    <3>8. Queued(Append(q, p), f, ws, p.nr)
      <4>1. Genuine(p, ws)
        BY DEF ws
      <4>2. QED BY <3>2, <3>3, <3>4, <3>6, <3>7, <4>1, QueuedPacket
    <3>9. QED BY <2>2, <3>8 DEF InQueue, q, ws
  <2>3. QED BY <1>1, <2>1, <2>2 DEF QueueName
<1>4. OnlyVectors(queue'[n][BeaconQueue])
  <2>1. BeaconQueue \in QueueName /\ BeaconQueue # f
    BY FlowAssumption DEF QueueName
  <2>2. queue'[n][BeaconQueue] = queue[n][BeaconQueue]
    BY <1>1, <2>1
  <2>3. QED BY <2>2 DEF QueuesInOrder
<1>5. \A m \in Node : m # n => queue'[m] = queue[m]
  BY DEF Output, FlowInv, Traffic
<1>6. QED BY <1>3, <1>4, <1>5 DEF QueuesInOrder

\* What master_routing_send puts out.
LEMMA NewPacket ==
  ASSUME FlowInv, FlowInv', NEW f \in Flow, FlowSend(f)
  PROVE  \E p \in FinePacket' :
           /\ p.kind = "flow" /\ p.flow = f /\ p.nr = OwnNumber(f)' /\ Genuine(p, windows'[f])
           /\ p.to = ForwardTo[SenderOf[f]][f] /\ ~p.heard /\ Output(SenderOf[f], p)
<1> DEFINE n == SenderOf[f]
           w == NextWindow(f)
           p == [kind |-> "flow", flow |-> f, nr |-> OwnNumber(f) + 1, to |-> ForwardTo[n][f],
                 earliest |-> w.earliest, ttl |-> w.ttl, heard |-> FALSE]
           c == [flow |-> f, earliest |-> w.earliest, ttl |-> w.ttl]
<1>1. n \in Node /\ ForwardTo[n][f] \in Node
  <2>1. n \in Node
    BY FlowAssumption
  <2>2. ForwardTo[n] \in [Flow -> Node \cup {NoNode}] /\ ForwardTo[n][f] # NoNode
    BY <2>1, FlowAssumption
  <2>3. QED BY <2>1, <2>2
<1>2. w.earliest \in Nat /\ w.ttl \in Nat /\ w \in Window
  <2>1. w \in Window
    BY WindowFacts DEF FlowInv, Types, Window
  <2>2. QED BY <2>1 DEF Window
<1>3. /\ windows' = [windows EXCEPT ![f] = Append(@, w)] /\ config' = [config EXCEPT ![n] = c]
      /\ Output(n, p)
  BY DEF FlowSend
<1>4. windows[f] \in Seq(Window) /\ windows'[f] = Append(windows[f], w)
  BY <1>3 DEF FlowInv, Types
<1>5. config' \in [Node -> Configuration'] /\ config'[n] = c
  BY <1>1, <1>3 DEF FlowInv, Types
<1>6. /\ p.kind = "flow" /\ p.flow = f /\ p.nr = OwnNumber(f) + 1 /\ p.to = ForwardTo[n][f]
      /\ p.earliest = w.earliest /\ p.ttl = w.ttl /\ p.heard = FALSE
  OBVIOUS
<1> HIDE DEF w
<1>7. /\ StartNumber \in Nat /\ Len(windows[f]) \in Nat /\ Len(windows'[f]) = Len(windows[f]) + 1
      /\ windows'[f][Len(windows[f]) + 1] = w
  <2>1. Longer(Append(windows[f], w), windows[f], w)
    BY <1>2, <1>4, AppendIsLonger
  <2>2. QED BY <1>4, <2>1, FlowAssumption DEF Longer
<1>8. p.nr = StartNumber + (Len(windows[f]) + 1) /\ p.nr = OwnNumber(f)'
  <2>1. OwnNumber(f) = StartNumber + Len(windows[f]) /\ OwnNumber(f)' = StartNumber + Len(windows'[f])
    BY DEF OwnNumber
  <2>2. OwnNumber(f) + 1 = StartNumber + (Len(windows[f]) + 1)
    BY <1>7, <2>1
  <2>3. QED BY <1>6, <1>7, <2>1, <2>2
<1>9. p \in FinePacket'
  <2> DEFINE nr == StartNumber + (Len(windows[f]) + 1)
             d == ForwardTo[n][f]
  <2>1. p = [kind |-> "flow", flow |-> f, nr |-> nr, to |-> d,
             earliest |-> w.earliest, ttl |-> w.ttl, heard |-> FALSE]
    BY <1>6, <1>8
  <2>2. nr \in Nat /\ d \in Node /\ nr = OwnNumber(f)'
    BY <1>1, <1>7 DEF OwnNumber
  <2>3. w.earliest <= Horizon'
    <3>1. c.earliest <= Horizon'
      BY <1>1, <1>5 DEF Configuration
    <3>2. QED BY <3>1
  <2> HIDE DEF p, nr, d
  <2>4. /\ p \in [kind : {"flow", "vector"}, flow : Flow \cup {BeaconQueue}, nr : Nat, to : Node,
                  earliest : Nat, ttl : Nat, heard : BOOLEAN]
        /\ p.flow = f /\ p.nr = nr /\ p.earliest = w.earliest
    BY <1>2, <2>1, <2>2
  <2>5. ASSUME NEW x \in Packet, x.flow = f, x.nr = OwnNumber(f)', x.earliest <= Horizon'
        PROVE  x \in FinePacket'
    <3>1. x.nr \in Nat /\ x.flow \in Flow /\ x.nr <= OwnNumber(x.flow)'
      BY <2>2, <2>5 DEF Packet
    <3>2. QED BY <2>5, <3>1 DEF FinePacket, Packet
  <2>6. p \in Packet /\ p.flow = f /\ p.nr = OwnNumber(f)' /\ p.earliest <= Horizon'
    BY <2>2, <2>3, <2>4 DEF Packet
  <2>7. QED BY <2>5, <2>6
<1> HIDE DEF p, c
<1>10. Genuine(p, windows'[f])
  <2>1. StartNumber < p.nr /\ p.nr - StartNumber = Len(windows[f]) + 1
    BY <1>7, <1>8
  <2>2. p.earliest = windows'[f][p.nr - StartNumber].earliest
        /\ p.ttl = windows'[f][p.nr - StartNumber].ttl
    BY <1>6, <1>7, <2>1
  <2>3. \E m \in Node : p.to = ForwardTo[m][p.flow]
    BY <1>1, <1>6
  <2>4. QED BY <2>1, <2>2, <2>3 DEF Genuine
<1>11. QED BY <1>3, <1>6, <1>8, <1>9, <1>10

LEMMA FlowSendInOrder ==
  ASSUME Onward, FlowInv, FlowInv', OrderInv, NEW f \in Flow, FlowSend(f)
  PROVE  OrderInv'
<1> DEFINE n == SenderOf[f]
           w == NextWindow(f)
           c == [flow |-> f, earliest |-> w.earliest, ttl |-> w.ttl]
<1>1. n \in Node /\ ForwardTo[n][f] \in Node
  <2>1. n \in Node
    BY FlowAssumption
  <2>2. ForwardTo[n] \in [Flow -> Node \cup {NoNode}] /\ ForwardTo[n][f] # NoNode
    BY <2>1, FlowAssumption
  <2>3. QED BY <2>1, <2>2
<1>2. w.earliest \in Nat /\ w.ttl \in Nat /\ w \in Window
  <2>1. w \in Window
    BY WindowFacts DEF FlowInv, Types, Window
  <2>2. QED BY <2>1 DEF Window
<1>3. /\ windows' = [windows EXCEPT ![f] = Append(@, w)] /\ config' = [config EXCEPT ![n] = c]
      /\ asn' = asn /\ seen' = seen /\ input' = input
  BY DEF FlowSend
<1>4. /\ windows[f] \in Seq(Window) /\ windows'[f] = Append(windows[f], w)
      /\ \A g \in Flow : g # f => windows'[g] = windows[g]
  BY <1>3 DEF FlowInv, Types
<1>5. /\ config' \in [Node -> Configuration'] /\ config'[n] = c /\ c.flow = f /\ c.ttl = w.ttl
      /\ \A m \in Node : m # n => config'[m] = config[m]
  BY <1>1, <1>3 DEF FlowInv, Types
<1>6. PICK p \in FinePacket' :
        /\ p.kind = "flow" /\ p.flow = f /\ p.nr = OwnNumber(f)' /\ Genuine(p, windows'[f])
        /\ Output(n, p)
  BY NewPacket
<1> HIDE DEF w
<1>7. /\ StartNumber \in Nat /\ Len(windows[f]) \in Nat /\ Len(windows'[f]) = Len(windows[f]) + 1
      /\ windows'[f][Len(windows[f]) + 1] = w
  <2>1. Longer(Append(windows[f], w), windows[f], w)
    BY <1>2, <1>4, AppendIsLonger
  <2>2. QED BY <1>4, <2>1, FlowAssumption DEF Longer
<1>8. /\ Known(n, f) = StartNumber + Len(windows[f])
      /\ Known(n, f)' = StartNumber + (Len(windows[f]) + 1)
      /\ p.nr = StartNumber + (Len(windows[f]) + 1)
  BY <1>6, <1>7 DEF Known, OwnNumber
<1> HIDE DEF c
<1>9. NodeInOrder(n)
  BY <1>1 DEF OrderInv
<1>10. QueuesInOrder(n)' /\ \A m \in Node : m # n => queue'[m] = queue[m]
  <2>1. Known(n, f) < p.nr /\ p.nr = Known(n, f)'
    BY <1>7, <1>8
  <2>2. QueuesInOrder(n)
    BY <1>9 DEF NodeInOrder
  <2>3. config'[n].flow = f
    BY <1>5
  <2> HIDE DEF n
  <2>4. QED BY <1>1, <1>3, <1>6, <2>1, <2>2, <2>3, PacketInOrder DEF n
<1>11. Configured(n)'
  <2>1. Reaches(windows'[f], Known(n, f)', w.ttl)
    <3>1. Known(n, f)' - StartNumber = Len(windows[f]) + 1 /\ StartNumber < Known(n, f)'
      BY <1>7, <1>8
    <3>2. CycleOf(w.ttl) \in Nat
      BY <1>2, CyclesOf
    <3>3. QED BY <1>7, <3>1, <3>2 DEF Reaches
  <2>2. QED BY <1>5, <2>1 DEF Configured
<1>12. ASSUME NEW m \in Node PROVE NodeInOrder(m)'
  <2>1. NodeInOrder(m)
    BY DEF OrderInv
  <2>2. CASE m # n
    BY <1>3, <1>5, <1>10, <2>1, <2>2, NodeOnward
  <2>3. CASE m = n
    <3>1. Arrived(input[m], m, windows, asn)'
      <4>1. input[m] \in Seq(FinePacket) /\ Arrived(input[m], m, windows, asn)
        BY <2>1 DEF FlowInv, Traffic, NodeInOrder
      <4>2. Arrived(input[m], m, windows', asn')
        BY <4>1, ArrivedOnward
      <4>3. QED BY <1>3, <4>2
    <3>2. IsSender(m)
      BY <2>3 DEF IsSender
    <3>3. QED BY <1>3, <1>10, <1>11, <2>1, <2>3, <3>1, <3>2 DEF NodeInOrder, IsSender
  <2>4. QED BY <2>2, <2>3
<1>13. QED BY <1>12 DEF OrderInv
-----------------------------------------------------------------------------
(***************************************************************************)
(* The process handles a received packet.                                  *)
(***************************************************************************)
HandledInOrder(n) ==
  /\ \A m \in Node : m # n => /\ queue'[m] = queue[m] /\ config'[m] = config[m]
                              /\ seen'[m] = seen[m]
  /\ QueuesInOrder(n)' /\ Configured(n)'
  /\ ~IsSender(n) => Lags(config'[n].ttl, Tail(input[n]), asn)

LEMMA VectorHandled ==
  ASSUME Onward, FlowInv, NEW n \in Node, NodeInOrder(n), InputVector(n),
         \A t : Lags(t, input[n], asn) => Lags(t, Tail(input[n]), asn)
  PROVE  HandledInOrder(n)
<1>1. QueuesInOrder(n) /\ Configured(n)
  BY DEF NodeInOrder
<1>2. seen' = seen
  BY DEF InputVector
<1>3. /\ QueuesInOrder(n)' /\ config' = config
      /\ \A m \in Node : m # n => queue'[m] = queue[m]
  <2>1. CASE n = Coordinator
    <3>1. config' = config /\ queue' = queue
      BY <2>1 DEF InputVector
    <3>2. QED BY <1>1, <3>1, QueuesOnward
  <2>2. CASE n # Coordinator
    BY <1>1, <2>2, UnicastSendInOrder DEF InputVector
  <2>3. QED BY <2>1, <2>2
<1>4. Configured(n)'
  BY <1>1, <1>3, ConfiguredOnward
<1>5. ~IsSender(n) => Lags(config'[n].ttl, Tail(input[n]), asn)
  BY <1>3 DEF NodeInOrder
<1>6. QED BY <1>2, <1>3, <1>4, <1>5 DEF HandledInOrder

LEMMA ReceiverHandled ==
  ASSUME Onward, FlowInv, NEW n \in Node, NodeInOrder(n), NEW p, InputAtReceiver(n, p),
         \A t : Lags(t, input[n], asn) => Lags(t, Tail(input[n]), asn)
  PROVE  HandledInOrder(n)
<1>1. QueuesInOrder(n) /\ Configured(n)
  BY DEF NodeInOrder
<1>2. config' = config /\ queue' = queue /\ \A m \in Node : m # n => seen'[m] = seen[m]
  BY DEF InputAtReceiver, FlowInv, Types
<1>3. QueuesInOrder(n)' /\ Configured(n)'
  BY <1>1, <1>2, QueuesOnward, ConfiguredOnward
<1>4. ~IsSender(n) => Lags(config'[n].ttl, Tail(input[n]), asn)
  BY <1>2 DEF NodeInOrder
<1>5. QED BY <1>2, <1>3, <1>4 DEF HandledInOrder

\* A relay is no sender, so that what it configures is the last thing it let pass.
LEMMA RelayHandled ==
  ASSUME SendersDoNotRelay, Onward, FlowInv, FlowInv', NEW n \in Node, NodeInOrder(n),
         windows' = windows, asn' = asn,
         NEW p \in FinePacket, p.kind = "flow", InputAtRelay(n, p),
         2 * (OwnNumber(p.flow) - p.nr) < NumberModulus,
         Genuine(p, windows[p.flow]), p.to = n,
         ~IsSender(n) => CycleOf(config[n].ttl) <= CycleOf(p.ttl),
         Lags(p.ttl, Tail(input[n]), asn),
         \A t : Lags(t, input[n], asn) => Lags(t, Tail(input[n]), asn)
  PROVE  HandledInOrder(n)
<1> DEFINE f == p.flow
<1>1. /\ f \in Flow /\ p.nr \in Nat /\ p.ttl \in Nat /\ p.earliest \in Nat
      /\ StartNumber \in Nat /\ n # ReceiverOf[f]
  BY FlowAssumption DEF FinePacket, Packet, InputAtRelay
<1>2. ~IsSender(n)
  <2>1. PICK m \in Node : p.to = ForwardTo[m][f]
    BY DEF Genuine
  <2>2. QED BY <1>1, <2>1 DEF IsSender, SendersDoNotRelay
<1>3. \A g \in Flow : Known(n, g) = seen[n][g] /\ Known(n, g)' = seen'[n][g]
  BY <1>2 DEF Known, IsSender
<1>4. QueuesInOrder(n) /\ Configured(n) /\ Lags(config[n].ttl, input[n], asn)
  BY <1>2 DEF NodeInOrder
<1>5. CASE ForwardTo[n][f] # NoNode /\ IsNew(n, p)
  <2> DEFINE to == ForwardTo[n][f]
             r == [p EXCEPT !.to = to, !.heard = FALSE]
             c == [flow |-> f, earliest |-> p.earliest, ttl |-> p.ttl]
             new == [seen[n] EXCEPT ![f] = p.nr]
  <2>1. to \in Node
    <3>1. ForwardTo[n] \in [Flow -> Node \cup {NoNode}]
      BY FlowAssumption
    <3>2. QED BY <1>1, <1>5, <3>1
  <2>2. seen' = [seen EXCEPT ![n] = new]
    BY <1>5 DEF InputAtRelay
  <2>3. seen \in [Node -> [Flow -> Nat]]
    BY DEF FlowInv, Types
  <2>4. new[f] = p.nr
    BY <1>1, <2>3
  <2> HIDE DEF new
  <2>5. seen'[n][f] = p.nr /\ \A m \in Node : m # n => seen'[m] = seen[m]
    BY <2>2, <2>3, <2>4
  <2>6. seen[n][f] < p.nr
    BY <1>5, NewIsHigher
  <2>7. /\ StartNumber < p.nr
        /\ p.ttl = windows'[f][p.nr - StartNumber].ttl
        /\ CycleOf(p.ttl) \in Nat
    BY <1>1, CyclesOf DEF Genuine
  <2>8. \A m \in Node : m # n => config'[m] = config[m]
    BY <1>5 DEF InputAtRelay, FlowInv, Types
  <2>9. config \in [Node -> [flow : QueueName, earliest : Nat, ttl : Nat]]
    BY DEF FlowInv, Types, Configuration
  <2>10. CASE InTime(n, p)
    <3>1. config' = [config EXCEPT ![n] = c] /\ Output(n, r)
      BY <1>5, <2>10 DEF InputAtRelay
    <3>2. c.flow = f /\ c.ttl = p.ttl
      OBVIOUS
    <3> HIDE DEF c
    <3>3. config'[n] = c
      BY <2>9, <3>1
    <3>4. r \in FinePacket
      BY <2>1, RelayedIsFine
    <3>5. /\ r.kind = "flow" /\ r.flow = f /\ r.nr = p.nr /\ r.to = to
          /\ r.earliest = p.earliest /\ r.ttl = p.ttl
      BY DEF FinePacket, Packet
    <3> HIDE DEF r
    <3>6. FinePacket' = FinePacket
      BY SameFine
    <3>7. Genuine(r, windows'[f])
      BY <2>1, <3>5 DEF Genuine
    <3>8. Known(n, f) < r.nr /\ r.nr = Known(n, f)' /\ config'[n].flow = f /\ r \in FinePacket'
      BY <1>1, <1>3, <2>5, <2>6, <3>2, <3>3, <3>4, <3>5, <3>6
    <3> HIDE DEF f, to
    <3>9. QueuesInOrder(n)' /\ \A m \in Node : m # n => queue'[m] = queue[m]
      BY <1>1, <1>4, <3>1, <3>5, <3>7, <3>8, PacketInOrder
    <3>10. Configured(n)'
      <4>1. Reaches(windows'[f], Known(n, f)', p.ttl)
        BY <1>1, <1>3, <2>5, <2>7 DEF Reaches
      <4>2. QED BY <3>2, <3>3, <4>1 DEF Configured, f
    <3>11. QED BY <2>5, <2>8, <3>2, <3>3, <3>9, <3>10 DEF HandledInOrder
  <2>11. CASE ~InTime(n, p)
    <3> DEFINE d == [config[n] EXCEPT !.flow = f]
    <3>1. config' = [config EXCEPT ![n] = d] /\ queue' = queue
      BY <1>5, <2>11 DEF InputAtRelay
    <3>2. d.flow = f /\ d.ttl = config[n].ttl
      BY <2>9
    <3> HIDE DEF d
    <3>3. config'[n] = d
      BY <2>9, <3>1
    <3>4. QueuesInOrder(n)'
      BY <1>4, <3>1, QueuesOnward
    <3>5. Configured(n)'
      <4>1. Reaches(windows'[f], p.nr, config[n].ttl)
        BY <1>2, <2>7 DEF Reaches
      <4>2. Reaches(windows'[f], Known(n, f)', config[n].ttl)
        BY <1>1, <1>3, <2>5, <4>1
      <4>3. QED BY <3>2, <3>3, <4>2 DEF Configured
    <3>6. Lags(config'[n].ttl, Tail(input[n]), asn)
      BY <1>4, <3>2, <3>3
    <3>7. QED BY <2>5, <2>8, <3>1, <3>4, <3>5, <3>6 DEF HandledInOrder
  <2>12. QED BY <2>10, <2>11
<1>6. CASE ~(ForwardTo[n][f] # NoNode /\ IsNew(n, p))
  <2>1. seen' = seen /\ config' = config /\ queue' = queue
    BY <1>6 DEF InputAtRelay
  <2>2. QueuesInOrder(n)' /\ Configured(n)'
    BY <1>4, <2>1, QueuesOnward, ConfiguredOnward
  <2>3. QED BY <1>4, <2>1, <2>2 DEF HandledInOrder
<1>7. QED BY <1>5, <1>6

LEMMA InputInOrder ==
  ASSUME SendersDoNotRelay, Onward, FlowInv, FlowInv', NumbersInReach, OrderInv,
         NEW n \in Node, Input(n)
  PROVE  OrderInv'
<1> DEFINE in == input[n]
           p == Head(in)
<1>1. /\ in \in Seq(FinePacket) /\ in # <<>>
      /\ input' = [input EXCEPT ![n] = Tail(@)] /\ windows' = windows /\ asn' = asn
  BY DEF Input, FlowInv, Traffic
<1>2. /\ p \in FinePacket /\ p = in[1] /\ 1 \in 1 .. Len(in) /\ Tail(in) \in Seq(FinePacket)
  BY <1>1
<1>3. NodeInOrder(n) /\ Arrived(in, n, windows, asn)
  BY DEF OrderInv, NodeInOrder
<1>4. /\ Arrived(Tail(in), n, windows, asn)
      /\ \A t : Lags(t, in, asn) => Lags(t, Tail(in), asn)
      /\ p.kind = "flow" => Lags(p.ttl, Tail(in), asn)
  BY <1>1, <1>3, RestOfInput
<1>5. HandledInOrder(n)
  <2>1. CASE p.kind = "vector"
    <3>1. InputVector(n)
      BY <2>1 DEF Input
    <3>2. QED BY <1>3, <1>4, <3>1, VectorHandled
  <2>2. CASE p.kind = "flow"
    <3>1. InputAtReceiver(n, p) \/ InputAtRelay(n, p)
      BY <2>2 DEF Input
    <3>2. 2 * (OwnNumber(p.flow) - p.nr) < NumberModulus
      BY <1>2, <2>2 DEF NumbersInReach
    <3>3. Genuine(p, windows[p.flow]) /\ p.to = n
      BY <1>2, <1>3, <2>2 DEF Arrived
    <3>4. ~IsSender(n) => CycleOf(config[n].ttl) <= CycleOf(p.ttl)
      BY <1>2, <1>3, <2>2 DEF NodeInOrder, Lags
    <3> HIDE DEF p
    <3>5. CASE InputAtReceiver(n, p)
      BY <1>3, <1>4, <3>5, ReceiverHandled
    <3>6. CASE InputAtRelay(n, p)
      BY <1>1, <1>2, <1>3, <1>4, <2>2, <3>2, <3>3, <3>4, <3>6, RelayHandled
    <3>7. QED BY <3>1, <3>5, <3>6
  <2>3. QED BY <1>2, <2>1, <2>2 DEF FinePacket, Packet
<1>6. input \in [Node -> Seq(FinePacket)]
  BY DEF FlowInv, Traffic
<1> HIDE DEF p
<1>7. input'[n] = Tail(in) /\ \A m \in Node : m # n => input'[m] = input[m]
  BY <1>1, <1>6
<1>8. ASSUME NEW m \in Node PROVE NodeInOrder(m)'
  <2>1. NodeInOrder(m)
    BY DEF OrderInv
  <2>2. CASE m # n
    BY <1>5, <1>7, <2>1, <2>2, NodeOnward DEF HandledInOrder
  <2>3. CASE m = n
    <3>1. \A f \in Flow : StartNumber <= seen'[n][f]
      <4>1. \A f \in Flow : StartNumber <= seen[n][f] /\ seen[n][f] <= seen'[n][f]
              /\ seen[n][f] \in Nat /\ seen'[n][f] \in Nat /\ StartNumber \in Nat
        BY <1>3 DEF NodeInOrder, Onward, Forward, Grows
      <4>2. QED BY <4>1
    <3>2. Arrived(input'[n], n, windows', asn')
      BY <1>1, <1>4, <1>7
    <3>3. ~IsSender(n) => Lags(config'[n].ttl, input'[n], asn')
      BY <1>1, <1>5, <1>7 DEF HandledInOrder
    <3>4. QED BY <1>5, <2>3, <3>1, <3>2, <3>3 DEF HandledInOrder, NodeInOrder, IsSender
  <2>4. QED BY <2>2, <2>3
<1>9. QED BY <1>8 DEF OrderInv
-----------------------------------------------------------------------------
(***************************************************************************)
(* A slot takes packets from the head of a queue.                          *)
(***************************************************************************)
LEMMA UnexpiredRest ==
  ASSUME NEW S, NEW q \in Seq(S)
  PROVE  RestOf(Unexpired(q), q)
<1> DEFINE alive == { i \in 1 .. Len(q) : SlotBefore(asn - 1, q[i].ttl) }
<1>1. Unexpired(q) = IF alive = {} THEN <<>> ELSE SubSeq(q, Min(alive), Len(q))
  BY DEF Unexpired
<1>2. alive \subseteq 1 .. Len(q) /\ Len(q) \in Nat
  OBVIOUS
<1> HIDE DEF alive
<1>3. CASE alive = {}
  <2>1. Unexpired(q) = <<>>
    BY <1>1, <1>3
  <2>2. Len(<<>>) + 0 <= Len(q) /\ 0 \in Nat /\ Len(<<>>) = 0
    BY <1>2
  <2>3. QED BY <2>1, <2>2 DEF RestOf
<1>4. CASE alive # {}
  <2> DEFINE k == Min(alive)
  <2>1. \E x \in alive : \A y \in alive : x <= y
    <3>1. alive \subseteq Nat
      BY <1>2
    <3>2. QED BY <1>4, <3>1, LeastNat
  <2>2. k \in 1 .. Len(q)
    BY <1>2, <2>1 DEF Min
  <2> HIDE DEF k
  <2> DEFINE r == SubSeq(q, k, Len(q))
  <2>3. Len(r) = Len(q) - k + 1 /\ \A i \in 1 .. Len(r) : r[i] = q[i + k - 1]
    BY <2>2
  <2> HIDE DEF r
  <2> DEFINE d == k - 1
  <2>4. d \in Nat /\ Len(r) + d <= Len(q) /\ \A i \in 1 .. Len(r) : i + k - 1 = i + d
    BY <1>2, <2>2, <2>3
  <2> HIDE DEF d
  <2>5. \A i \in 1 .. Len(r) : Alike(r[i], q[i + d])
    BY <2>3, <2>4 DEF Alike
  <2>6. RestOf(r, q)
    BY <2>4, <2>5 DEF RestOf
  <2>7. QED BY <1>1, <1>4, <2>6 DEF r, k
<1>5. QED BY <1>3, <1>4

LEMMA WholeIsRest ==
  ASSUME NEW S, NEW q \in Seq(S)
  PROVE  RestOf(q, q)
<1>1. Len(q) \in Nat /\ 0 \in Nat /\ Len(q) + 0 <= Len(q) /\ \A i \in 1 .. Len(q) : i + 0 = i
  OBVIOUS
<1>2. \A i \in 1 .. Len(q) : Alike(q[i], q[i + 0])
  BY <1>1 DEF Alike
<1>3. QED BY <1>1, <1>2 DEF RestOf

LEMMA TailIsRest ==
  ASSUME NEW S, NEW r \in Seq(S), r # <<>>, NEW q, Len(q) \in Nat, RestOf(r, q)
  PROVE  RestOf(Tail(r), q)
<1>1. PICK d \in Nat : Len(r) + d <= Len(q) /\ \A i \in 1 .. Len(r) : Alike(r[i], q[i + d])
  BY DEF RestOf
<1> DEFINE u == Tail(r)
           e == d + 1
<1>2. Len(r) \in Nat \ {0} /\ Len(u) = Len(r) - 1 /\ \A i \in 1 .. Len(u) : u[i] = r[i + 1]
  OBVIOUS
<1> HIDE DEF u
<1>3. /\ e \in Nat /\ Len(u) + e <= Len(q)
      /\ \A i \in 1 .. Len(u) : i + 1 \in 1 .. Len(r) /\ (i + 1) + d = i + e
  BY <1>1, <1>2
<1> HIDE DEF e
<1>4. ASSUME NEW i \in 1 .. Len(u) PROVE Alike(u[i], q[i + e])
  <2>1. Alike(r[i + 1], q[(i + 1) + d])
    BY <1>1, <1>3
  <2>2. QED BY <1>2, <1>3, <2>1
<1>5. QED BY <1>3, <1>4 DEF RestOf, u

LEMMA HeardIsRest ==
  ASSUME NEW r \in Seq(FinePacket), r # <<>>, NEW q, Len(q) \in Nat, RestOf(r, q), NEW b \in BOOLEAN
  PROVE  RestOf(<<[Head(r) EXCEPT !.heard = b]>> \o Tail(r), q)
<1>1. PICK d \in Nat : Len(r) + d <= Len(q) /\ \A i \in 1 .. Len(r) : Alike(r[i], q[i + d])
  BY DEF RestOf
<1> DEFINE h == [Head(r) EXCEPT !.heard = b]
           t == Tail(r)
           u == <<h>> \o t
<1>2. /\ Len(r) \in Nat \ {0} /\ Head(r) = r[1] /\ r[1] \in FinePacket
      /\ t \in Seq(FinePacket) /\ Len(t) = Len(r) - 1 /\ \A i \in 1 .. Len(t) : t[i] = r[i + 1]
  OBVIOUS
<1>3. h \in FinePacket /\ Alike(h, r[1])
  <2> DEFINE p == Head(r)
  <2>1. p \in FinePacket
    BY <1>2
  <2>2. h = [p EXCEPT !.heard = b]
    OBVIOUS
  <2> HIDE DEF p, h
  <2>3. h \in FinePacket
    BY <2>1, <2>2, HeardIsFine
  <2>4. Alike(h, p)
    BY <2>1, <2>2 DEF Alike, FinePacket, Packet
  <2>5. QED BY <1>2, <2>3, <2>4 DEF p
<1> HIDE DEF h, t
<1>4. Len(u) = Len(r) /\ u[1] = h /\ \A i \in 2 .. Len(u) : u[i] = r[i]
  <2>1. Len(u) = 1 + Len(t) /\ u[1] = h /\ \A i \in 2 .. Len(u) : u[i] = t[i - 1]
    BY <1>2, <1>3
  <2> HIDE DEF u
  <2>2. ASSUME NEW i \in 2 .. Len(u) PROVE u[i] = r[i]
    <3>1. i - 1 \in 1 .. Len(t) /\ (i - 1) + 1 = i
      BY <1>2, <2>1
    <3>2. QED BY <1>2, <2>1, <3>1
  <2>3. QED BY <1>2, <2>1, <2>2
<1> HIDE DEF u
<1>5. ASSUME NEW i \in 1 .. Len(u) PROVE Alike(u[i], q[i + d])
  <2>1. Alike(r[i], q[i + d])
    BY <1>1, <1>4
  <2>2. Alike(u[i], r[i])
    <3>1. CASE i = 1
      BY <1>3, <1>4, <3>1
    <3>2. CASE i # 1
      <4>1. i \in 2 .. Len(u)
        BY <1>2, <1>4, <3>2
      <4>2. QED BY <1>4, <4>1 DEF Alike
    <3>3. QED BY <3>1, <3>2
  <2>3. QED BY <2>1, <2>2 DEF Alike
<1>6. RestOf(u, q)
  BY <1>1, <1>4, <1>5 DEF RestOf
<1>7. QED BY <1>6 DEF u, h, t

LEMMA AfterIsRest ==
  ASSUME FlowInv, NEW n \in Node, NEW S, NEW got, NEW acked, n \in S => SlotQueue(n) # <<>>
  PROVE  RestOf(After(n, S, got, acked), queue[n][Here.flow])
<1> DEFINE full == queue[n][Here.flow]
           q == SlotQueue(n)
           h == Head(q)
           b == h.heard \/ n \in got
<1>1. asn \in Nat /\ Traffic /\ Here.flow \in QueueName
  BY HereIsCell DEF FlowInv, Types
<1>2. full \in Seq(FinePacket) /\ Len(full) \in Nat
  BY <1>1 DEF Traffic
<1>3. q \in Seq(FinePacket)
  BY <1>1, SlotQueueIsQueue
<1>4. RestOf(q, full)
  <2>1. q = full \/ q = Unexpired(full)
    BY DEF SlotQueue
  <2> HIDE DEF full, q
  <2>2. RestOf(full, full) /\ RestOf(Unexpired(full), full)
    BY <1>2, WholeIsRest, UnexpiredRest
  <2>3. QED BY <2>1, <2>2
<1>5. CASE n \notin S
  BY <1>4, <1>5 DEF After
<1>6. CASE n \in S /\ (n \in acked \/ Here.flow = BeaconQueue \/ ~Retries(h))
  <2>1. q # <<>>
    BY <1>6
  <2>2. After(n, S, got, acked) = Tail(q)
    BY <1>6 DEF After
  <2> HIDE DEF full, q
  <2>3. RestOf(Tail(q), full)
    BY <1>2, <1>3, <1>4, <2>1, TailIsRest
  <2>4. QED BY <2>2, <2>3 DEF full
<1>7. CASE n \in S /\ ~(n \in acked \/ Here.flow = BeaconQueue \/ ~Retries(h))
  <2>1. q # <<>>
    BY <1>7
  <2>2. After(n, S, got, acked) = <<[h EXCEPT !.heard = b]>> \o Tail(q)
    BY <1>7 DEF After
  <2>3. b \in BOOLEAN
    OBVIOUS
  <2> HIDE DEF full, q, b
  <2>4. RestOf(<<[Head(q) EXCEPT !.heard = b]>> \o Tail(q), full)
    BY <1>2, <1>3, <1>4, <2>1, <2>3, HeardIsRest
  <2>5. QED BY <2>2, <2>4 DEF full
<1>8. QED BY <1>5, <1>6, <1>7

\* What goes out in a slot of a flow is in order, and in the cycle of the slot.
LEMMA SentInOrder ==
  ASSUME 4 * (SfSize - 1) <= SlotModulus, FlowInv, SlotsInReach, OrderInv,
         \A f \in Flow : InOrder(windows[f]),
         NEW n \in Here.tx, Sends(n), Head(SlotQueue(n)).kind = "flow"
  PROVE  LET p == Head(SlotQueue(n))
         IN Genuine(p, windows[p.flow]) /\ p.ttl \in Nat /\ CycleOf(p.ttl) = CycleOf(asn)
<1> DEFINE p == Head(SlotQueue(n))
           g == Here.flow
           q == queue[n][g]
<1>1. asn \in Nat /\ n \in Node /\ g \in QueueName /\ SlotQueue(n) # <<>>
  BY HereIsCell DEF FlowInv, Types, Sends
<1>2. NodeInOrder(n) /\ q \in Seq(FinePacket)
  BY <1>1 DEF OrderInv, FlowInv, Traffic
<1>3. g \in Flow
  <2>1. SUFFICES ASSUME g = BeaconQueue PROVE FALSE
    BY <1>1 DEF QueueName
  <2>2. SlotQueue(n) = q /\ q # <<>> /\ OnlyVectors(q)
    BY <1>1, <1>2, <2>1 DEF SlotQueue, NodeInOrder, QueuesInOrder
  <2> HIDE DEF q
  <2>3. 1 \in 1 .. Len(q) /\ Head(q) = q[1]
    BY <1>2, <2>2
  <2>4. QED BY <2>2, <2>3 DEF OnlyVectors
<1>4. g # BeaconQueue
  BY <1>3, FlowAssumption
<1>5. PICK k \in 1 .. Len(q) : p = q[k]
  <2>1. SlotQueue(n) = Unexpired(q)
    BY <1>4 DEF SlotQueue
  <2> HIDE DEF q
  <2>2. QED BY <1>1, <1>2, <2>1, UnexpiredHead
<1>6. p \in FinePacket
  <2> HIDE DEF q, p
  <2>1. QED BY <1>2, <1>5
<1>7. p.kind = "flow" /\ p.flow = g /\ Genuine(p, windows[g])
  BY <1>2, <1>3, <1>5 DEF NodeInOrder, QueuesInOrder, InQueue, Queued
<1>8. p.earliest <= asn /\ asn <= p.ttl
  BY <1>4, SlotSendsInWindow
<1> HIDE DEF p, g, q
<1>9. p.earliest \in Nat /\ p.ttl \in Nat /\ p.nr \in Nat /\ p.nr <= StartNumber + Len(windows[g])
  BY <1>3, <1>6, <1>7 DEF FinePacket, Packet, OwnNumber
<1>10. CycleOf(p.earliest) = CycleOf(p.ttl)
  <2> DEFINE i == p.nr - StartNumber
  <2>1. StartNumber \in Nat /\ Len(windows[g]) \in Nat
    BY <1>3, FlowAssumption DEF FlowInv, Types
  <2>2. i \in 1 .. Len(windows[g]) /\ p.earliest = windows[g][i].earliest /\ p.ttl = windows[g][i].ttl
    BY <1>7, <1>9, <2>1 DEF Genuine
  <2>3. QED BY <1>3, <2>2 DEF InOrder
<1>11. CycleOf(p.earliest) <= CycleOf(asn) /\ CycleOf(asn) <= CycleOf(p.ttl)
  BY <1>1, <1>8, <1>9, CyclesKeepOrder
<1>12. CycleOf(p.earliest) \in Nat /\ CycleOf(asn) \in Nat /\ CycleOf(p.ttl) \in Nat
  BY <1>1, <1>9, CyclesOf
<1>13. CycleOf(p.ttl) = CycleOf(asn)
  BY <1>10, <1>11, <1>12
<1>14. QED BY <1>7, <1>9, <1>13 DEF p

\* What a slot does to the queues and receive buffers.
SlotQueues ==
  \A n \in Node : \A g \in QueueName : RestOf(queue'[n][g], queue[n][g]) /\ Len(queue'[n][g]) \in Nat

SlotInputs ==
  \A r \in Node :
    \/ input'[r] = input[r]
    \/ \E c \in Here.tx : /\ Sends(c) /\ Head(SlotQueue(c)).to = r
                          /\ input'[r] = Append(input[r], Head(SlotQueue(c)))

LEMMA SlotMoves ==
  ASSUME FlowInv, FlowInv', Slot
  PROVE  SlotQueues /\ SlotInputs
<1> DEFINE to(n) == Head(SlotQueue(n)).to
<1>1. PICK S \in IF Here.flow = BeaconQueue THEN SUBSET {n \in Here.tx : Sends(n)}
                                            ELSE {{n \in Here.tx : Sends(n)}} :
        \E got \in SUBSET {n \in S : to(n) \in Here.rx \ S /\ HasRoom(to(n))} :
            /\ \A m, n \in got : to(m) = to(n) => m = n
            /\ \E acked \in SUBSET got :
               \E known \in SUBSET {n \in got : Head(SlotQueue(n)).heard} :
                 /\ queue' = [n \in Node |->
                      IF n \in Here.tx
                      THEN [queue[n] EXCEPT ![Here.flow] = After(n, S, got, acked)]
                      ELSE queue[n]]
                 /\ input' = [r \in Node |->
                      IF \E n \in got \ known : to(n) = r
                      THEN Append(input[r], Head(SlotQueue(CHOOSE n \in got : to(n) = r)))
                      ELSE input[r]]
  BY DEF Slot
<1>2. PICK got \in SUBSET S :
            \E acked \in SUBSET got :
               \E known \in SUBSET {n \in got : Head(SlotQueue(n)).heard} :
                 /\ queue' = [n \in Node |->
                      IF n \in Here.tx
                      THEN [queue[n] EXCEPT ![Here.flow] = After(n, S, got, acked)]
                      ELSE queue[n]]
                 /\ input' = [r \in Node |->
                      IF \E n \in got \ known : to(n) = r
                      THEN Append(input[r], Head(SlotQueue(CHOOSE n \in got : to(n) = r)))
                      ELSE input[r]]
  BY <1>1
<1>3. PICK acked \in SUBSET got, known \in SUBSET got :
                 /\ queue' = [n \in Node |->
                      IF n \in Here.tx
                      THEN [queue[n] EXCEPT ![Here.flow] = After(n, S, got, acked)]
                      ELSE queue[n]]
                 /\ input' = [r \in Node |->
                      IF \E n \in got \ known : to(n) = r
                      THEN Append(input[r], Head(SlotQueue(CHOOSE n \in got : to(n) = r)))
                      ELSE input[r]]
  BY <1>2
<1>4. \A n \in S : n \in Here.tx /\ Sends(n)
  BY <1>1
<1>5. /\ queue \in [Node -> [QueueName -> Seq(FinePacket)]]
      /\ queue' \in [Node -> [QueueName -> Seq(FinePacket')]]
  BY DEF FlowInv, Traffic, QueueName
<1>6. ASSUME NEW n \in Node, NEW g \in QueueName
      PROVE  RestOf(queue'[n][g], queue[n][g]) /\ Len(queue'[n][g]) \in Nat
  <2>1. Len(queue'[n][g]) \in Nat
    <3>1. queue'[n][g] \in Seq(FinePacket')
      BY <1>5
    <3>2. QED BY <3>1
  <2>2. CASE queue'[n][g] = queue[n][g]
    <3>1. queue[n][g] \in Seq(FinePacket)
      BY <1>5
    <3>2. RestOf(queue[n][g], queue[n][g])
      BY <3>1, WholeIsRest
    <3>3. QED BY <2>1, <2>2, <3>2
  <2>3. CASE n \in Here.tx /\ g = Here.flow
    <3>1. queue'[n][g] = After(n, S, got, acked)
      <4> DEFINE new == [queue[n] EXCEPT ![Here.flow] = After(n, S, got, acked)]
      <4>1. queue'[n] = new
        BY <1>3, <2>3
      <4>2. new[g] = After(n, S, got, acked)
        BY <1>5, <2>3
      <4> HIDE DEF new
      <4>3. QED BY <4>1, <4>2
    <3>2. n \in S => SlotQueue(n) # <<>>
      BY <1>4 DEF Sends
    <3>3. RestOf(After(n, S, got, acked), queue[n][Here.flow])
      BY <3>2, AfterIsRest
    <3>4. QED BY <2>1, <2>3, <3>1, <3>3
  <2>4. queue'[n][g] = queue[n][g] \/ (n \in Here.tx /\ g = Here.flow)
    <3> DEFINE a == After(n, S, got, acked)
               new == [queue[n] EXCEPT ![Here.flow] = a]
    <3>1. queue'[n] = IF n \in Here.tx THEN new ELSE queue[n]
      BY <1>3
    <3>2. g # Here.flow => new[g] = queue[n][g]
      BY <1>5
    <3> HIDE DEF new
    <3>3. QED BY <3>1, <3>2
  <2>5. QED BY <2>2, <2>3, <2>4
<1>7. ASSUME NEW r \in Node
      PROVE  \/ input'[r] = input[r]
             \/ \E c \in Here.tx : /\ Sends(c) /\ to(c) = r
                                   /\ input'[r] = Append(input[r], Head(SlotQueue(c)))
  <2>1. CASE \E n \in got \ known : to(n) = r
    <3> DEFINE c == CHOOSE n \in got : to(n) = r
    <3>1. c \in got /\ to(c) = r
      BY <2>1
    <3>2. input'[r] = Append(input[r], Head(SlotQueue(c)))
      BY <1>3, <2>1
    <3> HIDE DEF c
    <3>3. c \in Here.tx /\ Sends(c)
      BY <1>2, <1>4, <3>1
    <3>4. QED BY <3>1, <3>2, <3>3
  <2>2. CASE ~(\E n \in got \ known : to(n) = r)
    BY <1>3, <2>2
  <2>3. QED BY <2>1, <2>2
<1>8. QED BY <1>6, <1>7 DEF SlotQueues, SlotInputs

LEMMA SlotInOrder ==
  ASSUME 4 * (SfSize - 1) <= SlotModulus, Onward, FlowInv, FlowInv', SlotsInReach, OrderInv,
         \A f \in Flow : InOrder(windows[f]), Slot
  PROVE  OrderInv'
<1>1. SlotQueues /\ SlotInputs
  BY SlotMoves
<1>2. windows' = windows /\ config' = config /\ seen' = seen
  BY DEF Slot
<1>3. ASSUME NEW n \in Node PROVE NodeInOrder(n)'
  <2>1. NodeInOrder(n)
    BY <1>3 DEF OrderInv
  <2>2. \A g \in QueueName : /\ RestOf(queue'[n][g], queue[n][g])
                             /\ Len(queue'[n][g]) \in Nat /\ Len(queue[n][g]) \in Nat
    <3>1. \A g \in QueueName : queue[n][g] \in Seq(FinePacket)
      BY <1>3 DEF FlowInv, Traffic
    <3>2. \A g \in QueueName : Len(queue[n][g]) \in Nat
      BY <3>1
    <3>3. QED BY <1>1, <3>2 DEF SlotQueues
  <2>3. ASSUME NEW f \in Flow PROVE InQueue(n, f)'
    <3> DEFINE q == queue[n][f]
               r == queue'[n][f]
               ws == windows'[f]
               k == Known(n, f)'
    <3>1. Queued(q, f, ws, k)
      BY <2>1, QueueOnward DEF NodeInOrder, QueuesInOrder
    <3>2. RestOf(r, q) /\ Len(r) \in Nat /\ Len(q) \in Nat
      BY <2>2 DEF QueueName
    <3> HIDE DEF q, r, ws, k
    <3>3. Queued(r, f, ws, k)
      BY <3>1, <3>2, QueuedRest
    <3>4. QED BY <3>3 DEF InQueue, r, ws, k
  <2>4. OnlyVectors(queue'[n][BeaconQueue])
    <3> DEFINE q == queue[n][BeaconQueue]
               r == queue'[n][BeaconQueue]
    <3>1. OnlyVectors(q) /\ RestOf(r, q) /\ Len(r) \in Nat /\ Len(q) \in Nat
      BY <2>1, <2>2 DEF NodeInOrder, QueuesInOrder, QueueName
    <3> HIDE DEF q, r
    <3>2. PICK d \in Nat : Len(r) + d <= Len(q) /\ \A i \in 1 .. Len(r) : Alike(r[i], q[i + d])
      BY <3>1 DEF RestOf
    <3>3. ASSUME NEW i \in 1 .. Len(r) PROVE r[i].kind = "vector"
      <4>1. i + d \in 1 .. Len(q)
        BY <3>1, <3>2
      <4>2. QED BY <3>1, <3>2, <4>1 DEF OnlyVectors, Alike
    <3>4. QED BY <3>3 DEF OnlyVectors, r
  <2>5. Configured(n)'
    BY <1>2, <2>1, ConfiguredOnward DEF NodeInOrder
  <2>6. /\ Arrived(input'[n], n, windows', asn')
        /\ ~IsSender(n) => Lags(config'[n].ttl, input'[n], asn')
    <3> DEFINE in == input[n]
               t == config[n].ttl
    <3>1. /\ in \in Seq(FinePacket) /\ Arrived(in, n, windows, asn) /\ t \in Nat /\ asn \in Nat
          /\ ~IsSender(n) => Lags(t, in, asn)
      BY <2>1 DEF FlowInv, Traffic, Types, Configuration, NodeInOrder
    <3>2. CASE input'[n] = in
      <4>1. Arrived(in, n, windows', asn')
        BY <3>1, ArrivedOnward
      <4>2. ~IsSender(n) => Lags(t, in, asn')
        BY <3>1, LagsOnward
      <4>3. QED BY <1>2, <3>2, <4>1, <4>2
    <3>3. CASE \E c \in Here.tx : /\ Sends(c) /\ Head(SlotQueue(c)).to = n
                                  /\ input'[n] = Append(in, Head(SlotQueue(c)))
      <4>1. PICK c \in Here.tx : /\ Sends(c) /\ Head(SlotQueue(c)).to = n
                                 /\ input'[n] = Append(in, Head(SlotQueue(c)))
        BY <3>3
      <4> DEFINE p == Head(SlotQueue(c))
      <4>2. p \in FinePacket
        <5>1. SlotQueue(c) \in Seq(FinePacket) /\ SlotQueue(c) # <<>>
          BY <3>1, <4>1, HereIsCell, SlotQueueIsQueue DEF FlowInv, Sends
        <5>2. QED BY <5>1
      <4>3. p.kind = "flow" =>
              Genuine(p, windows[p.flow]) /\ p.ttl \in Nat /\ CycleOf(p.ttl) = CycleOf(asn)
        BY <4>1, SentInOrder
      <4>4. p.to = n /\ input'[n] = Append(in, p)
        BY <4>1
      <4> HIDE DEF p, in, t
      <4>5. \A k \in 1 .. Len(in) : in[k].ttl \in Nat
        <5>1. \A k \in 1 .. Len(in) : in[k] \in FinePacket
          BY <3>1
        <5>2. QED BY <5>1 DEF FinePacket, Packet
      <4>6. /\ Arrived(Append(in, p), n, windows, asn)
            /\ \A s : Lags(s, in, asn) => Lags(s, Append(in, p), asn)
        BY <3>1, <4>2, <4>3, <4>4, <4>5, ArrivedOneMore
      <4>7. Append(in, p) \in Seq(FinePacket)
        BY <3>1, <4>2
      <4>8. Arrived(Append(in, p), n, windows', asn')
        BY <4>6, <4>7, ArrivedOnward
      <4>9. ~IsSender(n) => Lags(t, Append(in, p), asn')
        BY <3>1, <4>6, LagsOnward
      <4>10. QED BY <1>2, <4>4, <4>8, <4>9 DEF t
    <3>4. QED BY <1>1, <1>3, <3>2, <3>3 DEF SlotInputs
  <2>7. QED BY <1>2, <2>1, <2>3, <2>4, <2>5, <2>6 DEF NodeInOrder, QueuesInOrder, IsSender
<1>4. QED BY <1>3 DEF OrderInv
-----------------------------------------------------------------------------
LEMMA OrderInit ==
  ASSUME Init
  PROVE  FramedInv /\ OrderInv
<1>1. FramedInv
  BY DEF Init, FramedInv, Framed
<1>2. ASSUME NEW n \in Node PROVE NodeInOrder(n)
  <2>1. \A f \in Flow : StartNumber <= seen[n][f]
    BY FlowAssumption DEF Init
  <2>2. /\ \A g \in QueueName : queue[n][g] = <<>>
        /\ input[n] = <<>> /\ config[n].flow = BeaconQueue
        /\ config[n].ttl = ConfiguredWindow(n).ttl
    BY DEF Init, QueueName
  <2>3. QueuesInOrder(n)
    BY <2>2 DEF QueuesInOrder, InQueue, Queued, OnlyVectors, QueueName
  <2>4. Configured(n)
    BY <2>2, FlowAssumption DEF Configured
  <2>5. Arrived(input[n], n, windows, asn)
    BY <2>2 DEF Arrived
  <2>6. Lags(config[n].ttl, input[n], asn)
    <3> DEFINE t == ConfiguredWindow(n).ttl
    <3>1. t \in Nat /\ StartAsn \in Nat /\ t <= StartAsn
      BY FlowAssumption, HeldWindows DEF Window
    <3> HIDE DEF t
    <3>2. CycleOf(t) <= CycleOf(StartAsn)
      BY <3>1, CyclesKeepOrder
    <3>3. asn = StartAsn
      BY DEF Init
    <3>4. QED BY <2>2, <3>2, <3>3 DEF Lags, t
  <2>7. QED BY <2>1, <2>3, <2>4, <2>5, <2>6 DEF NodeInOrder
<1>3. QED BY <1>1, <1>2 DEF OrderInv

LEMMA AllInOrder ==
  ASSUME WindowsInParts(Cuts), FlowInv, WindowsInv, FramedInv
  PROVE  \A f \in Flow : InOrder(windows[f])
  BY FlowInOrder DEF FlowInv, WindowsInv, FramedInv

LEMMA OrderStep ==
  ASSUME 4 * (SfSize - 1) <= SlotModulus, WindowsInParts(Cuts), SendersDoNotRelay,
         FlowInv, WindowsInv, FramedInv, OrderInv, NumbersInReach, SlotsInReach, [Next]_vars
  PROVE  FramedInv' /\ OrderInv'
<1>1. FramedInv'
  BY PartsAreInOrder, FramedStep DEF FramedInv, FlowInv
<1>2. Onward /\ FlowInv'
  BY StepIsOnward, FlowStep
<1>3. CASE \E f \in Flow : FlowSend(f)
  BY <1>1, <1>2, <1>3, FlowSendInOrder
<1>4. CASE \E n \in Node : SendAdvertisement(n)
  BY <1>1, <1>2, <1>4, SendAdvertisementInOrder
<1>5. CASE \E n \in Node : SendVector(n)
  BY <1>1, <1>2, <1>5, SendVectorInOrder
<1>6. CASE \E n \in Node : Input(n)
  BY <1>1, <1>2, <1>6, InputInOrder
<1>7. CASE Slot
  <2>1. \A f \in Flow : InOrder(windows[f])
    BY AllInOrder
  <2>2. QED BY <1>1, <1>2, <1>7, <2>1, SlotInOrder
<1>8. CASE UNCHANGED vars
  <2>1. queue' = queue /\ config' = config /\ input' = input /\ seen' = seen
    BY <1>8 DEF vars
  <2>2. QED BY <1>1, <1>2, <2>1, NodeOnward DEF OrderInv
<1>9. OrderInv'
  BY <1>3, <1>4, <1>5, <1>6, <1>7, <1>8 DEF Next
<1>10. QED BY <1>1, <1>9

\* Nothing that has not expired comes before the head of the rest.
LEMMA UnexpiredFirst ==
  ASSUME NEW S, NEW q \in Seq(S), NEW i \in 1 .. Len(q), SlotBefore(asn - 1, q[i].ttl)
  PROVE  /\ Unexpired(q) # <<>>
         /\ \E k \in 1 .. i : Head(Unexpired(q)) = q[k] /\ SlotBefore(asn - 1, q[k].ttl)
<1> DEFINE alive == { j \in 1 .. Len(q) : SlotBefore(asn - 1, q[j].ttl) }
<1>1. Unexpired(q) = IF alive = {} THEN <<>> ELSE SubSeq(q, Min(alive), Len(q))
  BY DEF Unexpired
<1>2. i \in alive /\ alive \subseteq Nat /\ Len(q) \in Nat
  OBVIOUS
<1>3. \A j \in alive : j \in 1 .. Len(q) /\ SlotBefore(asn - 1, q[j].ttl)
  OBVIOUS
<1> HIDE DEF alive
<1>4. \E x \in alive : \A y \in alive : x <= y
  BY <1>2, LeastNat
<1> DEFINE k == Min(alive)
<1>5. k \in alive /\ k <= i
  BY <1>2, <1>4 DEF Min
<1>6. Unexpired(q) = SubSeq(q, k, Len(q))
  BY <1>1, <1>2
<1> HIDE DEF k
<1>7. k \in 1 .. Len(q) /\ k \in 1 .. i
  BY <1>3, <1>5
<1>8. SubSeq(q, k, Len(q)) # <<>> /\ Head(SubSeq(q, k, Len(q))) = q[k]
  <2>1. Len(SubSeq(q, k, Len(q))) = Len(q) - k + 1 /\ Len(<<>>) = 0
    BY <1>7
  <2>2. Len(SubSeq(q, k, Len(q))) # 0
    BY <1>2, <1>7, <2>1
  <2>3. SubSeq(q, k, Len(q)) # <<>>
    BY <2>1, <2>2
  <2>4. Head(SubSeq(q, k, Len(q))) = q[k]
    BY <1>7
  <2>5. QED BY <2>3, <2>4
<1>9. QED BY <1>3, <1>5, <1>6, <1>7, <1>8

LEMMA OpenIsFirst ==
  ASSUME 4 * (SfSize - 1) <= SlotModulus, SlotsInOrder,
         FlowInv, FramedInv, OrderInv, SlotsInReach, Here.flow # BeaconQueue,
         NEW n \in Here.tx, NEW i \in 1 .. Len(queue[n][Here.flow]),
         Open(queue[n][Here.flow][i])
  PROVE  Sends(n) /\ Open(Head(SlotQueue(n)))
<1> DEFINE f == Here.flow
           q == queue[n][f]
           p == q[i]
<1>1. asn \in Nat \ {0} /\ n \in Node /\ f \in Flow
  BY HereIsCell DEF FlowInv, Types, QueueName
<1>2. q \in Seq(FinePacket) /\ NodeInOrder(n) /\ Framed(f)
  BY <1>1 DEF FlowInv, Traffic, QueueName, OrderInv, FramedInv
<1>3. p.kind = "flow" /\ p.earliest <= asn /\ asn <= p.ttl
  BY DEF Open
<1>4. /\ p.flow = f /\ Genuine(p, windows[f])
      /\ \A j, k \in 1 .. Len(q) : j < k => Ahead(q[j], q[k])
  BY <1>1, <1>2, <1>3 DEF NodeInOrder, QueuesInOrder, InQueue, Queued
<1>5. \A k \in 1 .. Len(q) : 2 * asn < 2 * (q[k].ttl + 1) + SlotModulus
  BY <1>1 DEF SlotsInReach
<1>6. SlotQueue(n) = Unexpired(q)
  BY DEF SlotQueue
<1>7. Sends(n) <=> Unexpired(q) # <<>> /\ ~SlotBefore(asn, Head(Unexpired(q)).earliest)
  BY <1>6 DEF Sends
<1>8. i \in 1 .. Len(q) /\ p = q[i]
  OBVIOUS
<1> HIDE DEF f, q, p
<1>9. \A k \in 1 .. Len(q) : q[k].ttl \in Nat /\ q[k].earliest \in Nat /\ q[k] \in FinePacket
  <2>1. \A k \in 1 .. Len(q) : q[k] \in FinePacket
    BY <1>2
  <2>2. QED BY <2>1 DEF FinePacket, Packet
<1>10. p.earliest \in Nat /\ p.ttl \in Nat
  BY <1>8, <1>9
<1>11. InSlots(p, f)
  <2> DEFINE j == p.nr - StartNumber
  <2>1. p.nr \in Nat /\ p.nr <= StartNumber + Len(windows[f]) /\ StartNumber \in Nat
    BY <1>3, <1>4, <1>8, <1>9, FlowAssumption DEF FinePacket, Packet, OwnNumber
  <2>2. Len(windows[f]) \in Nat
    BY <1>1 DEF FlowInv, Types
  <2>3. j \in 1 .. Len(windows[f]) /\ p.earliest = windows[f][j].earliest /\ p.ttl = windows[f][j].ttl
    BY <1>4, <2>1, <2>2 DEF Genuine
  <2>4. QED BY <1>2, <2>3 DEF Framed, InSlots
<1>l. PICK x \in WindowsOf(f) : p.ttl = p.earliest + (LastTx[f][x] - FirstTx[f][x])
  BY <1>11 DEF InSlots
<1>12. /\ SfSize \in Nat \ {0} /\ SlotModulus \in Nat \ {0} /\ FirstTx[f][x] < LastTx[f][x]
       /\ FirstTx[f][x] \in 0 .. SfSize - 1 /\ LastTx[f][x] \in 0 .. SfSize - 1
  BY <1>1, SlotsOfWindows, FlowAssumption DEF SlotsInOrder
<1> DEFINE a == asn - 1
           e == p.earliest
           t == p.ttl
<1>13. /\ a \in Nat /\ e \in Nat /\ t \in Nat /\ e <= a + 1 /\ a < t /\ e <= asn
       /\ 2 * (t - a) <= SlotModulus /\ 2 * (asn - e) < SlotModulus
  <2>1. t - e <= SfSize - 1 /\ 2 <= SfSize
    BY <1>10, <1>l, <1>12
  <2> HIDE DEF e, t
  <2>2. e <= asn /\ asn <= t /\ e \in Nat /\ t \in Nat
    BY <1>3, <1>10 DEF e, t
  <2>3. SfSize \in Nat /\ SlotModulus \in Nat /\ asn \in Nat /\ asn # 0
    BY <1>1, <1>12
  <2>4. a \in Nat /\ a + 1 = asn
    BY <2>3
  <2> HIDE DEF a
  <2>5. t - a <= SfSize /\ asn - e <= SfSize - 1
    BY <2>1, <2>2, <2>3, <2>4
  <2>6. 2 * SfSize <= SlotModulus /\ 2 * (SfSize - 1) < SlotModulus
    BY <2>1, <2>3
  <2>7. e <= a + 1 /\ a < t
    BY <2>2, <2>3, <2>4
  <2>8. 2 * (t - a) <= SlotModulus
    BY <2>2, <2>3, <2>4, <2>5, <2>6
  <2>9. 2 * (asn - e) < SlotModulus
    BY <2>2, <2>3, <2>5, <2>6
  <2>10. QED BY <2>2, <2>4, <2>7, <2>8, <2>9
<1>14. SlotBefore(asn - 1, q[i].ttl)
  <2>1. q[i].ttl = t
    BY <1>8
  <2> HIDE DEF a, e, t
  <2>2. Before(a, t, SlotModulus)
    BY <1>12, <1>13, BeforeNear
  <2>3. QED BY <2>1, <2>2 DEF SlotBefore, a
<1>15. Unexpired(q) # <<>>
       /\ \E k \in 1 .. i : Head(Unexpired(q)) = q[k] /\ SlotBefore(asn - 1, q[k].ttl)
  BY <1>2, <1>8, <1>14, UnexpiredFirst
<1>16. PICK k \in 1 .. i : Head(Unexpired(q)) = q[k] /\ SlotBefore(asn - 1, q[k].ttl)
  BY <1>15
<1>17. k = i
  <2>1. SUFFICES ASSUME k < i PROVE FALSE
    BY <1>8, <1>16
  <2> DEFINE s == q[k].ttl
  <2>2. k \in 1 .. Len(q) /\ Ahead(q[k], p) /\ Len(q) \in Nat
    BY <1>2, <1>4, <1>8, <2>1
  <2>3. s \in Nat /\ CycleOf(s) < CycleOf(e) /\ 2 * asn < 2 * (s + 1) + SlotModulus
    BY <1>3, <1>5, <1>9, <2>2 DEF Ahead
  <2>4. Before(a, s, SlotModulus)
    BY <1>16 DEF SlotBefore
  <2> HIDE DEF s, e, t
  <2>5. s < e
    BY <1>13, <2>3, CyclesGrow
  <2>6. s <= a /\ 2 * (a - s) < SlotModulus
    BY <1>1, <1>12, <1>13, <2>3, <2>5
  <2> HIDE DEF a
  <2>7. QED BY <1>12, <1>13, <2>3, <2>4, <2>6, NotBeforeNear
<1>18. Head(Unexpired(q)) = p
  BY <1>8, <1>16, <1>17
<1>19. ~SlotBefore(asn, p.earliest)
  <2> HIDE DEF e, t, a
  <2>1. ~Before(asn, e, SlotModulus)
    BY <1>1, <1>12, <1>13, NotBeforeNear
  <2>2. QED BY <2>1 DEF SlotBefore, e
<1>20. Open(p)
  BY <1>3 DEF Open
<1>21. QED BY <1>6, <1>7, <1>15, <1>18, <1>19, <1>20

(***************************************************************************)
(* No vector and no other packet takes the slots of an open packet, in a   *)
(* network whose slotframe can be cut so that no part holds two windows of *)
(* a flow, and in which no node that sends a flow relays another.          *)
(***************************************************************************)
THEOREM FlowsAreNotBlocked ==
  ASSUME 4 * (SfSize - 1) <= SlotModulus, SendersDoNotRelay,
         NEW cuts \in SUBSET (0 .. SfSize - 1), WindowsInParts(cuts)
  PROVE  Spec /\ []NumbersInReach /\ []SlotsInReach => FlowNotBlocked
<1> DEFINE Inv == WindowsInv /\ FramedInv /\ OrderInv
<1>0. WindowsInParts(Cuts) /\ SlotsInOrder
  BY CutsFit, PartsAreInOrder
<1>1. Init => Inv
  BY WindowsInit, OrderInit
<1>2. FlowInv /\ NumbersInReach /\ SlotsInReach /\ Inv /\ [Next]_vars => Inv'
  BY <1>0, WindowsStep, OrderStep
<1>3. FlowInv /\ SlotsInReach /\ Inv =>
        (asn' # asn /\ Here.flow # BeaconQueue =>
           \A n \in Here.tx :
             (\E i \in 1 .. Len(queue[n][Here.flow]) : Open(queue[n][Here.flow][i]))
               => Sends(n) /\ Open(Head(SlotQueue(n))))
  BY <1>0, OpenIsFirst
<1> HIDE DEF Inv
<1>4. QED BY <1>1, <1>2, <1>3, FlowInvAlways, PTL DEF Spec, FlowNotBlocked

-----------------------------------------------------------------------------
(***************************************************************************)
(* A packet is kept.  Copies of a packet are told by flow and number.      *)
(***************************************************************************)

\* No more packets of a flow arrive behind its record than half the numbers.
RecordsInReach ==
  \A n \in Node : \A k \in 1 .. Len(input[n]) :
    LET p == input[n][k]
    IN p.kind = "flow" => 2 * (p.nr - seen[n][p.flow]) <= NumberModulus

\* The queues are long enough.
RoomInQueues == \A n \in Node : \A f \in Flow : Len(queue[n][f]) < QueueSize

Copy(p, f, k) == p.kind = "flow" /\ p.flow = f /\ p.nr = k

Holds(s, f, k) == \E i \in 1 .. Len(s) : Copy(s[i], f, k)
HoldsHeard(s, f, k) == \E i \in 1 .. Len(s) : Copy(s[i], f, k) /\ s[i].heard

HasSeen(n, f, k) == n = SenderOf[f] \/ k <= seen[n][f]
Had(n, f, k) == Holds(input[n], f, k) \/ HasSeen(n, f, k)

\* A node gives the packets of a flow to the next node of the flow.
Routed(q, n, f, ws) ==
  \A i \in 1 .. Len(q) : q[i].kind = "flow" =>
    q[i].flow = f /\ Genuine(q[i], ws) /\ q[i].to = ForwardTo[n][f]

\* What a node has received is meant for it, and its window has begun.
Received(in, n, ws, a) ==
  \A i \in 1 .. Len(in) : in[i].kind = "flow" =>
    Genuine(in[i], ws[in[i].flow]) /\ in[i].to = n /\ in[i].earliest <= a

\* What is marked as heard has been heard.
Recorded(n, f) ==
  \A k \in Nat : HoldsHeard(queue[n][f], f, k) => Had(ForwardTo[n][f], f, k)

RoutedNode(n) ==
  /\ \A f \in Flow : Routed(queue[n][f], n, f, windows[f])
  /\ OnlyVectors(queue[n][BeaconQueue])
  /\ Received(input[n], n, windows, asn)

RouteInv == \A n \in Node : RoutedNode(n)
RecordInv == \A n \in Node : \A f \in Flow : Recorded(n, f)

\* Every node that has seen the packet has handed it on, or still has to.
PassedOn(f, k) ==
  /\ \A n \in Node : HasSeen(n, f, k) /\ n # ReceiverOf[f] =>
       ForwardTo[n][f] \in Node /\ (Holds(queue[n][f], f, k) \/ Had(ForwardTo[n][f], f, k))
  /\ HasSeen(ReceiverOf[f], f, k) => \E j \in 1 .. Len(delivered[f]) : delivered[f][j] = k

KeptInv ==
  \A f \in Flow : \A i \in 1 .. Len(windows[f]) :
    asn <= windows[f][i].ttl => PassedOn(f, StartNumber + i)

\* Longer sequences hold more.
LEMMA HoldsLonger ==
  ASSUME NEW r, NEW s, NEW x, Longer(r, s, x), NEW f, NEW k
  PROVE  /\ Holds(s, f, k) => Holds(r, f, k)
         /\ Copy(x, f, k) => Holds(r, f, k)
         /\ HoldsHeard(r, f, k) => HoldsHeard(s, f, k) \/ x.heard
<1>1. /\ Len(s) \in Nat /\ Len(r) = Len(s) + 1 /\ r[Len(s) + 1] = x
      /\ \A i \in 1 .. Len(s) : r[i] = s[i]
  BY DEF Longer
<1>2. \A i \in 1 .. Len(s) : i \in 1 .. Len(r)
  BY <1>1
<1>3. Len(s) + 1 \in 1 .. Len(r)
  BY <1>1
<1>4. Holds(s, f, k) => Holds(r, f, k)
  BY <1>1, <1>2 DEF Holds
<1>5. Copy(x, f, k) => Holds(r, f, k)
  BY <1>1, <1>3 DEF Holds
<1>6. HoldsHeard(r, f, k) => HoldsHeard(s, f, k) \/ x.heard
  <2>1. SUFFICES ASSUME NEW i \in 1 .. Len(r), Copy(r[i], f, k), r[i].heard
                 PROVE  HoldsHeard(s, f, k) \/ x.heard
    BY DEF HoldsHeard
  <2>2. \/ i = Len(s) + 1 /\ r[i] = x
        \/ i \in 1 .. Len(s) /\ r[i] = s[i]
    BY LongerAt
  <2>3. QED BY <2>1, <2>2 DEF HoldsHeard
<1>7. QED BY <1>4, <1>5, <1>6

LEMMA RoutedLonger ==
  ASSUME NEW r, NEW s, NEW p, Longer(r, s, p), NEW n, NEW f, NEW ws, Routed(s, n, f, ws),
         p.kind = "flow" => p.flow = f /\ Genuine(p, ws) /\ p.to = ForwardTo[n][f]
  PROVE  Routed(r, n, f, ws)
<1>1. ASSUME NEW i \in 1 .. Len(r), r[i].kind = "flow"
      PROVE  r[i].flow = f /\ Genuine(r[i], ws) /\ r[i].to = ForwardTo[n][f]
  <2>1. \/ i = Len(s) + 1 /\ r[i] = p
        \/ i \in 1 .. Len(s) /\ r[i] = s[i]
    BY LongerAt
  <2>2. CASE r[i] = p
    BY <1>1, <2>2
  <2>3. CASE i \in 1 .. Len(s) /\ r[i] = s[i]
    BY <1>1, <2>3 DEF Routed
  <2>4. QED BY <2>1, <2>2, <2>3
<1>2. QED BY <1>1 DEF Routed

LEMMA RoutedOnward ==
  ASSUME Forward, FlowInv, NEW n \in Node, NEW f \in Flow, Routed(queue[n][f], n, f, windows[f])
  PROVE  Routed(queue[n][f], n, f, windows'[f])
<1> DEFINE q == queue[n][f]
           ws == windows[f]
           vs == windows'[f]
<1>1. q \in Seq(FinePacket) /\ Routed(q, n, f, ws)
  BY DEF FlowInv, Traffic, QueueName
<1>2. StartNumber \in Nat /\ Extends(ws, vs)
  BY DEF Forward
<1>3. ASSUME NEW p \in FinePacket, p.kind = "flow", p.flow = f
      PROVE  p.nr \in Nat /\ p.nr <= StartNumber + Len(ws)
  BY <1>3 DEF FinePacket, Packet, OwnNumber
<1> HIDE DEF q, ws, vs
<1>4. ASSUME NEW i \in 1 .. Len(q), q[i].kind = "flow"
      PROVE  q[i].flow = f /\ Genuine(q[i], vs) /\ q[i].to = ForwardTo[n][f]
  <2> DEFINE p == q[i]
  <2>1. p \in FinePacket
    BY <1>1
  <2>2. p.kind = "flow" /\ p.flow = f /\ Genuine(p, ws) /\ p.to = ForwardTo[n][f]
    BY <1>1, <1>4 DEF Routed
  <2> HIDE DEF p
  <2>3. p.nr \in Nat /\ p.nr <= StartNumber + Len(ws)
    BY <1>3, <2>1, <2>2
  <2>4. Genuine(p, vs)
    BY <1>2, <2>2, <2>3, GenuineStays
  <2>5. QED BY <2>2, <2>4 DEF p
<1>5. Routed(q, n, f, vs)
  BY <1>4 DEF Routed
<1>6. QED BY <1>5 DEF q, vs

LEMMA ReceivedOnward ==
  ASSUME Forward, NEW in \in Seq(FinePacket), NEW n, Received(in, n, windows, asn)
  PROVE  Received(in, n, windows', asn')
<1>1. ASSUME NEW i \in 1 .. Len(in), in[i].kind = "flow"
      PROVE  /\ Genuine(in[i], windows'[in[i].flow])
             /\ in[i].to = n /\ in[i].earliest <= asn'
  <2> DEFINE p == in[i]
             f == p.flow
             ws == windows[f]
             vs == windows'[f]
  <2>1. p \in FinePacket
    OBVIOUS
  <2>2. f \in Flow /\ p.nr \in Nat /\ p.earliest \in Nat /\ p.nr <= StartNumber + Len(ws)
    BY <1>1, <2>1 DEF FinePacket, Packet, OwnNumber
  <2>3. Genuine(p, ws) /\ p.to = n /\ p.earliest <= asn
    BY <1>1 DEF Received
  <2>4. StartNumber \in Nat /\ Extends(ws, vs) /\ asn \in Nat /\ asn' \in Nat /\ asn <= asn'
    BY <2>2 DEF Forward
  <2> HIDE DEF p, f, ws, vs
  <2>5. Genuine(p, vs)
    BY <2>2, <2>3, <2>4, GenuineStays
  <2>6. p.earliest <= asn'
    BY <2>2, <2>3, <2>4
  <2>7. QED BY <2>3, <2>5, <2>6 DEF p, f, vs
<1>2. QED BY <1>1 DEF Received


\* Received packets are fine, and where the route of their flow leads.
LEMMA FirstReceived ==
  ASSUME RoutesLead, FlowInv, RouteInv, NumbersInReach, RecordsInReach,
         NEW n \in Node, input[n] # <<>>, Head(input[n]).kind = "flow"
  PROVE  LET p == Head(input[n])
         IN /\ p \in FinePacket /\ p.flow \in Flow /\ p.nr \in Nat /\ p.earliest \in Nat /\ p.ttl \in Nat
            /\ Genuine(p, windows[p.flow]) /\ p.earliest <= asn
            /\ 2 * (OwnNumber(p.flow) - p.nr) < NumberModulus
            /\ 2 * (p.nr - seen[n][p.flow]) <= NumberModulus
            /\ n # ReceiverOf[p.flow] =>
                 /\ ForwardTo[n][p.flow] \in Node
                 /\ \A i \in WindowsOf(p.flow) :
                      n \in Cell[LastTx[p.flow][i]].tx \cup Cell[LastTx[p.flow][i]].rx
<1> DEFINE p == Head(input[n])
           f == p.flow
<1>1. input[n] \in Seq(FinePacket)
  BY DEF FlowInv, Traffic
<1>2. p = input[n][1] /\ 1 \in 1 .. Len(input[n]) /\ p \in FinePacket /\ p.kind = "flow"
  BY <1>1
<1>3. /\ 2 * (OwnNumber(p.flow) - p.nr) < NumberModulus
      /\ 2 * (p.nr - seen[n][p.flow]) <= NumberModulus
  BY <1>2 DEF NumbersInReach, RecordsInReach
<1>4. RoutedNode(n)
  BY DEF RouteInv
<1>5. Genuine(p, windows[p.flow]) /\ p.to = n /\ p.earliest <= asn
  BY <1>2, <1>4 DEF RoutedNode, Received
<1> HIDE DEF p
<1>6. f \in Flow /\ p.nr \in Nat /\ p.earliest \in Nat /\ p.ttl \in Nat
  BY <1>2 DEF FinePacket, Packet
<1>7. PICK m \in Node : n = ForwardTo[m][f]
  BY <1>5 DEF Genuine
<1>8. ASSUME n # ReceiverOf[f]
      PROVE  /\ ForwardTo[n][f] \in Node
             /\ \A i \in WindowsOf(f) : n \in Cell[LastTx[f][i]].tx \cup Cell[LastTx[f][i]].rx
  <2>1. ForwardTo[m][f] \in Node \ {ReceiverOf[f]}
    BY <1>7, <1>8
  <2>2. /\ ForwardTo[ForwardTo[m][f]][f] # NoNode
        /\ \A i \in WindowsOf(f) :
             ForwardTo[m][f] \in Cell[LastTx[f][i]].tx \cup Cell[LastTx[f][i]].rx
    BY <1>6, <2>1 DEF RoutesLead
  <2>3. ForwardTo[n][f] \in Node \cup {NoNode}
    <3>1. ForwardTo \in [Node -> [Flow -> Node \cup {NoNode}]]
      BY FlowAssumption
    <3>2. QED BY <1>6, <3>1
  <2>4. QED BY <1>7, <2>2, <2>3
<1>9. QED BY <1>2, <1>3, <1>5, <1>6, <1>8 DEF p

\* What handling a packet does to the records of the node.
LEMMA RecordedOnce ==
  ASSUME FlowInv, NEW n \in Node, NEW p \in FinePacket, p.kind = "flow",
         InputAtReceiver(n, p) \/ InputAtRelay(n, p),
         n # ReceiverOf[p.flow] => ForwardTo[n][p.flow] \in Node
  PROVE  \/ IsNew(n, p) /\ seen' = [seen EXCEPT ![n][p.flow] = p.nr]
         \/ ~IsNew(n, p) /\ seen' = seen
<1>1. p.flow \in Flow
  BY DEF FinePacket, Packet
<1>2. NoNode \notin Node
  BY FlowAssumption
<1>3. CASE InputAtReceiver(n, p)
  BY <1>3 DEF InputAtReceiver
<1>4. CASE InputAtRelay(n, p)
  BY <1>2, <1>4 DEF InputAtRelay
<1>5. QED BY <1>3, <1>4

LEMMA OldIsSeen ==
  ASSUME FlowInv, NEW n \in Node, NEW p \in FinePacket, p.kind = "flow", ~IsNew(n, p),
         2 * (p.nr - seen[n][p.flow]) <= NumberModulus
  PROVE  p.nr <= seen[n][p.flow]
<1> DEFINE last == seen[n][p.flow]
<1>1. p.flow \in Flow /\ p.nr \in Nat
  BY DEF FinePacket, Packet
<1>2. last \in Nat
  BY <1>1 DEF FlowInv, Types
<1>3. NumberModulus \in Nat \ {0}
  BY FlowAssumption
<1>4. ~Before(last, p.nr, NumberModulus)
  BY DEF IsNew, Newer
<1>5. 2 * (p.nr - last) <= NumberModulus
  OBVIOUS
<1> HIDE DEF last
<1>6. SUFFICES ASSUME last < p.nr PROVE FALSE
  BY <1>1, <1>2 DEF last
<1>7. QED BY <1>1, <1>2, <1>3, <1>4, <1>5, <1>6, BeforeNear

\* After that the node has seen the packet.
LEMMA HandledIsSeen ==
  ASSUME RoutesLead, FlowInv, RouteInv, NumbersInReach, RecordsInReach,
         NEW n \in Node, Input(n), Head(input[n]).kind = "flow"
  PROVE  LET p == Head(input[n])
         IN /\ \/ IsNew(n, p) /\ seen' = [seen EXCEPT ![n][p.flow] = p.nr]
               \/ ~IsNew(n, p) /\ seen' = seen
            /\ p.nr <= seen'[n][p.flow]
<1> DEFINE p == Head(input[n])
<1>1. input[n] # <<>>
  BY DEF Input
<1>2. /\ p \in FinePacket /\ p.flow \in Flow /\ p.nr \in Nat /\ p.kind = "flow"
      /\ 2 * (p.nr - seen[n][p.flow]) <= NumberModulus
      /\ n # ReceiverOf[p.flow] => ForwardTo[n][p.flow] \in Node
  BY <1>1, FirstReceived
<1>3. InputAtReceiver(n, p) \/ InputAtRelay(n, p)
  BY DEF Input
<1>4. seen \in [Node -> [Flow -> Nat]]
  BY DEF FlowInv, Types
<1> HIDE DEF p
<1>5. \/ IsNew(n, p) /\ seen' = [seen EXCEPT ![n][p.flow] = p.nr]
      \/ ~IsNew(n, p) /\ seen' = seen
  BY <1>2, <1>3, RecordedOnce
<1>6. CASE ~IsNew(n, p) /\ seen' = seen
  BY <1>2, <1>5, <1>6, OldIsSeen DEF p
<1>7. CASE seen' = [seen EXCEPT ![n][p.flow] = p.nr]
  <2> DEFINE new == [seen[n] EXCEPT ![p.flow] = p.nr]
  <2>1. seen'[n] = new /\ new[p.flow] = p.nr
    BY <1>2, <1>4, <1>7
  <2> HIDE DEF new
  <2>2. p.nr <= seen'[n][p.flow]
    BY <1>2, <2>1
  <2>3. QED BY <1>5, <2>2 DEF p
<1>8. QED BY <1>5, <1>6, <1>7

\* What the buffers of received packets do in a step.
LEMMA InputsMove ==
  ASSUME FlowInv, FlowInv', [Next]_vars, NEW n \in Node
  PROVE  \/ input'[n] = input[n]
         \/ Input(n) /\ input'[n] = Tail(input[n])
         \/ \E x \in FinePacket : Slot /\ input'[n] = Append(input[n], x)
<1>1. input \in [Node -> Seq(FinePacket)] /\ asn \in Nat
  BY DEF FlowInv, Traffic, Types
<1>2. CASE \E m \in Node : Input(m)
  <2>1. PICK m \in Node : Input(m)
    BY <1>2
  <2>2. input' = [input EXCEPT ![m] = Tail(@)]
    BY <2>1 DEF Input
  <2>3. QED BY <1>1, <2>1, <2>2
<1>3. CASE Slot
  <2>1. \/ input'[n] = input[n]
        \/ \E c \in Here.tx : /\ Sends(c) /\ Head(SlotQueue(c)).to = n
                              /\ input'[n] = Append(input[n], Head(SlotQueue(c)))
    BY <1>3, SlotMoves DEF SlotInputs
  <2>2. ASSUME NEW c \in Here.tx, Sends(c)
        PROVE  Head(SlotQueue(c)) \in FinePacket
    <3>1. c \in Node
      BY <1>1, HereIsCell
    <3>2. SlotQueue(c) \in Seq(FinePacket) /\ SlotQueue(c) # <<>>
      BY <1>1, <2>2, <3>1, SlotQueueIsQueue DEF FlowInv, Sends
    <3>3. QED BY <3>2
  <2>3. QED BY <1>3, <2>1, <2>2
<1>4. CASE ~(\E m \in Node : Input(m)) /\ ~Slot
  BY <1>4 DEF Next, FlowSend, SendAdvertisement, SendVector, vars
<1>5. QED BY <1>2, <1>3, <1>4

\* A node that had a packet does not forget it.
LEMMA HadStays ==
  ASSUME RoutesLead, Forward, FlowInv, FlowInv', RouteInv, NumbersInReach, RecordsInReach, [Next]_vars,
         NEW n \in Node, NEW f \in Flow, NEW k \in Nat, Had(n, f, k)
  PROVE  Had(n, f, k)'
<1>1. HasSeen(n, f, k) => HasSeen(n, f, k)'
  BY DEF HasSeen, Forward
<1>2. input[n] \in Seq(FinePacket)
  BY DEF FlowInv, Traffic
<1> DEFINE in == input[n]
<1>3. CASE in = input'[n]
  BY <1>1, <1>3 DEF Had
<1>4. CASE \E x \in FinePacket : input'[n] = Append(in, x)
  <2>1. PICK x \in FinePacket : input'[n] = Append(in, x)
    BY <1>4
  <2>2. Longer(Append(in, x), in, x)
    BY <1>2, AppendIsLonger
  <2>3. Holds(in, f, k) => Holds(Append(in, x), f, k)
    <3> HIDE DEF in
    <3>1. QED BY <2>2, HoldsLonger
  <2>4. QED BY <1>1, <2>1, <2>3 DEF Had
<1>5. CASE Input(n) /\ input'[n] = Tail(in)
  <2>1. in # <<>>
    BY <1>5 DEF Input
  <2>2. SUFFICES ASSUME Holds(in, f, k) PROVE Holds(Tail(in), f, k) \/ HasSeen(n, f, k)'
    BY <1>1, <1>5 DEF Had
  <2>3. PICK i \in 1 .. Len(in) : Copy(in[i], f, k)
    BY <2>2 DEF Holds
  <2>4. CASE i = 1
    <3>1. Head(in) = in[1]
      BY <1>2, <2>1
    <3>2. Head(in).kind = "flow" /\ Head(in).flow = f /\ Head(in).nr = k
      BY <2>3, <2>4, <3>1 DEF Copy
    <3>3. Head(in).nr <= seen'[n][Head(in).flow]
      BY <1>5, <3>2, HandledIsSeen
    <3>4. QED BY <3>2, <3>3 DEF HasSeen
  <2>5. CASE i # 1
    <3> HIDE DEF in
    <3>1. in \in Seq(FinePacket)
      BY <1>2 DEF in
    <3>2. i - 1 \in 1 .. Len(Tail(in)) /\ Tail(in)[i - 1] = in[i]
      BY <2>1, <2>3, <2>5, <3>1
    <3>3. QED BY <2>3, <3>2 DEF Holds
  <2>6. QED BY <2>4, <2>5
<1>6. QED BY <1>3, <1>4, <1>5, InputsMove


-----------------------------------------------------------------------------
(***************************************************************************)
(* What a step does to a queue: nothing, a vector or a packet of the flow  *)
(* joins it, or in a slot some of it is left.                              *)
(***************************************************************************)
Fresh(x, n, g, ws) ==
  /\ x.kind \in {"flow", "vector"} /\ ~x.heard
  /\ x.kind = "flow" =>
       g \in Flow /\ x.flow = g /\ Genuine(x, ws) /\ x.to = ForwardTo[n][g]

QueueMove(n, g) ==
  \/ queue'[n][g] = queue[n][g]
  \/ \E x : Fresh(x, n, g, windows'[g]) /\ Longer(queue'[n][g], queue[n][g], x)
  \/ Slot /\ RestOf(queue'[n][g], queue[n][g]) /\ Len(queue'[n][g]) \in Nat

LEMMA PutOut ==
  ASSUME FlowInv, NEW m \in Node, NEW S, FinePacket \subseteq S, NEW x \in S, Output(m, x),
         config'[m].flow \in QueueName, Fresh(x, m, config'[m].flow, windows'[config'[m].flow])
  PROVE  \A n \in Node : \A g \in QueueName : QueueMove(n, g)
<1>1. ASSUME NEW n \in Node, NEW g \in QueueName PROVE QueueMove(n, g)
  <2>1. \/ queue'[n][g] = queue[n][g]
        \/ n = m /\ g = config'[m].flow /\ queue'[n][g] = Append(queue[n][g], x)
    BY OutputAppends DEF FlowInv
  <2>2. CASE queue'[n][g] = queue[n][g]
    BY <2>2 DEF QueueMove
  <2>3. CASE n = m /\ g = config'[m].flow /\ queue'[n][g] = Append(queue[n][g], x)
    <3> DEFINE q == queue[n][g]
    <3>1. q \in Seq(FinePacket)
      BY DEF FlowInv, Traffic
    <3>2. Fresh(x, n, g, windows'[g])
      BY <2>3
    <3>3. queue'[n][g] = Append(q, x)
      BY <2>3
    <3> HIDE DEF q
    <3>4. q \in Seq(S)
      BY <3>1
    <3>5. Longer(Append(q, x), q, x)
      BY <3>4, AppendIsLonger
    <3>6. QED BY <3>2, <3>3, <3>5 DEF QueueMove, q
  <2>4. QED BY <2>1, <2>2, <2>3
<1>2. QED BY <1>1

LEMMA VectorPutOut ==
  ASSUME FlowInv, NEW m \in Node, UnicastSend(m)
  PROVE  \A n \in Node : \A g \in QueueName : QueueMove(n, g)
<1> DEFINE v == Vector(m)
<1>1. /\ v \in FinePacket /\ Output(m, v) /\ config'[m].flow \in QueueName
      /\ v.kind = "vector" /\ v.heard = FALSE
  BY VectorIsFine DEF UnicastSend, Vector, FlowInv, Types, Configuration
<1> HIDE DEF v
<1>2. Fresh(v, m, config'[m].flow, windows'[config'[m].flow])
  BY <1>1 DEF Fresh
<1>3. QED BY <1>1, <1>2, PutOut

\* A relay that gets a new packet in time passes it on.
LEMMA RelayedPacket ==
  ASSUME FlowInv, NEW n \in Node, NEW p \in FinePacket, p.kind = "flow", InputAtRelay(n, p),
         ForwardTo[n][p.flow] \in Node, IsNew(n, p), InTime(n, p), Genuine(p, windows[p.flow])
  PROVE  \E x \in FinePacket :
           /\ x.kind = "flow" /\ x.flow = p.flow /\ x.nr = p.nr /\ Genuine(x, windows[p.flow])
           /\ x.to = ForwardTo[n][p.flow] /\ ~x.heard /\ Output(n, x) /\ config'[n].flow = p.flow
<1> DEFINE to == ForwardTo[n][p.flow]
           x == [p EXCEPT !.to = to, !.heard = FALSE]
           c == [flow |-> p.flow, earliest |-> p.earliest, ttl |-> p.ttl]
<1>1. to # NoNode /\ n \in Node /\ to \in Node
  BY FlowAssumption
<1>2. config' = [config EXCEPT ![n] = c] /\ Output(n, x)
  BY <1>1 DEF InputAtRelay
<1>3. c.flow = p.flow
  OBVIOUS
<1> HIDE DEF c
<1>4. config'[n].flow = p.flow
  BY <1>2, <1>3 DEF FlowInv, Types
<1>5. x \in FinePacket
  BY <1>1, RelayedIsFine
<1>6. /\ x.kind = "flow" /\ x.flow = p.flow /\ x.nr = p.nr /\ x.to = to /\ x.heard = FALSE
      /\ x.earliest = p.earliest /\ x.ttl = p.ttl
  BY DEF FinePacket, Packet
<1> HIDE DEF x
<1>7. Genuine(x, windows[p.flow])
  BY <1>6 DEF Genuine
<1>8. QED BY <1>2, <1>4, <1>5, <1>6, <1>7

LEMMA QueuesMove ==
  ASSUME RoutesLead, FlowInv, FlowInv', RouteInv, NumbersInReach, RecordsInReach, [Next]_vars,
         NEW n \in Node, NEW g \in QueueName
  PROVE  QueueMove(n, g)
<1>1. CASE \E f \in Flow : FlowSend(f)
  <2>1. PICK f \in Flow : FlowSend(f)
    BY <1>1
  <2> DEFINE m == SenderOf[f]
  <2>2. m \in Node
    BY FlowAssumption
  <2>3. PICK p \in FinePacket' :
          /\ p.kind = "flow" /\ p.flow = f /\ Genuine(p, windows'[f])
          /\ p.to = ForwardTo[m][f] /\ ~p.heard /\ Output(m, p)
    BY <2>1, NewPacket
  <2>4. config'[m].flow = f
    BY <2>1, <2>2 DEF FlowSend, FlowInv, Types
  <2> HIDE DEF m
  <2>5. Fresh(p, m, f, windows'[f])
    BY <2>3 DEF Fresh
  <2>6. f \in QueueName
    BY DEF QueueName
  <2>7. \A S : FinePacket \subseteq S /\ p \in S => QueueMove(n, g)
    BY <2>2, <2>3, <2>4, <2>5, <2>6, PutOut
  <2>8. FinePacket \subseteq FinePacket \cup {p} /\ p \in FinePacket \cup {p}
    OBVIOUS
  <2>9. QED BY <2>7, <2>8
<1>2. CASE \E m \in Node : SendVector(m)
  BY <1>2, VectorPutOut DEF SendVector
<1>3. CASE \E m \in Node : Input(m)
  <2>1. PICK m \in Node : Input(m)
    BY <1>3
  <2> DEFINE p == Head(input[m])
  <2>2. input[m] # <<>> /\ windows' = windows
    BY <2>1 DEF Input
  <2>3. p.kind = "flow" \/ p.kind = "vector"
    <3>1. input[m] \in Seq(FinePacket)
      BY DEF FlowInv, Traffic
    <3>2. p \in FinePacket
      BY <2>2, <3>1
    <3>3. QED BY <3>2 DEF FinePacket, Packet
  <2>4. CASE p.kind = "vector"
    <3>1. queue' = queue \/ UnicastSend(m)
      BY <2>1, <2>4 DEF Input, InputVector
    <3>2. QED BY <3>1, VectorPutOut DEF QueueMove
  <2>5. CASE p.kind = "flow"
    <3>1. /\ p \in FinePacket /\ p.flow \in Flow /\ Genuine(p, windows[p.flow])
          /\ m # ReceiverOf[p.flow] => ForwardTo[m][p.flow] \in Node
      BY <2>2, <2>5, FirstReceived
    <3>2. InputAtReceiver(m, p) \/ InputAtRelay(m, p)
      BY <2>1, <2>5 DEF Input
    <3> HIDE DEF p
    <3>3. CASE queue' = queue
      BY <3>3 DEF QueueMove
    <3>4. CASE queue' # queue
      <4>1. InputAtRelay(m, p) /\ IsNew(m, p) /\ InTime(m, p) /\ m # ReceiverOf[p.flow]
        BY <3>2, <3>4 DEF InputAtReceiver, InputAtRelay
      <4>2. PICK x \in FinePacket :
              /\ x.kind = "flow" /\ x.flow = p.flow /\ Genuine(x, windows[p.flow])
              /\ x.to = ForwardTo[m][p.flow] /\ ~x.heard /\ Output(m, x) /\ config'[m].flow = p.flow
        BY <2>5, <3>1, <4>1, RelayedPacket
      <4>3. Fresh(x, m, config'[m].flow, windows'[config'[m].flow]) /\ config'[m].flow \in QueueName
        BY <2>2, <3>1, <4>2 DEF Fresh, QueueName
      <4>4. QED BY <4>2, <4>3, PutOut
    <3>5. QED BY <3>3, <3>4
  <2>6. QED BY <2>3, <2>4, <2>5
<1>4. CASE Slot
  BY <1>4, SlotMoves DEF SlotQueues, QueueMove
<1>5. CASE \E m \in Node : SendAdvertisement(m)
  BY <1>5 DEF SendAdvertisement, QueueMove
<1>6. CASE UNCHANGED vars
  BY <1>6 DEF vars, QueueMove
<1>7. QED BY <1>1, <1>2, <1>3, <1>4, <1>5, <1>6 DEF Next


-----------------------------------------------------------------------------
(***************************************************************************)
(* What a slot does to the packets of a flow.                              *)
(***************************************************************************)
SlotStep(S, got, acked, known) ==
  /\ \A n \in S : n \in Here.tx /\ Sends(n)
  /\ got \subseteq S /\ acked \subseteq got
  /\ \A n \in known : Head(SlotQueue(n)).heard
  /\ \A n \in Node : \A g \in QueueName :
       queue'[n][g] = IF n \in Here.tx /\ g = Here.flow THEN After(n, S, got, acked)
                                                        ELSE queue[n][g]
  /\ \A n \in got \ known : \A r \in Node : Head(SlotQueue(n)).to = r =>
       input'[r] = Append(input[r], Head(SlotQueue(n)))

LEMMA SlotSteps ==
  ASSUME FlowInv, Slot
  PROVE  \E S, got, acked, known : SlotStep(S, got, acked, known)
<1> DEFINE to(n) == Head(SlotQueue(n)).to
<1>1. PICK S \in IF Here.flow = BeaconQueue THEN SUBSET {n \in Here.tx : Sends(n)}
                                            ELSE {{n \in Here.tx : Sends(n)}} :
        \E got \in SUBSET {n \in S : to(n) \in Here.rx \ S /\ HasRoom(to(n))} :
            /\ \A m, n \in got : to(m) = to(n) => m = n
            /\ \E acked \in SUBSET got :
               \E known \in SUBSET {n \in got : Head(SlotQueue(n)).heard} :
                 /\ queue' = [n \in Node |->
                      IF n \in Here.tx
                      THEN [queue[n] EXCEPT ![Here.flow] = After(n, S, got, acked)]
                      ELSE queue[n]]
                 /\ input' = [r \in Node |->
                      IF \E n \in got \ known : to(n) = r
                      THEN Append(input[r], Head(SlotQueue(CHOOSE n \in got : to(n) = r)))
                      ELSE input[r]]
  BY DEF Slot
<1>2. PICK got \in SUBSET S :
            /\ \A m, n \in got : to(m) = to(n) => m = n
            /\ \E acked \in SUBSET got :
               \E known \in SUBSET {n \in got : Head(SlotQueue(n)).heard} :
                 /\ queue' = [n \in Node |->
                      IF n \in Here.tx
                      THEN [queue[n] EXCEPT ![Here.flow] = After(n, S, got, acked)]
                      ELSE queue[n]]
                 /\ input' = [r \in Node |->
                      IF \E n \in got \ known : to(n) = r
                      THEN Append(input[r], Head(SlotQueue(CHOOSE n \in got : to(n) = r)))
                      ELSE input[r]]
  BY <1>1
<1>3. PICK acked \in SUBSET got, known \in SUBSET {n \in got : Head(SlotQueue(n)).heard} :
                 /\ queue' = [n \in Node |->
                      IF n \in Here.tx
                      THEN [queue[n] EXCEPT ![Here.flow] = After(n, S, got, acked)]
                      ELSE queue[n]]
                 /\ input' = [r \in Node |->
                      IF \E n \in got \ known : to(n) = r
                      THEN Append(input[r], Head(SlotQueue(CHOOSE n \in got : to(n) = r)))
                      ELSE input[r]]
  BY <1>2
<1>4. \A n \in S : n \in Here.tx /\ Sends(n)
  BY <1>1
<1>5. queue \in [Node -> [QueueName -> Seq(FinePacket)]]
  BY DEF FlowInv, Traffic
<1>6. ASSUME NEW n \in Node, NEW g \in QueueName
      PROVE  queue'[n][g] = IF n \in Here.tx /\ g = Here.flow THEN After(n, S, got, acked)
                                                              ELSE queue[n][g]
  <2> DEFINE a == After(n, S, got, acked)
             new == [queue[n] EXCEPT ![Here.flow] = a]
  <2>1. queue'[n] = IF n \in Here.tx THEN new ELSE queue[n]
    BY <1>3
  <2>2. new[g] = IF g = Here.flow THEN a ELSE queue[n][g]
    BY <1>5
  <2> HIDE DEF new, a
  <2>3. queue'[n][g] = IF n \in Here.tx /\ g = Here.flow THEN a ELSE queue[n][g]
    BY <2>1, <2>2
  <2>4. QED BY <2>3 DEF a
<1>7. ASSUME NEW n \in got \ known, NEW r \in Node, to(n) = r
      PROVE  input'[r] = Append(input[r], Head(SlotQueue(n)))
  <2>1. (CHOOSE m \in got : to(m) = r) = n
    BY <1>2, <1>7
  <2>2. input'[r] = Append(input[r], Head(SlotQueue(CHOOSE m \in got : to(m) = r)))
    BY <1>3, <1>7
  <2>3. QED BY <2>1, <2>2
<1>8. SlotStep(S, got, acked, known)
  BY <1>3, <1>4, <1>6, <1>7 DEF SlotStep
<1>9. QED BY <1>8

\* What has not expired is the end of the queue.
LEMMA UnexpiredIs ==
  ASSUME NEW T, NEW q \in Seq(T)
  PROVE  \E d \in Nat :
           /\ Len(Unexpired(q)) \in Nat /\ Len(Unexpired(q)) + d = Len(q)
           /\ \A i \in 1 .. Len(Unexpired(q)) : Unexpired(q)[i] = q[i + d]
           /\ \A i \in 1 .. Len(q) : SlotBefore(asn - 1, q[i].ttl) => d < i
<1> DEFINE alive == { i \in 1 .. Len(q) : SlotBefore(asn - 1, q[i].ttl) }
<1>1. Unexpired(q) = IF alive = {} THEN <<>> ELSE SubSeq(q, Min(alive), Len(q))
  BY DEF Unexpired
<1>2. alive \subseteq 1 .. Len(q) /\ Len(q) \in Nat
  OBVIOUS
<1>3. \A i \in 1 .. Len(q) : SlotBefore(asn - 1, q[i].ttl) => i \in alive
  OBVIOUS
<1> HIDE DEF alive
<1>4. CASE alive = {}
  <2>1. Unexpired(q) = <<>>
    BY <1>1, <1>4
  <2> DEFINE r == Unexpired(q)
             d == Len(q)
  <2>2. Len(r) = 0
    BY <2>1
  <2>3. d \in Nat /\ 0 + d = d /\ \A i \in 1 .. Len(r) : FALSE
    BY <1>2, <2>2
  <2>4. \A i \in 1 .. Len(q) : ~SlotBefore(asn - 1, q[i].ttl)
    BY <1>3, <1>4
  <2> HIDE DEF r
  <2>5. Len(r) \in Nat /\ Len(r) + d = Len(q)
    BY <2>2, <2>3
  <2>6. QED BY <2>3, <2>4, <2>5 DEF r
<1>5. CASE alive # {}
  <2> DEFINE k == Min(alive)
  <2>1. \E x \in alive : \A y \in alive : x <= y
    <3>1. alive \subseteq Nat
      BY <1>2
    <3>2. QED BY <1>5, <3>1, LeastNat
  <2>2. k \in alive /\ \A y \in alive : k <= y
    BY <2>1 DEF Min
  <2> HIDE DEF k
  <2>3. k \in 1 .. Len(q)
    BY <1>2, <2>2
  <2> DEFINE r == SubSeq(q, k, Len(q))
             d == k - 1
  <2>4. Len(r) = Len(q) - k + 1 /\ \A i \in 1 .. Len(r) : r[i] = q[i + k - 1]
    BY <2>3
  <2> HIDE DEF r
  <2>5. /\ d \in Nat /\ Len(r) \in Nat /\ Len(r) + d = Len(q)
        /\ \A i \in 1 .. Len(r) : i + k - 1 = i + d
        /\ \A i \in 1 .. Len(q) : k <= i => d < i
    BY <1>2, <2>3, <2>4
  <2> HIDE DEF d
  <2>6. \A i \in 1 .. Len(r) : r[i] = q[i + d]
    BY <2>4, <2>5
  <2>7. \A i \in 1 .. Len(q) : SlotBefore(asn - 1, q[i].ttl) => d < i
    BY <1>3, <2>2, <2>5
  <2>8. Unexpired(q) = r
    BY <1>1, <1>5 DEF r, k
  <2>9. QED BY <2>5, <2>6, <2>7, <2>8
<1>6. QED BY <1>4, <1>5

\* The head of a queue is marked as heard or not, the rest stays.
Mark(r, b) == <<[Head(r) EXCEPT !.heard = b]>> \o Tail(r)

LEMMA Marked ==
  ASSUME NEW r \in Seq(FinePacket), r # <<>>, NEW b \in BOOLEAN, NEW u, u = Mark(r, b)
  PROVE  /\ Len(u) = Len(r) /\ Len(r) \in Nat \ {0}
         /\ Alike(u[1], r[1]) /\ u[1].heard = b
         /\ \A i \in 2 .. Len(r) : u[i] = r[i]
<1> DEFINE p == Head(r)
           h == [p EXCEPT !.heard = b]
           t == Tail(r)
<1>1. /\ Len(r) \in Nat \ {0} /\ p = r[1] /\ p \in FinePacket
      /\ t \in Seq(FinePacket) /\ Len(t) = Len(r) - 1 /\ \A i \in 1 .. Len(t) : t[i] = r[i + 1]
  OBVIOUS
<1>2. u = <<h>> \o t
  BY DEF Mark
<1> HIDE DEF p, t
<1>3. Alike(h, p) /\ h.heard = b /\ h \in FinePacket
  <2>1. h \in FinePacket
    BY <1>1, HeardIsFine
  <2>2. QED BY <1>1, <2>1 DEF Alike, FinePacket, Packet
<1> HIDE DEF h
<1>4. Len(u) = 1 + Len(t) /\ u[1] = h /\ \A i \in 2 .. Len(u) : u[i] = t[i - 1]
  BY <1>1, <1>2, <1>3
<1>5. ASSUME NEW i \in 2 .. Len(r) PROVE u[i] = r[i]
  <2>1. i - 1 \in 1 .. Len(t) /\ (i - 1) + 1 = i /\ i \in 2 .. Len(u)
    BY <1>1, <1>4
  <2>2. QED BY <1>1, <1>4, <2>1
<1>6. Len(u) = Len(r)
  BY <1>1, <1>4
<1>7. Alike(u[1], r[1]) /\ u[1].heard = b
  BY <1>1, <1>3, <1>4
<1>8. QED BY <1>1, <1>5, <1>6, <1>7


\* The window of a packet is one its sender gave out, and fits the slotframe.
LEMMA GenuineWindow ==
  ASSUME FlowInv, FramedInv, NEW f \in Flow, NEW p \in FinePacket, p.kind = "flow", p.flow = f,
         Genuine(p, windows[f])
  PROVE  /\ p.nr - StartNumber \in 1 .. Len(windows[f])
         /\ p.earliest = windows[f][p.nr - StartNumber].earliest
         /\ p.ttl = windows[f][p.nr - StartNumber].ttl
         /\ p.earliest \in Nat /\ p.ttl \in Nat
         /\ InSlots(p, f)
<1>1. p.nr \in Nat /\ p.earliest \in Nat /\ p.ttl \in Nat /\ p.nr <= StartNumber + Len(windows[f])
  BY DEF FinePacket, Packet, OwnNumber
<1>2. StartNumber \in Nat /\ Len(windows[f]) \in Nat
  BY FlowAssumption DEF FlowInv, Types
<1>3. /\ StartNumber < p.nr
      /\ p.earliest = windows[f][p.nr - StartNumber].earliest
      /\ p.ttl = windows[f][p.nr - StartNumber].ttl
  BY DEF Genuine
<1>4. p.nr - StartNumber \in 1 .. Len(windows[f])
  BY <1>1, <1>2, <1>3
<1>5. Framed(f)
  BY DEF FramedInv
<1>6. QED BY <1>1, <1>3, <1>4, <1>5 DEF Framed, InSlots

LEMMA WindowLength ==
  ASSUME WindowsFit, NEW f \in Flow, NEW i \in WindowsOf(f)
  PROVE  LET length == LastTx[f][i] - FirstTx[f][i]
         IN /\ length \in Nat \ {0} /\ length < ByteModulus /\ ByteModulus \in Nat \ {0}
            /\ SfSize \in Nat \ {0} /\ SlotModulus \in Nat \ {0}
            /\ 2 * (2 * (SfSize - 1) + length + 1) <= SlotModulus
            /\ FirstTx[f][i] < LastTx[f][i]
            /\ LastTx[f][i] \in 0 .. SfSize - 1 /\ FirstTx[f][i] \in 0 .. SfSize - 1
<1>1. /\ ByteModulus \in Nat \ {0} /\ SfSize \in Nat \ {0} /\ SlotModulus \in Nat \ {0}
      /\ LastTx[f][i] \in 0 .. SfSize - 1 /\ FirstTx[f][i] \in 0 .. SfSize - 1
  BY SlotsOfWindows, FlowAssumption
<1>2. /\ LastTx[f][i] - FirstTx[f][i] < ByteModulus /\ FirstTx[f][i] < LastTx[f][i]
      /\ 2 * (2 * (SfSize - 1) + (LastTx[f][i] - FirstTx[f][i]) + 1) <= SlotModulus
  BY DEF WindowsFit
<1>3. LastTx[f][i] - FirstTx[f][i] \in Nat \ {0}
  BY <1>1, <1>2
<1>4. QED BY <1>1, <1>2, <1>3

\* A packet that is not in the last slot of its window is not given up.
LEMMA InWindowRetries ==
  ASSUME WindowsFit, asn \in Nat, NEW f \in Flow, NEW p, p.earliest \in Nat, p.ttl \in Nat,
         InSlots(p, f), p.earliest <= asn, asn < p.ttl
  PROVE  Retries(p)
<1>0. PICK i \in WindowsOf(f) : p.ttl = p.earliest + (LastTx[f][i] - FirstTx[f][i])
  BY DEF InSlots
<1> DEFINE t == p.ttl
           length == LastTx[f][i] - FirstTx[f][i]
<1>1. /\ length \in Nat \ {0} /\ length < ByteModulus /\ ByteModulus \in Nat \ {0}
      /\ SfSize \in Nat \ {0} /\ SlotModulus \in Nat \ {0}
      /\ 2 * (2 * (SfSize - 1) + length + 1) <= SlotModulus
  BY WindowLength
<1>2. t \in Nat /\ t = p.earliest + length /\ asn < t
  BY <1>0
<1> HIDE DEF t, length
<1>3. t - asn \in 1 .. ByteModulus - 1 /\ 2 * (t - asn) <= SlotModulus
  BY <1>1, <1>2
<1>4. SlotBefore(asn, t)
  BY <1>1, <1>2, <1>3, BeforeNear DEF SlotBefore
<1> DEFINE c == t - asn
<1>5. c % ByteModulus # 0
  <2>1. c \in 0 .. ByteModulus - 1 /\ c # 0
    BY <1>3
  <2> HIDE DEF c
  <2>2. (0 * ByteModulus + c) % ByteModulus = c
    BY <1>1, <2>1, Multiple
  <2>3. 0 * ByteModulus + c = c
    BY <1>1, <2>1
  <2>4. QED BY <2>1, <2>2, <2>3
<1>6. QED BY <1>4, <1>5 DEF Retries, t

\* A packet whose window is not over is not taken to have expired.
LEMMA InWindowAlive ==
  ASSUME WindowsFit, FlowInv, NEW f \in Flow, NEW p \in FinePacket,
         InSlots(p, f), asn <= p.ttl
  PROVE  SlotBefore(asn - 1, p.ttl)
<1>0. PICK i \in WindowsOf(f) : p.ttl = p.earliest + (LastTx[f][i] - FirstTx[f][i])
  BY DEF InSlots
<1> DEFINE t == p.ttl
           e == p.earliest
           length == LastTx[f][i] - FirstTx[f][i]
           a == asn - 1
<1>1. /\ length \in Nat \ {0} /\ SfSize \in Nat \ {0} /\ SlotModulus \in Nat \ {0}
      /\ 2 * (2 * (SfSize - 1) + length + 1) <= SlotModulus
  BY WindowLength
<1>2. e \in Nat /\ t \in Nat /\ e <= asn + 2 * (SfSize - 1) /\ t = e + length
  BY <1>0 DEF FinePacket, Packet, Horizon
<1>3. asn \in Nat \ {0}
  BY DEF FlowInv, Types
<1> HIDE DEF t, length, e
<1>4. a \in Nat /\ a < t /\ 2 * (t - a) <= SlotModulus
  <2>1. t <= asn + 2 * (SfSize - 1) + length /\ asn <= t
    BY <1>1, <1>2, <1>3 DEF t
  <2>2. t - a <= 2 * (SfSize - 1) + length + 1
    BY <1>1, <1>2, <1>3, <2>1
  <2>3. QED BY <1>1, <1>2, <1>3, <2>1, <2>2
<1> HIDE DEF a
<1>5. Before(a, t, SlotModulus)
  BY <1>1, <1>2, <1>4, BeforeNear
<1>6. QED BY <1>5 DEF SlotBefore, a, t

\* A queue of a flow at the beginning of a slot of the flow.
LEMMA FlowSlotQueue ==
  ASSUME FlowInv, NEW n \in Node, NEW f \in Flow, f = Here.flow
  PROVE  LET q == queue[n][f]
             r == SlotQueue(n)
         IN /\ q \in Seq(FinePacket) /\ r \in Seq(FinePacket)
            /\ \E d \in Nat :
                 /\ Len(r) \in Nat /\ Len(r) + d = Len(q)
                 /\ \A i \in 1 .. Len(r) : r[i] = q[i + d]
                 /\ \A i \in 1 .. Len(q) : SlotBefore(asn - 1, q[i].ttl) => d < i
<1> DEFINE q == queue[n][f]
<1>1. q \in Seq(FinePacket)
  BY DEF FlowInv, Traffic, QueueName
<1>2. SlotQueue(n) = Unexpired(q)
  BY FlowAssumption DEF SlotQueue
<1>3. SlotQueue(n) \in Seq(FinePacket)
  BY SlotQueueIsQueue DEF FlowInv, Types
<1> HIDE DEF q
<1>4. \E d \in Nat :
        /\ Len(Unexpired(q)) \in Nat /\ Len(Unexpired(q)) + d = Len(q)
        /\ \A i \in 1 .. Len(Unexpired(q)) : Unexpired(q)[i] = q[i + d]
        /\ \A i \in 1 .. Len(q) : SlotBefore(asn - 1, q[i].ttl) => d < i
  BY <1>1, UnexpiredIs
<1>5. QED BY <1>1, <1>2, <1>3, <1>4 DEF q

\* What is marked, routed and known of a queue holds of what has not expired.
LEMMA SlotQueueSame ==
  ASSUME FlowInv, RouteInv, NEW n \in Node, NEW f \in Flow, f = Here.flow
  PROVE  /\ Routed(SlotQueue(n), n, f, windows[f])
         /\ \A k \in Nat : HoldsHeard(SlotQueue(n), f, k) => HoldsHeard(queue[n][f], f, k)
<1> DEFINE q == queue[n][f]
           r == SlotQueue(n)
<1>1. PICK d \in Nat : /\ Len(r) \in Nat /\ Len(r) + d = Len(q)
                       /\ \A i \in 1 .. Len(r) : r[i] = q[i + d]
  BY FlowSlotQueue
<1>2. q \in Seq(FinePacket) /\ Routed(q, n, f, windows[f])
  BY FlowSlotQueue DEF RouteInv, RoutedNode
<1> HIDE DEF q, r
<1>3. \A i \in 1 .. Len(r) : i + d \in 1 .. Len(q)
  BY <1>1
<1>4. Routed(r, n, f, windows[f])
  BY <1>1, <1>2, <1>3 DEF Routed
<1>5. \A k \in Nat : HoldsHeard(r, f, k) => HoldsHeard(q, f, k)
  BY <1>1, <1>3 DEF HoldsHeard
<1>6. QED BY <1>4, <1>5 DEF q, r


\* The node a sent packet is for has it, if it was heard.
LEMMA SlotHad ==
  ASSUME RoutesLead, Forward, FlowInv, FlowInv', RouteInv, RecordInv, NumbersInReach, RecordsInReach,
         Slot, NEW S, NEW got, NEW acked, NEW known, SlotStep(S, got, acked, known),
         NEW n \in Node, NEW f \in Flow, f = Here.flow, n \in got, NEW k \in Nat,
         Copy(Head(SlotQueue(n)), f, k)
  PROVE  Had(ForwardTo[n][f], f, k)'
<1> DEFINE q == SlotQueue(n)
           h == Head(q)
           m == ForwardTo[n][f]
<1>1. q \in Seq(FinePacket) /\ q # <<>>
  BY FlowSlotQueue DEF SlotStep, Sends
<1>2. Routed(q, n, f, windows[f]) /\ (HoldsHeard(q, f, k) => HoldsHeard(queue[n][f], f, k))
  BY SlotQueueSame
<1>3. Copy(h, f, k)
  OBVIOUS
<1>4. \A r \in Node : h.to = r /\ n \notin known => input'[r] = Append(input[r], h)
  BY DEF SlotStep
<1>5. n \in known => h.heard
  BY DEF SlotStep
<1> HIDE DEF q
<1>6. h = q[1] /\ 1 \in 1 .. Len(q) /\ h \in FinePacket
  BY <1>1
<1>7. h.to = m /\ m \in Node
  BY <1>2, <1>3, <1>6 DEF Routed, Copy, FinePacket, Packet
<1>8. CASE n \in known
  <2>1. HoldsHeard(q, f, k)
    BY <1>3, <1>5, <1>6, <1>8 DEF HoldsHeard
  <2>2. Had(m, f, k)
    BY <1>2, <2>1 DEF RecordInv, Recorded
  <2> HIDE DEF m
  <2>3. Had(m, f, k)'
    BY <1>7, <2>2, HadStays DEF Next
  <2>4. QED BY <2>3 DEF m
<1>9. CASE n \notin known
  <2> HIDE DEF h, m
  <2>1. input[m] \in Seq(FinePacket) /\ input'[m] = Append(input[m], h)
    BY <1>4, <1>7, <1>9 DEF FlowInv, Traffic
  <2>2. Longer(input'[m], input[m], h)
    BY <1>6, <2>1, AppendIsLonger
  <2>3. Holds(input'[m], f, k)
    BY <1>3, <2>2, HoldsLonger
  <2>4. QED BY <2>3 DEF Had, m
<1>10. QED BY <1>8, <1>9

\* The queue of a flow at a node that sends in the slot, after it.
LEMMA AfterCases ==
  ASSUME FlowInv, Slot, NEW S, NEW got, NEW acked, NEW known, SlotStep(S, got, acked, known),
         NEW n \in Node, NEW f \in Flow, f = Here.flow, n \in Here.tx
  PROVE  LET q == SlotQueue(n)
             r == queue'[n][f]
         IN \/ r = q
            \/ q # <<>> /\ r = Tail(q) /\ (n \in got \/ ~Retries(Head(q)))
            \/ /\ q # <<>>
               /\ \E b \in BOOLEAN : /\ b => Head(q).heard \/ n \in got
                                     /\ r = Mark(q, b)
<1> DEFINE q == SlotQueue(n)
           r == queue'[n][f]
           b == Head(q).heard \/ n \in got
<1>1. r = After(n, S, got, acked) /\ (n \in S => q # <<>>) /\ acked \subseteq got
  BY DEF SlotStep, Sends, QueueName
<1>2. CASE n \notin S
  BY <1>1, <1>2 DEF After
<1>3. CASE n \in S /\ (n \in acked \/ Here.flow = BeaconQueue \/ ~Retries(Head(q)))
  <2>1. r = Tail(q)
    BY <1>1, <1>3 DEF After
  <2>2. Here.flow # BeaconQueue
    BY FlowAssumption
  <2>3. QED BY <1>1, <1>3, <2>1, <2>2
<1>4. CASE n \in S /\ ~(n \in acked \/ Here.flow = BeaconQueue \/ ~Retries(Head(q)))
  <2>1. r = Mark(q, b)
    BY <1>1, <1>4 DEF After, Mark
  <2>2. b \in BOOLEAN
    OBVIOUS
  <2>3. QED BY <1>1, <1>4, <2>1, <2>2
<1>5. QED BY <1>2, <1>3, <1>4

\* What is newly marked as heard has been heard.
LEMMA SlotMarks ==
  ASSUME RoutesLead, Forward, FlowInv, FlowInv', RouteInv, RecordInv, NumbersInReach, RecordsInReach,
         Slot, NEW n \in Node, NEW f \in Flow, NEW k \in Nat, HoldsHeard(queue'[n][f], f, k)
  PROVE  HoldsHeard(queue[n][f], f, k) \/ Had(ForwardTo[n][f], f, k)'
<1> DEFINE r == queue'[n][f]
           q == SlotQueue(n)
<1>1. PICK S, got, acked, known : SlotStep(S, got, acked, known)
  BY SlotSteps
<1>2. CASE ~(n \in Here.tx /\ f = Here.flow)
  <2>1. r = queue[n][f]
    BY <1>1, <1>2 DEF SlotStep, QueueName
  <2>2. QED BY <2>1
<1>3. CASE n \in Here.tx /\ f = Here.flow
  <2>1. q \in Seq(FinePacket)
    BY <1>3, FlowSlotQueue
  <2>2. HoldsHeard(q, f, k) => HoldsHeard(queue[n][f], f, k)
    BY <1>3, SlotQueueSame
  <2>3. PICK i \in 1 .. Len(r) : Copy(r[i], f, k) /\ r[i].heard
    BY DEF HoldsHeard
  <2>4. n \in got /\ Copy(Head(q), f, k) => Had(ForwardTo[n][f], f, k)'
    BY <1>1, <1>3, SlotHad
  <2>5. \/ r = q
        \/ q # <<>> /\ r = Tail(q) /\ (n \in got \/ ~Retries(Head(q)))
        \/ /\ q # <<>>
           /\ \E b \in BOOLEAN : /\ b => Head(q).heard \/ n \in got
                                 /\ r = Mark(q, b)
    BY <1>1, <1>3, AfterCases
  <2> HIDE DEF r, q
  <2>6. CASE r = q
    <3>1. HoldsHeard(q, f, k)
      BY <2>3, <2>6 DEF HoldsHeard
    <3>2. QED BY <2>2, <3>1
  <2>7. CASE q # <<>> /\ r = Tail(q)
    <3>1. i + 1 \in 1 .. Len(q) /\ r[i] = q[i + 1]
      BY <2>1, <2>3, <2>7
    <3>2. HoldsHeard(q, f, k)
      BY <2>3, <3>1 DEF HoldsHeard
    <3>3. QED BY <2>2, <3>2
  <2>8. CASE /\ q # <<>>
             /\ \E b \in BOOLEAN : /\ b => Head(q).heard \/ n \in got
                                   /\ r = Mark(q, b)
    <3>1. PICK b \in BOOLEAN : /\ b => Head(q).heard \/ n \in got
                               /\ r = Mark(q, b)
      BY <2>8
    <3>2. /\ Len(r) = Len(q) /\ Len(q) \in Nat \ {0}
          /\ Alike(r[1], q[1]) /\ r[1].heard = b
          /\ \A j \in 2 .. Len(q) : r[j] = q[j]
      BY <2>1, <2>8, <3>1, Marked
    <3>3. CASE i = 1
      <4>1. Head(q) = q[1] /\ 1 \in 1 .. Len(q)
        BY <2>1, <2>8, <3>2
      <4>2. Copy(Head(q), f, k) /\ (Head(q).heard \/ n \in got)
        BY <2>3, <3>1, <3>2, <3>3, <4>1 DEF Copy, Alike
      <4>3. Head(q).heard => HoldsHeard(q, f, k)
        BY <4>1, <4>2 DEF HoldsHeard
      <4>4. QED BY <2>2, <2>4, <4>2, <4>3
    <3>4. CASE i # 1
      <4>1. i \in 1 .. Len(q) /\ r[i] = q[i]
        BY <2>3, <3>2, <3>4
      <4>2. HoldsHeard(q, f, k)
        BY <2>3, <4>1 DEF HoldsHeard
      <4>3. QED BY <2>2, <4>2
    <3>5. QED BY <3>3, <3>4
  <2>9. QED BY <2>5, <2>6, <2>7, <2>8
<1>4. QED BY <1>2, <1>3

\* A packet that is in time stays in the queue or is heard where it is to go.
LEMMA SlotLeaves ==
  ASSUME 4 * (SfSize - 1) <= SlotModulus, WindowsFit, RoutesLead, Forward, FlowInv, FlowInv', FramedInv,
         RouteInv, RecordInv, NumbersInReach, RecordsInReach, SlotsInReach,
         Slot, NEW n \in Node, NEW f \in Flow, NEW l \in 1 .. Len(windows[f]), asn < windows[f][l].ttl,
         Holds(queue[n][f], f, StartNumber + l)
  PROVE  Holds(queue'[n][f], f, StartNumber + l) \/ Had(ForwardTo[n][f], f, StartNumber + l)'
<1> DEFINE r == queue'[n][f]
           q == SlotQueue(n)
           k == StartNumber + l
<1>1. PICK S, got, acked, known : SlotStep(S, got, acked, known)
  BY SlotSteps
<1>2. CASE ~(n \in Here.tx /\ f = Here.flow)
  <2>1. r = queue[n][f]
    BY <1>1, <1>2 DEF SlotStep, QueueName
  <2>2. QED BY <2>1
<1>3. CASE n \in Here.tx /\ f = Here.flow
  <2>1. q \in Seq(FinePacket) /\ asn \in Nat
    BY <1>3, FlowSlotQueue DEF FlowInv, Types
  <2>2. k \in Nat /\ k - StartNumber = l
    BY FlowAssumption
  <2>3. Routed(q, n, f, windows[f])
    BY <1>3, SlotQueueSame
  <2>4. ASSUME NEW p \in FinePacket, Copy(p, f, k), Genuine(p, windows[f])
        PROVE  /\ SlotBefore(asn - 1, p.ttl)
               /\ p.earliest <= asn => Retries(p)
    <3>1. /\ p.ttl = windows[f][p.nr - StartNumber].ttl /\ p.earliest \in Nat /\ p.ttl \in Nat
          /\ InSlots(p, f)
      BY <2>4, GenuineWindow DEF Copy
    <3>2. asn < p.ttl
      BY <2>2, <2>4, <3>1 DEF Copy
    <3>3. SlotBefore(asn - 1, p.ttl)
      BY <2>1, <3>1, <3>2, InWindowAlive
    <3>4. p.earliest <= asn => Retries(p)
      BY <2>1, <3>1, <3>2, InWindowRetries
    <3>5. QED BY <3>3, <3>4
  <2>5. n \in got /\ Copy(Head(q), f, k) => Had(ForwardTo[n][f], f, k)'
    BY <1>1, <1>3, <2>2, SlotHad
  <2>6. \/ r = q
        \/ q # <<>> /\ r = Tail(q) /\ (n \in got \/ ~Retries(Head(q)))
        \/ /\ q # <<>>
           /\ \E b \in BOOLEAN : r = Mark(q, b)
    BY <1>1, <1>3, AfterCases
  <2>7. n \in Here.tx /\ Sends(n) => Head(q).earliest <= asn
    BY <1>3, SlotSendsInWindow, FlowAssumption
  <2>8. \E i \in 1 .. Len(q) : Copy(q[i], f, k)
    <3> DEFINE full == queue[n][f]
    <3>1. PICK d \in Nat : /\ Len(q) \in Nat /\ Len(q) + d = Len(full)
                           /\ \A i \in 1 .. Len(q) : q[i] = full[i + d]
                           /\ \A i \in 1 .. Len(full) : SlotBefore(asn - 1, full[i].ttl) => d < i
      BY <1>3, FlowSlotQueue
    <3>2. full \in Seq(FinePacket) /\ Routed(full, n, f, windows[f])
      BY <1>3, FlowSlotQueue DEF RouteInv, RoutedNode
    <3>3. PICK i \in 1 .. Len(full) : Copy(full[i], f, k)
      BY DEF Holds
    <3> HIDE DEF full, q, k
    <3>4. full[i] \in FinePacket /\ Genuine(full[i], windows[f])
      BY <3>2, <3>3 DEF Routed, Copy
    <3>5. d < i
      BY <2>4, <3>1, <3>3, <3>4
    <3>6. i - d \in 1 .. Len(q) /\ (i - d) + d = i
      BY <3>1, <3>3, <3>5
    <3>7. q[i - d] = full[i]
      BY <3>1, <3>6
    <3>8. QED BY <3>3, <3>6, <3>7
  <2>9. PICK i \in 1 .. Len(q) : Copy(q[i], f, k)
    BY <2>8
  <2>10. SUFFICES ASSUME ~Had(ForwardTo[n][f], f, k)' PROVE Holds(r, f, k)
    OBVIOUS
  <2>11. CASE r = q
    BY <2>9, <2>11 DEF Holds
  <2>12. CASE q # <<>> /\ r = Tail(q) /\ (n \in got \/ ~Retries(Head(q)))
    <3>1. i # 1
      <4>1. SUFFICES ASSUME i = 1 PROVE FALSE
        OBVIOUS
      <4>2. Head(q) = q[1]
        BY <2>1, <2>12
      <4> DEFINE h == Head(q)
      <4>3. Copy(h, f, k) /\ h \in FinePacket /\ Genuine(h, windows[f])
        BY <2>1, <2>3, <2>9, <4>1, <4>2 DEF Routed, Copy
      <4>4. n \notin got /\ ~Retries(h)
        BY <2>5, <2>10, <2>12, <4>3
      <4>5. ~(h.earliest <= asn)
        <5> HIDE DEF h, k
        <5>1. QED BY <2>4, <4>3, <4>4
      <4>6. ~Sends(n)
        BY <1>3, <2>7, <4>5
      <4>7. r = q
        BY <1>1, <1>3, <4>6 DEF SlotStep, After, QueueName
      <4>8. Tail(q) = q /\ Len(q) \in Nat \ {0}
        BY <2>1, <2>12, <4>7
      <4> HIDE DEF q
      <4>9. Len(Tail(q)) = Len(q) - 1
        BY <2>1, <2>12
      <4>10. QED BY <4>8, <4>9
    <3> HIDE DEF r, q, k
    <3>2. i - 1 \in 1 .. Len(r) /\ r[i - 1] = q[i]
      BY <2>1, <2>9, <2>12, <3>1
    <3>3. QED BY <2>9, <3>2 DEF Holds
  <2>13. CASE /\ q # <<>>
              /\ \E b \in BOOLEAN : r = Mark(q, b)
    <3>1. PICK b \in BOOLEAN : r = Mark(q, b)
      BY <2>13
    <3> HIDE DEF r, q, k
    <3>2. /\ Len(r) = Len(q) /\ Len(q) \in Nat \ {0} /\ Alike(r[1], q[1])
          /\ \A j \in 2 .. Len(q) : r[j] = q[j]
      BY <2>1, <2>13, <3>1, Marked
    <3>3. CASE i = 1
      <4>1. Copy(r[1], f, k) /\ 1 \in 1 .. Len(r)
        BY <2>9, <3>2, <3>3 DEF Copy, Alike
      <4>2. QED BY <4>1 DEF Holds
    <3>4. CASE i # 1
      <4>1. i \in 1 .. Len(r) /\ r[i] = q[i]
        BY <2>9, <3>2, <3>4
      <4>2. QED BY <2>9, <4>1 DEF Holds
    <3>5. QED BY <3>3, <3>4
  <2>14. QED BY <2>6, <2>11, <2>12, <2>13
<1>4. QED BY <1>2, <1>3


-----------------------------------------------------------------------------
(***************************************************************************)
(* Routes and records in a step.                                           *)
(***************************************************************************)
LEMMA RoutedRest ==
  ASSUME NEW q, Len(q) \in Nat, NEW r, Len(r) \in Nat, RestOf(r, q)
  PROVE  /\ \A n, f, ws : Routed(q, n, f, ws) => Routed(r, n, f, ws)
         /\ OnlyVectors(q) => OnlyVectors(r)
<1>1. PICK d \in Nat : Len(r) + d <= Len(q) /\ \A i \in 1 .. Len(r) : Alike(r[i], q[i + d])
  BY DEF RestOf
<1>2. \A i \in 1 .. Len(r) : i + d \in 1 .. Len(q)
  BY <1>1
<1>3. ASSUME NEW n, NEW f, NEW ws, Routed(q, n, f, ws), NEW i \in 1 .. Len(r), r[i].kind = "flow"
      PROVE  r[i].flow = f /\ Genuine(r[i], ws) /\ r[i].to = ForwardTo[n][f]
  <2> DEFINE x == r[i]
             y == q[i + d]
  <2>1. Alike(x, y) /\ i + d \in 1 .. Len(q) /\ x.kind = "flow"
    BY <1>1, <1>2, <1>3
  <2>2. y.flow = f /\ Genuine(y, ws) /\ y.to = ForwardTo[n][f]
    BY <1>3, <2>1 DEF Routed, Alike
  <2> HIDE DEF x, y
  <2>3. x.flow = f /\ Genuine(x, ws) /\ x.to = ForwardTo[n][f]
    BY <2>1, <2>2 DEF Alike, Genuine
  <2>4. QED BY <2>3 DEF x
<1>4. ASSUME OnlyVectors(q), NEW i \in 1 .. Len(r) PROVE r[i].kind = "vector"
  BY <1>1, <1>2, <1>4 DEF OnlyVectors, Alike
<1>5. \A n, f, ws : Routed(q, n, f, ws) => Routed(r, n, f, ws)
  BY <1>3 DEF Routed
<1>6. OnlyVectors(q) => OnlyVectors(r)
  BY <1>4 DEF OnlyVectors
<1>7. QED BY <1>5, <1>6

LEMMA QueueRoute ==
  ASSUME Forward, FlowInv, FlowInv', RouteInv, NEW n \in Node, NEW f \in Flow, QueueMove(n, f)
  PROVE  Routed(queue'[n][f], n, f, windows'[f])
<1> DEFINE q == queue[n][f]
           r == queue'[n][f]
           ws == windows'[f]
<1>1. Routed(q, n, f, ws)
  BY RoutedOnward DEF RouteInv, RoutedNode
<1>2. Len(q) \in Nat
  <2>1. q \in Seq(FinePacket)
    BY DEF FlowInv, Traffic, QueueName
  <2> HIDE DEF q
  <2>2. QED BY <2>1
<1>3. \/ r = q
      \/ \E x : Fresh(x, n, f, ws) /\ Longer(r, q, x)
      \/ RestOf(r, q) /\ Len(r) \in Nat
  BY DEF QueueMove
<1> HIDE DEF q, r, ws
<1>4. CASE \E x : Fresh(x, n, f, ws) /\ Longer(r, q, x)
  <2>1. PICK x : Fresh(x, n, f, ws) /\ Longer(r, q, x)
    BY <1>4
  <2>2. x.kind = "flow" => x.flow = f /\ Genuine(x, ws) /\ x.to = ForwardTo[n][f]
    BY <2>1 DEF Fresh
  <2>3. Routed(r, n, f, ws)
    BY <1>1, <2>1, <2>2, RoutedLonger
  <2>4. QED BY <2>3 DEF r, ws
<1>5. CASE RestOf(r, q) /\ Len(r) \in Nat
  BY <1>1, <1>2, <1>5, RoutedRest DEF r, ws
<1>6. QED BY <1>1, <1>3, <1>4, <1>5 DEF r, ws

LEMMA BeaconsRoute ==
  ASSUME FlowInv, RouteInv, NEW n \in Node, QueueMove(n, BeaconQueue)
  PROVE  OnlyVectors(queue'[n][BeaconQueue])
<1> DEFINE q == queue[n][BeaconQueue]
           r == queue'[n][BeaconQueue]
<1>1. OnlyVectors(q)
  BY DEF RouteInv, RoutedNode
<1>2. Len(q) \in Nat
  <2>1. q \in Seq(FinePacket)
    BY DEF FlowInv, Traffic, QueueName
  <2> HIDE DEF q
  <2>2. QED BY <2>1
<1>3. \/ r = q
      \/ \E x : Fresh(x, n, BeaconQueue, windows'[BeaconQueue]) /\ Longer(r, q, x)
      \/ RestOf(r, q) /\ Len(r) \in Nat
  BY DEF QueueMove
<1>4. BeaconQueue \notin Flow
  BY FlowAssumption
<1> HIDE DEF q, r
<1>5. CASE \E x : Fresh(x, n, BeaconQueue, windows'[BeaconQueue]) /\ Longer(r, q, x)
  <2>1. PICK x : x.kind = "vector" /\ Longer(r, q, x)
    BY <1>4, <1>5 DEF Fresh
  <2>2. ASSUME NEW i \in 1 .. Len(r) PROVE r[i].kind = "vector"
    <3>1. \/ i = Len(q) + 1 /\ r[i] = x
          \/ i \in 1 .. Len(q) /\ r[i] = q[i]
      BY <2>1, LongerAt
    <3>2. QED BY <1>1, <2>1, <3>1 DEF OnlyVectors
  <2>3. QED BY <2>2 DEF OnlyVectors, r
<1>6. CASE RestOf(r, q) /\ Len(r) \in Nat
  BY <1>1, <1>2, <1>6, RoutedRest DEF r
<1>7. QED BY <1>1, <1>3, <1>5, <1>6 DEF r

\* What goes out in a slot is genuine, and its window has begun.
LEMMA SentRoute ==
  ASSUME 4 * (SfSize - 1) <= SlotModulus, FlowInv, RouteInv, SlotsInReach,
         NEW c \in Here.tx, Sends(c)
  PROVE  LET p == Head(SlotQueue(c))
         IN /\ p \in FinePacket
            /\ p.kind = "flow" => Genuine(p, windows[p.flow]) /\ p.earliest <= asn
<1> DEFINE q == SlotQueue(c)
           p == Head(q)
<1>1. c \in Node /\ Here.flow \in QueueName /\ asn \in Nat
  BY HereIsCell DEF FlowInv, Types
<1>2. q \in Seq(FinePacket) /\ q # <<>>
  BY <1>1, SlotQueueIsQueue DEF FlowInv, Sends
<1>3. p \in FinePacket /\ p = q[1] /\ 1 \in 1 .. Len(q)
  <2> HIDE DEF q
  <2>1. QED BY <1>2
<1>4. CASE Here.flow = BeaconQueue
  <2>1. OnlyVectors(q)
    BY <1>1, <1>4 DEF SlotQueue, RouteInv, RoutedNode
  <2> HIDE DEF q
  <2>2. p.kind = "vector"
    BY <1>3, <2>1 DEF OnlyVectors
  <2>3. QED BY <1>3, <2>2 DEF q
<1>5. CASE Here.flow # BeaconQueue
  <2>1. Here.flow \in Flow
    BY <1>1, <1>5 DEF QueueName
  <2>2. Routed(q, c, Here.flow, windows[Here.flow])
    BY <1>1, <2>1, SlotQueueSame
  <2>3. p.earliest <= asn
    BY <1>5, SlotSendsInWindow
  <2> HIDE DEF q
  <2>4. p.kind = "flow" => Genuine(p, windows[p.flow])
    BY <1>3, <2>2 DEF Routed
  <2>5. QED BY <1>3, <2>3, <2>4 DEF q
<1>6. QED BY <1>4, <1>5

LEMMA InputRoute ==
  ASSUME 4 * (SfSize - 1) <= SlotModulus, Forward, FlowInv, FlowInv', RouteInv, SlotsInReach,
         [Next]_vars, NEW n \in Node
  PROVE  Received(input'[n], n, windows', asn')
<1> DEFINE in == input[n]
<1>1. in \in Seq(FinePacket) /\ Received(in, n, windows, asn)
  BY DEF FlowInv, Traffic, RouteInv, RoutedNode
<1>2. Received(in, n, windows', asn')
  BY <1>1, ReceivedOnward
<1>3. CASE input'[n] = in
  BY <1>2, <1>3
<1>4. CASE Input(n) /\ input'[n] = Tail(in)
  <2>1. in # <<>>
    BY <1>4 DEF Input
  <2>2. input'[n] = Tail(in)
    BY <1>4
  <2> HIDE DEF in
  <2>3. \A i \in 1 .. Len(Tail(in)) : i + 1 \in 1 .. Len(in) /\ Tail(in)[i] = in[i + 1]
    BY <1>1, <2>1
  <2>4. Received(Tail(in), n, windows', asn')
    BY <1>2, <2>3 DEF Received
  <2>5. QED BY <2>2, <2>4
<1>5. CASE Slot
  <2>1. \/ input'[n] = in
        \/ \E c \in Here.tx : /\ Sends(c) /\ Head(SlotQueue(c)).to = n
                              /\ input'[n] = Append(in, Head(SlotQueue(c)))
    BY <1>5, SlotMoves DEF SlotInputs
  <2>2. CASE \E c \in Here.tx : /\ Sends(c) /\ Head(SlotQueue(c)).to = n
                                /\ input'[n] = Append(in, Head(SlotQueue(c)))
    <3>1. PICK c \in Here.tx : /\ Sends(c) /\ Head(SlotQueue(c)).to = n
                               /\ input'[n] = Append(in, Head(SlotQueue(c)))
      BY <2>2
    <3> DEFINE p == Head(SlotQueue(c))
    <3>2. /\ p \in FinePacket
          /\ p.kind = "flow" => Genuine(p, windows[p.flow]) /\ p.earliest <= asn
      BY <3>1, SentRoute
    <3>3. windows' = windows /\ asn \in Nat /\ asn' \in Nat /\ asn <= asn'
      BY <1>5 DEF Slot, Forward
    <3>4. p.to = n /\ input'[n] = Append(in, p)
      BY <3>1
    <3> HIDE DEF p, in
    <3>5. p.kind = "flow" => /\ Genuine(p, windows'[p.flow]) /\ p.to = n
                             /\ p.earliest <= asn'
      <4>1. p.earliest \in Nat
        BY <3>2 DEF FinePacket, Packet
      <4>2. QED BY <3>2, <3>3, <3>4, <4>1
    <3> DEFINE r == Append(in, p)
    <3>6. Longer(r, in, p)
      BY <1>1, <3>2, AppendIsLonger
    <3> HIDE DEF r
    <3>7. ASSUME NEW i \in 1 .. Len(r), r[i].kind = "flow"
          PROVE  Genuine(r[i], windows'[r[i].flow]) /\ r[i].to = n /\ r[i].earliest <= asn'
      <4>1. \/ i = Len(in) + 1 /\ r[i] = p
            \/ i \in 1 .. Len(in) /\ r[i] = in[i]
        BY <3>6, LongerAt
      <4>2. CASE r[i] = p
        BY <3>5, <3>7, <4>2
      <4>3. CASE i \in 1 .. Len(in) /\ r[i] = in[i]
        BY <1>2, <3>7, <4>3 DEF Received
      <4>4. QED BY <4>1, <4>2, <4>3
    <3>8. Received(r, n, windows', asn')
      BY <3>7 DEF Received
    <3>9. QED BY <3>4, <3>8 DEF r
  <2>3. QED BY <1>3, <2>1, <2>2
<1>6. QED BY <1>3, <1>4, <1>5, InputsMove

LEMMA RecordStep ==
  ASSUME RoutesLead, Forward, FlowInv, FlowInv', RouteInv, RecordInv, NumbersInReach, RecordsInReach,
         [Next]_vars, NEW n \in Node, NEW f \in Flow, QueueMove(n, f)
  PROVE  Recorded(n, f)'
<1> DEFINE q == queue[n][f]
           r == queue'[n][f]
           m == ForwardTo[n][f]
<1>1. ASSUME NEW k \in Nat, HoldsHeard(q, f, k) PROVE Had(m, f, k)'
  <2>1. q \in Seq(FinePacket) /\ Routed(q, n, f, windows[f])
    BY DEF FlowInv, Traffic, QueueName, RouteInv, RoutedNode
  <2>2. Had(m, f, k)
    BY <1>1 DEF RecordInv, Recorded
  <2>3. HoldsHeard(q, f, k)
    BY <1>1
  <2> HIDE DEF q, m
  <2>4. PICK i \in 1 .. Len(q) : Copy(q[i], f, k)
    BY <2>3 DEF HoldsHeard
  <2>5. q[i] \in FinePacket /\ q[i].to = m
    BY <2>1, <2>4 DEF Routed, Copy, m
  <2>6. m \in Node
    BY <2>5 DEF FinePacket, Packet
  <2>7. Had(m, f, k)'
    BY <2>2, <2>6, HadStays
  <2>8. QED BY <2>7
<1>2. ASSUME NEW k \in Nat, HoldsHeard(r, f, k) PROVE HoldsHeard(q, f, k) \/ Had(m, f, k)'
  <2>1. CASE r = q
    BY <1>2, <2>1
  <2>2. CASE \E x : Fresh(x, n, f, windows'[f]) /\ Longer(r, q, x)
    <3>1. PICK x : ~x.heard /\ Longer(r, q, x)
      BY <2>2 DEF Fresh
    <3>2. HoldsHeard(r, f, k)
      BY <1>2
    <3>3. HoldsHeard(r, f, k) => HoldsHeard(q, f, k) \/ x.heard
      <4> HIDE DEF r, q
      <4>1. QED BY <3>1, HoldsLonger
    <3>4. QED BY <3>1, <3>2, <3>3
  <2>3. CASE Slot
    BY <1>2, <2>3, SlotMarks
  <2>4. QED BY <2>1, <2>2, <2>3 DEF QueueMove
<1>3. ASSUME NEW k \in Nat, HoldsHeard(r, f, k) PROVE Had(m, f, k)'
  BY <1>1, <1>2, <1>3
<1>4. QED BY <1>3 DEF Recorded

LEMMA RouteStep ==
  ASSUME 4 * (SfSize - 1) <= SlotModulus, RoutesLead, Forward, FlowInv, FlowInv', RouteInv, RecordInv,
         NumbersInReach, RecordsInReach, SlotsInReach, [Next]_vars
  PROVE  RouteInv' /\ RecordInv'
<1>1. \A n \in Node : \A g \in QueueName : QueueMove(n, g)
  BY QueuesMove
<1>2. ASSUME NEW n \in Node PROVE RoutedNode(n)'
  <2>1. \A f \in Flow : Routed(queue'[n][f], n, f, windows'[f])
    BY <1>1, QueueRoute DEF QueueName
  <2>2. OnlyVectors(queue'[n][BeaconQueue])
    BY <1>1, BeaconsRoute DEF QueueName
  <2>3. Received(input'[n], n, windows', asn')
    BY InputRoute
  <2>4. QED BY <2>1, <2>2, <2>3 DEF RoutedNode
<1>3. ASSUME NEW n \in Node, NEW f \in Flow PROVE Recorded(n, f)'
  BY <1>1, RecordStep DEF QueueName
<1>4. QED BY <1>2, <1>3 DEF RouteInv, RecordInv


-----------------------------------------------------------------------------
(***************************************************************************)
(* Packets are passed on.                                                  *)
(***************************************************************************)

\* With room in the queue, what is put out is queued.
LEMMA PutOutHolds ==
  ASSUME FlowInv, RoomInQueues, NEW m \in Node, NEW f \in Flow, NEW x, Output(m, x),
         config'[m].flow = f, NEW k, Copy(x, f, k)
  PROVE  Holds(queue'[m][f], f, k)
<1> DEFINE q == queue[m][f]
           new == [queue[m] EXCEPT ![f] = Append(q, x)]
<1>1. queue' = [queue EXCEPT ![m] = new]
  BY DEF Output, RoomInQueues
<1>2. queue \in [Node -> [QueueName -> Seq(FinePacket)]]
  BY DEF FlowInv, Traffic
<1>3. f \in QueueName
  BY DEF QueueName
<1>4. new[f] = Append(q, x) /\ q \in Seq(FinePacket)
  BY <1>2, <1>3
<1> HIDE DEF new
<1>5. queue'[m][f] = Append(q, x)
  BY <1>1, <1>2, <1>4
<1> HIDE DEF q
<1>6. q \in Seq(FinePacket \cup {x})
  BY <1>4
<1>7. Longer(Append(q, x), q, x)
  BY <1>6, AppendIsLonger
<1>8. QED BY <1>5, <1>7, HoldsLonger

\* While its window is open, a node comes to know of a packet by this packet, not a later one.
LEMMA NewlySeen ==
  ASSUME WindowsFit, RoutesLead, FlowInv, WindowsInv, FramedInv, RouteInv, NumbersInReach,
         RecordsInReach, [Next]_vars, NEW n \in Node, NEW f \in Flow, NEW l \in 1 .. Len(windows[f]),
         asn <= windows[f][l].ttl, ~HasSeen(n, f, StartNumber + l), HasSeen(n, f, StartNumber + l)'
  PROVE  Input(n) /\ Copy(Head(input[n]), f, StartNumber + l) /\ IsNew(n, Head(input[n]))
<1> DEFINE k == StartNumber + l
<1>1. seen[n][f] \in Nat /\ k \in Nat /\ ~(k <= seen[n][f]) /\ k <= seen'[n][f]
  BY FlowAssumption DEF HasSeen, FlowInv, Types
<1>2. seen \in [Node -> [Flow -> Nat]]
  BY DEF FlowInv, Types
<1>3. PICK m \in Node : Input(m)
  <2>1. SUFFICES ASSUME ~(\E m \in Node : Input(m)) PROVE FALSE
    OBVIOUS
  <2>2. seen' = seen
    BY <2>1 DEF Next, FlowSend, SendAdvertisement, SendVector, Slot, vars
  <2>3. QED BY <1>1, <2>2
<1> DEFINE p == Head(input[m])
<1>4. input[m] # <<>>
  BY <1>3 DEF Input
<1>5. p.kind = "flow"
  <2>1. input[m] \in Seq(FinePacket)
    BY DEF FlowInv, Traffic
  <2>2. p \in FinePacket
    BY <1>4, <2>1
  <2>3. SUFFICES ASSUME p.kind = "vector" PROVE FALSE
    BY <2>2 DEF FinePacket, Packet
  <2>4. seen' = seen
    BY <1>3, <2>3 DEF Input, InputVector
  <2>5. QED BY <1>1, <2>4
<1>6. /\ p \in FinePacket /\ p.flow \in Flow /\ p.nr \in Nat /\ p.earliest \in Nat
      /\ Genuine(p, windows[p.flow]) /\ p.earliest <= asn
  BY <1>4, <1>5, FirstReceived
<1>7. \/ IsNew(m, p) /\ seen' = [seen EXCEPT ![m][p.flow] = p.nr]
      \/ ~IsNew(m, p) /\ seen' = seen
  BY <1>3, <1>5, HandledIsSeen
<1> HIDE DEF k, p
<1>8. IsNew(m, p) /\ seen' = [seen EXCEPT ![m][p.flow] = p.nr]
  BY <1>1, <1>7
<1>9. m = n /\ p.flow = f /\ k <= p.nr
  <2> DEFINE new == [seen[m] EXCEPT ![p.flow] = p.nr]
  <2>1. \A g \in Flow : new[g] = IF g = p.flow THEN p.nr ELSE seen[m][g]
    BY <1>2
  <2>2. seen' = [seen EXCEPT ![m] = new]
    BY <1>8
  <2> HIDE DEF new
  <2>3. seen'[n] = IF n = m THEN new ELSE seen[n]
    BY <1>2, <2>2
  <2>4. QED BY <1>1, <2>1, <2>3
<1>10. p.nr = k
  <2>1. SUFFICES ASSUME k < p.nr PROVE FALSE
    BY <1>1, <1>6, <1>9
  <2> DEFINE j == p.nr - StartNumber
  <2>2. /\ j \in 1 .. Len(windows[f]) /\ p.earliest = windows[f][j].earliest
    BY <1>5, <1>6, <1>9, GenuineWindow
  <2>3. StartNumber \in Nat
    BY FlowAssumption
  <2>4. l < j
    BY <1>6, <2>1, <2>3 DEF k
  <2> HIDE DEF j
  <2>5. ~ShareASlot(f)
    BY DEF WindowsFit
  <2>6. FlowWindows(f)
    BY DEF WindowsInv
  <2>7. windows[f][l].ttl < windows[f][j].earliest
    BY <2>2, <2>4, <2>5, <2>6 DEF FlowWindows
  <2>8. windows[f][l].ttl \in Nat /\ windows[f][j].earliest \in Nat /\ asn \in Nat
    <3>1. windows[f] \in Seq(Window) /\ asn \in Nat
      BY DEF FlowInv, Types
    <3>2. windows[f][l] \in Window /\ windows[f][j] \in Window
      BY <2>2, <3>1
    <3>3. QED BY <3>1, <3>2 DEF Window
  <2>9. QED BY <1>6, <2>2, <2>7, <2>8
<1>11. Copy(p, f, k)
  BY <1>5, <1>9, <1>10 DEF Copy
<1>12. QED BY <1>3, <1>8, <1>9, <1>11 DEF p, k

\* A relay that gets a new packet while the window is open has a slot left for it.
LEMMA RelayQueues ==
  ASSUME WindowsFit, RoutesLead, FlowInv, FramedInv, RouteInv, NumbersInReach,
         RecordsInReach, RoomInQueues, NEW n \in Node, NEW f \in Flow, NEW l \in 1 .. Len(windows[f]),
         asn <= windows[f][l].ttl, Input(n), Copy(Head(input[n]), f, StartNumber + l),
         IsNew(n, Head(input[n])), n # ReceiverOf[f]
  PROVE  ForwardTo[n][f] \in Node /\ Holds(queue'[n][f], f, StartNumber + l)
<1> DEFINE p == Head(input[n])
           k == StartNumber + l
<1>1. input[n] # <<>> /\ p.kind = "flow" /\ p.flow = f /\ p.nr = k
  BY DEF Input, Copy
<1>2. /\ p \in FinePacket /\ p.earliest \in Nat /\ p.ttl \in Nat
      /\ Genuine(p, windows[f]) /\ p.earliest <= asn /\ ForwardTo[n][f] \in Node
      /\ \A i \in WindowsOf(f) : n \in Cell[LastTx[f][i]].tx \cup Cell[LastTx[f][i]].rx
  BY <1>1, FirstReceived
<1>3. InputAtRelay(n, p) /\ IsNew(n, p)
  BY <1>1 DEF Input, InputAtReceiver
<1>4. StartNumber \in Nat /\ asn \in Nat
  BY FlowAssumption DEF FlowInv, Types
<1> HIDE DEF p
<1>5. p.ttl = windows[f][p.nr - StartNumber].ttl /\ InSlots(p, f)
  BY <1>1, <1>2, GenuineWindow
<1>6. p.nr - StartNumber = l
  BY <1>1, <1>4
<1>7. asn <= p.ttl
  BY <1>5, <1>6
<1>i. PICK i \in WindowsOf(f) : /\ p.earliest % SfSize = FirstTx[f][i]
                                /\ p.ttl = p.earliest + (LastTx[f][i] - FirstTx[f][i])
  BY <1>5 DEF InSlots
<1> DEFINE t == p.ttl
           e == p.earliest
           now == CurrentAsn(n)
<1>8. /\ SfSize \in Nat \ {0} /\ SlotModulus \in Nat \ {0}
      /\ FirstTx[f][i] \in 0 .. SfSize - 1 /\ LastTx[f][i] \in 0 .. SfSize - 1 /\ FirstTx[f][i] < LastTx[f][i]
      /\ 2 * (2 * (SfSize - 1) + (LastTx[f][i] - FirstTx[f][i]) + 1) <= SlotModulus
  BY WindowLength
<1>9. t % SfSize = LastTx[f][i]
  <2>1. SlotsInOrder
    BY DEF WindowsFit, SlotsInOrder
  <2> HIDE DEF t
  <2>2. p.ttl % SfSize = LastTx[f][i]
    BY <1>2, <1>i, <2>1, WindowInFrame
  <2>3. QED BY <2>2 DEF t
<1>10. Active(n, t)
  BY <1>2, <1>9 DEF Active
<1>11. now \in asn .. asn + SfSize - 1 /\ \A b \in asn .. now - 1 : ~Active(n, b)
  BY <1>4, NowExists
<1>12. InTime(n, p)
  <2>1. t \in Nat /\ e \in Nat /\ e <= asn /\ asn <= t /\ t = e + (LastTx[f][i] - FirstTx[f][i])
    BY <1>2, <1>i, <1>4, <1>7
  <2> HIDE DEF t, e, now
  <2>2. now \in Nat /\ asn <= now /\ now <= t
    BY <1>4, <1>8, <1>10, <1>11, <2>1
  <2> DEFINE length == LastTx[f][i] - FirstTx[f][i]
  <2>3. t + 1 \in Nat /\ now < t + 1 /\ 2 * ((t + 1) - now) <= SlotModulus
    <3>1. length \in Nat /\ t = e + length /\ 2 * (2 * (SfSize - 1) + length + 1) <= SlotModulus
      BY <1>8, <2>1
    <3> HIDE DEF length
    <3>2. (t + 1) - now <= length + 1
      BY <1>4, <2>1, <2>2, <3>1
    <3>3. SfSize \in Nat \ {0} /\ SlotModulus \in Nat
      BY <1>8
    <3>4. 2 * (length + 1) <= SlotModulus
      BY <3>1, <3>3
    <3>5. t + 1 \in Nat /\ now < t + 1
      BY <2>1, <2>2
    <3>6. 2 * ((t + 1) - now) <= SlotModulus
      BY <2>1, <2>2, <3>1, <3>2, <3>3, <3>4
    <3>7. QED BY <3>5, <3>6
  <2>4. Before(now, t + 1, SlotModulus)
    BY <1>8, <2>2, <2>3, BeforeNear
  <2>5. QED BY <2>4 DEF InTime, SlotBefore, t, now
<1>13. PICK x \in FinePacket :
         x.kind = "flow" /\ x.flow = f /\ x.nr = k /\ Output(n, x) /\ config'[n].flow = f
  BY <1>1, <1>2, <1>3, <1>12, RelayedPacket
<1>14. Copy(x, f, k)
  BY <1>13 DEF Copy
<1> HIDE DEF k
<1>15. Holds(queue'[n][f], f, k)
  BY <1>13, <1>14, PutOutHolds
<1>16. QED BY <1>2, <1>15 DEF k


\* What has been handed to the application stays so, and what is new is handed to it.
LEMMA DeliveredStays ==
  ASSUME FlowInv, [Next]_vars, NEW f \in Flow, NEW k
  PROVE  /\ (\E j \in 1 .. Len(delivered[f]) : delivered[f][j] = k)
              => \E j \in 1 .. Len(delivered'[f]) : delivered'[f][j] = k
         /\ \A n \in Node : Input(n) /\ Copy(Head(input[n]), f, k) /\ IsNew(n, Head(input[n]))
                              /\ n = ReceiverOf[f]
              => \E j \in 1 .. Len(delivered'[f]) : delivered'[f][j] = k
<1> DEFINE d == delivered[f]
<1>1. delivered \in [Flow -> Seq(Nat)] /\ d \in Seq(Nat)
  BY DEF FlowInv, Types
<1>2. ASSUME NEW n \in Node, Input(n), Head(input[n]).kind = "flow"
      PROVE  LET p == Head(input[n])
             IN \/ delivered' = delivered /\ ~(n = ReceiverOf[p.flow] /\ IsNew(n, p))
                \/ delivered' = [delivered EXCEPT ![p.flow] = Append(@, p.nr)]
  <2> DEFINE p == Head(input[n])
  <2>1. InputAtReceiver(n, p) \/ InputAtRelay(n, p)
    BY <1>2 DEF Input
  <2> HIDE DEF p
  <2>2. \/ delivered' = delivered /\ ~(n = ReceiverOf[p.flow] /\ IsNew(n, p))
        \/ delivered' = [delivered EXCEPT ![p.flow] = Append(@, p.nr)]
    BY <2>1 DEF InputAtReceiver, InputAtRelay
  <2>3. QED BY <2>2 DEF p
<1>3. ASSUME NEW x \in Nat, delivered'[f] = Append(d, x)
      PROVE  /\ \A j \in 1 .. Len(d) : d[j] = k => \E i \in 1 .. Len(delivered'[f]) : delivered'[f][i] = k
             /\ x = k => \E i \in 1 .. Len(delivered'[f]) : delivered'[f][i] = k
  <2> HIDE DEF d
  <2> DEFINE r == Append(d, x)
  <2>1. Longer(r, d, x)
    BY <1>1, AppendIsLonger
  <2> HIDE DEF r
  <2>2. Len(d) + 1 \in 1 .. Len(r) /\ \A j \in 1 .. Len(d) : j \in 1 .. Len(r)
    BY <2>1 DEF Longer
  <2>3. QED BY <1>3, <2>1, <2>2 DEF Longer, r
<1>4. CASE \E n \in Node : Input(n)
  <2>1. PICK n \in Node : Input(n)
    BY <1>4
  <2> DEFINE p == Head(input[n])
  <2>2. input[n] \in Seq(FinePacket) /\ input[n] # <<>>
    BY <2>1 DEF FlowInv, Traffic, Input
  <2>3. p \in FinePacket
    BY <2>2
  <2>4. \A m \in Node : Input(m) => m = n
    <3>1. SUFFICES ASSUME NEW m \in Node, Input(m), m # n PROVE FALSE
      OBVIOUS
    <3>2. input \in [Node -> Seq(FinePacket)]
      BY DEF FlowInv, Traffic
    <3>3. input'[n] = Tail(input[n])
      BY <2>1, <3>2 DEF Input
    <3>4. input'[n] = input[n]
      BY <3>1, <3>2 DEF Input
    <3>5. Tail(input[n]) = input[n]
      BY <3>3, <3>4
    <3> DEFINE in == input[n]
               rest == Tail(in)
    <3>6. in \in Seq(FinePacket) /\ in # <<>>
      BY <2>2
    <3>7. rest = in
      BY <3>5
    <3> HIDE DEF in
    <3>8. Len(rest) = Len(in) - 1 /\ Len(in) \in Nat
      BY <3>6
    <3> HIDE DEF rest
    <3>9. QED BY <3>7, <3>8
  <2>5. CASE p.kind = "vector"
    <3>1. delivered' = delivered
      BY <2>1, <2>5 DEF Input, InputVector
    <3>2. \A m \in Node : Input(m) => ~Copy(Head(input[m]), f, k)
      BY <2>4, <2>5 DEF Copy
    <3>3. QED BY <3>1, <3>2
  <2>6. CASE p.kind = "flow"
    <3>1. \/ delivered' = delivered /\ ~(n = ReceiverOf[p.flow] /\ IsNew(n, p))
          \/ delivered' = [delivered EXCEPT ![p.flow] = Append(@, p.nr)]
      BY <1>2, <2>1, <2>6
    <3>2. p.flow \in Flow /\ p.nr \in Nat
      BY <2>3, <2>6 DEF FinePacket, Packet
    <3>3. \A m \in Node : Input(m) /\ Copy(Head(input[m]), f, k) => m = n /\ p.flow = f /\ p.nr = k
      BY <2>4 DEF Copy
    <3> HIDE DEF p
    <3>4. CASE delivered' = delivered /\ ~(n = ReceiverOf[p.flow] /\ IsNew(n, p))
      BY <3>3, <3>4 DEF p
    <3>5. CASE delivered' = [delivered EXCEPT ![p.flow] = Append(@, p.nr)]
      <4>1. CASE p.flow # f
        BY <1>1, <3>2, <3>3, <3>5, <4>1
      <4>2. CASE p.flow = f
        <5>1. delivered'[f] = Append(d, p.nr)
          BY <1>1, <3>5, <4>2
        <5>2. QED BY <1>3, <3>2, <3>3, <5>1
      <4>3. QED BY <4>1, <4>2
    <3>6. QED BY <3>1, <3>4, <3>5
  <2>7. QED BY <2>3, <2>5, <2>6 DEF FinePacket, Packet
<1>5. CASE ~(\E n \in Node : Input(n))
  <2>1. delivered' = delivered
    BY <1>5 DEF Next, FlowSend, SendAdvertisement, SendVector, Slot, vars
  <2>2. QED BY <1>5, <2>1
<1>6. QED BY <1>4, <1>5

\* The packet its sender has just given out.
LEMMA PassedOnNew ==
  ASSUME RoutesLead, FlowInv, FlowInv', RoomInQueues, NEW f \in Flow, FlowSend(f),
         NEW k \in Nat, k = OwnNumber(f)'
  PROVE  PassedOn(f, k)'
<1> DEFINE s == SenderOf[f]
<1>1. s \in Node /\ ForwardTo[s][f] \in Node /\ ReceiverOf[f] \in Node /\ s # ReceiverOf[f]
  <2>1. s \in Node /\ ReceiverOf[f] \in Node
    BY FlowAssumption
  <2>2. ForwardTo[s] \in [Flow -> Node \cup {NoNode}] /\ ForwardTo[s][f] # NoNode
    BY <2>1, FlowAssumption
  <2>3. s # ReceiverOf[f]
    BY DEF RoutesLead
  <2>4. QED BY <2>1, <2>2, <2>3
<1>2. \A n \in Node : ~(k <= seen'[n][f])
  <2>1. seen' = seen /\ OwnNumber(f)' = OwnNumber(f) + 1
    <3>1. /\ windows' = [windows EXCEPT ![f] = Append(@, NextWindow(f))]
          /\ seen' = seen /\ asn' = asn
      BY DEF FlowSend
    <3>2. NextWindow(f) \in Window
      BY WindowFacts DEF FlowInv, Types, Window
    <3>3. Types
      BY DEF FlowInv
    <3>4. \A g \in Flow : OwnNumber(g)' = IF g = f THEN OwnNumber(g) + 1 ELSE OwnNumber(g)
      BY <3>1, <3>2, <3>3, StillFine
    <3>5. QED BY <3>1, <3>4
  <2>2. OwnNumber(f) \in Nat /\ \A n \in Node : seen[n][f] \in Nat /\ seen[n][f] <= OwnNumber(f)
    BY OwnNumberIsNat DEF FlowInv, Types, Numbers
  <2>3. QED BY <2>1, <2>2
<1>3. \A n \in Node : HasSeen(n, f, k)' => n = s
  BY <1>2 DEF HasSeen
<1>4. PICK p \in FinePacket' :
        /\ p.kind = "flow" /\ p.flow = f /\ p.nr = OwnNumber(f)' /\ Output(s, p)
  BY NewPacket
<1>5. config'[s].flow = f
  BY <1>1 DEF FlowSend, FlowInv, Types
<1>6. Copy(p, f, k)
  BY <1>4 DEF Copy
<1> HIDE DEF s
<1>7. Holds(queue'[s][f], f, k)
  BY <1>1, <1>4, <1>5, <1>6, PutOutHolds
<1>8. QED BY <1>1, <1>3, <1>7 DEF PassedOn

LEMMA PassedOnOld ==
  ASSUME 4 * (SfSize - 1) <= SlotModulus, WindowsFit, RoutesLead, Forward, FlowInv, FlowInv',
         WindowsInv, FramedInv, RouteInv, RecordInv, NumbersInReach, RecordsInReach, SlotsInReach,
         RoomInQueues, [Next]_vars, NEW f \in Flow, NEW l \in 1 .. Len(windows[f]),
         asn' <= windows[f][l].ttl, PassedOn(f, StartNumber + l)
  PROVE  PassedOn(f, StartNumber + l)'
<1> DEFINE k == StartNumber + l
<1>1. k \in Nat /\ asn \in Nat /\ asn' \in Nat /\ asn <= asn' /\ windows[f][l].ttl \in Nat
  <2>1. windows[f] \in Seq(Window)
    BY DEF FlowInv, Types
  <2>2. windows[f][l] \in Window
    BY <2>1
  <2>3. windows[f][l].ttl \in Nat
    BY <2>2 DEF Window
  <2>4. StartNumber \in Nat /\ asn \in Nat /\ asn' \in Nat /\ asn <= asn'
    BY DEF Forward
  <2>5. k \in Nat
    BY <2>4
  <2>6. QED BY <2>3, <2>4, <2>5
<1>2. asn <= windows[f][l].ttl
  BY <1>1
<1>3. ASSUME NEW n \in Node, HasSeen(n, f, k)', ~HasSeen(n, f, k)
      PROVE  Input(n) /\ Copy(Head(input[n]), f, k) /\ IsNew(n, Head(input[n]))
  BY <1>2, <1>3, NewlySeen
<1>4. ASSUME NEW n \in Node, HasSeen(n, f, k)', n # ReceiverOf[f]
      PROVE  /\ ForwardTo[n][f] \in Node
             /\ Holds(queue'[n][f], f, k) \/ Had(ForwardTo[n][f], f, k)'
  <2>1. CASE ~HasSeen(n, f, k)
    <3>1. Input(n) /\ Copy(Head(input[n]), f, k) /\ IsNew(n, Head(input[n]))
      BY <1>3, <1>4, <2>1
    <3>2. QED BY <1>2, <1>4, <3>1, RelayQueues
  <2>2. CASE HasSeen(n, f, k)
    <3> DEFINE m == ForwardTo[n][f]
    <3>1. m \in Node /\ (Holds(queue[n][f], f, k) \/ Had(m, f, k))
      BY <1>4, <2>2 DEF PassedOn
    <3>2. Had(m, f, k) => Had(m, f, k)'
      <4> HIDE DEF m, k
      <4>1. QED BY <1>1, <3>1, HadStays
    <3>3. CASE Holds(queue[n][f], f, k)
      <4>1. QueueMove(n, f)
        BY QueuesMove DEF QueueName
      <4>2. CASE Slot
        <5>1. asn < windows[f][l].ttl
          BY <1>1, <4>2 DEF Slot
        <5>2. Holds(queue'[n][f], f, k) \/ Had(m, f, k)'
          BY <3>3, <4>2, <5>1, SlotLeaves
        <5>3. QED BY <3>1, <5>2
      <4>3. CASE queue'[n][f] = queue[n][f]
        BY <3>1, <3>3, <4>3
      <4>4. CASE \E x : Longer(queue'[n][f], queue[n][f], x)
        <5> DEFINE q == queue[n][f]
                   r == queue'[n][f]
        <5>1. Holds(q, f, k) /\ \E x : Longer(r, q, x)
          BY <3>3, <4>4
        <5> HIDE DEF q, r, k
        <5>2. Holds(r, f, k)
          BY <5>1, HoldsLonger
        <5>3. QED BY <3>1, <5>2 DEF r
      <4>5. QED BY <4>1, <4>2, <4>3, <4>4 DEF QueueMove
    <3>4. QED BY <3>1, <3>2, <3>3
  <2>3. QED BY <2>1, <2>2
<1>5. ASSUME HasSeen(ReceiverOf[f], f, k)'
      PROVE  \E j \in 1 .. Len(delivered'[f]) : delivered'[f][j] = k
  <2>1. ReceiverOf[f] \in Node
    BY FlowAssumption
  <2>2. CASE HasSeen(ReceiverOf[f], f, k)
    <3>1. \E j \in 1 .. Len(delivered[f]) : delivered[f][j] = k
      BY <2>2 DEF PassedOn
    <3> HIDE DEF k
    <3>2. QED BY <3>1, DeliveredStays
  <2>3. CASE ~HasSeen(ReceiverOf[f], f, k)
    <3>1. /\ Input(ReceiverOf[f]) /\ Copy(Head(input[ReceiverOf[f]]), f, k)
          /\ IsNew(ReceiverOf[f], Head(input[ReceiverOf[f]]))
      BY <1>3, <1>5, <2>1, <2>3
    <3> HIDE DEF k
    <3>2. QED BY <2>1, <3>1, DeliveredStays
  <2>4. QED BY <2>2, <2>3
<1>6. QED BY <1>4, <1>5 DEF PassedOn


LEMMA KeptStep ==
  ASSUME 4 * (SfSize - 1) <= SlotModulus, WindowsFit, RoutesLead, Forward, FlowInv, FlowInv',
         WindowsInv, FramedInv, RouteInv, RecordInv, NumbersInReach, RecordsInReach, SlotsInReach,
         RoomInQueues, KeptInv, [Next]_vars
  PROVE  KeptInv'
<1>1. SUFFICES ASSUME NEW f \in Flow, NEW l \in 1 .. Len(windows'[f]), asn' <= windows'[f][l].ttl
               PROVE  PassedOn(f, StartNumber + l)'
  BY DEF KeptInv
<1>2. /\ Extends(windows[f], windows'[f]) /\ asn \in Nat /\ asn' \in Nat /\ asn <= asn'
      /\ StartNumber \in Nat
  BY DEF Forward
<1>3. /\ Len(windows[f]) \in Nat /\ Len(windows'[f]) \in Nat
      /\ \A i \in 1 .. Len(windows[f]) : windows'[f][i] = windows[f][i]
      /\ windows'[f][l].ttl \in Nat
  BY <1>2, GrownWindows
<1>4. CASE l \in 1 .. Len(windows[f])
  <2>1. asn' <= windows[f][l].ttl /\ asn <= windows[f][l].ttl
    BY <1>1, <1>2, <1>3, <1>4
  <2>2. PassedOn(f, StartNumber + l)
    BY <1>4, <2>1 DEF KeptInv
  <2>3. QED BY <1>4, <2>1, <2>2, PassedOnOld
<1>5. CASE l \notin 1 .. Len(windows[f])
  <2>1. windows'[f] # windows[f]
    BY <1>5
  <2>2. PICK g \in Flow : FlowSend(g)
    BY <2>1 DEF Next, SendAdvertisement, SendVector, Input, Slot, vars
  <2>3. windows' = [windows EXCEPT ![g] = Append(@, NextWindow(g))]
    BY <2>2 DEF FlowSend
  <2>4. windows \in [Flow -> Seq(Window)]
    BY DEF FlowInv, Types
  <2>5. g = f
    BY <2>1, <2>3, <2>4
  <2>6. Len(windows'[f]) = Len(windows[f]) + 1
    <3>1. windows'[f] = Append(windows[f], NextWindow(f))
      BY <2>3, <2>4, <2>5
    <3>2. NextWindow(f) \in Window
      BY <1>2, WindowFacts DEF Window
    <3> DEFINE ws == windows[f]
               w == NextWindow(f)
    <3>3. ws \in Seq(Window) /\ w \in Window /\ windows'[f] = Append(ws, w)
      BY <2>4, <3>1, <3>2
    <3> HIDE DEF ws, w
    <3>4. Len(windows'[f]) = Len(ws) + 1
      BY <3>3
    <3>5. QED BY <3>4 DEF ws
  <2>7. l = Len(windows'[f])
    BY <1>3, <1>5, <2>6
  <2>8. StartNumber + l = OwnNumber(f)' /\ StartNumber + l \in Nat
    BY <1>2, <1>3, <2>7 DEF OwnNumber
  <2>9. QED BY <2>2, <2>5, <2>8, PassedOnNew
<1>6. QED BY <1>4, <1>5

LEMMA KeptInit ==
  ASSUME Init
  PROVE  FramedInv /\ RouteInv /\ RecordInv /\ KeptInv
<1>1. FramedInv /\ KeptInv
  BY DEF Init, FramedInv, Framed, KeptInv
<1>2. \A n \in Node : \A g \in QueueName : queue[n][g] = <<>> /\ input[n] = <<>>
  BY DEF Init, QueueName
<1>3. ASSUME NEW n \in Node PROVE RoutedNode(n)
  <2>1. input[n] = <<>> /\ queue[n][BeaconQueue] = <<>>
    BY <1>2 DEF QueueName
  <2>2. ASSUME NEW f \in Flow PROVE Routed(queue[n][f], n, f, windows[f])
    <3>1. queue[n][f] = <<>>
      BY <1>2 DEF QueueName
    <3>2. QED BY <3>1 DEF Routed
  <2>3. OnlyVectors(queue[n][BeaconQueue]) /\ Received(input[n], n, windows, asn)
    BY <2>1 DEF OnlyVectors, Received
  <2>4. QED BY <2>2, <2>3 DEF RoutedNode
<1>4. RecordInv
  BY <1>2 DEF RecordInv, Recorded, HoldsHeard, QueueName
<1>5. QED BY <1>1, <1>3, <1>4 DEF RouteInv

\* The nodes that have seen a packet that is nowhere on its way are the whole route.
LEMMA RouteIsSeen ==
  ASSUME RoutesLead, FlowInv, KeptInv
  PROVE  KeptWhileInTime
<1>1. SUFFICES ASSUME NEW f \in Flow, NEW i \in 1 .. Len(windows[f]), asn <= windows[f][i].ttl,
                      ~OnTheWay(f, i)
               PROVE  Delivered(f, i)
  BY DEF KeptWhileInTime
<1> DEFINE k == StartNumber + i
           Z == { n \in Node : HasSeen(n, f, k) }
<1>2. PassedOn(f, k)
  BY <1>1 DEF KeptInv
<1>3. ASSUME NEW n \in Node PROVE ~Holds(queue[n][f], f, k) /\ ~Holds(input[n], f, k)
  BY <1>1 DEF OnTheWay, Holds, Copy
<1>4. SenderOf[f] \in Z
  BY FlowAssumption DEF HasSeen
<1>5. ASSUME NEW n \in Z \ {ReceiverOf[f]} PROVE ForwardTo[n][f] \in Z
  <2>1. /\ ForwardTo[n][f] \in Node
        /\ Holds(queue[n][f], f, k) \/ Had(ForwardTo[n][f], f, k)
    BY <1>2, <1>5 DEF PassedOn
  <2>2. QED BY <1>3, <2>1 DEF Had
<1>6. ReceiverOf[f] \in Z
  <2>1. Z \in SUBSET Node
    OBVIOUS
  <2> HIDE DEF Z
  <2>2. QED BY <1>4, <1>5, <2>1 DEF RoutesLead
<1>7. \E j \in 1 .. Len(delivered[f]) : delivered[f][j] = k
  BY <1>2, <1>6 DEF PassedOn
<1>8. QED BY <1>7 DEF Delivered

(***************************************************************************)
(* While its window is open a packet does not vanish, in a network whose   *)
(* routes lead to the receivers and whose relays have a link in the last   *)
(* slot of each flow.                                                      *)
(***************************************************************************)
THEOREM PacketsAreKept ==
  ASSUME 4 * (SfSize - 1) <= SlotModulus, WindowsFit, RoutesLead
  PROVE  Spec /\ []NumbersInReach /\ []SlotsInReach /\ []RecordsInReach /\ []RoomInQueues
           => []KeptWhileInTime
<1> DEFINE Inv == WindowsInv /\ FramedInv /\ RouteInv /\ RecordInv /\ KeptInv
           Reach == NumbersInReach /\ SlotsInReach /\ RecordsInReach /\ RoomInQueues
<1>1. Init => Inv
  BY WindowsInit, KeptInit
<1>2. FlowInv /\ Reach /\ Inv /\ [Next]_vars => Inv'
  <2>1. SUFFICES ASSUME FlowInv, Reach, Inv, [Next]_vars PROVE Inv'
    OBVIOUS
  <2>2. SlotsInOrder
    BY DEF WindowsFit, SlotsInOrder
  <2>3. FlowInv' /\ WindowsInv' /\ Forward
    BY <2>1, <2>2, FlowStep, WindowsStep, StepIsForward
  <2>4. FramedInv'
    BY <2>1, <2>2, FramedStep DEF FramedInv, FlowInv
  <2>5. RouteInv' /\ RecordInv'
    BY <2>1, <2>3, RouteStep
  <2>6. KeptInv'
    BY <2>1, <2>3, KeptStep
  <2>7. QED BY <2>3, <2>4, <2>5, <2>6
<1>3. FlowInv /\ Inv => KeptWhileInTime
  BY RouteIsSeen
<1> HIDE DEF Inv, Reach
<1>4. Spec /\ []Reach => []KeptWhileInTime
  BY <1>1, <1>2, <1>3, FlowInvAlways, PTL DEF Spec
<1>5. NumbersInReach /\ SlotsInReach /\ RecordsInReach /\ RoomInQueues => Reach
  BY DEF Reach
<1>6. QED BY <1>4, <1>5, PTL
=============================================================================
