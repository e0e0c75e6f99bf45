---------------------------- MODULE MasterRouting ----------------------------
(***************************************************************************)
(* Parent selection of the MASTER routing layer, modelled from             *)
(* os/net/master-routing/master-routing.c.                                 *)
(*                                                                         *)
(* Every 15 s the coordinator (node 1) broadcasts an advertisement with a  *)
(* new sequence number.  A node that hears one computes the strength of    *)
(* the path through its sender, may adopt the sender as "bestNode", and    *)
(* floods its own advertisement the first time it hears this sequence      *)
(* number from this sender.  The strength of a link is measured from the   *)
(* beacons (EBs) heard over it, see StrengthVector, and changes at any     *)
(* time.                                                                   *)
(*                                                                         *)
(* A broadcast is sent once and not acknowledged, so any subset of the     *)
(* nodes in radio range receives it; one queue at the sender and one ring  *)
(* buffer at the receiver keep what does arrive in order.                  *)
(***************************************************************************)
EXTENDS Naturals, Sequences, FiniteSets

CONSTANTS
  Node,            \* node identifiers: positive integers
  Coordinator,     \* the identifier of the coordinator: 1 in the code
  Strengths,       \* the values a link strength can take; 0 is "never heard"
  MasterStrength,  \* the strength the coordinator advertises: 100 in the code
  InitStrengths,   \* link strengths measured before the first advertisement
  InRange,         \* InRange[n]: the nodes that can hear n
  Lossy,           \* whether a broadcast may miss nodes in range
  SeqModulus,      \* 2^16: adv_counter and adv.seq are uint16_t
  HistoryModulus,  \* 2^8: an entry of history_ad_seq_array is a uint8_t
  QueueSize,       \* advertisements that wait between two nodes before one is dropped
  MaxRounds        \* bound: the largest sequence number advertised

NoNode == 0        \* bestNode before a parent is chosen

ASSUME RoutingAssumption ==
  /\ Node \subseteq Nat \ {NoNode}
  /\ Coordinator \in Node
  /\ 0 \in Strengths
  /\ Strengths \subseteq Nat
  /\ MasterStrength \in Nat
  /\ \A s \in Strengths : s < MasterStrength
  /\ InitStrengths \subseteq [Node -> [Node -> Strengths]]
  /\ InRange \in [Node -> SUBSET Node]
  /\ \A n \in Node : n \notin InRange[n]
  /\ Lossy \in BOOLEAN
  /\ SeqModulus \in Nat \ {0}
  /\ HistoryModulus \in Nat \ {0}
  /\ QueueSize \in Nat \ {0}
  /\ MaxRounds \in Nat

VARIABLES
  advCounter,      \* adv_counter of the coordinator
  sv,              \* sv[n][m]: strength_vector[m] at node n
  maxSeq,          \* max_advertisement_seq
  strength,        \* max_master_strength
  bestNode,        \* bestNode
  history,         \* history_ad_seq_array
  chan             \* chan[s][n]: advertisements of s on their way to n

vars == <<advCounter, sv, maxSeq, strength, bestNode, history, chan>>

Seqs == 0 .. SeqModulus - 1
StrengthValues == Strengths \cup {MasterStrength}
Advertisement ==
  [seq : Seqs, best : Node \cup {NoNode}, strength : StrengthValues]

Weaker(a, b) == IF a <= b THEN a ELSE b    \* the MIN macro
Kept(seq) == seq % HistoryModulus          \* what a uint8_t keeps of seq

-----------------------------------------------------------------------------
Init ==
  /\ advCounter = 0
  /\ sv \in InitStrengths
  /\ maxSeq = [n \in Node |-> 0]
  /\ strength = [n \in Node |-> 0]
  /\ bestNode = [n \in Node |-> NoNode]
  /\ history = [n \in Node |-> [m \in Node |-> 0]]
  /\ chan = [s \in Node |-> [n \in Node |-> <<>>]]

(***************************************************************************)
(* The sets of nodes one broadcast of n may reach.                         *)
(***************************************************************************)
Receivers(n) == IF Lossy THEN SUBSET InRange[n] ELSE {InRange[n]}

Enqueued(q, adv) == IF Len(q) < QueueSize THEN Append(q, adv) ELSE q

(***************************************************************************)
(* master_routing_send_advertisement: n broadcasts adv; the channels are   *)
(* those left in c by the reception that caused it.                        *)
(***************************************************************************)
SendAdvertisement(n, adv, c) ==
  \E R \in Receivers(n) :
    chan' = [c EXCEPT ![n] = [r \in Node |-> IF r \in R THEN Enqueued(c[n][r], adv)
                                                        ELSE c[n][r]]]

\* Faulty variants: the round of the coordinator without bestNode, and without
\* max_master_strength.
RoundWithoutParent ==
  LET c == Coordinator
      seq == (advCounter + 1) % SeqModulus
  IN /\ advCounter < MaxRounds
     /\ advCounter' = seq
     /\ maxSeq' = [maxSeq EXCEPT ![c] = seq]
     /\ strength' = [strength EXCEPT ![c] = MasterStrength]
     /\ history' = [history EXCEPT ![c][c] = Kept(seq)]
     /\ SendAdvertisement(c, [seq |-> seq, best |-> c, strength |-> MasterStrength], chan)
     /\ UNCHANGED <<sv, bestNode>>

(***************************************************************************)
(* The coordinator starts a round: master_routing_send_advertisement_sendto*)
(* called with ++adv_counter by the main loop of master-unicast.c.         *)
(***************************************************************************)
CoordinatorAdvertise ==
  LET c == Coordinator
      seq == (advCounter + 1) % SeqModulus
  IN /\ advCounter < MaxRounds
     /\ advCounter' = seq
     /\ maxSeq' = [maxSeq EXCEPT ![c] = seq]
     /\ bestNode' = [bestNode EXCEPT ![c] = c]
     /\ strength' = [strength EXCEPT ![c] = MasterStrength]
     /\ history' = [history EXCEPT ![c][c] = Kept(seq)]
     /\ SendAdvertisement(c, [seq |-> seq, best |-> c, strength |-> MasterStrength], chan)
     /\ UNCHANGED sv

(***************************************************************************)
(* neighbor_discovery_input: a beacon heard by n recomputes its whole      *)
(* strength vector.  StrengthVector gives the exact counters; here the     *)
(* new values are arbitrary.                                               *)
(***************************************************************************)
NeighborDiscoveryInput(n) ==
  /\ \E v \in [Node -> Strengths] :
       /\ \A m \in Node : n \notin InRange[m] => v[m] = sv[n][m]
       /\ sv' = [sv EXCEPT ![n] = v]
  /\ UNCHANGED <<advCounter, maxSeq, strength, bestNode, history, chan>>

\* tsch_rx_process_pending handles the oldest packet of the ring.
Pop(s, n) == [chan EXCEPT ![s][n] = Tail(@)]

(***************************************************************************)
(* on_received_advertisement at n of an advertisement of s whose parent is *)
(* n itself: dropped.                                                      *)
(***************************************************************************)
IgnoreOwnChild(s, n) ==
  /\ chan[s][n] # <<>>
  /\ Head(chan[s][n]).best = n
  /\ chan' = Pop(s, n)
  /\ UNCHANGED <<advCounter, sv, maxSeq, strength, bestNode, history>>

\* Faulty variant: the link to the sender forgotten.
CurrentForgetsLink(s, n) == Head(chan[s][n]).strength

Current(s, n) == Weaker(Head(chan[s][n]).strength, sv[n][s])
Fresher(s, n) == maxSeq[n] < Head(chan[s][n]).seq

SeqAfter(s, n) == IF Fresher(s, n) THEN Head(chan[s][n]).seq ELSE maxSeq[n]

\* Faulty variant: a fresher sequence number from anyone replaces the strength.
StrengthFromAnyone(s, n) == IF Fresher(s, n) THEN Current(s, n) ELSE strength[n]

\* A fresher sequence number from the present parent replaces the strength.
StrengthKept(s, n) ==
  IF Fresher(s, n) /\ bestNode[n] = s THEN Current(s, n) ELSE strength[n]

\* Faulty variants: a path as strong as the present one is adopted; only the
\* first advertisement of a round is looked at.
AdoptsEqual(s, n) ==
  Head(chan[s][n]).seq >= SeqAfter(s, n) /\ StrengthKept(s, n) <= Current(s, n)
AdoptsFirst(s, n) == Fresher(s, n) /\ StrengthKept(s, n) < Current(s, n)

Adopts(s, n) ==
  /\ Head(chan[s][n]).seq >= SeqAfter(s, n)
  /\ StrengthKept(s, n) < Current(s, n)

\* Faulty variant: an advertisement of the present round counts as answered.
SkipsPresentRound(s, n) == SeqAfter(s, n) = Head(chan[s][n]).seq \/ n = Coordinator

\* history_ad_seq_array[adv.nodeId] == adv.seq, or n is the coordinator
Skips(s, n) == history[n][s] = Head(chan[s][n]).seq \/ n = Coordinator

(***************************************************************************)
(* on_received_advertisement: adopt the sender or not, and answer it or    *)
(* not.  A new parent also gets a link, add_link_to_best_node, on which no *)
(* decision here depends; TschSchedule has it, and that it may be lacking. *)
(***************************************************************************)
ReceiveAdvertisement(s, n) ==
  /\ chan[s][n] # <<>>
  /\ Head(chan[s][n]).best # n
  /\ maxSeq' = [maxSeq EXCEPT ![n] = SeqAfter(s, n)]
  /\ strength' = [strength EXCEPT ![n] =
                    IF Adopts(s, n) THEN Current(s, n) ELSE StrengthKept(s, n)]
  /\ bestNode' = IF Adopts(s, n) THEN [bestNode EXCEPT ![n] = s] ELSE bestNode
  /\ IF Skips(s, n)
     THEN /\ chan' = Pop(s, n)
          /\ UNCHANGED history
     ELSE /\ history' = [history EXCEPT ![n][s] = Kept(Head(chan[s][n]).seq),
                                        ![n][n] = Kept(SeqAfter(s, n))]
          /\ SendAdvertisement(n, [seq |-> maxSeq'[n], best |-> bestNode'[n],
                                   strength |-> strength'[n]], Pop(s, n))
  /\ UNCHANGED <<advCounter, sv>>

-----------------------------------------------------------------------------
Receive(s, n) == IgnoreOwnChild(s, n) \/ ReceiveAdvertisement(s, n)

(***************************************************************************)
(* The steps taken while the link strengths stay as they are.              *)
(***************************************************************************)
RoutingStep ==
  \/ CoordinatorAdvertise
  \/ \E s, n \in Node : Receive(s, n)

Next == RoutingStep \/ \E n \in Node : NeighborDiscoveryInput(n)

Spec == Init /\ [][Next]_vars

\* The behaviours in which measurement has settled.
StaticSpec == Init /\ [][RoutingStep]_vars

\* The TSCH process drains its input ring buffer whenever it is not empty.
ReceiveFairness == \A s, n \in Node : WF_vars(Receive(s, n))
FairStaticSpec == StaticSpec /\ ReceiveFairness /\ WF_vars(CoordinatorAdvertise)

-----------------------------------------------------------------------------
(***************************************************************************)
(* Type invariant.                                                         *)
(***************************************************************************)
TypeOK ==
  /\ advCounter \in Seqs
  /\ sv \in [Node -> [Node -> Strengths]]
  /\ maxSeq \in [Node -> Seqs]
  /\ strength \in [Node -> StrengthValues]
  /\ bestNode \in [Node -> Node \cup {NoNode}]
  /\ history \in [Node -> [Node -> 0 .. HistoryModulus - 1]]
  /\ chan \in [Node -> [Node -> Seq(Advertisement)]]

(***************************************************************************)
(* A node that was chosen as a parent has a parent itself, so that         *)
(* on_received_actual_data, which forwards to bestNode without testing it, *)
(* never sends to the address of node 0, whatever was lost or delayed and  *)
(* however the link strengths moved.                                       *)
(***************************************************************************)
ParentHasParent ==
  \A n \in Node : bestNode[n] # NoNode => bestNode[bestNode[n]] # NoNode

(***************************************************************************)
(* The coordinator is the only root: it never adopts a parent, and no      *)
(* other node is its own parent.                                           *)
(***************************************************************************)
OnlyRoot ==
  /\ bestNode[Coordinator] \in {NoNode, Coordinator}
  /\ \A n \in Node \ {Coordinator} : bestNode[n] # n

(***************************************************************************)
(* While the link strengths stay as they are, the parents form no loop:    *)
(* every set of nodes without the coordinator has a member whose parent is *)
(* outside the set.  A loop would make a data packet, which grows by one   *)
(* byte per hop, circulate for ever.                                       *)
(***************************************************************************)
LoopFree ==
  \A C \in SUBSET (Node \ {Coordinator}) :
    C # {} => \E n \in C : bestNode[n] \notin C

(***************************************************************************)
(* While the link strengths stay as they are, a node never gives up a      *)
(* strong path for a weaker one, whatever the order in which the           *)
(* advertisements of several neighbours and rounds arrive.                 *)
(***************************************************************************)
NeverWeaker == [][\A n \in Node : strength'[n] >= strength[n]]_vars

(***************************************************************************)
(* With settled links, the strength a node advertises is that of a path    *)
(* that exists.  It never exceeds the strength of the widest path to the   *)
(* coordinator, which is the least, over the sets that hold the node and   *)
(* not the coordinator, of the strongest link into the set.                *)
(***************************************************************************)
StrengthIsRealisable ==
  \A C \in SUBSET (Node \ {Coordinator}) : \A n \in C :
    \E m \in C, k \in Node \ C : strength[n] <= sv[m][k]

(***************************************************************************)
(* No advertisement is on its way.                                         *)
(***************************************************************************)
Quiet == \A s, n \in Node : chan[s][n] = <<>>

(***************************************************************************)
(* The widest path from the coordinator to n over the links in v has       *)
(* strength w: no set that holds n and not the coordinator has weaker      *)
(* links into it only, and one has no stronger link into it.               *)
(***************************************************************************)
IsWidest(w, v, n) ==
  LET Around == { C \in SUBSET (Node \ {Coordinator}) : n \in C }
  IN /\ \A C \in Around : \E m \in C, k \in Node \ C : w <= v[m][k]
     /\ \E C \in Around : \A m \in C, k \in Node \ C : v[m][k] <= w

(***************************************************************************)
(* With settled links and no loss, once the last round is over every node  *)
(* has found the strength of the widest path to the coordinator, though it *)
(* answers each neighbour once a round, with what it believes at the time. *)
(***************************************************************************)
FindsWidestPath ==
  Quiet /\ advCounter = MaxRounds =>
    \A n \in Node \ {Coordinator} : IsWidest(strength[n], sv, n)

(***************************************************************************)
(* When no broadcast is lost, a flood reaches every node: once it is over, *)
(* every node knows the sequence number of the round.  The reply guard     *)
(* (history) and the guard against one's own children must not cut it off. *)
(***************************************************************************)
RoundReachesAll == Quiet => \A n \in Node : maxSeq[n] = advCounter

(***************************************************************************)
(* Every flood ends: on_received_advertisement "skips  if same             *)
(* adverisement seq resceived" (master-routing.c:350), so that echoes die  *)
(* out.  The code keeps this promise for the numbers a uint8_t holds only: *)
(* a larger one never equals its entry of history_ad_seq_array, and two    *)
(* neighbours answer each other for ever.                                  *)
(***************************************************************************)
FloodTerminates == <>[]Quiet

-----------------------------------------------------------------------------
(***************************************************************************)
(* The inductive invariants behind OnlyRoot, ParentHasParent and LoopFree. *)
(***************************************************************************)

\* The advertisements waiting between a and b in the channels c.
Pending(c, a, b) == { c[a][b][i] : i \in 1 .. Len(c[a][b]) }

(***************************************************************************)
(* Nothing is on its way before the coordinator has its full strength, no  *)
(* node hears itself, and only what has a parent advertises a path.        *)
(***************************************************************************)
RootInv ==
  /\ OnlyRoot
  /\ \A n \in Node : Pending(chan, n, n) = {}
  /\ strength[Coordinator] = MasterStrength \/ \A s, n \in Node : Pending(chan, s, n) = {}

ParentInv ==
  /\ ParentHasParent
  /\ \A n \in Node : strength[n] > 0 => bestNode[n] # NoNode
  /\ \A s, n \in Node : \A m \in Pending(chan, s, n) :
       m.strength > 0 => bestNode[s] # NoNode

RoutingInv == RootInv /\ ParentInv

(***************************************************************************)
(* With settled links: what is on its way is not stronger than its sender  *)
(* is now, later sequence numbers of one sender carry no weaker strengths, *)
(* and a node is never stronger than its parent, than its link to it or    *)
(* than any fresher advertisement its parent has sent.                     *)
(***************************************************************************)
PendingInv ==
  \A s, n \in Node : \A m \in Pending(chan, s, n) :
    /\ m.strength <= strength[s]
    /\ s = Coordinator => m.strength = MasterStrength
    /\ s # Coordinator => m.seq <= maxSeq[s]
    /\ \A k \in Pending(chan, s, n) : m.seq < k.seq => m.strength <= k.strength

DownhillInv ==
  \A n \in Node \ {Coordinator} : bestNode[n] # NoNode =>
    /\ strength[n] <= strength[bestNode[n]]
    /\ strength[n] <= sv[n][bestNode[n]]
    /\ \A m \in Pending(chan, bestNode[n], n) :
         maxSeq[n] < m.seq => strength[n] <= m.strength

StaticInv == PendingInv /\ DownhillInv /\ LoopFree

(***************************************************************************)
(* The inductive invariant behind RoundReachesAll.  The numbers of a round *)
(* come from the coordinator and travel over links that exist.             *)
(***************************************************************************)
NumbersInv ==
  /\ advCounter <= MaxRounds
  /\ maxSeq[Coordinator] = advCounter
  /\ \A n \in Node : maxSeq[n] <= advCounter
  /\ \A n \in Node \ {Coordinator}, s \in Node : history[n][s] <= maxSeq[n]
  /\ \A s, n \in Node : \A m \in Pending(chan, s, n) :
       n \in InRange[s] /\ m.seq <= advCounter
  /\ \A n \in Node \ {Coordinator} :
       bestNode[n] # NoNode => n \in InRange[bestNode[n]]

(***************************************************************************)
(* A node p that has the present round has told every node c in its range. *)
(* Either that advertisement is still on its way, or c took p for its      *)
(* child and dropped it: then c has a parent, which is not p, and nothing  *)
(* p has said before can make it adopt p before it hears of the round.     *)
(***************************************************************************)
ToldInv ==
  \A p \in Node : \A c \in InRange[p] :
    maxSeq[p] = advCounter /\ maxSeq[c] < advCounter =>
      \/ \E m \in Pending(chan, p, c) : m.seq = advCounter /\ m.best # c
      \/ /\ bestNode[c] \notin {p, NoNode}
         /\ \A m \in Pending(chan, p, c) : m.strength <= strength[c]

FloodInv == NumbersInv /\ ToldInv

\* No channel is full, so that none drops an advertisement.
RoomInChannels == \A s, n \in Node : Len(chan[s][n]) < QueueSize

(***************************************************************************)
(* The inductive invariant behind RoomInChannels, for floods that do not   *)
(* overlap: what waits in a channel is of the present round, and a node    *)
(* has said in it no more than it has answered neighbours.  The round of   *)
(* the coordinator counts as an answer to itself.                          *)
(***************************************************************************)
Answered(s) == { m \in Node : history[s][m] = advCounter /\ (m = s => s = Coordinator) }

RoomInv ==
  \A s, n \in Node :
    /\ \A m \in Pending(chan, s, n) : m.seq = advCounter
    /\ Len(chan[s][n]) <= Cardinality(Answered(s))

\* The network in which a flood must reach everybody: no broadcast is lost, the
\* numbers of the rounds do not wrap, and whatever set of nodes without the
\* coordinator one takes, some node outside it is heard in it.
Reliable ==
  /\ ~Lossy
  /\ MaxRounds < SeqModulus /\ MaxRounds < HistoryModulus
  /\ \A C \in SUBSET (Node \ {Coordinator}) :
       C # {} => \E c \in C, p \in Node \ C : c \in InRange[p]

\* Only links that exist are measured; what the coordinator measures is not used.
MeasuredInRange(v) ==
  \A n \in Node \ {Coordinator}, m \in Node : v[n][m] > 0 => n \in InRange[m]

\* Where floods do not overlap, each round takes every widest path one link
\* further.
EnoughRounds ==
  /\ \A v \in InitStrengths : MeasuredInRange(v)
  /\ IsFiniteSet(Node) /\ Cardinality(Node) <= MaxRounds + 1

(***************************************************************************)
(* The inductive invariant behind FindsWidestPath, for floods that do not  *)
(* overlap.  For each strength w some set T of nodes has found a path of   *)
(* that strength before the present round; all they have said in it says   *)
(* so, and whom they have told it is as strong as that lets it be.  T      *)
(* grows with each round until no link of strength w leads out of it.      *)
(***************************************************************************)
Closed(T, w) == \A p \in T, c \in Node \ T : sv[c][p] < w

Informs(p, c, w) ==
  /\ \A m \in Pending(chan, p, c) : w <= m.strength
  /\ maxSeq[p] = advCounter =>
       \/ \E m \in Pending(chan, p, c) : m.seq = advCounter
       \/ Weaker(w, sv[c][p]) <= strength[c]

Found(T, w) == \A p \in T : w <= strength[p] /\ \A c \in InRange[p] : Informs(p, c, w)

\* What a node says to its parent is not more than the parent believes.
UphillInv ==
  \A s, n \in Node : \A m \in Pending(chan, s, n) : m.best = n => m.strength <= strength[n]

WideInv ==
  /\ MeasuredInRange(sv)
  /\ UphillInv
  /\ advCounter > 0 => \A w \in 1 .. MasterStrength : \E T \in SUBSET Node :
       /\ Coordinator \in T
       /\ Closed(T, w) \/ advCounter <= Cardinality(T)
       /\ Found(T, w)
=============================================================================
