------------------------------ MODULE MasterFlow ------------------------------
(***************************************************************************)
(* The flows of the MASTER routing layer over the slots of the generated   *)
(* schedule, modelled from os/net/master-routing/master-routing.c and the  *)
(* use that os/net/mac/tsch makes of the lifetime of a packet.             *)
(*                                                                         *)
(* A sender stamps each packet with a number and a window of slots.  A     *)
(* relay passes on what is new and still has a slot left, and the receiver *)
(* hands what is new to the application.  TSCH queues packets by the flow  *)
(* number that sent_packet_configuration holds at the moment; queue 0 is   *)
(* that of the beacons.  Strength vectors and advertisements go through    *)
(* the same configuration, and do not set all of it.                       *)
(*                                                                         *)
(* Slot and packet numbers are kept here as they are counted.  The code    *)
(* has their 16 low bits and only adds, subtracts and compares them with   *)
(* TSCH_SLOTNUM_LT, which is Before.                                       *)
(***************************************************************************)
EXTENDS Naturals, Sequences, FiniteSets, FiniteSetsExt, Functions

CONSTANTS
  Node,            \* node identifiers: positive integers
  Coordinator,     \* the node that collects the strength vectors
  Parent,          \* Parent[n]: bestNode of n
  Flow,            \* flow numbers: positive integers
  SenderOf,        \* sender_of_flow
  ReceiverOf,      \* receiver_of_flow
  ForwardTo,       \* ForwardTo[n][f]: forward_to of n, NoNode without an entry
  SfSize,          \* length of the slotframes
  Cell,            \* Cell[s]: flow of slot s (BeaconQueue for beacons), nodes that send and listen
  FirstTx, LastTx, \* FirstTx[f], LastTx[f]: the rows of f in first_tx_slot_in_flow and
                   \* last_tx_slot_in_flow, one entry for each window of a slotframe
  SlotModulus,     \* 2^16: slot numbers in packets
  NumberModulus,   \* 2^16: packet numbers
  ByteModulus,     \* 2^8: max_transmissions
  QueueSize,       \* TSCH_QUEUE_NUM_PER_NEIGHBOR
  RingSize,        \* TSCH_MAX_INCOMING_PACKETS
  StartAsn,        \* the slot the model starts in
  StartNumber,     \* the number of the last packet of each flow before that
  LastWindow,      \* LastWindow[f]: the window that packet had
  LastFlow,        \* LastFlow[n]: the flow n sent or relayed last, BeaconQueue if none
  MaxAsn,          \* bound: the slot it ends in
  MaxPackets,      \* bound: packets of all the flows together
  MaxVectors,      \* bound: strength vectors in all
  MaxAdverts       \* bound: advertisements in all

NoNode == 0
BeaconQueue == 0   \* flow number 0 is the address of n_eb

\* What the variables hold from the start of the program.
NoWindow == [earliest |-> 0, ttl |-> 0]

\* The sf_size / schedule_length windows of f in a slotframe: schedule_length is
\* the period of the flow its node sends, the slotframe a whole number of periods.
WindowsOf(f) == 1 .. Len(FirstTx[f])

\* The last packet had a window of the flow that is over.
IsWindowBefore(f) ==
  LET w == LastWindow[f]
  IN /\ w.ttl < StartAsn
     /\ \E i \in WindowsOf(f) :
          /\ w.ttl % SfSize = LastTx[f][i]
          /\ w.ttl = w.earliest + ((SfSize + LastTx[f][i] - FirstTx[f][i]) % SfSize)

ASSUME FlowAssumption ==
  /\ Node \subseteq Nat \ {NoNode}
  /\ Coordinator \in Node
  /\ Parent \in [Node -> Node]
  /\ Flow \subseteq Nat \ {BeaconQueue}
  /\ SenderOf \in [Flow -> Node]
  /\ ReceiverOf \in [Flow -> Node]
  /\ ForwardTo \in [Node -> [Flow -> Node \cup {NoNode}]]
  /\ \A f \in Flow : ForwardTo[SenderOf[f]][f] # NoNode
  /\ SfSize \in Nat \ {0}
  /\ Cell \in [0 .. SfSize - 1 ->
                 [flow : Flow \cup {BeaconQueue}, tx : SUBSET Node, rx : SUBSET Node]]
  /\ \A n \in Node : \E s \in 0 .. SfSize - 1 : n \in Cell[s].tx \cup Cell[s].rx
  /\ FirstTx \in [Flow -> Seq(0 .. SfSize - 1) \ {<<>>}]
  /\ LastTx \in [Flow -> Seq(0 .. SfSize - 1)]
  /\ \A f \in Flow : Len(LastTx[f]) = Len(FirstTx[f])
  /\ SlotModulus \in Nat \ {0}
  /\ NumberModulus \in Nat \ {0}
  /\ ByteModulus \in Nat \ {0}
  /\ QueueSize \in Nat \ {0}
  /\ RingSize \in Nat \ {0}
  /\ StartAsn \in Nat \ {0}
  /\ StartNumber \in Nat
  /\ LastWindow \in [Flow -> [earliest : Nat, ttl : Nat]]
  /\ \A f \in Flow : IF StartNumber = 0 THEN LastWindow[f] = NoWindow ELSE IsWindowBefore(f)
  /\ LastFlow \in [Node -> Flow \cup {BeaconQueue}]
  /\ \A n \in Node : LastFlow[n] \in Flow => ForwardTo[n][LastFlow[n]] # NoNode
  /\ MaxAsn \in Nat
  /\ MaxPackets \in Nat
  /\ MaxVectors \in Nat
  /\ MaxAdverts \in Nat

VARIABLES
  asn,             \* the absolute slot number of the network
  windows,         \* windows[f]: the window of each packet the sender of f accepted
  lastTtl,         \* last_sent_packet_ttl
  config,          \* sent_packet_configuration
  seen,            \* last_received_relayed_packet_of_flow
  queue,           \* queue[n][q]: the packets n has queued under flow number q
  input,           \* input[n]: received packets the process has not handled
  delivered,       \* delivered[f]: numbers handed to the application
  vectors,         \* strength vectors sent so far
  adverts          \* advertisements sent so far

vars == <<asn, windows, lastTtl, config, seen, queue, input, delivered, vectors, adverts>>

\* own_packet_number of the sender of f: a refused call takes its number back.
OwnNumber(f) == StartNumber + Len(windows[f])

Packets == SumFunction([f \in Flow |-> Len(windows[f])])

Packet ==
  [kind : {"flow", "vector"}, flow : Flow \cup {BeaconQueue}, nr : Nat, to : Node,
   earliest : Nat, ttl : Nat, heard : BOOLEAN]

\* TSCH_SLOTNUM_LT on the low bits: half the numbers are before, half after.
Before(a, b, modulus) == 2 * ((a + modulus - (b % modulus)) % modulus) >= modulus
SlotBefore(a, b) == Before(a, b, SlotModulus)
\* Faulty variant of the next: the low bits compared as they are.
LowBitsNewer(last, nr) == last % NumberModulus < nr % NumberModulus
Newer(last, nr) == Before(last, nr, NumberModulus)

Active(n, a) == n \in Cell[a % SfSize].tx \cup Cell[a % SfSize].rx

\* tsch_current_asn as the process sees it: the next slot n has a link in.
CurrentAsn(n) == CHOOSE a \in asn .. asn + SfSize - 1 :
  Active(n, a) /\ \A b \in asn .. a - 1 : ~Active(n, b)

-----------------------------------------------------------------------------
ConfiguredWindow(n) == IF LastFlow[n] = BeaconQueue THEN NoWindow ELSE LastWindow[LastFlow[n]]

(***************************************************************************)
(* The network is at rest between two packets: the last one has got        *)
(* through, its window is over, and an advertisement followed it.  The     *)
(* senders and relays still hold its window.  If StartNumber is 0 there    *)
(* was none, and everything is as the program starts it.                   *)
(***************************************************************************)
Init ==
  /\ asn = StartAsn
  /\ windows = [f \in Flow |-> <<>>]
  /\ lastTtl = [f \in Flow |-> LastWindow[f].ttl]
  /\ config = [n \in Node |-> [flow |-> BeaconQueue, earliest |-> ConfiguredWindow(n).earliest,
                                ttl |-> ConfiguredWindow(n).ttl]]
  /\ seen = [n \in Node |-> [f \in Flow |-> StartNumber]]
  /\ queue = [n \in Node |-> [q \in Flow \cup {BeaconQueue} |-> <<>>]]
  /\ input = [n \in Node |-> <<>>]
  /\ delivered = [f \in Flow |-> <<>>]
  /\ vectors = 0
  /\ adverts = 0

\* masternet output, send_packet and tsch_queue_add_packet: the packet goes to
\* the queue of the configured flow, or is dropped if that is full.
Output(n, p) ==
  LET q == config'[n].flow
  IN queue' = IF Len(queue[n][q]) < QueueSize
              THEN [queue EXCEPT ![n][q] = Append(@, p)] ELSE queue

(***************************************************************************)
(* first_next_idx: the first window of the slotframe that still is to      *)
(* begin, or the first one of the next slotframe.                          *)
(***************************************************************************)
NextIndex(f, slot) ==
  IF slot > FirstTx[f][Len(FirstTx[f])] THEN 1
  ELSE Min({ i \in WindowsOf(f) : slot <= FirstTx[f][i] })

\* The window of a packet sent now.
NextWindow(f) ==
  LET now == CurrentAsn(SenderOf[f])
      i == NextIndex(f, now % SfSize)
      e == now + ((SfSize + FirstTx[f][i] - (now % SfSize)) % SfSize)
  IN [earliest |-> e, ttl |-> e + ((SfSize + LastTx[f][i] - FirstTx[f][i]) % SfSize)]

\* Faulty variant: "Too high sending frequency" is never found.
NeverTooFrequent(f) == FALSE
TooFrequent(f) == SlotBefore(NextWindow(f).earliest, lastTtl[f])

(***************************************************************************)
(* master_routing_send: refused while the window of the packet before is   *)
(* not over, and then nothing changes.                                     *)
(***************************************************************************)
FlowSend(f) ==
  LET n == SenderOf[f]
      w == NextWindow(f)
  IN /\ Packets < MaxPackets
     /\ ~TooFrequent(f)
     /\ windows' = [windows EXCEPT ![f] = Append(@, w)]
     /\ lastTtl' = [lastTtl EXCEPT ![f] = w.ttl]
     /\ config' = [config EXCEPT ![n] = [flow |-> f, earliest |-> w.earliest, ttl |-> w.ttl]]
     /\ Output(n, [kind |-> "flow", flow |-> f, nr |-> OwnNumber(f) + 1, to |-> ForwardTo[n][f],
                   earliest |-> w.earliest, ttl |-> w.ttl, heard |-> FALSE])
     /\ UNCHANGED <<asn, seen, input, delivered, vectors, adverts>>

(***************************************************************************)
(* master_routing_send_advertisement as far as it touches the flows: it    *)
(* leaves flow number 0 in the configuration.                              *)
(***************************************************************************)
SendAdvertisement(n) ==
  /\ adverts < MaxAdverts
  /\ adverts' = adverts + 1
  /\ config' = [config EXCEPT ![n].flow = BeaconQueue]
  /\ UNCHANGED <<asn, windows, lastTtl, seen, queue, input, delivered, vectors>>

(***************************************************************************)
(* unicast_send: the vector goes to the parent with the flow number and    *)
(* the window that happen to be in the configuration.                      *)
(***************************************************************************)
\* Faulty variant: the vector is given a window of its own, to come.
FreshVector(n) ==
  [kind |-> "vector", flow |-> BeaconQueue, nr |-> 0, to |-> Parent[n],
   earliest |-> CurrentAsn(n) + SfSize, ttl |-> CurrentAsn(n) + 2 * SfSize, heard |-> FALSE]

Vector(n) ==
  [kind |-> "vector", flow |-> BeaconQueue, nr |-> 0, to |-> Parent[n],
   earliest |-> config[n].earliest, ttl |-> config[n].ttl, heard |-> FALSE]

UnicastSend(n) == UNCHANGED config /\ Output(n, Vector(n))

SendVector(n) ==
  /\ n # Coordinator
  /\ vectors < MaxVectors
  /\ vectors' = vectors + 1
  /\ UnicastSend(n)
  /\ UNCHANGED <<asn, windows, lastTtl, seen, input, delivered, adverts>>

-----------------------------------------------------------------------------
IsNew(n, p) == Newer(seen[n][p.flow], p.nr)

\* on_received_actual_data: the coordinator keeps a vector, others pass it on.
InputVector(n) ==
  /\ IF n = Coordinator THEN UNCHANGED <<config, queue>> ELSE UnicastSend(n)
  /\ UNCHANGED <<seen, delivered>>

\* Faulty variant: the receiver does not look for duplicates.
InputHandsOnAll(n, p) ==
  /\ n = ReceiverOf[p.flow]
  /\ seen' = [seen EXCEPT ![n][p.flow] = p.nr]
  /\ delivered' = [delivered EXCEPT ![p.flow] = Append(@, p.nr)]
  /\ UNCHANGED <<config, queue>>

InputAtReceiver(n, p) ==
  /\ n = ReceiverOf[p.flow]
  /\ IF IsNew(n, p)
     THEN /\ seen' = [seen EXCEPT ![n][p.flow] = p.nr]
          /\ delivered' = [delivered EXCEPT ![p.flow] = Append(@, p.nr)]
     ELSE UNCHANGED <<seen, delivered>>
  /\ UNCHANGED <<config, queue>>

\* Send only if time is left for sending.
InTime(n, p) == SlotBefore(CurrentAsn(n), p.ttl + 1)

InputAtRelay(n, p) ==
  LET relayed == [p EXCEPT !.to = ForwardTo[n][p.flow], !.heard = FALSE]
  IN /\ n # ReceiverOf[p.flow]
     /\ IF ForwardTo[n][p.flow] # NoNode /\ IsNew(n, p)
        THEN /\ seen' = [seen EXCEPT ![n][p.flow] = p.nr]
             /\ IF InTime(n, p)
                THEN /\ config' = [config EXCEPT ![n] =
                                     [flow |-> p.flow, earliest |-> p.earliest, ttl |-> p.ttl]]
                     /\ Output(n, relayed)
                ELSE /\ config' = [config EXCEPT ![n].flow = p.flow]
                     /\ UNCHANGED queue
        ELSE UNCHANGED <<seen, config, queue>>
     /\ UNCHANGED delivered

(***************************************************************************)
(* master_routing_input: the process handles the oldest received packet.   *)
(***************************************************************************)
Input(n) ==
  /\ input[n] # <<>>
  /\ LET p == Head(input[n])
     IN IF p.kind = "vector" THEN InputVector(n)
                             ELSE InputAtReceiver(n, p) \/ InputAtRelay(n, p)
  /\ input' = [input EXCEPT ![n] = Tail(@)]
  /\ UNCHANGED <<asn, windows, lastTtl, vectors, adverts>>

-----------------------------------------------------------------------------
(***************************************************************************)
(* get_packet_and_neighbor_for_link: expired packets at the head of the    *)
(* queue of a flow are dropped, and a packet waits for its first slot.     *)
(***************************************************************************)
\* Faulty variant: an expired packet is kept.
KeepsExpired(q) == q

Unexpired(q) ==
  LET alive == { i \in 1 .. Len(q) : SlotBefore(asn - 1, q[i].ttl) }
  IN IF alive = {} THEN <<>> ELSE SubSeq(q, Min(alive), Len(q))

Here == Cell[asn % SfSize]

\* The queue of the present slot at n when the slot begins.
SlotQueue(n) ==
  IF Here.flow = BeaconQueue THEN queue[n][BeaconQueue] ELSE Unexpired(queue[n][Here.flow])

Sends(n) ==
  /\ SlotQueue(n) # <<>>
  /\ Here.flow # BeaconQueue => ~SlotBefore(asn, Head(SlotQueue(n)).earliest)

\* tsch_queue_packet_sent after a failure: is a transmission left?
Retries(p) == SlotBefore(asn, p.ttl) /\ (p.ttl - asn) % ByteModulus # 0

(***************************************************************************)
(* One slot: the nodes in S send, those in got are heard by the node they  *)
(* address, acked of them hear the acknowledgement, and the MAC layer of   *)
(* the receiver has recognised the duplicates in known.  It remembers one  *)
(* sequence number per sender, so it may also miss them.  The neighbour of *)
(* the beacon queue is a broadcast one: nobody waits for acknowledgements  *)
(* there, and what is sent is done.                                        *)
(***************************************************************************)
After(n, S, got, acked) ==
  LET q == SlotQueue(n)
  IN IF n \notin S THEN q
     ELSE IF n \in acked \/ Here.flow = BeaconQueue \/ ~Retries(Head(q)) THEN Tail(q)
     ELSE <<[Head(q) EXCEPT !.heard = @ \/ n \in got]>> \o Tail(q)

\* ringbufindex_peek_put(&input_ringbuf) != -1: else the slot hears nothing.
\* Faulty variant: nobody looks.
AlwaysRoom(r) == TRUE
HasRoom(r) == Len(input[r]) < RingSize

Slot ==
  /\ asn < MaxAsn
  /\ asn' = asn + 1
  /\ \E S \in IF Here.flow = BeaconQueue THEN SUBSET {n \in Here.tx : Sends(n)}
                                         ELSE {{n \in Here.tx : Sends(n)}} :
       LET to(n) == Head(SlotQueue(n)).to
           audible == {n \in S : to(n) \in Here.rx \ S /\ HasRoom(to(n))}
       IN \E got \in SUBSET audible :
            /\ \A m, n \in got : to(m) = to(n) => m = n
            /\ \E acked \in SUBSET got :
               \E known \in SUBSET {n \in got : Head(SlotQueue(n)).heard} :
                 /\ queue' = [n \in Node |->
                      IF n \in Here.tx
                      THEN [queue[n] EXCEPT ![Here.flow] = After(n, S, got, acked)]
                      ELSE queue[n]]
                 /\ input' = [r \in Node |->
                      IF \E n \in got \ known : to(n) = r
                      THEN Append(input[r], Head(SlotQueue(CHOOSE n \in got : to(n) = r)))
                      ELSE input[r]]
  /\ UNCHANGED <<windows, lastTtl, config, seen, delivered, vectors, adverts>>

Next ==
  \/ \E f \in Flow : FlowSend(f)
  \/ \E n \in Node : SendAdvertisement(n) \/ SendVector(n) \/ Input(n)
  \/ Slot

Spec == Init /\ [][Next]_vars

-----------------------------------------------------------------------------
(***************************************************************************)
(* Type invariant.                                                         *)
(***************************************************************************)
FlowTypeOK ==
  /\ asn \in Nat \ {0}
  /\ windows \in [Flow -> Seq([earliest : Nat, ttl : Nat])]
  /\ lastTtl \in [Flow -> Nat]
  /\ config \in [Node -> [flow : Flow \cup {BeaconQueue}, earliest : Nat, ttl : Nat]]
  /\ seen \in [Node -> [Flow -> Nat]]
  /\ queue \in [Node -> [Flow \cup {BeaconQueue} -> Seq(Packet)]]
  /\ input \in [Node -> Seq(Packet)]
  /\ \A n \in Node : Len(input[n]) <= RingSize
  /\ delivered \in [Flow -> Seq(Nat)]
  /\ vectors \in Nat
  /\ adverts \in Nat

(***************************************************************************)
(* The application gets every packet at most once and in the order they    *)
(* were sent, although acknowledgements are lost, the MAC layer misses     *)
(* duplicates and the packet numbers wrap.                                 *)
(***************************************************************************)
DeliveredInOrder ==
  \A f \in Flow : \A i, j \in 1 .. Len(delivered[f]) :
    i < j => delivered[f][i] < delivered[f][j]

(***************************************************************************)
(* Two packets of a flow never compete for a slot, whenever the            *)
(* application sends: the window of the second begins after that of the    *)
(* first has ended.  The exception are flows in which a window may end in  *)
(* the slot where another begins, such as those with windows of a single   *)
(* slot: the test of master_routing_send lets both packets into that slot. *)
(***************************************************************************)
ShareASlot(f) == \E i, j \in WindowsOf(f) : LastTx[f][i] = FirstTx[f][j]

WindowsApart ==
  \A f \in Flow : \A i, j \in 1 .. Len(windows[f]) :
    i < j => \/ windows[f][i].ttl < windows[f][j].earliest
             \/ ShareASlot(f) /\ windows[f][i].ttl = windows[f][j].earliest

\* The packets of flow f with window i that are on their way.
OnTheWay(f, i) ==
  \E n \in Node :
    \/ \E q \in Flow \cup {BeaconQueue} : \E k \in 1 .. Len(queue[n][q]) :
         queue[n][q][k].kind = "flow" /\ queue[n][q][k].flow = f /\ queue[n][q][k].nr = StartNumber + i
    \/ \E k \in 1 .. Len(input[n]) :
         input[n][k].kind = "flow" /\ input[n][k].flow = f /\ input[n][k].nr = StartNumber + i

Delivered(f, i) == \E k \in 1 .. Len(delivered[f]) : delivered[f][k] = StartNumber + i

(***************************************************************************)
(* A packet does not vanish while its window is open: until then it is     *)
(* queued, received or delivered, whatever is lost on the air.  The queues *)
(* of the instance are long enough.                                        *)
(***************************************************************************)
KeptWhileInTime ==
  \A f \in Flow : \A i \in 1 .. Len(windows[f]) :
    asn <= windows[f][i].ttl => Delivered(f, i) \/ OnTheWay(f, i)

(***************************************************************************)
(* In the slots of a flow nothing is sent outside its window.              *)
(***************************************************************************)
SentInWindow ==
  [][asn' # asn /\ Here.flow # BeaconQueue =>
       \A n \in Here.tx : Sends(n) =>
         Head(SlotQueue(n)).earliest <= asn /\ asn <= Head(SlotQueue(n)).ttl]_vars

(***************************************************************************)
(* A strength vector that got into the queue of a flow does not take the   *)
(* slots of the flow: a node that has a packet of the flow whose window is *)
(* open sends one.                                                         *)
(***************************************************************************)
Open(p) == p.kind = "flow" /\ p.earliest <= asn /\ asn <= p.ttl

FlowNotBlocked ==
  [][asn' # asn /\ Here.flow # BeaconQueue =>
       \A n \in Here.tx :
         (\E i \in 1 .. Len(queue[n][Here.flow]) : Open(queue[n][Here.flow][i]))
           => Sends(n) /\ Open(Head(SlotQueue(n)))]_vars

(***************************************************************************)
(* When this is so, beyond the instance.  The schedule gives a flow its    *)
(* slots one after the other, the slotframe can be cut into parts in which *)
(* each flow has one window or none, and the node that sends a flow does   *)
(* not relay others.  Where a flow has two windows during one of another,  *)
(* a relay of both may give a vector the long window and send it in the    *)
(* second of the short ones.  A node that sends and relays may configure a *)
(* window of its own that is to come, relay a packet of another flow too   *)
(* late, which sets the flow number alone, and put a vector with that      *)
(* window before the next packet of the other flow.                        *)
(***************************************************************************)
\* The part that slot s is in when the slotframe is cut before the slots in cuts.
PartOf(cuts, s) == Max({0} \cup { c \in cuts : c <= s })

WindowsInParts(cuts) ==
  \A f \in Flow : \A i \in WindowsOf(f) :
    /\ FirstTx[f][i] < LastTx[f][i]
    /\ PartOf(cuts, FirstTx[f][i]) = PartOf(cuts, LastTx[f][i])
    /\ \A j \in WindowsOf(f) \ {i} :
         PartOf(cuts, FirstTx[f][i]) # PartOf(cuts, FirstTx[f][j])

SendersDoNotRelay ==
  \A f, g \in Flow : \A m \in Node :
    ForwardTo[m][f] = SenderOf[g] => ReceiverOf[f] = SenderOf[g]

(***************************************************************************)
(* Where a packet is kept.  The route of a flow leads from its sender to   *)
(* its receiver and nowhere else: a set of nodes that holds the sender and *)
(* the next node of each of its nodes holds the receiver.  A relay takes   *)
(* part in the last slot of each window, else it drops a packet that comes *)
(* in when the slots it has left are over, while the window is still open. *)
(* The windows of a flow have no slot in common, the count of slots in a   *)
(* window fits max_transmissions, and the windows that can be known at a   *)
(* time fit half the slot numbers.                                         *)
(***************************************************************************)
RoutesLead ==
  \A f \in Flow :
    /\ SenderOf[f] # ReceiverOf[f]
    /\ \A m \in Node : ForwardTo[m][f] \in Node \ {ReceiverOf[f]} =>
         /\ ForwardTo[ForwardTo[m][f]][f] # NoNode
         /\ \A i \in WindowsOf(f) :
              ForwardTo[m][f] \in Cell[LastTx[f][i]].tx \cup Cell[LastTx[f][i]].rx
    /\ \A Z \in SUBSET Node :
         SenderOf[f] \in Z /\ (\A n \in Z \ {ReceiverOf[f]} : ForwardTo[n][f] \in Z)
           => ReceiverOf[f] \in Z

WindowsFit ==
  \A f \in Flow :
    /\ ~ShareASlot(f)
    /\ \A i \in WindowsOf(f) :
         LET length == LastTx[f][i] - FirstTx[f][i]
         IN /\ FirstTx[f][i] < LastTx[f][i]
            /\ length < ByteModulus
            /\ 2 * (2 * (SfSize - 1) + length + 1) <= SlotModulus
=============================================================================
