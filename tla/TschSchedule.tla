---------------------------- MODULE TschSchedule ----------------------------
(***************************************************************************)
(* The TSCH schedule of every node and what MASTER does with it            *)
(* (tsch-schedule.c, lib/memb.c, master-routing.c): the fixed pool the     *)
(* links come from, the slotframes that list them, the pointer             *)
(* best_tsch_shedule_link to the link towards the chosen parent, and the   *)
(* counters of transmit links at the queues. A node boots with one frame   *)
(* for beacons, installs the frame of neighbour discovery, and after four  *)
(* minutes replaces it by the generated schedule; its parent may change at *)
(* any time. A freed block keeps its contents, as in the pool of the code. *)
(* Each operation runs under the TSCH lock, which module TschLock covers.  *)
(***************************************************************************)
EXTENDS Integers, Sequences, FiniteSetsExt

CONSTANTS
  Node,             \* the nodes, named by node_id
  Parents,          \* Parents[n]: the neighbours n may choose as bestNode
  Generated,        \* Generated[n]: the links generated_schedule adds at n
  Available,        \* Available[n]: row n of matrix, the slots left for discovery
  MaxFrame,         \* max_slot_frame_used of the generated schedule
  ScheduleLength,   \* schedule_length
  DiscoveryLength,  \* slots of the discovery slotframe (40)
  EbPeriod,         \* MASTER_EBSF_PERIOD
  MaxLinks,         \* TSCH_SCHEDULE_MAX_LINKS, the blocks of link_memb
  ByteModulus,      \* tx_links_count is a uint8_t
  MaxChoices        \* bound on the changes of parent of a node

Phase == {"booted", "configured", "applied"}
NULL  == 0                       \* blocks of the pool are numbered from 1
Block == 1..MaxLinks
Frame == 0..(MaxFrame + 1)
Tx(l) == "tx" \in l.options
Rx(l) == "rx" \in l.options

\* The queue a slotframe's transmit links are counted at (flow_addr), and the
\* queue of a neighbour's own address.
FlowQueue(h) == <<0, h>>
NbrQueue(m)  == <<m, 0>>
Broadcast    == NbrQueue(-1)     \* tsch_broadcast_address
Address      == { FlowQueue(h) : h \in Frame } \cup { NbrQueue(m) : m \in Node \cup {0} }
                  \cup {Broadcast}

ASSUME ScheduleAssumption ==
  /\ MaxFrame \in Nat /\ ScheduleLength \in Nat \ {0} /\ DiscoveryLength \in Nat \ {0}
  /\ EbPeriod \in Nat \ {0} /\ MaxLinks \in Nat \ {0} /\ ByteModulus \in Nat \ {0}
  /\ MaxChoices \in Nat
  /\ Node \subseteq Nat \ {0}
  /\ Parents \in [Node -> SUBSET Node] /\ \A n \in Node : n \notin Parents[n]
  /\ Generated \in [Node -> Seq([frame : 1..MaxFrame, options : SUBSET {"tx", "rx"},
                                slot : Nat, channel : Nat, to : { NbrQueue(m) : m \in Node }])]
  /\ Available \in [Node -> [txSlot : Nat, txChannel : Nat, rxSlot : Nat, rxChannel : Nat]]

VARIABLES
  phase,      \* started, then is_configured, then the generated schedule applied
  bestNode,   \* the parent, 0 when there is none
  schedule,   \* the schedule of each node, see NoSchedule
  choices     \* ghost: how often the parent changed

vars == <<phase, bestNode, schedule, choices>>

EmptyBlock == [frame |-> 0, options |-> {}, slot |-> 0, channel |-> 0, to |-> NbrQueue(0)]

NoSchedule ==
  [ memory |-> [b \in Block |-> EmptyBlock],   \* link_memb
    used   |-> {},                             \* its blocks in use
    size   |-> << >>,                          \* slotframe_list: handle -> number of slots
    links  |-> << >>,                          \* handle -> blocks in its links_list
    count  |-> [a \in Address |-> 0],          \* tx_links_count
    best   |-> NULL ]                          \* best_tsch_shedule_link

(***************************************************************************)
(* The operations of tsch-schedule.c on the schedule s of a node.          *)
(***************************************************************************)
\* The queue of address a counts one transmit link more.
CountUp(s, a) == [s.count EXCEPT ![a] = (@ + 1) % ByteModulus]

\* The counts when the links in B are gone: they go down at their addresses.
CountDown(s, B) ==
  [a \in Address |->
    (s.count[a] - Cardinality({ b \in B : Tx(s.memory[b]) /\ s.memory[b].to = a })) % ByteModulus]

\* Faulty variant of the next: any link, whatever slotframe it belongs to.
RemoveAnyLinks(s, h, B) ==
  IF h \notin DOMAIN s.size THEN s
  ELSE LET gone == B \ {NULL}
       IN [s EXCEPT !.links[h] = @ \ gone,
                    !.used     = @ \ gone,
                    !.count    = CountDown(s, gone)]

\* tsch_schedule_remove_link of the links in B, one after the other.
RemoveLinks(s, h, B) ==
  IF h \notin DOMAIN s.size THEN s
  ELSE LET gone == { b \in B \ {NULL} : s.memory[b].frame = h }
       IN [s EXCEPT !.links[h] = @ \ gone,
                    !.used     = @ \ gone,
                    !.count    = CountDown(s, gone)]

\* tsch_schedule_remove_slotframe
RemoveFrame(s, h) ==
  IF h \notin DOMAIN s.size THEN s
  ELSE LET t    == RemoveLinks(s, h, s.links[h])
           rest == DOMAIN s.size \ {h}
       IN [t EXCEPT !.size  = [i \in rest |-> t.size[i]],
                    !.links = [i \in rest |-> t.links[i]]]

\* tsch_schedule_add_slotframe
AddFrame(s, h, size) ==
  IF size = 0 \/ h \in DOMAIN s.size THEN s
  ELSE LET all == DOMAIN s.size \cup {h}
       IN [s EXCEPT !.size  = [i \in all |-> IF i = h THEN size ELSE s.size[i]],
                    !.links = [i \in all |-> IF i = h THEN {} ELSE s.links[i]]]

Fits(s, h, l) == h \in DOMAIN s.size /\ l.slot < s.size[h] /\ l.channel <= 15

\* tsch_schedule_remove_link_by_timeslot
RemoveBySlot(s, h, slot) ==
  RemoveLinks(s, h, { b \in s.links[h] : s.memory[b].slot = slot })

\* What tsch_schedule_add_link returns: the first free block, or NULL.
NewBlock(s, h, l) ==
  LET free == Block \ RemoveBySlot(s, h, l.slot).used
  IN IF Fits(s, h, l) /\ free # {} THEN Min(free) ELSE NULL

\* Faulty variant of the next: the count goes up at the queue of the neighbour.
AddLinkAtNeighbour(s, h, l) ==
  LET t == RemoveBySlot(s, h, l.slot)
      b == NewBlock(s, h, l)
  IN IF ~Fits(s, h, l) THEN s
     ELSE IF b = NULL THEN t
     ELSE [t EXCEPT !.memory[b] = [l EXCEPT !.frame = h],
                    !.used      = @ \cup {b},
                    !.links[h]  = @ \cup {b},
                    !.count     = IF Tx(l) THEN CountUp(t, l.to) ELSE @]

\* tsch_schedule_add_link; the count goes up at the queue of the slotframe.
AddLink(s, h, l) ==
  LET t == RemoveBySlot(s, h, l.slot)
      b == NewBlock(s, h, l)
  IN IF ~Fits(s, h, l) THEN s
     ELSE IF b = NULL THEN t
     ELSE [t EXCEPT !.memory[b] = [l EXCEPT !.frame = h],
                    !.used      = @ \cup {b},
                    !.links[h]  = @ \cup {b},
                    !.count     = IF Tx(l) THEN CountUp(t, FlowQueue(h)) ELSE @]

Link(options, slot, channel, to) ==
  [frame |-> 0, options |-> options, slot |-> slot, channel |-> channel, to |-> to]

(***************************************************************************)
(* The operations of master-routing.c at node n.                           *)
(***************************************************************************)
\* max_slot_frame_used + 1, the handle of the discovery slotframe, and the row
\* of matrix: both are 0 before the generated schedule sets them.
DiscoveryFrame(applied) == IF applied THEN MaxFrame + 1 ELSE 1
EbLink == Link({"tx", "rx"}, 0, 0, Broadcast)

\* The links of the discovery slotframe: the one on which n listens, and the one to
\* its parent m.
ListenLink(n, applied) ==
  IF applied /\ Available[n].rxSlot # 0
  THEN Link({"rx"}, Available[n].rxSlot, Available[n].rxChannel, NbrQueue(n))
  ELSE Link({"rx"}, n, 0, NbrQueue(n))

ParentLink(n, m, applied) ==
  IF applied /\ Available[n].txSlot # 0
  THEN Link({"tx"}, Available[n].txSlot, Available[n].txChannel, NbrQueue(m))
  ELSE Link({"tx"}, m, 0, NbrQueue(m))

\* Faulty variant of the next: the discovery slotframe is only emptied.
EmptyDiscovery(s, n, applied) ==
  LET h == DiscoveryFrame(applied) IN AddFrame(RemoveFrame(s, h), h, DiscoveryLength)

\* install_discovery_schedule
InstallDiscovery(s, n, applied) ==
  LET h == DiscoveryFrame(applied)
      t == AddFrame(RemoveFrame(s, h), h, DiscoveryLength)
  IN AddLink(t, h, ListenLink(n, applied))

\* Faulty variants of the next: the old link stays, or the timeslot is the
\* node's own.
KeepOldLink(s, n, m, applied) ==
  LET h == DiscoveryFrame(applied)
      l == Link({"tx"}, m, 0, NbrQueue(m))
  IN [AddLink(s, h, l) EXCEPT !.best = NewBlock(s, h, l)]

LinkInOwnSlot(s, n, m, applied) ==
  LET h == DiscoveryFrame(applied)
      t == [RemoveLinks(s, h, {s.best}) EXCEPT !.best = NULL]
      l == Link({"tx"}, n, 0, NbrQueue(m))
  IN [AddLink(t, h, l) EXCEPT !.best = NewBlock(t, h, l)]

\* add_link_to_best_node, with parent m
AddLinkToBestNode(s, n, m, applied) ==
  LET h == DiscoveryFrame(applied)
      t == [RemoveLinks(s, h, {s.best}) EXCEPT !.best = NULL]
      l == ParentLink(n, m, applied)
  IN [AddLink(t, h, l) EXCEPT !.best = NewBlock(t, h, l)]

\* generated_schedule: first the slotframes of the flows, then the links.
FlowFrames(s) ==
  LET upTo[h \in 0..MaxFrame] ==
        IF h = 0 THEN s ELSE AddFrame(RemoveFrame(upTo[h - 1], h), h, ScheduleLength)
  IN upTo

LinksAdded(s, n) ==
  LET upTo[i \in 0..Len(Generated[n])] ==
        IF i = 0 THEN FlowFrames(s)[MaxFrame]
                 ELSE AddLink(upTo[i - 1], Generated[n][i].frame, Generated[n][i])
  IN upTo

GeneratedSchedule(s, n) == LinksAdded(s, n)[Len(Generated[n])]

ApplyGenerated(s, n, m) ==
  AddLinkToBestNode(InstallDiscovery(GeneratedSchedule(s, n), n, TRUE), n, m, TRUE)

(***************************************************************************)
(* init_master_routing has run: one slotframe of one slot, for beacons.    *)
(***************************************************************************)
Init ==
  /\ phase = [n \in Node |-> "booted"]
  /\ bestNode = [n \in Node |-> 0]
  /\ schedule = [n \in Node |-> AddLink(AddFrame(NoSchedule, 0, 1), 0, EbLink)]
  /\ choices = [n \in Node |-> 0]

\* master_install_schedule, MASTER_INIT_PERIOD after the boot
InstallSchedule(n) ==
  /\ phase[n] = "booted"
  /\ phase' = [phase EXCEPT ![n] = "configured"]
  /\ schedule' = [schedule EXCEPT ![n] =
       InstallDiscovery(AddLink(AddFrame(RemoveFrame(@, 0), 0, EbPeriod), 0, EbLink),
                        n, FALSE)]
  /\ UNCHANGED <<bestNode, choices>>

\* An advertisement makes m the parent of n (module MasterRouting decides when).
ChooseParent(n, m) ==
  /\ choices[n] < MaxChoices
  /\ bestNode[n] # m
  /\ bestNode' = [bestNode EXCEPT ![n] = m]
  /\ schedule' = [schedule EXCEPT ![n] = AddLinkToBestNode(@, n, m, phase[n] = "applied")]
  /\ choices' = [choices EXCEPT ![n] = @ + 1]
  /\ UNCHANGED phase

\* apply_generated_schedule, once, 240 seconds after the node was configured
ApplyGeneratedSchedule(n) ==
  /\ phase[n] = "configured"
  /\ phase' = [phase EXCEPT ![n] = "applied"]
  /\ schedule' = [schedule EXCEPT ![n] = ApplyGenerated(@, n, bestNode[n])]
  /\ UNCHANGED <<bestNode, choices>>

Next ==
  \E n \in Node :
    \/ InstallSchedule(n)
    \/ \E m \in Parents[n] : ChooseParent(n, m)
    \/ ApplyGeneratedSchedule(n)

Spec == Init /\ [][Next]_vars

(***************************************************************************)
(* tsch_schedule_get_next_active_link: of the links whose timeslot comes   *)
(* at a slot number, a node runs one that transmits before one that does   *)
(* not, then the one of the lowest slotframe.                              *)
(***************************************************************************)
ActiveAt(s, asn) ==
  { s.memory[b] : b \in { b \in s.used : LET h == s.memory[b].frame
                                         IN s.memory[b].slot = asn % s.size[h] } }

\* Faulty variant of the next: the highest slotframe first.
HighestFirst(k, l) == IF Tx(k) = Tx(l) THEN k.frame > l.frame ELSE Tx(k)

Before(k, l) == IF Tx(k) = Tx(l) THEN k.frame < l.frame ELSE Tx(k)

RunsAt(n, asn) ==
  LET active == ActiveAt(schedule[n], asn)
  IN { l \in active : \A k \in active \ {l} : Before(l, k) }

\* The slot numbers at which a link of s comes up, with every phase of the beacons.
TimesOf(s, l) == { l.slot + k * s.size[l.frame] : k \in 0..(EbPeriod - 1) }

---------------------------------------------------------------------------
(***************************************************************************)
(* What a network may be asked for besides ScheduleAssumption. Theorems    *)
(* name the parts they need.                                               *)
(***************************************************************************)
\* Every slot and channel offset of discovery exists.
SlotsExist ==
  /\ \A n \in Node : n < DiscoveryLength
  /\ \A n \in Node : Available[n].txSlot < DiscoveryLength /\ Available[n].txChannel <= 15

\* The links of generated_schedule fit, no two share a cell of a slotframe, and the
\* pool holds them with the link of the beacons and the one a node listens at. The
\* link to the parent may find the pool empty.
GeneratedFits ==
  \A n \in Node :
    /\ Len(Generated[n]) + 2 <= MaxLinks /\ 3 <= MaxLinks
    /\ \A i \in 1 .. Len(Generated[n]) :
         /\ Generated[n][i].slot < ScheduleLength /\ Generated[n][i].channel <= 15
         /\ \A j \in 1 .. Len(Generated[n]) \ {i} :
              Generated[n][i].frame = Generated[n][j].frame => Generated[n][i].slot # Generated[n][j].slot

\* The slots of discovery lie in the slotframe, and a node does not listen in the
\* one it sends to its parent in.
DiscoveryFits ==
  /\ SlotsExist
  /\ \A n \in Node : Available[n].rxSlot < DiscoveryLength /\ Available[n].rxChannel <= 15
  /\ \A n \in Node : \A m \in Parents[n] \cup {0} :
       ListenLink(n, TRUE).slot # ParentLink(n, m, TRUE).slot

\* A slot that comes before and after one slotframe of discovery is not both times
\* a slot of the beacons.
BeaconsMove == DiscoveryLength % EbPeriod # 0

\* What the scheduler makes sure of (module Scheduler): the receiver of a generated
\* link has its counterpart, a node has one generated link in a slot, and none in a
\* slot given away for discovery; and the slotframe of discovery is as long as those
\* of the flows.
CellsMeet ==
  /\ ScheduleLength = DiscoveryLength
  /\ \A n \in Node : \A i \in 1 .. Len(Generated[n]) :
       LET l == Generated[n][i] IN
       /\ Tx(l) => \E j \in 1 .. Len(Generated[l.to[1]]) :
                     LET k == Generated[l.to[1]][j] IN
                     Rx(k) /\ k.frame = l.frame /\ k.slot = l.slot /\ k.channel = l.channel
       /\ \A j \in 1 .. Len(Generated[n]) \ {i} : Generated[n][j].slot # l.slot
       /\ l.slot # ListenLink(n, TRUE).slot
       /\ \A m \in Parents[n] \cup {0} : l.slot # ParentLink(n, m, TRUE).slot

\* The byte is wide enough for all links a node may ever add.
CountsFit == \A n \in Node : MaxChoices + Len(Generated[n]) + 3 < ByteModulus

---------------------------------------------------------------------------
(* Properties.                                                             *)

\* The pool of links and the lists of the slotframes agree whatever the order of
\* installs, parent changes and schedules: a block in use is in one list, that of
\* the slotframe its contents name, no block in a list is free, and a slotframe
\* has one link per timeslot (tsch-schedule.c:189). A pointer kept to a removed
\* link (best_tsch_shedule_link, master-routing.c:566) may not break this.
PoolMatchesLists ==
  \A n \in Node : LET s == schedule[n] IN
    /\ s.used = UNION { s.links[h] : h \in DOMAIN s.links }
    /\ \A h \in DOMAIN s.links : \A b \in s.links[h] :
         /\ s.memory[b].frame = h
         /\ \A c \in s.links[h] \ {b} : s.memory[c].slot # s.memory[b].slot

\* best_tsch_shedule_link, when set, is the one transmit link of the discovery
\* slotframe and leads to the present parent, whatever happened to the links it
\* pointed to before (add_link_to_best_node); and a node that applied the
\* schedule lacks it only because its pool was full.
BestLinkLeadsToParent ==
  \A n \in Node : LET s == schedule[n]
                      h == DiscoveryFrame(phase[n] = "applied") IN
    /\ s.best # NULL =>
         /\ { b \in s.links[h] : Tx(s.memory[b]) } = {s.best}
         /\ s.memory[s.best].to = NbrQueue(bestNode[n])
    /\ phase[n] = "applied" /\ s.best = NULL => s.used = Block

\* A configured node keeps its beacon link and the link on which it listens for
\* its children: neither the generated schedule, which takes over the handle of
\* the first discovery slotframe, nor a change of parent takes them away. A node
\* to which that schedule gives exactly one link is the exception: the block that
\* best_tsch_shedule_link still names then goes to the new listening link, which
\* add_link_to_best_node removes.
DiscoveryKept ==
  \A n \in Node : phase[n] # "booted" =>
    LET s == schedule[n]
        h == DiscoveryFrame(phase[n] = "applied") IN
    /\ \E b \in s.links[0] : s.memory[b] = EbLink
    /\ \/ \E b \in s.links[h] : Rx(s.memory[b]) /\ s.memory[b].to = NbrQueue(n)
       \/ phase[n] = "applied" /\ Len(Generated[n]) = 1

\* The queue a slotframe transmits from counts at least its transmit links, so
\* that tsch_queue_free_unused_neighbors never frees the queue of a flow in use.
\* The counter of the address, which goes down without having gone up, wraps below 0
\* with the first link that is removed; that of a queue would wrap above 255 after
\* as many links as that were added to it, which CountsFit excludes.
QueueKept ==
  \A n \in Node : LET s == schedule[n] IN
    \A h \in DOMAIN s.links :
      s.count[FlowQueue(h)] >= Cardinality({ b \in s.links[h] : Tx(s.memory[b]) })

\* Sender and receiver of a generated link agree: whenever a node runs a transmit
\* link of a flow, the node it leads to runs, in that very slot, a link of that
\* flow on that channel offset on which it listens. Beacon slots come at another
\* period and displace the links of flows: they must do so at both ends.
CellsAgree ==
  \A n \in Node : phase[n] = "applied" =>
    LET s    == schedule[n]
        sent == { s.memory[b] : b \in s.used } IN
    \A l \in { l \in sent : Tx(l) /\ l.frame \in 1..MaxFrame } :
      LET m == l.to[1] IN
      phase[m] = "applied" =>
        \A asn \in TimesOf(s, l) : l \in RunsAt(n, asn) =>
          \E k \in RunsAt(m, asn) : Rx(k) /\ k.frame = l.frame /\ k.channel = l.channel

\* Some slot in which n runs its link to its parent and the parent listens.
HeardByParent(n) ==
  LET s == schedule[n]
      l == s.memory[s.best] IN
  /\ s.best # NULL
  /\ \E asn \in TimesOf(s, l) :
       /\ l \in RunsAt(n, asn)
       /\ \E k \in RunsAt(bestNode[n], asn) : Rx(k) /\ k.channel = l.channel

\* Before either of them applies the generated schedule, the link a node has to
\* its parent meets the slot in which the parent listens, for every parent it may
\* have had before (timeslot bestNode, master-routing.c:577 and :636).
LinkMeetsParent ==
  \A n \in Node :
    /\ phase[n] = "configured" /\ schedule[n].best # NULL
    /\ phase[bestNode[n]] = "configured"
    => HeardByParent(n)

\* apply_generated_schedule is to "re install discovery schedule with new slotframe"
\* and "change the link with best node based on available slots": the link of a
\* node to its parent still meets the slot in which the parent listens.
LinkMeetsParentAfterwards ==
  \A n \in Node :
    phase[n] = "applied" /\ bestNode[n] # 0 /\ phase[bestNode[n]] = "applied"
    => HeardByParent(n)
=============================================================================
