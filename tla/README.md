# A TLA+ model of MASTER neighbour-data collection

The repository is a fork of Contiki-NG.  The fork adds MASTER, a centrally
scheduled network layer for TSCH (IEEE 802.15.4e) networks, and an application
that measures the quality of every link and collects the measurements at node 1,
the coordinator.  This directory models the program logic of that addition,
checks it with TLC and proves its central invariants with TLAPS.

Paths below are relative to `src/`.

## 1. Inventory

### 1.1 The parts of the system

| Part | Code | State it keeps | Operations |
|---|---|---|---|
| MASTER routing | `os/net/master-routing/master-routing.c` | `bestNode`, `max_master_strength`, `max_advertisement_seq`, `history_ad_seq_array`, the node tracker of the coordinator, the flow tables and slotframes, `best_tsch_shedule_link` | handling of beacons, advertisements and data packets; sending of advertisements, data and flow packets; relaying of flow packets; installation of the schedules |
| Strength vector | `os/net/master-routing/strength-vector.c`, `examples/neighbour-data-collection/strength-vector.c` | per neighbour: last and first beacon heard, beacons received, strength | a received beacon, reading a strength, serialising the vector |
| Application (TSCH) | `examples/master/master-unicast/master-unicast.c`, `examples/master/master-neighbor-discovery/` | second counter, advertisement counter, next sending time | one timer per second: advertise, send, switch schedules |
| Application (CSMA) | `examples/neighbour-data-collection/neighbour-data-collection.c` | the same routing state as MASTER routing, in an earlier version of the protocol | one receive callback, one timer |
| MASTER network layer | `os/net/master-net/master-net.c` | the packet buffer, the input callback | input, output |
| Flow map | `os/sys/hash-map.c` | a table of `MASTER_NUM_FLOWS` entries with chains | insert, lookup |
| Adaptation service | `os/services/at-master/at-master.c` | the registered callbacks | register, process |
| TSCH queues | `os/net/mac/tsch/tsch-queue.c` | neighbours, one packet queue per neighbour or flow, backoff | add, remove, transmit, flush, time source |
| TSCH schedule | `os/net/mac/tsch/tsch-schedule.c` | slotframes and links in two pools | add and remove slotframes and links, next active link |
| TSCH slots | `os/net/mac/tsch/tsch-slot-operation.c` | the lock, the current link and packet, the input and dequeued ring buffers | slot interrupt, transmit slot, receive slot, lock |
| TSCH association | `os/net/mac/tsch/tsch.c` | associated, time source, keepalive and EB timers | scan, associate, leave, EB input, keepalive |
| Support | `os/lib/ringbufindex.c`, `memb.c`, `list.c` | index pairs, pools, lists | put, get, alloc, free |
| Scheduler | `Master/Python/*.py` | the flows, the slot/channel matrix | cell creation along routes, R-LPF, EDF, RMS and C-LLF scheduling, trimming, the matrix of free slots |
| Generated schedules | `Master/Schedules/*.c` | data | none |
| Contiki-NG | `arch`, `tools`, the rest of `os` and of `examples` | | not part of MASTER |

### 1.2 How they interact

The application runs as one Contiki process: a timer event every second, on
which the coordinator advertises (every 15 s), every other node sends its
strength vector towards `bestNode`, and every node switches to the generated
schedule at 240 s.  `master_net_input` is called by the TSCH process, never by an
interrupt, so one handler of one node runs to its end before the next one
starts; the concurrency of the routing layer is that of the network.  Handlers of
different nodes interleave freely, and between a transmission and its reception
any number of other handlers may run.

Below it, the slot operation of TSCH is an interrupt that runs between any two
statements of the TSCH process.  The two communicate through lock-free ring
buffers (input packets, dequeued packets, the queue of each neighbour) and
through `tsch_lock`.

A beacon (EB) heard by TSCH is given to `neighbor_discovery_input`, which updates
the strength vector.  The routing layer reads it when an advertisement comes in.
The routing layer changes the TSCH schedule when the parent changes.

### 1.3 What is hard here

* Advertisements of several neighbours and of several rounds overtake each
  other, are lost without notice, and find link strengths that have moved.
* The answer to an advertisement is suppressed by a small history; suppressing
  too much cuts the flood off, too little makes it endless.
* Sequence numbers have three widths: 16 bits on air, `int` in the receiver,
  8 bits in the history.
* A data packet is routed hop by hop by whatever `bestNode` is at that moment.
* The coordinator counts distinct origins and clears its tracker when the last
  one arrives.
* TSCH code is shared between an interrupt and a process.
* Every table has a fixed size.

### 1.4 What makes each part correct

* **Choice of the parent.** The parents form a tree rooted at the coordinator
  while the links are settled; a node that is a parent has one; a strength is that
  of a path that exists; a flood reaches everybody and ends; the widest path is
  found.
* **Collection.** No packet is sent to nobody; every packet arrives where the
  network is settled; "all collected" is printed only when it is true.
* **Flows.** A packet is delivered to the receiver of its flow at most once, in
  the order of its numbers, never sent outside its window and not lost inside it;
  nothing else takes the slots of the flow.
* **Strength vector.** An entry is a reception ratio, and entries can be compared.
* **Flow map.** It is a map with a capacity, whatever collides.
* **TSCH lock and slots.** What the interrupt uses is never freed under it; the
  process gets the lock; every slot ends.
* **TSCH queues.** No packet is lost, duplicated or freed twice between the
  queue, the interrupt and the report; every packet is done with at last.
* **TSCH schedule.** Pool and slotframes agree; the counters of the neighbours
  agree with the installed links; the two ends of a link come up in the same slot.
* **Association.** There is at most one time source; a node that loses its
  network comes back.
* **Ring buffers.** One producer and one consumer see a bounded queue.
* **Scheduler.** No two cells in conflict share a slot; the cells of a flow
  follow its route; nothing is dropped; the slots given away for discovery are free.
* **CSMA application.** As for the choice of the parent.

## 2. Plan

| | Modules | Abstract specification | Runs | Theorems |
|---|---|---|---|---|
| 1, done | `MasterRouting`, `MasterCollect` over it | the widest path; `MasterCollect` implements `MasterRouting` | 3 nodes with loss, copies and moving links; 4 nodes without loss; 3 nodes with a history narrower than the numbers | types, the tree, no loops, strengths never fall and are realisable, floods reach everybody, the widest paths are found, completed collections have a packet or copy of every node; the refinement, also of the settled network |
| 2, done | `StrengthVector`; `HashMap` | `FlowMap` | 3 neighbours; 6 keys in 4 places | ratio, comparability; chains end, the table implements `FlowMap` |
| 3, done | `TschLock` | | 3 links, one process, one interrupt | exclusion, no freed link |
| 4, done | `MasterFlow` | a queue that delivers each number at most once (as a property) | 4 nodes, 2 flows, 8 slots | types, windows apart, numbers in order, sent in the window, flows not blocked, packets kept |
| 5, done | `TschQueue`, over the lock of `TschLock` | | 3 packets, 2 queues | types, each packet once |
| 6, done | `TschSchedule` | | the 5 nodes of the shipped schedule | pool and lists agree, the pointer leads to the parent, discovery stays, the parent hears, both ends of a link agree, queues are kept |
| 7, done | `Scheduler` | a schedule without conflicts (as a property) | 2 communications, 3 algorithms | no conflict, cells in the order of the route, nothing dropped, discovery slots free |
| 8 | C-LLF and the removal of infeasible flows in `Scheduler` | | as now | |
| 9 | `RingBuf`: the indices of `ringbufindex.c` under an interrupt | a bounded queue | size 4 | refinement |
| 10 | `TschAssociation`: scanning, time source, keepalive | | 2 time sources | one time source |

Modules about which something is proved use no `RECURSIVE` operator; bounded
walks (`Walk` in `HashMap`) are recursive functions.

## 3. The modules and the code

Definitions introduced by "Faulty variant" model a plausible slip in the code next
to the definition that models the code.  No specification uses them; they are there
to be put in the place of that definition, which must make a property fail.

### 3.1 `MasterRouting`

One variable for each static variable of `master-routing.c` that the choice of
the parent depends on, as a function of the node: `maxSeq`
(`max_advertisement_seq`), `strength` (`max_master_strength`), `bestNode`,
`history` (`history_ad_seq_array`), `sv` (the strength vector) and `advCounter` (the
counter of `master-unicast.c`).  `chan[s][n]` stands for the queue of `s`, the
radio and the input queue of `n`: in order, of bounded length, losing what does
not fit or is not heard.

| Action | Code |
|---|---|
| `CoordinatorAdvertise` | the timer of the coordinator, `master_routing_send_advertisement_sendto` |
| `ReceiveAdvertisement` | `on_received_advertisement` to its end: the parent, the history and the advertisement sent in answer |
| `IgnoreOwnChild` | its early return for an advertisement whose sender has this node as parent |
| `NeighborDiscoveryInput` | a beacon that moves the strengths (their exact values: `StrengthVector`) |

Strengths are natural numbers: only their order matters to the code, which
compares them and takes minima.  Sequence numbers are taken modulo `SeqModulus`,
and modulo `HistoryModulus` where the code stores a byte.  The link of the schedule that a change of `bestNode`
asks for (`add_link_to_best_node`) is not in here: whether a node gets it, and where it
leads, depends on the pool and the phase of the schedule, which `TschSchedule` has.

`Spec` lets the strengths move at any time.  `StaticSpec` is the system after
measurement has settled; loop freedom is stated of it.  With strengths that move
it does not hold: the guard against a sender whose parent is the receiver
excludes loops of two, and a loop of three can form when a node hears of a
better path through its own descendants after its own path has become worse.
No statement in the code promises otherwise, so this is recorded here and in the
hazards and not as a finding.

`StrengthIsRealisable` says in the form of cuts that the strength of a node is that
of a path: every set of nodes that holds the node and not the coordinator has a link
into it that is at least as strong.  The widest path has the strength of its weakest
link, and the least such cut has the same one, so no path need be named.
`FindsWidestPath` adds the other direction: `IsWidest(w, v, n)` says that every cut
around the node has a link of at least `w` into it, and that some cut has none that is
stronger.  That this is the strength of the widest path is checked, not assumed:
`MCMasterRouting` also computes that strength along paths, by a recursive function
(`WidestPath`), and its assumption `CutsMeasurePaths`, evaluated by TLC in the three
runs of the routing, says that the two agree for all link strengths of the instance.

### 3.2 `MasterCollect`

Extends `MasterRouting` by the data packets on their way, the tracker of the
coordinator and its counter.  `SendActualData` is the sending timer,
`ForwardActualData` and `CollectActualData` are the two branches of
`on_received_actual_data`.  A packet has its destination, the route that the
code appends to the payload, and a number that tells packets of one origin
apart; the strengths inside are left out.

Packets are lost and duplicated.  `unicast_send` asks for one transmission, but when the
acknowledgement is lost `tsch_queue_packet_sent` (`tsch-queue.c:387`) grants more from
the TTL that the last flow packet left in the configuration (3.3), and the receiver,
which remembers one number for each sender (`mac-sequence.c:81`), takes the second
one for new when another packet of that sender came between.  `RepeatActualData`
makes such a copy at any time.  A copy that comes after the tracker was cleared
(`master-routing.c:515`) counts in the next round, so that a round can be completed
with no new packet of its origin: the code cannot tell them apart, and says nothing
about it.  What `CollectedFromAll` claims is therefore what the tracker can give: each
collection takes from every node a packet or a copy that no other collection took, and
`repeated` counts the copies; where none is made, as with `Lossy` false, a
collection has a packet that its origin sent for it.

### 3.3 `MasterFlow`

The flows over the slots of an installed schedule: `FlowSend`, `SendVector`,
`SendAdvertisement`, `Input` (`master_routing_input` at receiver, relay and
coordinator) and `Slot`, one slot of the whole network.  Its variables are
`sent_packet_configuration` (`config`), `last_sent_packet_ttl` (`lastTtl`),
`last_received_relayed_packet_of_flow` (`seen`), the queues of TSCH under their
flow numbers and the input ring.  `windows`, `delivered` and the two counters are
history: `own_packet_number` is the number of windows.

The configuration is shared by all that a node sends and no sender sets all of it:
an advertisement leaves flow 0 in it, a vector takes whatever flow and window are
there.  `Vector` models that, and `FlowNotBlocked` asks whether vectors in the queue
of a flow can take its slots.  In the instance, as in the shipped schedule, the
slotframe can be cut so that no part holds two windows of a flow, and no sender of a
flow relays another (`WindowsInParts`, `SendersDoNotRelay`); section 5 says what happens
when one does.
`LastWindow` and `LastFlow` are what earlier packets left in `last_sent_packet_ttl` and
the configuration; with `StartNumber` 0 they have to be what is there after a boot
(`FlowAssumption`).

`NextWindow` is the computation of the window in `master_routing_send`.  The period of
the sender's own flow is `schedule_length` (`scheduling_contiki.py:282`), and a slotframe
is as long as the hyper-period, so a flow has `sf_size / schedule_length` windows in it:
`FirstTx[f]` and `LastTx[f]` are rows with an entry for each (`WindowsOf`), and
`NextIndex` is `first_next_idx`.

A slot is one action: who sends follows from the queues
(`get_packet_and_neighbor_for_link`), what is heard, acknowledged and recognised as a
duplicate by the MAC layer is left open.  What is sent from the beacon queue goes to
the broadcast neighbour, waits for no acknowledgement and is done after one
transmission.  `Retries` is the test of
`tsch_queue_packet_sent`: the rest of the TTL goes into a byte.  The schedule's
choice among overlapping links is not in here (`TschSchedule` has it): in the
schedules the scheduler makes, no node has two flow links in one slot
(`ConflictFree`).  Slot and packet numbers are kept as they are counted and compared
modulo `SlotModulus` and `NumberModulus`, which is what 16-bit unsigned arithmetic
does.

### 3.4 `StrengthVector`

The counters of one node: `sequenceNumber` of each neighbour (numbering of EBs in
`tsch-packet.c`), `receivedCounter`, `highestSequence`, `highestNodeID` and the
entries of `strength_vector`, kept as fractions, since the code keeps the
quotient in a float.  `HearBeacon` is `onReceivedNewBeacon`, `LoseBeacon` a
beacon that is not heard, `Restart` a restart of the neighbour.

### 3.5 `FlowMap` and `HashMap`

`HashMap` has the table with its `next` links and the four ways out of
`hash_map_insert` as actions.  `FlowMap` is a map that refuses a key only when
it is full.  `IsFlowMap` says that the table implements it under the mapping
"what `hash_map_lookup` returns for the keys that are there".

### 3.6 `TschLock`

The process and the interrupt, cut at the points where one can find the other:
the interrupt's actions are the stretches of `tsch_slot_operation` between its
yields, the process's are the stretches between two accesses to what they share.

| Action | Code |
|---|---|
| `SkipSlot`, `IdleSlot`, `StartSlot` | the slot interrupt up to its first yield: no link or lock requested; nothing to do; a transmission or a reception, on the current or on the backup link |
| `ExpiredPacket` | the loop over expired packets of `get_packet_and_neighbor_for_link` when a neighbour is unused |
| `FinishSlot` | the end of a transmission or reception |
| `NextLink` | `tsch_schedule_get_next_active_link` |
| `RequestLock`, `TakeLock` | `tsch_get_lock` before and after its waiting loop |
| `AbortRemoved`, `ChangeAndRelease` | the critical sections of `tsch_schedule_add_link`, `tsch_schedule_remove_link`, `tsch_queue_add_nbr` and `tsch_queue_remove_nbr` |
| `PutPacket` | `tsch_queue_add_packet` after the neighbour was added |
| `Disassociate`, `Reset`, `Associate` | `tsch_disassociate`, `tsch_reset`, `tsch_associate` with `tsch_slot_operation_start` |

Which link is due and whether a packet is found is left open; timeslots, radio
timing and the contents of queues are abstracted.  Of the neighbours only those
matter that `tsch_queue_free_unused_neighbors` would remove: a neighbour whose
first packet is still to be put into its queue, and an old time source without a
link.  All unused neighbours are removed under one lock, where the code takes the
lock once for each.

### 3.7 `TschQueue`

The packets between the same two sides.  `SlotStart` finds the packet of the slot
and frees expired ones, `SlotEnd` takes it out of its queue and puts it into the ring
of dequeued packets, unless the process holds the lock by then.  The process
allocates a block (`AllocPacket`) and puts it (`PutPacket`), reports a sent packet
and frees its block (`ReportPacket`) and only later takes it out of the ring
(`GetDequeued`: `tsch_tx_process_pending` frees before `ringbufindex_get`, with the
lock of `tsch_queue_free_unused_neighbors` between the two), takes and releases the lock
for other work, and leaves, resets and joins again.  Put and get of a ring are atomic, which
`ringbufindex.c` promises for one reader and one writer.

`torn` marks the one exception of `EachPacketOnce`: `tsch_reset` flushes the packet
of a slot in progress, which the slot then reports again.

### 3.8 `TschSchedule`

For each node a record of what `tsch-schedule.c` and `master-routing.c` keep: the
pool of links (`used`, `memory` with the stale contents of free blocks), the
slotframes with their lists, `tx_links_count`, and `best_tsch_shedule_link`.  The
operations of `tsch-schedule.c` are operators from record to record and follow its
order of removal and allocation, because which block is free first decides what a
stale pointer names; the actions are the handlers that call them.  A slotframe that
goes takes all of its links with it (`RemoveLinks`), as the code's loop does before
anything else can run; which neighbour counts a transmit link is kept for each link
(`CountUp`, `CountDown`).  `generated_schedule()` is `FlowFrames` and `LinksAdded`,
which go through the generated links in their order.  `ListenLink` and `ParentLink`
are the two links of the discovery slotframe, before and after the generated schedule.

What the code takes for granted of the generated files and of its configuration is
named here and is a hypothesis of the theorems: `SlotsExist`, `GeneratedFits`,
`DiscoveryFits`, `BeaconsMove`, `CellsMeet` and `CountsFit`.  `MCTschSchedule` has TLC
evaluate all of them on the shipped schedule.

| Action | Code |
|---|---|
| `InstallSchedule` | `master_install_schedule`, once a node is configured |
| `ChooseParent` | the part of `on_received_advertisement` that changes `bestNode` and calls `add_link_to_best_node` |
| `ApplyGeneratedSchedule` | `apply_generated_schedule`: `generated_schedule()`, the discovery slotframe anew, the link to the parent |

`RunsAt` is `tsch_schedule_get_next_active_link` in one slot.  `CellsAgree`,
`LinkMeetsParent` and `LinkMeetsParentAfterwards` compare what two nodes run in the
same slot, with every phase of the beacon slotframe, whose period of 11 slots
shares no factor with the 40 of the others.

### 3.9 `Scheduler`

The offline scheduler: `Init` computes the flows of the hyper-period and their
cells (`Flow.create_cells`), then one action for each way through the loop of
`Schedule.create`: `PlaceCell`, `NextFlow`, `NoPlace` (no slot is left),
`Infeasible` (a deadline is missed) and `Finish` (trimming, reversal for R-LPF, the
matrix of free slots).  A cell of a flow is the set of nodes that take part in it, and
the grid is the set `placed` of entries with a flow, a cell, a slot and a channel.
`SchedulerAssumption` says what a request is: a route without repetitions; for links
that are served one by one the tries `etx` of each hop, which `flow.py:124` takes from
the quality of the hop's link, rounded up; for a sliding window its length, two cells or
more; a period; and, between communications, `PeriodsRelated`, since
`master_scheduler.py:292` refuses periods that are relatively prime to the
hyper-period, unless one of the two numbers is 1.  An exception is the
status "failed".  `MCScheduler` has the
request whose answer is the schedule shipped with the repository, and
`ShippedScheduleIsGenerated` compares: the instance of `TschSchedule` starts from
what the scheduler makes.

## 4. What the runs show

| Run | Instance | Shows |
|---|---|---|
| `collect_dynamic` | 3 nodes, the coordinator heard by both and hearing none, 1 round, strengths 0 and 1 that move at any time, losses, queue of 1, 2 packets and 2 copies in all | `CollectTypeOK`, `ParentHasParent`, `NeverForwardedNowhere`, `CollectedFromAll` |
| `collect_settled` | 4 nodes in a kite whose direct path may be weaker than its detour, every link strength of the rest, no loss, 2 rounds, 1 packet in all | `LoopFree`, `StrengthIsRealisable`, `RoundReachesAll`, `FindsWidestPath`, `NeverWeaker`, `EveryPacketArrives` |
| `flow` | 4 nodes, 2 flows over 2 hops, slotframe of 8 slots with two windows of one flow and one of the other, 2 packets, 1 vector, 1 advertisement | `FlowTypeOK`, `DeliveredInOrder`, `WindowsApart`, `KeptWhileInTime`, `SentInWindow`, `FlowNotBlocked` |
| `strength` | 3 neighbours, one with a lower and two with a higher identifier than the node, 6 beacons, 2 restarts | `IsReceptionRatio`, `SharesAreComparable` |
| `flow_map` | 6 keys, 4 positions, keys that share a home and keys that only share the byte | `ChainsEnd`, `IsFlowMap` |
| `lock` | a transmit, a receive and a shared link, expiring packets | `TypeOK`, `LockExcludesTransmission`, `NextLinkInstalled`, `LockGranted` |
| `queue` | 3 blocks, a flow queue and the beacon queue, rings of 2 | `QueueTypeOK`, `EachPacketOnce`, `PacketsLeave` |
| `schedule` | the 5 nodes of the shipped schedule, pool of 8 links, 2 changes of parent each | `PoolMatchesLists`, `BestLinkLeadsToParent`, `DiscoveryKept`, `QueueKept`, `CellsAgree`, `LinkMeetsParent` |
| `scheduler` | pairs of communications over 4 routes with tries for each hop, R-LPF, EDF and RMS, 1 and 2 channels, both strategies, crowded grids, the shipped request | `ConflictFree`, `RouteInOrder`, `NothingDropped`, `AvailableAreFree`, `ShippedScheduleIsGenerated` |
| `flood_never_ends` | 3 nodes, two of which hear each other and the coordinator, no loss, a history of 1 bit and numbers of 3, 2 rounds | `FloodTerminates` is violated |
| `slot_hangs_on_ttl` | as `lock` | `SlotsEnd` is violated |
| `link_to_parent` | as `schedule` | `LinkMeetsParentAfterwards` is violated |

### 4.1 Bounds

Two rounds are enough for one to overtake the other, and the second one finds the
nodes with a strength, a parent and a history.  Three nodes are the smallest
number in which two neighbours compete for a third and in which a loop without the
coordinator exists; the kite adds a node two hops away that hears through one
neighbour only.  Three strengths tell "never heard", a poor and a good link apart,
and give two paths a strict order in both ways; with links that move, two do.  Two
packets, of any nodes, are enough to complete a collection of two nodes, or to
complete it wrongly, and two copies (`MaxRepeats`) to complete a second one; more of
them are covered by the proof of `CollectionsAreComplete`.  In the run with losses
the coordinator gets data packets and no advertisements, which keeps the states few;
in the other one it gets both.  One packet meets every change of the parents on its
way.  Settled links with losses are left to the theorems, which say the
same of `LoopFree`, `StrengthIsRealisable` and `NeverWeaker` with losses or without.
The two runs of the collection stay below the byte of the history, as the code does for
255 rounds; `flood_never_ends` goes past it.

In `flow`, a slotframe of eight slots has one for beacons, a window of three for one
flow, of which the middle slot is shared by both hops, and two windows of two slots for
the other, whose period is half as long.  The run begins at slot 32 and goes two
slotframes on; the numbers wrap at 36 = `SlotModulus`, so that windows lie on both sides
of the wrap, and packet numbers wrap after the first packet (`NumberModulus` 8,
`StartNumber` 6).  Both numbers of packets are over all flows.  The run starts with a
network at rest after an earlier packet of each flow.

Six keys over four positions fill the table, make chains of different homes grow
together and leave keys to be refused.  Three links give the interrupt a current
and a backup link, and one of each kind to be removed.  Three packets are one more
than a queue or the ring of dequeued packets holds.  The shipped schedule fills
the pool of links of node 3, which relays.  Two changes of parent let a node leave a
parent before and come back after the generated schedule.  The scheduler's
requests have hyper-periods of one and two periods, and grids with fewer slots than
cells.  All state spaces are finite and are explored completely.

The bounds are `MaxRounds`, `MaxSends`, `MaxRepeats`, `MaxRoute`, `MaxBeacons`, `MaxRestarts`,
`MaxAsn`, `MaxPackets`, `MaxVectors`, `MaxAdverts` and `MaxChoices`; queue and pool
sizes are those of the code or smaller.  The moduli scale the widths of the integers
down, or are out of reach of the bounds where a wrap is not the question.

`CHECK_DEADLOCK FALSE` is set where a bound stops the rounds, packets, slots or
changes of parent, where the system is done (`scheduler`), and in the runs of
`TschLock`, in which the node can hang.  `flow_map` and `queue` check for deadlock.

### 4.2 Fairness

* `MasterRouting`: weak fairness of `Receive(s, n)` for every pair, because the
  TSCH process empties its input ring buffer whenever it is polled, and of the
  coordinator's round, which a timer starts.
* `MasterCollect`: weak fairness of the handling of some data packet, because
  transmit slots come round and the input buffer is emptied.
* `TschLock`: weak fairness of `FinishSlot`, which the timer that was set before
  the yield brings about, and of the process once it has begun to take the lock:
  Contiki's processes are not preempted by each other, and the busy loop tests the
  flag all the time.  No fairness is assumed of the start of slots, of
  associations or of changes to the schedule.
* `TschQueue`: weak fairness of `SlotEnd` and of `Expire`, which timers bring about,
  and of `ReleaseLock`, since critical sections have no waiting in them.  Strong
  fairness of the steps of the process (`PutPacket`, `Report`, `Leave`), which the
  interrupt and the lock suspend but do not keep from running for ever, since the
  process is polled for each of them; and of slots of each queue, in the form "when a
  packet may be sent, it is": slots come round without end, and the process holds the
  lock for a few statements at a time.

## 5. Findings

1. **Hanging interrupt** (`slot_hangs_on_ttl`).  The interrupt takes the lock, and
   waits for the end of its own slot.  It needs `TSCH_TTL_BASED_RETRANSMISSIONS`,
   which is on by default in `os/net/master-routing/master-project-conf.h`, an
   expired packet and an unused neighbour.
2. **The link to the parent misses it** (`link_to_parent`).  After the generated
   schedule is applied, the slots in which a node sends to its parent are never those
   in which the parent listens (`master-routing.c:575` and `634`): the link serves
   nothing.  Strength vectors need not be lost for that, since most wait in the queue
   of a flow or of the beacons (see *Flows* below).
3. **Floods that never end** (`flood_never_ends`).  `history_ad_seq_array` holds
   `uint8_t` (`master-routing.c:139`), and the numbers compared with it are 16 bits wide.
   From round 256 on (about an hour at one in 15 s) no answer is suppressed, although
   the comment at line 350 says that one is for a number seen before: two neighbours
   of which neither is the other's parent answer each other for ever.  The run scales
   this down, with one bit for numbers up to 2.

Observed while modelling, with no statement in the code to be held against, or
checked once and not kept as a run:

*Routing and collection*

* While the link strengths move, loops of three and more nodes can form (3.1).
* A neighbour that restarts numbers its beacons from 1 and is counted on, so that
  its strength can exceed 1, although the scheduler reads it as a reception rate
  (`Master/Python/neighbor_parser.py:84`).  `IsReceptionRatio` holds only until a
  neighbour restarts.

*Flows*

* `last_sent_packet_ttl` starts at 0: the first packet of a flow is refused as too
  frequent while the low 16 bits of the slot number are 32768 or more.
* `unicast_send` keeps the flow and TTL of what was sent before, so that vectors
  wait in the queue of a flow or of the beacons, never for the link to the parent.
* Where a window ends in the slot in which another of the flow begins, as in flows whose
  window is one slot, packets of both are admitted into that slot
  (`master-routing.c:921` compares with "less than").
* Where a flow has two windows during one of another flow, a relay of both can give a
  vector the long window and the number of the other flow: it relays a packet of that
  flow too late, which sets the number alone.  The vector then outlasts the first of
  the short windows and takes a slot of the packet in the second; `FlowNotBlocked` is
  not claimed there.
* A node that sends a flow and relays another can block the other: it configures a
  window of its own that is to come, then handles a packet that is too late to relay,
  and the next vector goes to the relayed flow's queue with that window.  It waits
  at the head, and the next packet of the flow behind it.  `FlowNotBlocked` is violated
  when, for instance, node 3 of the instance sends a flow of its own.
* A relay changes the flow number (line 776) before it finds the packet too late
  (line 780); a window of 256 slots becomes 0 transmissions in `max_transmissions`.
* `install_discovery_schedule` resets `own_receiver` (line 638) after the generated
  schedule set it.

*TSCH*

* The slot interrupt looks at the request for the lock, which `tsch_get_lock`
  withdraws when it takes the lock, and not at the lock
  (`tsch-slot-operation.c:239` and `1069`): a slot can start while locked.  Only
  reception slots start that way, since the queues yield nothing then.
* `tsch_schedule_remove_link` protects `current_link` and not `backup_link`, to
  which the next slot may switch (`tsch-slot-operation.c:1100`).
* `tsch_reset` sets `current_link` to `NULL` without waiting for a slot in progress;
  a transmission then gives it to `tsch_queue_packet_sent`, and its packet is
  flushed, reported again, and freed twice.
* `tsch_queue_add_packet` commits a packet before its caller has set `header_len`
  and `tsch_sync_ie_offset` (`tsch.c:889`).
* `tsch_schedule_add_link` counts a transmit link at the neighbour of the flow and
  `tsch_schedule_remove_link` discounts it at that of the address: the latter's
  counter wraps to 255 and the neighbour is never freed.

*Schedules*

* With 8 links in the pool, node 3 of the shipped schedule, which needs 9, has no
  link to its parent.
* A parent chosen before `master_install_schedule` gets no link until the generated
  schedule is applied.
* `best_tsch_shedule_link` names a freed block while the generated schedule is
  applied.  For a node to which that schedule gives exactly one link, the block goes
  to the new listening link, which `add_link_to_best_node` then removes: the node
  no longer listens for its children (the exception in `DiscoveryKept`; it happens with
  the shipped schedule changed so that node 4 has one link).

*Scheduler*

* Where deadlines are not checked, R-LPF drops cells beyond the cycle when the grid
  is cut; where they are, the index before the grid is turned round is compared.
* `2n - 1` slots are accepted for discovery and slot 0 is counted among them, though
  it is not given away: a row of the matrix may be too short, which makes the
  schedule output fail.  The length of the grid comes from the paths and can be too
  short for a cycle of one slot.

## 6. What is proved

The theorems hold for every value of the constants that satisfies the named assumption
of the module.  They are proved from inductive invariants; where an invariant a run
checks is not inductive, what had to be added is said below.

### 6.1 `MasterCollect_proofs`: choice of the parent and collection

From `RoutingAssumption`, for every set of nodes, topology, set of strengths, widths
and bounds:

* `TypeCorrect`: `Spec => []TypeOK`.
* `ParentsAreConnected` and `CoordinatorStaysRoot`, from the invariant `RoutingInv`.
  `ParentHasParent` is not inductive alone: that the sender of an advertisement has
  a parent follows only if its strength is positive, so the invariant also says
  that whoever has, or has on its way, a positive strength has a parent, and that
  nothing is on its way before the coordinator has its full strength.
* `SettledLinksNoLoop` and `SettledLinksNeverWeaker`, of `StaticSpec`, from
  `StaticInv`.  The strength of a node never falls and never exceeds that of its
  parent (`DownhillInv`).  When a node adopts a parent its strength rises strictly
  above what it was, and the parent is at least as strong; were the parent below it
  in the tree, the strengths down to the parent could not exceed the old strength of
  the node: hence no loop.  `DownhillInv` must be kept while the parent's
  advertisements are delayed, for which `PendingInv` says that what is on its way is
  not stronger than its sender and that later rounds are not weaker.
* `StrengthsAreRealisable`, of `StaticSpec`: the property is inductive over cuts.  The
  strength a node adopts is bounded by its link to the sender, which is a link into
  every set that has the node and not the sender, and by the strength of the sender,
  which is bounded already in every set that has both.
* `FloodsReachAll`, of `StaticSpec`, in a network that is `Reliable` (no broadcast is
  lost, numbers do not wrap, the nodes are connected) and in which no channel fills up
  (`[]RoomInChannels`).  `FloodInv` has the numbers (`NumbersInv`) and `ToldInv`: when
  `p` knows the present round and `c`, which hears `p`, does not, then an
  advertisement of the round that `c` will not ignore is on its way from `p` to `c`, or
  the parent of `c` is somebody else and nothing on its way from `p` is stronger
  than `c`.  The second case is the guard of `master-routing.c:350` and of the early
  return for one's own children.  When nothing is on its way, some node that
  does not know the round hears one that does, so it has a parent, and its parent does not
  know the round either: the nodes outside the round that have a parent would be a
  loop, which `LoopFree` excludes.  TLC evaluates `Reliable` on the instance of `collect_settled`, and
  `RoomInChannels` holds in all of its states.
* `WidestPathsAreFound`, of `StaticSpec`: once the last round is over every node knows
  the strength of its widest path.  Beside `Reliable` and `[]RoomInChannels` it
  supposes `EnoughRounds` (the numbers the nodes measured are of links over which they
  hear, and there are at most `MaxRounds + 1` nodes) and `RoundsApart`: no round is
  begun while advertisements of another are on their way, as the coordinator's timer
  of `master-unicast.c:88` intends.  `WideInv` says, for each strength `w`, that there is a
  set `T` of nodes, the coordinator among them, all of which had a path of strength `w`
  before the present round.  Either no link of strength `w` leads out of `T` (`Closed`)
  or `T` has a node for each round so far.  What the members say in the round
  tells of such a path, and whomever they have told is as strong as that and the
  link allow (`Informs`).  When the
  flood is over, each member has told all that hear it, since the flood has reached
  everybody; those at the end of a link of strength `w` out of `T` join it.  A node
  drops what its own child says, which loses nothing: the child never says more than
  its parent believes (`UphillInv`).  The number of nodes bounds `T`, so that it is
  closed when the rounds are over, and its complement is the cut that bounds from
  above whoever is outside; `StrengthIsRealisable` bounds whoever is inside.

  One round is not enough in general.  A node that learns of a better path, but
  whose neighbour has had its answer in this round, keeps the better news for the next
  round (`history`, `master-routing.c:386`).  Take four nodes that all hear each
  other, with strong links 1-2, 2-3 and 3-4 and weak ones else: TLC finds 4 with
  less than its widest path after one round.  The theorem's number of rounds is the
  length of the longest path.  On the kite two rounds do, also when they overlap,
  which `collect_settled` checks and the theorem leaves open; and TLC finds `WideInv`
  kept on the kite with three rounds apart.
* `ChannelsDoNotFill` and `FloodsApartSucceed`: `[]RoomInChannels`, which the two theorems
  above suppose, follows from `RoundsApart` when channels hold more advertisements than
  there are nodes.  `RoomInv` bounds what a node `s` has waiting for another by
  the number of neighbours it has answered in the round (`Answered`, read off its
  `history`): each answer marks a neighbour that was not marked.  So all that is
  left to suppose of the behaviour is that the coordinator's timer keeps the floods
  apart.  The instance of `collect_settled` has room for 5 and 4 nodes; TLC finds
  `RoomInv` kept on the kite with three rounds apart.

With `CollectAssumption`:

* `CollectImplementsRouting` and `SettledCollectImplementsRouting`: the collection is a
  behaviour of `MasterRouting`, every step of its own a stutter there, which brings
  over what is proved of it.
* `AlwaysForwarded`: no packet goes to node 0.  A parent, once set, is never unset
  (`ParentStaysSet`), and a packet goes to a node that had a parent when the packet was
  sent.
* `CollectTypeCorrect` and `CollectionsAreComplete`: for each completed collection every
  node has a packet, or a copy the MAC layer made of one (`repeated`), that no other
  collection took.  With no copies that is a packet of its own for each collection;
  with them a late copy may stand in for it, and the theorem says by how much at most.
  The invariant (`PacketsBounded`) bounds, for each node, what is on its way, marked
  in the tracker or used up in a completed collection by what it has sent and what
  was copied of it, and ties the counter to the number of marks; the last origin of a
  collection is the only one unmarked (`LastOriginMissing`).

### 6.2 `MasterFlow_proofs`: flows

From `FlowAssumption`, for every set of nodes and flows, every slotframe and routes, and
whatever is lost, acknowledged or taken for a duplicate below:

* `FlowTypeCorrect`, from `FlowInv`: no packet carries a number its sender has not given
  out, no window or configuration begins later than two slotframes from now
  (`Horizon`), no node has seen a number that is not given out, and the input ring
  never overflows.
* `WindowsStayApart`, if four slotframes are no longer than the range of slot numbers
  (`4 * (SfSize - 1) <= SlotModulus`; 16 bits in the code, and evaluated by TLC on the
  instance).  "Too high sending frequency" is a comparison modulo the range; the
  invariant `WindowsInv` says that `last_sent_packet_ttl` bounds all windows, lies in the
  last slot of one of the flow, and is at most two slotframes ahead.  The exception
  in the property, windows that share a slot (`ShareASlot`), is the case in which the
  comparison is one of equal numbers.  Between refusal
  and wrap lies the case of a flow that sends nothing for half the range: its packet may
  be refused, but it never gets a window that overlaps.
* `PacketsComeInOrder`, as long as no packet is handled after half of the packet numbers
  were given out since (`[]NumbersInReach`).  Without it the comparison modulo
  `NumberModulus` takes an old packet for a new one.  The invariant `DeliveredInv`
  says that the numbers delivered increase and that none exceeds
  `last_received_relayed_packet_of_flow`.
* `SendingKeepsToWindows`, with the same condition on the slotframe, as long as no packet
  stays in the queue of a flow for half the range of slot numbers after its window
  (`[]SlotsInReach`): an expired packet is dropped before the next slot of its flow.
* `FlowsAreNotBlocked`, with all three conditions and in networks as in 3.3.  The
  invariant `OrderInv` speaks of cycles, which the parts of all slotframes make one after
  the other (`CycleOf`): the windows of a flow lie in one each, in the order of the
  packets (`InOrder`).  In a queue of a flow (`Queued`) whatever is before a packet of
  the flow belongs to an earlier cycle, and nothing is later than the last packet that the node knows.  It has to be kept by vectors, which
  take the configured window: `Configured` says that this window is not later either.
  A relay may change the flow number and leave the window, so `Lags` adds that the window
  is not later than any packet the relay has yet to handle, for which those must
  come in in order (`Arrived`).  A sender configures windows to come, and would break
  that if it relayed.  An open packet is then the first in its queue that has not
  expired.
* `PacketsAreKept`: until its window is over a packet is queued, received or delivered.
  The invariant `KeptInv` says of every packet whose window is not over that each node
  that has seen it, the receiver apart, has it in its queue or has handed it to the
  next node of the flow, which has it in its receive buffer or has seen it, and that
  the receiver has delivered what it has seen.  A packet that is nowhere has then been
  seen by a set of nodes that holds the sender and is closed under the route, so by
  the receiver.  Two more invariants are needed.  `RouteInv`: packets in queues and
  buffers carry the window they were given and are addressed along the route of
  their flow.  `RecordInv`: a packet marked as heard has reached the next node, for the
  sender drops it at the next acknowledgement.  The theorem asks more of the
  network than the others:
  `RoutesLead` (the route of a flow leads to the receiver, and relays take part in the
  last slot of each window of the flow), `WindowsFit` (the windows of a flow share no
  slot, each fits `max_transmissions`, and the windows that can be known at a time fit
  half the slot numbers; no cut of the slotframe is needed), and as long as the run
  lasts room in the queues (`RoomInQueues`) and no number that wraps
  (`NumbersInReach`, `RecordsInReach`, `SlotsInReach`).  The condition on the relays
  is a real one.  `tsch_current_asn` is, outside a slot, that of the next slot the node
  has a link in: a relay in the middle of a longer route whose links are over compares
  that with the TTL and drops a packet while the window, which is that of the whole
  flow, is still open.  Nothing is claimed for that case.

`NumbersInReach`, `RecordsInReach`, `SlotsInReach` and `RoomInQueues` hold in all states
of the instance of `flow`, and TLC evaluates `RoutesLead` and `WindowsFit` on it.

### 6.3 `TschQueue_proofs`: packets between process and interrupt

`TypeCorrect` and `PacketsOnce`, from `QueueInv`, for every number of blocks, queues and
places in the rings.  `EachPacketOnce` needs to know more of the two sides:
what the interrupt or the process has reserved stays there until it is used
(`Reservations`: room in the queue found by `tsch_queue_add_packet`, room in the ring
of dequeued packets found by the slot, and no transmission under the lock), the packet
of a slot is at the head of its queue (`SlotAtHead`), no packet is in two places
(`Apart`), and the blocks in use are those of the packets that are somewhere
(`UsedIsSomewhere`).  The last three hold until a reset tears a slot.

### 6.4 `TschSchedule_proofs`: slotframes and links

From `ScheduleAssumption`, for every number of nodes, any pool and any order of installs,
changes of parent and schedules.  `ScheduleInv` says of each node that blocks and lists
agree (`Fine`), that the slotframes of its phase are there and no link but
`best_tsch_shedule_link` sends in the discovery slotframe (`Ready`), and that the
pointer, when set, names a link of that slotframe to the present parent (`Good`).

* `PoolsAgree`: without any condition.
* `PointerLeadsToParent`, if the slots of discovery lie in the slotframe (`SlotsExist`):
  a node with a parent and no pointer has used up its pool (`Full`).
* `DiscoveryStays`, `ParentHears` and `EndsAgree`, from `ShapesOK`, which gives the exact
  blocks and contents of each schedule: the beacon link in block 1, the generated links
  in the blocks after it, then listening link and link to the parent in either order.
  Without generated schedule the order depends on past parents; with it
  on whether the stale pointer named a block that was given away since.
  `EndsAgree` follows since in a slot of a generated link that is not one of the
  beacons', the receiver runs its counterpart and nothing else (`OnlyGenerated`).
* `QueuesAreKept`, if the byte `tx_links_count` can count all links a node ever adds
  (`CountsFit`).  Since a link is counted at the queue of its slotframe when it comes
  and at its address when it goes, the counters are not those of the links
  there: the invariant `CountsOK` says that the queue of a slotframe counts at least
  its links that send, with one to spare at slotframe 0 while the generated
  schedule is not applied, and bounds it by the number of links ever added.

TLC evaluates all hypotheses on the shipped schedule (`ShippedFits`).

### 6.5 `Scheduler_proofs`: the scheduler

From `SchedulerAssumption`, for every set of requests, from `ScheduleInv`:

* `GridIsConflictFree`: a cell is put where no cell of the slot shares a node with it,
  on the least free channel, and cutting and turning the grid keeps slots apart.
* `RoutesAreInOrder`: the next cell of a flow is looked for behind those placed
  (`Ordered`, `Frontier`).  R-LPF starts the search at the slot of the last cell, and
  not behind it: that consecutive cells of a route share a node, so that the slot is
  taken, is a lemma about `create_cells` for both strategies; where links are served one
  by one, it goes by the sums of tries up to a hop (`CellsAddUp`, `PerLinkIsLinked`).
* `ScheduleIsComplete`: before the end exactly the cells that had their turn are
  placed (`PlacedSoFar`), once each (`Once`), and within the cycle where deadlines are
  checked (`OnTime`), so that cutting the grid drops none.
* `DiscoverySlotsAreFree`: the matrix is made of distinct free slots.

### 6.6 `HashMap_proofs`: the flow map

From `HashMapAssumption`, for every table size and number of keys, from `HashInv`: links
lead to entries filled later (`Ranked`, a numbering of the entries), every entry is
on the chain of its key's home and no key has two.

* `LoopsEnd`: the loops of `hash_map_insert` and `hash_map_lookup` end.
* `ImplementsFlowMap`: every step is a step of `FlowMap` or leaves the map as it is, and
  an insertion fails only when the table is full of other keys.

### 6.7 `TschLock_proofs` and `StrengthVector_proofs`

`LockTypeCorrect`, `TransmissionsAreExcluded` and `NextLinkStaysInstalled`, from
`LockInv`, for every set of links and with or without expiring packets.  The
last one needs `RemovedIsNotNext`: between the test in `tsch_schedule_remove_link` and
the removal the interrupt cannot choose the link again, because the schedule yields no
link while it is locked.

`StrengthsAreComparable` without any condition, from `HeardIsCovered`; `StrengthIsRatio`
as long as no number wraps, from `NumbersBounded` and `CountedOnce`.

### 6.8 Assumptions, and what is only model-checked

The assumptions on constants are `RoutingAssumption`, `CollectAssumption`,
`FlowAssumption`, `QueueAssumption`, `ScheduleAssumption`, `SchedulerAssumption`,
`HashMapAssumption`, `LockAssumption` and `StrengthAssumption`; TLC evaluates each in
the runs of its module.  The hypotheses of single theorems are named with them above.

Where a proof goes over all numbers, positions or cells, it takes the least element of
a set of naturals for which the claim fails, since the provers cannot instantiate
an induction theorem.

Model-checked only:

* `ShippedScheduleIsGenerated`, a statement about one request;
* `CutsMeasurePaths`, since a recursive function defines one of its sides, and
  `FindsWidestPath` where the rounds overlap;
* all liveness (`EveryPacketArrives`, `LockGranted`, `PacketsLeave`), since the prover
  handles neither fairness nor `ENABLED`.

## 7. What is not modelled

* Planned (section 2): the indices of `ringbufindex.c`, association, C-LLF and the
  removal of infeasible flows.
* The CSMA application is an earlier version of what `MasterRouting` models, with
  another suppression; `master-net` and the neighbour-discovery application pass calls
  on and keep no state that decides anything.
* Radio and timing (drift, guard times, contents of acknowledgements), the backoff of
  shared links (MASTER's schedules have none), parsing and building of frames, serial
  and log output, shortest paths and the parsing of logs in `Master/Python`.
* A restart of the coordinator, which no code handles.
* The contents of the strength vectors on their way, because nothing in the network
  depends on them.
* Contiki-NG itself.  The repository contains the whole operating system with its
  platforms, drivers, network stacks, tools and examples, more than half a million
  lines, of which the MASTER addition changes and uses the parts in section 1.  The
  modules cover most of the control in that addition and in the TSCH code it runs
  on; that is well below one per cent of the repository, and the rest (register
  definitions, file systems, code pages, other network stacks) is not part of this
  system.
