------------------------------ MODULE TschQueue ------------------------------
(***************************************************************************)
(* The life of a packet between the TSCH process, which queues it and      *)
(* reports what became of it, and the slot operation, which sends it,      *)
(* modelled from os/net/mac/tsch/tsch-queue.c, tsch-slot-operation.c and   *)
(* tsch.c.  The ring buffers of os/lib/ringbufindex.c are sequences; one   *)
(* side of each is the process, the other the interrupt.                   *)
(*                                                                         *)
(* The actions of the interrupt run without interruption, and it yields    *)
(* between SlotStart and SlotEnd.  The process may be interrupted between  *)
(* any two of its actions.  Its lock is that of TschLock, where slots and  *)
(* links are modelled: here a packet is all a slot is about.               *)
(***************************************************************************)
EXTENDS Naturals, Sequences, FiniteSets, FiniteSetsExt, SequencesExt

CONSTANTS
  Block,           \* the blocks of packet_memb
  Queue,           \* neighbours with a queue, one per flow
  Beacons,         \* the one of them that is n_eb
  QueueSize,       \* TSCH_QUEUE_NUM_PER_NEIGHBOR - 1
  DequeuedSize     \* TSCH_DEQUEUED_ARRAY_SIZE - 1

ASSUME QueueAssumption ==
  /\ IsFiniteSet(Block)
  /\ Beacons \in Queue
  /\ QueueSize \in Nat \ {0}
  /\ DequeuedSize \in Nat \ {0}

VARIABLES
  used,            \* blocks that packet_memb has given away
  queue,           \* tx_ringbuf and tx_array of each neighbour
  dequeued,        \* dequeued_ringbuf and dequeued_array
  expired,         \* packets whose lifetime is over
  locked,          \* tsch_locked
  associated,      \* tsch_is_associated
  tx,              \* current_neighbor and current_packet of the slot in progress, or <<>>
  pc,              \* where the process is
  adding,          \* the queue and the block of tsch_queue_add_packet, or <<>>
  torn             \* a reset has flushed the packet of the slot in progress

interrupt == <<dequeued, tx>>
process == <<pc, adding>>
flags == <<expired, locked, associated, torn>>
vars == <<used, queue, interrupt, process, flags>>

Init ==
  /\ used = {} /\ queue = [q \in Queue |-> <<>>] /\ dequeued = <<>>
  /\ expired = {} /\ locked = FALSE /\ associated = FALSE
  /\ tx = <<>> /\ pc = "scan" /\ adding = <<>> /\ torn = FALSE

-----------------------------------------------------------------------------
(***************************************************************************)
(* The slot operation.                                                     *)
(***************************************************************************)
\* get_packet_and_neighbor_for_link: what is left of a queue when the expired
\* packets at its head are dropped.  Beacons do not expire.
Unexpired(q) ==
  LET alive == {i \in 1 .. Len(queue[q]) : q = Beacons \/ queue[q][i] \notin expired}
  IN IF alive = {} THEN <<>> ELSE SubSeq(queue[q], Min(alive), Len(queue[q]))

\* Those packets are freed, and nobody is told.  Faulty variant: they are not.
NothingFreed(blocks) == {}
Freed(blocks) == blocks

\* Faulty variant: the slot does not look for room for its packet afterwards.
AlwaysRoom == TRUE
RoomForDequeued == Len(dequeued) < DequeuedSize

\* A slot begins, for which the lock is tested at every access to the queue.
\* With a packet whose first slot has come, and if its place after the slot is
\* assured, the slot is spent on it.
SlotStart(q) ==
  /\ associated /\ tx = <<>> /\ ~locked
  /\ queue' = [queue EXCEPT ![q] = Unexpired(q)]
  /\ used' = used \ Freed(ToSet(queue[q]) \ ToSet(Unexpired(q)))
  /\ \/ tx' = <<>>
     \/ Unexpired(q) # <<>> /\ RoomForDequeued /\ tx' = <<q, Head(Unexpired(q))>>
  /\ UNCHANGED <<dequeued, process, flags>>

\* tsch_queue_remove_packet_from_queue
WithoutFirst(q) ==
  IF locked \/ queue[q] = <<>> THEN queue ELSE [queue EXCEPT ![q] = Tail(@)]

\* tsch_queue_packet_sent: a packet leaves the queue when it is acknowledged, or
\* when no transmission is left; a beacon has only one.
SlotEnd ==
  /\ tx # <<>>
  /\ tx' = <<>>
  /\ \E acked \in BOOLEAN :
       IF acked \/ tx[1] = Beacons \/ tx[2] \in expired
       THEN queue' = WithoutFirst(tx[1]) /\ dequeued' = Append(dequeued, tx[2])
       ELSE UNCHANGED <<queue, dequeued>>
  /\ associated' \in {associated, FALSE}
  /\ UNCHANGED <<used, process, expired, locked, torn>>

\* The time to live of a packet passes.
Expire(b) ==
  /\ b \in used \ expired
  /\ expired' = expired \cup {b}
  /\ UNCHANGED <<used, queue, interrupt, process, locked, associated, torn>>

-----------------------------------------------------------------------------
(***************************************************************************)
(* The process.                                                            *)
(***************************************************************************)
\* tsch_queue_add_packet up to the copy of the packet, if there is room.
AllocPacket(q) ==
  /\ pc = "idle" /\ associated
  /\ Len(queue[q]) < QueueSize
  /\ \E b \in Block \ used :
       /\ used' = used \cup {b}
       /\ expired' = expired \ {b}
       /\ adding' = <<q, b>>
  /\ pc' = "put"
  /\ UNCHANGED <<queue, interrupt, locked, associated, torn>>

\* ringbufindex_put
PutPacket ==
  /\ pc = "put" /\ pc' = "idle"
  /\ queue' = [queue EXCEPT ![adding[1]] = Append(@, adding[2])]
  /\ adding' = <<>>
  /\ UNCHANGED <<used, interrupt, flags>>

\* tsch_tx_process_pending reports a packet and frees it, removes the unused
\* neighbours, for which it takes the lock, and only then the packet from the
\* ring.
ReportPacket ==
  /\ pc = "idle" /\ dequeued # <<>>
  /\ used' = used \ {Head(dequeued)}
  /\ pc' = "reported"
  /\ UNCHANGED <<queue, interrupt, adding, flags>>

GetDequeued ==
  /\ pc = "reported" /\ pc' = "idle"
  /\ dequeued' = Tail(dequeued)
  /\ UNCHANGED <<used, queue, tx, adding, flags>>

\* tsch_get_lock, for the schedule or the list of neighbours, waits for the end
\* of the slot.  Faulty variant: it does not.
LocksAtOnce ==
  /\ pc \in {"idle", "reported"} /\ ~locked
  /\ locked' = TRUE
  /\ UNCHANGED <<used, queue, interrupt, process, expired, associated, torn>>
GetLock ==
  /\ pc \in {"idle", "reported"} /\ ~locked /\ tx = <<>>
  /\ locked' = TRUE
  /\ UNCHANGED <<used, queue, interrupt, process, expired, associated, torn>>

ReleaseLock ==
  /\ locked /\ locked' = FALSE
  /\ UNCHANGED <<used, queue, interrupt, process, expired, associated, torn>>

Disassociate ==
  /\ pc = "idle" /\ associated
  /\ associated' = FALSE
  /\ UNCHANGED <<used, queue, interrupt, process, expired, locked, torn>>

\* tsch_reset: what was sent has been reported.
Reset ==
  /\ pc = "idle" /\ ~associated /\ dequeued = <<>>
  /\ pc' = "flush"
  /\ UNCHANGED <<used, queue, interrupt, adding, flags>>

\* tsch_queue_flush_nbr_queue: the first packet is taken out, reported and freed.
FlushPacket(q) ==
  /\ pc = "flush" /\ queue[q] # <<>>
  /\ queue' = WithoutFirst(q)
  /\ used' = used \ {Head(queue[q])}
  /\ torn' = (torn \/ tx = <<q, Head(queue[q])>>)
  /\ UNCHANGED <<interrupt, process, expired, locked, associated>>

\* The node associates again.
Associate ==
  /\ \/ pc = "flush" /\ \A q \in Queue : queue[q] = <<>>
     \/ pc = "scan"
  /\ associated' = TRUE /\ pc' = "idle"
  /\ UNCHANGED <<used, queue, interrupt, adding, expired, locked, torn>>

\* While it holds the lock the process does nothing else of this.
Report == ~locked /\ (ReportPacket \/ GetDequeued)
Leave == ~locked /\ (Reset \/ Associate \/ \E q \in Queue : FlushPacket(q))

Next ==
  \/ \E q \in Queue : SlotStart(q)
  \/ SlotEnd
  \/ \E b \in Block : Expire(b)
  \/ ~locked /\ \E q \in Queue : AllocPacket(q)
  \/ ~locked /\ PutPacket
  \/ Report
  \/ ~locked /\ Disassociate
  \/ Leave
  \/ GetLock \/ ReleaseLock

Spec == Init /\ [][Next]_vars

\* The timer ends every slot, and every lifetime.  A flow with a packet that may
\* be sent gets a slot again and again in which the process has no lock.  The
\* process goes on whenever the interrupt has yielded: tsch_pending_events_process
\* was polled, and tsch_process is polled when the node leaves.
FairSpec ==
  /\ Spec
  /\ WF_vars(SlotEnd) /\ WF_vars(ReleaseLock)
  /\ SF_vars(~locked /\ PutPacket) /\ SF_vars(Report) /\ SF_vars(Leave)
  /\ \A q \in Queue : SF_vars(SlotStart(q) /\ (Unexpired(q) # <<>> /\ RoomForDequeued => tx' # <<>>))
  /\ \A b \in Block : WF_vars(Expire(b))

-----------------------------------------------------------------------------
(***************************************************************************)
(* Type invariant: no ring holds more than its size allows.                *)
(***************************************************************************)
QueueTypeOK ==
  /\ used \subseteq Block /\ expired \subseteq Block
  /\ queue \in [Queue -> Seq(Block)]
  /\ \A q \in Queue : Len(queue[q]) <= QueueSize
  /\ dequeued \in Seq(Block) /\ Len(dequeued) <= DequeuedSize
  /\ tx \in {<<>>} \cup (Queue \X Block)
  /\ adding \in {<<>>} \cup (Queue \X Block)
  /\ pc \in {"scan", "idle", "put", "reported", "flush"}
  /\ locked \in BOOLEAN /\ associated \in BOOLEAN /\ torn \in BOOLEAN

\* Where the packet of block b is: about to be queued, queued, or sent and not
\* yet reported.
Waiting == IF pc = "reported" THEN Tail(dequeued) ELSE dequeued
Places(b) ==
  Cardinality({p \in {adding} : pc = "put" /\ p[2] = b})
  + Cardinality({p \in Queue \X (1 .. QueueSize) :
                   p[2] <= Len(queue[p[1]]) /\ queue[p[1]][p[2]] = b})
  + Cardinality({i \in 1 .. Len(Waiting) : Waiting[i] = b})

(***************************************************************************)
(* A packet is in one place as long as its block is in use, and in none    *)
(* afterwards: it is freed and reported once, never lost, and its block is *)
(* not given to another packet meanwhile.  A reset during its slot is the  *)
(* exception: the packet is flushed, and reported again after the slot.    *)
(***************************************************************************)
EachPacketOnce ==
  ~torn => \A b \in Block : Places(b) = IF b \in used THEN 1 ELSE 0

(***************************************************************************)
(* Every packet is done with at last, sent, expired or flushed, and its    *)
(* block is free: neither the queues nor the pool fill up for good.        *)
(***************************************************************************)
PacketsLeave == \A b \in Block : (b \in used /\ ~torn) ~> (b \notin used \/ torn)
=============================================================================
