------------------------------- MODULE TschLock -------------------------------
(***************************************************************************)
(* The lock between the TSCH process and the slot operation, modelled from *)
(* os/net/mac/tsch/tsch-slot-operation.c, tsch-schedule.c, tsch-queue.c    *)
(* and tsch.c.                                                             *)
(*                                                                         *)
(* The slot operation is an interrupt: each of its actions runs without    *)
(* interruption and it yields while the radio works.  The process can be   *)
(* interrupted between any two of its actions.  It changes the schedule    *)
(* and the list of neighbours under the lock; the interrupt reads both.    *)
(***************************************************************************)
EXTENDS FiniteSets

CONSTANTS
  Link,            \* links that may be installed
  TxLink,          \* those with LINK_OPTION_TX
  RxLink,          \* those with LINK_OPTION_RX
  NULL,            \* no link
  TtlExpires       \* TSCH_TTL_BASED_RETRANSMISSIONS, with packets that expire

ASSUME LockAssumption ==
  /\ Link = TxLink \cup RxLink
  /\ NULL \notin Link
  /\ TtlExpires \in BOOLEAN

VARIABLES
  locked,          \* tsch_locked
  lockRequested,   \* tsch_lock_requested
  slot,            \* what the interrupt does: "none" is tsch_in_slot_operation = 0
  associated,      \* tsch_is_associated
  current,         \* current_link
  backup,          \* backup_link
  links,           \* links in the lists of the slotframes
  unused,          \* neighbours tsch_queue_free_unused_neighbors would remove
  pc,              \* where the process is
  job              \* what it takes the lock for

flags == <<locked, lockRequested>>
isr == <<slot, current, backup>>
process == <<pc, job>>
vars == <<flags, isr, process, associated, links, unused>>

Job == [op : {"add", "remove"}, link : Link] \cup [op : {"add_nbr", "free_nbrs"}]
OldTimeSource == "the old time source"
NewNeighbor == "the neighbour of the packet being queued"

\* The types; and the lock is held, and requested, only while the process is at
\* the places that say so.
TypeOK ==
  /\ locked \in BOOLEAN /\ lockRequested \in BOOLEAN /\ associated \in BOOLEAN
  /\ slot \in {"none", "tx", "rx", "hung"}
  /\ current \in Link \cup {NULL} /\ backup \in Link \cup {NULL}
  /\ links \subseteq Link
  /\ unused \subseteq {OldTimeSource, NewNeighbor}
  /\ pc \in {"idle", "wait", "locked", "changing", "put", "scan"}
  /\ job \in Job
  /\ locked <=> pc \in {"locked", "changing"}
  /\ lockRequested <=> pc = "wait"

Init ==
  /\ locked = FALSE /\ lockRequested = FALSE
  /\ slot = "none" /\ associated = FALSE
  /\ current = NULL /\ backup = NULL
  /\ links = {} /\ unused = {}
  /\ pc = "scan" /\ job = [op |-> "add_nbr"]

-----------------------------------------------------------------------------
(***************************************************************************)
(* The slot operation.                                                     *)
(***************************************************************************)
\* tsch_schedule_get_next_active_link: one of the links, whichever is due, and
\* one with Rx flag due at the same time; none while the schedule is locked.
\* The faulty variant reads the lists without looking at the lock.
NextLinkUnlocked ==
  /\ current' \in IF links = {} THEN {NULL} ELSE links
  /\ backup' \in ((links \cap RxLink) \ {current'}) \cup {NULL}
NextLink ==
  /\ current' \in IF locked \/ links = {} THEN {NULL} ELSE links
  /\ backup' \in IF locked THEN {NULL} ELSE ((links \cap RxLink) \ {current'}) \cup {NULL}

\* The end of every slot: the next link is chosen, or the node finds that it
\* has lost its synchronisation and leaves.
EndOfSlot ==
  /\ slot' = "none"
  /\ \/ NextLink /\ UNCHANGED associated
     \/ associated' = FALSE /\ UNCHANGED <<current, backup>>
  /\ UNCHANGED <<flags, process, links, unused>>

\* Faulty variant: a slot starts in spite of a pending request.
StartsInSpiteOfRequest ==
  associated /\ slot = "none" /\ current # NULL
Starts == associated /\ slot = "none" /\ current # NULL /\ ~lockRequested

SkipSlot ==
  /\ associated /\ slot = "none"
  /\ current = NULL \/ lockRequested
  /\ EndOfSlot

\* The link that is used in the slot: the backup link if the current one is for
\* transmissions only and has no packet.
UsedLink(packet) ==
  IF ~packet /\ current \notin RxLink /\ backup # NULL THEN backup ELSE current

\* The queues yield a packet for a link only while tsch_is_locked is false.
PacketFor(link) == {FALSE, (link \in TxLink /\ ~locked)}

\* A slot with something to do: a transmission or a reception, during which the
\* interrupt yields.
StartSlot ==
  /\ Starts
  /\ \E packet \in PacketFor(current) :
       /\ current' = UsedLink(packet)
       /\ \E other \in PacketFor(current') :
            \/ slot' = "tx" /\ (packet \/ (current' # current /\ other))
            \/ slot' = "rx" /\ ~packet /\ ~other /\ current' \in RxLink
  /\ UNCHANGED <<flags, process, associated, backup, links, unused>>

\* Nothing to do: no packet on a link that is not for reception, or no room in the
\* ring buffer that the packet sent or received would need afterwards.  Which link
\* was used matters no more.
IdleSlot == Starts /\ EndOfSlot

\* A packet has expired: get_packet_and_neighbor_for_link drops it and removes
\* the unused neighbours, each of them under the lock, for which tsch_get_lock
\* waits until tsch_in_slot_operation is 0: in the interrupt that has set it.
ExpiredPacket ==
  /\ Starts
  /\ TtlExpires /\ ~locked /\ current \in TxLink
  /\ unused # {}
  /\ slot' = "hung"
  /\ UNCHANGED <<flags, process, associated, current, backup, links, unused>>

FinishSlot == slot \in {"tx", "rx"} /\ EndOfSlot

Interrupt == SkipSlot \/ StartSlot \/ IdleSlot \/ ExpiredPacket \/ FinishSlot

-----------------------------------------------------------------------------
(***************************************************************************)
(* The TSCH process, which runs while the interrupt has yielded.           *)
(***************************************************************************)
Runs == slot # "hung"

\* tsch_get_lock up to its loop.
RequestLock(j) ==
  /\ Runs /\ pc = "idle" /\ ~locked
  /\ j.op = "free_nbrs" => unused # {}
  /\ j.op = "remove" => j.link \in links
  /\ j.op = "add" => j.link \notin links
  /\ lockRequested' = TRUE
  /\ pc' = "wait" /\ job' = j
  /\ UNCHANGED <<isr, locked, associated, links, unused>>

\* The loop ends and the lock is taken.  Faulty variants: without waiting for
\* the end of the slot; without withdrawing the request.
TakeLockAtOnce ==
  /\ Runs /\ pc = "wait"
  /\ locked' = TRUE /\ lockRequested' = FALSE
  /\ pc' = "locked"
  /\ UNCHANGED <<isr, job, associated, links, unused>>
TakeLockKeepsRequest ==
  /\ Runs /\ pc = "wait" /\ slot = "none"
  /\ locked' = TRUE
  /\ pc' = "locked"
  /\ UNCHANGED <<isr, lockRequested, job, associated, links, unused>>
TakeLock ==
  /\ Runs /\ pc = "wait" /\ slot = "none"
  /\ locked' = TRUE /\ lockRequested' = FALSE
  /\ pc' = "locked"
  /\ UNCHANGED <<isr, job, associated, links, unused>>

\* tsch_schedule_remove_link makes sure that the link is not the next one.
AbortRemoved ==
  /\ Runs /\ pc = "locked" /\ pc' = "changing"
  /\ current' = IF job.op = "remove" /\ current = job.link THEN NULL ELSE current
  /\ UNCHANGED <<flags, slot, backup, job, associated, links, unused>>

\* The lists are changed and the lock released.
ChangeAndRelease ==
  /\ Runs /\ pc = "changing"
  /\ links' = CASE job.op = "add" -> links \cup {job.link}
                [] job.op = "remove" -> links \ {job.link}
                [] OTHER -> links
  /\ unused' = CASE job.op = "add_nbr" -> unused \cup {NewNeighbor}
                 [] job.op = "free_nbrs" -> {}
                 [] OTHER -> unused
  /\ locked' = FALSE
  /\ pc' = IF job.op = "add_nbr" THEN "put" ELSE "idle"
  /\ UNCHANGED <<isr, job, lockRequested, associated>>

\* tsch_queue_add_packet puts the packet into the queue of its neighbour.
PutPacket ==
  /\ Runs /\ pc = "put" /\ pc' = "idle"
  /\ unused' = unused \ {NewNeighbor}
  /\ UNCHANGED <<flags, isr, job, associated, links>>

\* tsch_disassociate, for a beacon or a keepalive that shows that the node has
\* fallen out of its network.
Disassociate ==
  /\ Runs /\ pc = "idle" /\ associated
  /\ associated' = FALSE
  /\ UNCHANGED <<flags, isr, process, links, unused>>

\* tsch_reset once the unused neighbours are removed: the time source is no
\* longer one, and no neighbour at all if no link leads to it.
Reset ==
  /\ Runs /\ pc = "idle" /\ ~associated /\ unused = {}
  /\ current' = NULL
  /\ unused' \in {{}, {OldTimeSource}}
  /\ pc' = "scan"
  /\ UNCHANGED <<flags, slot, backup, job, associated, links>>

\* tsch_associate and tsch_slot_operation_start.
Associate ==
  /\ Runs /\ pc = "scan"
  /\ associated' = TRUE
  /\ NextLink
  /\ pc' = "idle"
  /\ UNCHANGED <<flags, slot, job, links, unused>>

Holding == TakeLock \/ AbortRemoved \/ ChangeAndRelease \/ PutPacket
Process == (\E j \in Job : RequestLock(j)) \/ Holding \/ Disassociate \/ Reset \/ Associate

Next == Interrupt \/ Process

Spec == Init /\ [][Next]_vars

\* The timer ends every slot, and the process, which is not preempted by other
\* processes, goes on whenever the interrupt has yielded.
FairSpec == Spec /\ WF_vars(FinishSlot) /\ WF_vars(Holding)

-----------------------------------------------------------------------------
(***************************************************************************)
(* No transmission is under way while the process changes the queues: the  *)
(* packet and the neighbour the interrupt works on are not freed, and the  *)
(* interrupt can dequeue the packet once it is acknowledged.               *)
(***************************************************************************)
LockExcludesTransmission == locked => slot # "tx"

(***************************************************************************)
(* The link that the next slot will use is still installed: the interrupt  *)
(* never keeps a link that the process has freed meanwhile.                *)
(***************************************************************************)
NextLinkInstalled == associated /\ slot = "none" => current \in links \cup {NULL}

(***************************************************************************)
(* tsch_get_lock does not wait for ever: one slot may end, and none starts *)
(* before the lock is taken, unless the interrupt hangs.                   *)
(***************************************************************************)
LockGranted == (pc = "wait") ~> (pc = "locked" \/ slot = "hung")

-----------------------------------------------------------------------------
(***************************************************************************)
(* "check whether TTL didn't expire, if it did, dequeue and pick next",    *)
(* tsch-slot-operation.c:380: a slot in which a packet expires ends too.   *)
(***************************************************************************)
SlotsEnd == (slot # "none") ~> (slot = "none")
=============================================================================
