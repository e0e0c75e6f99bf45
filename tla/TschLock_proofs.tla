--------------------------- MODULE TschLock_proofs ---------------------------
(***************************************************************************)
(* What the TSCH lock guarantees for every set of links.                   *)
(***************************************************************************)
EXTENDS TschLock, TLAPS

(***************************************************************************)
(* A link that is being removed is no longer the next one: with the lock   *)
(* held the interrupt finds no other, so that it stays so until the link   *)
(* is gone.                                                                *)
(***************************************************************************)
RemovedIsNotNext ==
  associated /\ slot = "none" /\ pc = "changing" /\ job.op = "remove" => current # job.link

LockInv ==
  /\ TypeOK
  /\ LockExcludesTransmission
  /\ NextLinkInstalled
  /\ RemovedIsNotNext

LEMMA LockInit == Init => LockInv
<1> SUFFICES ASSUME Init
             PROVE  LockInv
  OBVIOUS
<1>1. job \in Job
  <2>1. job \in [op : {"add_nbr", "free_nbrs"}]
    BY DEF Init
  <2> QED
    BY <2>1 DEF Job
<1>2. TypeOK
  BY <1>1 DEF Init, TypeOK
<1> QED
  BY <1>2 DEF Init, LockInv, LockExcludesTransmission, NextLinkInstalled, RemovedIsNotNext

LEMMA LockStep == LockInv /\ [Next]_vars => LockInv'
<1> SUFFICES ASSUME LockInv, [Next]_vars
             PROVE  LockInv'
  OBVIOUS
<1> USE LockAssumption DEF LockInv, TypeOK, LockExcludesTransmission, NextLinkInstalled,
        RemovedIsNotNext, flags, isr, process
<1>1. ASSUME EndOfSlot
      PROVE  LockInv'
  <2>1. CASE NextLink /\ UNCHANGED associated
    <3>1. current' \in links \cup {NULL} /\ backup' \in Link \cup {NULL}
      BY <2>1 DEF NextLink
    <3>2. locked => current' = NULL
      BY <2>1 DEF NextLink
    <3>3. job.op = "remove" => job.link # NULL
      BY DEF Job
    <3> QED
      BY <1>1, <2>1, <3>1, <3>2, <3>3 DEF EndOfSlot
  <2>2. CASE associated' = FALSE /\ UNCHANGED <<current, backup>>
    BY <1>1, <2>2 DEF EndOfSlot
  <2> QED
    BY <1>1, <2>1, <2>2 DEF EndOfSlot
<1>2. CASE SkipSlot
  BY <1>1, <1>2 DEF SkipSlot
<1>3. CASE StartSlot
  BY <1>3 DEF StartSlot, Starts, PacketFor, UsedLink
<1>4. CASE IdleSlot
  BY <1>1, <1>4 DEF IdleSlot
<1>5. CASE ExpiredPacket
  BY <1>5 DEF ExpiredPacket, Starts
<1>6. CASE FinishSlot
  BY <1>1, <1>6 DEF FinishSlot
<1>7. CASE \E j \in Job : RequestLock(j)
  <2> PICK j \in Job : RequestLock(j)
    BY <1>7
  <2> QED
    BY DEF RequestLock
<1>8. CASE TakeLock
  BY <1>8 DEF TakeLock, Runs
<1>9. CASE AbortRemoved
  <2>1. job.op = "remove" => job.link # NULL
    BY DEF Job
  <2>2. current' \in {current, NULL}
    BY <1>9 DEF AbortRemoved
  <2>3. job.op = "remove" => current' # job.link
    BY <1>9, <2>1 DEF AbortRemoved
  <2> QED
    BY <1>9, <2>2, <2>3 DEF AbortRemoved, Runs
<1>10. CASE ChangeAndRelease
  <2>1. (links \subseteq Link)' /\ (unused \subseteq {OldTimeSource, NewNeighbor})'
    BY <1>10 DEF ChangeAndRelease, Job
  <2>2. NextLinkInstalled'
    BY <1>10 DEF ChangeAndRelease, Job
  <2> QED
    BY <1>10, <2>1, <2>2 DEF ChangeAndRelease
<1>11. CASE PutPacket
  BY <1>11 DEF PutPacket
<1>12. CASE Disassociate
  BY <1>12 DEF Disassociate
<1>13. CASE Reset
  BY <1>13 DEF Reset
<1>14. CASE Associate
  BY <1>14 DEF Associate, NextLink
<1>15. CASE UNCHANGED vars
  BY <1>15 DEF vars
<1> QED
  BY <1>2, <1>3, <1>4, <1>5, <1>6, <1>7, <1>8, <1>9, <1>10, <1>11, <1>12, <1>13, <1>14, <1>15
     DEF Next, Interrupt, Process, Holding

LEMMA LockInvariant == Spec => []LockInv
BY LockInit, LockStep, PTL DEF Spec

(***************************************************************************)
(* The lock is held and requested exactly where the process says, and all  *)
(* variables keep their types (tsch-slot-operation.c, tsch_get_lock and    *)
(* tsch_release_lock).                                                     *)
(***************************************************************************)
THEOREM LockTypeCorrect == Spec => []TypeOK
<1>1. LockInv => TypeOK
  BY DEF LockInv
<1> QED
  BY <1>1, LockInvariant, PTL

(***************************************************************************)
(* tsch_get_lock keeps transmissions away from the process: what the       *)
(* comment on it promises of all slots holds of those.                     *)
(***************************************************************************)
THEOREM TransmissionsAreExcluded == Spec => []LockExcludesTransmission
<1>1. LockInv => LockExcludesTransmission
  BY DEF LockInv
<1> QED
  BY <1>1, LockInvariant, PTL

(***************************************************************************)
(* tsch_schedule_remove_link leaves no freed link behind in current_link.  *)
(***************************************************************************)
THEOREM NextLinkStaysInstalled == Spec => []NextLinkInstalled
<1>1. LockInv => NextLinkInstalled
  BY DEF LockInv
<1> QED
  BY <1>1, LockInvariant, PTL
=============================================================================
