-------------------------- MODULE TschQueue_proofs --------------------------
(***************************************************************************)
(* Proofs about TschQueue: the rings never hold more than they have room   *)
(* for, and a packet is in one place as long as its block is in use, for   *)
(* every number of blocks, queues and places in the rings.                 *)
(***************************************************************************)
EXTENDS TschQueue, TLAPS, FiniteSetTheorems, WellFoundedInduction

-----------------------------------------------------------------------------
(***************************************************************************)
(* The inductive invariant.                                                *)
(***************************************************************************)
\* The lock is only taken between two slots, a slot has its place in the
\* dequeued ring, and a packet about to be put has its place in its queue.
Reservations ==
  /\ locked => tx = <<>>
  /\ tx # <<>> => Len(dequeued) < DequeuedSize
  /\ pc = "put" <=> adding # <<>>
  /\ pc = "put" => Len(queue[adding[1]]) < QueueSize
  /\ pc = "reported" => dequeued # <<>>

\* The packet of the slot in progress is the first of its queue.
SlotAtHead ==
  tx # <<>> => queue[tx[1]] # <<>> /\ queue[tx[1]][1] = tx[2]

\* The three kinds of places a packet may be in.
Adding(b) == pc = "put" /\ adding[2] = b
Queued(b, q, i) == i <= Len(queue[q]) /\ queue[q][i] = b
Sent(b, i) == i <= Len(Waiting) /\ Waiting[i] = b

\* No packet is in two places.
Apart ==
  \A b \in Block :
    /\ \A q, r \in Queue : \A i, j \in Nat \ {0} :
         Queued(b, q, i) /\ Queued(b, r, j) => q = r /\ i = j
    /\ \A i, j \in Nat \ {0} : Sent(b, i) /\ Sent(b, j) => i = j
    /\ \A q \in Queue : \A i, j \in Nat \ {0} : ~(Queued(b, q, i) /\ Sent(b, j))
    /\ \A q \in Queue : \A i \in Nat \ {0} : ~(Adding(b) /\ Queued(b, q, i))
    /\ \A i \in Nat \ {0} : ~(Adding(b) /\ Sent(b, i))

\* The blocks in use are those of the packets that are somewhere.
UsedIsSomewhere ==
  \A b \in Block :
    b \in used <=> \/ Adding(b)
                   \/ \E q \in Queue, i \in Nat \ {0} : Queued(b, q, i)
                   \/ \E i \in Nat \ {0} : Sent(b, i)

QueueInv ==
  /\ QueueTypeOK
  /\ Reservations
  /\ ~torn => SlotAtHead /\ Apart /\ UsedIsSomewhere

-----------------------------------------------------------------------------
(***************************************************************************)
(* Sequences.                                                              *)
(***************************************************************************)
\* Every non-empty set of naturals has a least element.
LEMMA LeastNat ==
  ASSUME NEW T, T \subseteq Nat, T # {}
  PROVE  \E x \in T : \A y \in T : x <= y
<1>1. IsWellFoundedOn(OpToRel(<, Nat), Nat)
  BY NatLessThanWellFounded
<1>2. PICK x \in T : \A y \in T : ~(<<y, x>> \in OpToRel(<, Nat))
  BY <1>1, WFMin
<1>3. \A y \in T : ~(y < x)
  BY <1>2 DEF OpToRel
<1> QED
  BY <1>3

\* What is left when the first element of a sequence is taken out.
LEMMA TailFacts ==
  ASSUME NEW S, NEW s \in Seq(S), s # <<>>
  PROVE  /\ Tail(s) \in Seq(S)
         /\ Len(s) \in Nat \ {0} /\ Len(Tail(s)) = Len(s) - 1
         /\ s[1] \in S /\ Head(s) = s[1]
         /\ \A i \in 1 .. Len(s) - 1 : Tail(s)[i] = s[i + 1]
OBVIOUS

\* What an element put at the end of a sequence changes.
LEMMA AppendFacts ==
  ASSUME NEW S, NEW s \in Seq(S), NEW e \in S
  PROVE  /\ Append(s, e) \in Seq(S) /\ Append(s, e) # <<>>
         /\ Len(s) \in Nat /\ Len(Append(s, e)) = Len(s) + 1
         /\ \A i \in 1 .. Len(s) : Append(s, e)[i] = s[i]
         /\ Append(s, e)[Len(s) + 1] = e
OBVIOUS

\* An expired packet is only dropped when all before it are: what is left of a
\* queue is its end.
LEMMA UnexpiredIsSuffix ==
  ASSUME NEW q \in Queue, queue \in [Queue -> Seq(Block)]
  PROVE  \E k \in 0 .. Len(queue[q]) :
           /\ Unexpired(q) \in Seq(Block)
           /\ Len(Unexpired(q)) = Len(queue[q]) - k
           /\ \A i \in 1 .. Len(queue[q]) - k : Unexpired(q)[i] = queue[q][i + k]
<1> DEFINE s == queue[q]
           alive == {i \in 1 .. Len(s) : q = Beacons \/ s[i] \notin expired}
<1>1. s \in Seq(Block) /\ Len(s) \in Nat
  OBVIOUS
<1>2. CASE alive = {}
  <2>1. Unexpired(q) = <<>>
    BY <1>2 DEF Unexpired
  <2>2. Unexpired(q) \in Seq(Block) /\ Len(Unexpired(q)) = Len(s) - Len(s)
    BY <2>1, <1>1
  <2> QED
    BY <2>2, <1>1
<1>3. CASE alive # {}
  <2>1. \E x \in alive : \A y \in alive : x <= y
    <3>1. alive \subseteq Nat
      BY <1>1
    <3> HIDE DEF alive
    <3> QED
      BY <3>1, <1>3, LeastNat
  <2>2. Min(alive) \in alive
    BY <2>1 DEF Min
  <2>3. Unexpired(q) = SubSeq(s, Min(alive), Len(s))
    BY <1>3 DEF Unexpired
  <2>4. PICK m \in 1 .. Len(s) : Unexpired(q) = SubSeq(s, m, Len(s))
    BY <2>2, <2>3
  <2>5. /\ Unexpired(q) \in Seq(Block)
        /\ Len(Unexpired(q)) = Len(s) - (m - 1)
        /\ \A i \in 1 .. Len(s) - (m - 1) : Unexpired(q)[i] = s[i + (m - 1)]
    BY <1>1, <2>4
  <2>6. m - 1 \in 0 .. Len(s)
    BY <1>1
  <2> QED
    BY <2>5, <2>6
<1> QED
  BY <1>2, <1>3

\* The packets that are queued, or sent, before and after a step that takes the
\* first k packets out of the queue q.
LEMMA RestOfQueue ==
  ASSUME QueueTypeOK, NEW q \in Queue, NEW k \in Nat, k <= Len(queue[q]),
         NEW rest \in Seq(Block), Len(rest) = Len(queue[q]) - k,
         \A i \in 1 .. Len(queue[q]) - k : rest[i] = queue[q][i + k],
         queue' = [queue EXCEPT ![q] = rest]
  PROVE  /\ queue' \in [Queue -> Seq(Block)]
         /\ \A r \in Queue : Len(queue'[r]) <= Len(queue[r])
         /\ \A b \in Block, r \in Queue, i \in Nat \ {0} :
              Queued(b, r, i)' <=> Queued(b, r, IF r = q THEN i + k ELSE i)
<1>1. queue \in [Queue -> Seq(Block)] /\ \A r \in Queue : Len(queue[r]) \in Nat
  BY DEF QueueTypeOK
<1>2. queue' \in [Queue -> Seq(Block)] /\ queue'[q] = rest /\ \A r \in Queue \ {q} : queue'[r] = queue[r]
  BY <1>1
<1>3. ASSUME NEW b \in Block, NEW i \in Nat \ {0}
      PROVE  Queued(b, q, i)' <=> Queued(b, q, i + k)
  <2>1. i <= Len(rest) <=> i + k <= Len(queue[q])
    BY <1>1
  <2>2. i <= Len(rest) => rest[i] = queue[q][i + k]
    BY <1>1
  <2> QED
    BY <2>1, <2>2, <1>2 DEF Queued
<1>4. \A r \in Queue : Len(queue'[r]) <= Len(queue[r])
  BY <1>1, <1>2
<1>5. ASSUME NEW b \in Block, NEW r \in Queue \ {q}, NEW i \in Nat \ {0}
      PROVE  Queued(b, r, i)' <=> Queued(b, r, i)
  BY <1>2 DEF Queued
<1> QED
  BY <1>2, <1>3, <1>4, <1>5

\* The packet of a slot, and of tsch_queue_add_packet, and its queue.
LEMMA PairFacts ==
  ASSUME NEW p \in {<<>>} \cup (Queue \X Block), p # <<>>
  PROVE  p[1] \in Queue /\ p[2] \in Block /\ p = <<p[1], p[2]>>
OBVIOUS

\* Places counts what Adding, Queued and Sent tell.
LEMMA PlacesCount ==
  ASSUME QueueInv, ~torn, NEW b \in Block
  PROVE  Places(b) = IF b \in used THEN 1 ELSE 0
<1> DEFINE A == {p \in {adding} : pc = "put" /\ p[2] = b}
           Q == {p \in Queue \X (1 .. QueueSize) :
                   p[2] <= Len(queue[p[1]]) /\ queue[p[1]][p[2]] = b}
           W == {i \in 1 .. Len(Waiting) : Waiting[i] = b}
<1>1. Places(b) = Cardinality(A) + Cardinality(Q) + Cardinality(W)
  BY DEF Places
<1>2. Len(Waiting) \in Nat
  BY DEF QueueInv, QueueTypeOK, Reservations, Waiting
<1>3. \A q \in Queue : Len(queue[q]) \in Nat /\ Len(queue[q]) <= QueueSize /\ QueueSize \in Nat
  BY QueueAssumption DEF QueueInv, QueueTypeOK
<1>4. \A p : p \in Q <=> \E q \in Queue, i \in Nat \ {0} : p = <<q, i>> /\ Queued(b, q, i)
  BY <1>3 DEF Queued
<1>5. \A i : i \in W <=> i \in Nat \ {0} /\ Sent(b, i)
  BY <1>2 DEF Sent
<1>6. A = IF Adding(b) THEN {adding} ELSE {}
  BY DEF Adding
<1>7. /\ \A q, r \in Queue : \A i, j \in Nat \ {0} :
            Queued(b, q, i) /\ Queued(b, r, j) => q = r /\ i = j
      /\ \A i, j \in Nat \ {0} : Sent(b, i) /\ Sent(b, j) => i = j
      /\ \A q \in Queue : \A i, j \in Nat \ {0} : ~(Queued(b, q, i) /\ Sent(b, j))
      /\ \A q \in Queue : \A i \in Nat \ {0} : ~(Adding(b) /\ Queued(b, q, i))
      /\ \A i \in Nat \ {0} : ~(Adding(b) /\ Sent(b, i))
  BY DEF QueueInv, Apart
<1>8. b \in used <=> \/ Adding(b)
                     \/ \E q \in Queue, i \in Nat \ {0} : Queued(b, q, i)
                     \/ \E i \in Nat \ {0} : Sent(b, i)
  BY DEF QueueInv, UsedIsSomewhere
<1> HIDE DEF A, Q, W
<1>9. \A x : Cardinality({x}) = 1
  BY FS_Singleton
<1>10. Cardinality({}) = 0
  BY FS_EmptySet
<1>11. CASE Adding(b)
  <2>1. Q = {} /\ W = {} /\ A = {adding} /\ b \in used
    BY <1>11, <1>4, <1>5, <1>6, <1>7, <1>8
  <2>2. Cardinality(Q) = 0 /\ Cardinality(A) = 1 /\ Cardinality(W) = 0
    BY <2>1, <1>9, <1>10
  <2> QED
    BY <2>1, <2>2, <1>1
<1>12. CASE \E q \in Queue, i \in Nat \ {0} : Queued(b, q, i)
  <2>1. PICK q \in Queue, i \in Nat \ {0} : Queued(b, q, i)
    BY <1>12
  <2>2. <<q, i>> \in Q
    BY <2>1, <1>4
  <2>3. ASSUME NEW p \in Q
        PROVE  p = <<q, i>>
    <3>1. PICK r \in Queue, j \in Nat \ {0} : p = <<r, j>> /\ Queued(b, r, j)
      BY <1>4
    <3>2. r = q /\ j = i
      BY <2>1, <3>1, <1>7
    <3> QED
      BY <3>1, <3>2
  <2>4. Q = {<<q, i>>}
    BY <2>2, <2>3
  <2>5. W = {} /\ A = {} /\ b \in used
    BY <2>1, <1>5, <1>6, <1>7, <1>8
  <2>6. Cardinality(Q) = 1 /\ Cardinality(A) = 0 /\ Cardinality(W) = 0
    BY <2>4, <2>5, <1>9, <1>10
  <2> QED
    BY <2>5, <2>6, <1>1
<1>13. CASE \E i \in Nat \ {0} : Sent(b, i)
  <2>1. PICK i \in Nat \ {0} : Sent(b, i)
    BY <1>13
  <2>2. i \in W /\ \A j \in W : j = i
    BY <2>1, <1>5, <1>7
  <2>4. W = {i}
    BY <2>2
  <2>3. Q = {} /\ A = {} /\ b \in used
    BY <2>1, <1>4, <1>6, <1>7, <1>8
  <2> QED
    BY <2>4, <2>3, <1>1, <1>9, <1>10
<1>14. CASE b \notin used
  <2>1. Q = {} /\ W = {} /\ A = {}
    BY <1>14, <1>4, <1>5, <1>6, <1>8
  <2> QED
    BY <2>1, <1>14, <1>1, <1>10
<1> QED
  BY <1>8, <1>11, <1>12, <1>13, <1>14

-----------------------------------------------------------------------------
(***************************************************************************)
(* Each action keeps the invariant.                                        *)
(***************************************************************************)
\* A step that moves no packet, and neither takes nor frees a block.
LEMMA PlacesUnmoved ==
  ASSUME QueueInv, QueueTypeOK', UNCHANGED <<used, queue, dequeued, tx, adding, torn>>,
         pc' = pc \/ {pc, pc'} \cap {"put", "reported"} = {}
  PROVE  (~torn => SlotAtHead /\ Apart /\ UsedIsSomewhere)'
<1>1. Waiting' = Waiting /\ \A b : Adding(b)' = Adding(b)
  BY DEF Waiting, Adding
<1>2. \A b, i : Sent(b, i)' = Sent(b, i)
  BY <1>1 DEF Sent
<1>3. \A b, q, i : Queued(b, q, i)' = Queued(b, q, i)
  BY DEF Queued
<1>4. (~torn => SlotAtHead)'
  BY DEF QueueInv, SlotAtHead
<1>5. (~torn => Apart)'
  BY <1>1, <1>2, <1>3 DEF QueueInv, Apart
<1>6. (~torn => UsedIsSomewhere)'
  BY <1>1, <1>2, <1>3 DEF QueueInv, UsedIsSomewhere
<1> QED
  BY <1>4, <1>5, <1>6

LEMMA SlotStartKeeps ==
  ASSUME QueueInv, NEW q \in Queue, SlotStart(q)
  PROVE  QueueInv'
<1> USE DEF interrupt, process, flags
<1>1. QueueTypeOK /\ Reservations /\ tx = <<>> /\ ~locked
  BY DEF QueueInv, SlotStart
<1>2. PICK k \in 0 .. Len(queue[q]) :
        /\ Unexpired(q) \in Seq(Block)
        /\ Len(Unexpired(q)) = Len(queue[q]) - k
        /\ \A i \in 1 .. Len(queue[q]) - k : Unexpired(q)[i] = queue[q][i + k]
  BY <1>1, UnexpiredIsSuffix DEF QueueTypeOK
<1> DEFINE rest == Unexpired(q)
<1>3. Len(queue[q]) \in Nat /\ queue[q] \in Seq(Block) /\ Len(rest) \in Nat /\ k \in Nat /\ k <= Len(queue[q])
  BY <1>1, <1>2 DEF QueueTypeOK
<1>4. /\ queue' \in [Queue -> Seq(Block)]
      /\ \A r \in Queue : Len(queue'[r]) <= Len(queue[r])
      /\ \A b \in Block, r \in Queue, i \in Nat \ {0} :
           Queued(b, r, i)' <=> Queued(b, r, IF r = q THEN i + k ELSE i)
  <2>1. queue' = [queue EXCEPT ![q] = rest]
    BY DEF SlotStart
  <2> HIDE DEF rest
  <2> QED
    BY <1>1, <1>2, <1>3, <2>1, RestOfQueue DEF rest
<1>5. queue'[q] = rest
  BY <1>1 DEF SlotStart, QueueTypeOK
<1>6. \/ tx' = <<>>
      \/ rest # <<>> /\ Len(dequeued) < DequeuedSize /\ tx' = <<q, rest[1]>> /\ rest[1] \in Block
  BY <1>2 DEF SlotStart, RoomForDequeued
<1>7. QueueTypeOK'
  <2>1. \A r \in Queue : Len(queue'[r]) <= QueueSize
    BY <1>1, <1>4, QueueAssumption DEF QueueTypeOK
  <2>2. used' \subseteq Block /\ UNCHANGED <<dequeued, expired, adding, pc, locked, associated, torn>>
    BY <1>1 DEF SlotStart, QueueTypeOK
  <2>3. tx' \in {<<>>} \cup (Queue \X Block)
    BY <1>6
  <2> QED
    BY <1>1, <1>4, <2>1, <2>2, <2>3 DEF QueueTypeOK
<1>8. Reservations'
  <2>1. UNCHANGED <<dequeued, adding, pc, locked>>
    BY DEF SlotStart
  <2>2. pc = "put" => Len(queue'[adding[1]]) < QueueSize
    <3>1. CASE pc = "put"
      <4>1. adding[1] \in Queue
        BY <3>1, <1>1, PairFacts DEF Reservations, QueueTypeOK
      <4>2. Len(queue[adding[1]]) < QueueSize /\ Len(queue'[adding[1]]) <= Len(queue[adding[1]])
        BY <4>1, <3>1, <1>1, <1>4 DEF Reservations
      <4> QED
        BY <4>1, <4>2, <1>1, <1>4, QueueAssumption DEF QueueTypeOK
    <3> QED
      BY <3>1
  <2> QED
    BY <1>1, <1>6, <2>1, <2>2 DEF Reservations
<1>9. ASSUME ~torn'
      PROVE  SlotAtHead' /\ Apart' /\ UsedIsSomewhere'
  <2>1. SlotAtHead /\ Apart /\ UsedIsSomewhere /\ torn' = torn
    BY <1>9 DEF QueueInv, SlotStart
  <2>2. SlotAtHead'
    BY <1>5, <1>6 DEF SlotAtHead
  <2>3. /\ \A b : Adding(b)' = Adding(b)
        /\ \A b, i : Sent(b, i)' = Sent(b, i)
    BY DEF SlotStart, Adding, Sent, Waiting
  <2>4. \A b \in Block, r \in Queue, i \in Nat \ {0} :
          \E j \in Nat \ {0} : (Queued(b, r, i)' => Queued(b, r, j)) /\ j = IF r = q THEN i + k ELSE i
    BY <1>3, <1>4
  <2>5. Apart'
    <3> SUFFICES ASSUME NEW b \in Block
                 PROVE  /\ \A p, r \in Queue : \A i, j \in Nat \ {0} :
                             Queued(b, p, i)' /\ Queued(b, r, j)' => p = r /\ i = j
                        /\ \A i, j \in Nat \ {0} : Sent(b, i)' /\ Sent(b, j)' => i = j
                        /\ \A r \in Queue : \A i, j \in Nat \ {0} : ~(Queued(b, r, i)' /\ Sent(b, j)')
                        /\ \A r \in Queue : \A i \in Nat \ {0} : ~(Adding(b)' /\ Queued(b, r, i)')
                        /\ \A i \in Nat \ {0} : ~(Adding(b)' /\ Sent(b, i)')
      BY DEF Apart
    <3>1. ASSUME NEW p \in Queue, NEW r \in Queue, NEW i \in Nat \ {0}, NEW j \in Nat \ {0},
                 Queued(b, p, i)', Queued(b, r, j)'
          PROVE  p = r /\ i = j
      <4>1. PICK m \in Nat \ {0} : Queued(b, p, m) /\ m = IF p = q THEN i + k ELSE i
        BY <3>1, <2>4
      <4>2. PICK n \in Nat \ {0} : Queued(b, r, n) /\ n = IF r = q THEN j + k ELSE j
        BY <3>1, <2>4
      <4>3. p = r /\ m = n
        BY <4>1, <4>2, <2>1 DEF Apart
      <4> QED
        BY <4>1, <4>2, <4>3, <1>3
    <3>2. ASSUME NEW r \in Queue, NEW i \in Nat \ {0}, Queued(b, r, i)'
          PROVE  ~Adding(b) /\ \A j \in Nat \ {0} : ~Sent(b, j)
      BY <3>2, <2>4, <2>1 DEF Apart
    <3> QED
      BY <3>1, <3>2, <2>1, <2>3 DEF Apart
  <2>6. UsedIsSomewhere'
    <3> SUFFICES ASSUME NEW b \in Block
                 PROVE  b \in used' <=> \/ Adding(b)'
                                        \/ \E r \in Queue, i \in Nat \ {0} : Queued(b, r, i)'
                                        \/ \E i \in Nat \ {0} : Sent(b, i)'
      BY DEF UsedIsSomewhere
    <3>1. ToSet(rest) = {rest[i] : i \in 1 .. Len(rest)} /\ ToSet(queue[q]) = {queue[q][i] : i \in 1 .. Len(queue[q])}
      BY <1>2, <1>3 DEF ToSet
    <3>2. b \in ToSet(rest) <=> \E i \in Nat \ {0} : Queued(b, q, i)'
      BY <3>1, <1>3, <1>5 DEF Queued
    <3>3. b \in ToSet(queue[q]) <=> \E i \in Nat \ {0} : Queued(b, q, i)
      BY <3>1, <1>3 DEF Queued
    <3>4. used' = used \ (ToSet(queue[q]) \ ToSet(rest))
      BY DEF SlotStart, Freed
    <3>5. \A r \in Queue \ {q}, i \in Nat \ {0} : Queued(b, r, i)' <=> Queued(b, r, i)
      BY <1>4
    <3>6. CASE b \in ToSet(queue[q])
      <4>1. ~Adding(b) /\ (\A i \in Nat \ {0} : ~Sent(b, i)) /\ \A r \in Queue \ {q}, i \in Nat \ {0} : ~Queued(b, r, i)
        BY <3>3, <3>6, <2>1 DEF Apart
      <4>2. b \in used
        BY <3>3, <3>6, <2>1 DEF UsedIsSomewhere
      <4> QED
        BY <4>1, <4>2, <3>2, <3>4, <3>5, <3>6, <2>3
    <3>7. CASE b \notin ToSet(queue[q])
      <4>1. \A i \in Nat \ {0} : ~Queued(b, q, i) /\ ~Queued(b, q, i)'
        BY <3>7, <3>3, <2>4
      <4>2. b \in used' <=> b \in used
        BY <3>4, <3>7
      <4>3. b \in used <=> \/ Adding(b)
                           \/ \E r \in Queue, i \in Nat \ {0} : Queued(b, r, i)
                           \/ \E i \in Nat \ {0} : Sent(b, i)
        BY <2>1 DEF UsedIsSomewhere
      <4> QED
        BY <4>1, <4>2, <4>3, <3>5, <2>3
    <3> QED
      BY <3>6, <3>7
  <2> QED
    BY <2>2, <2>5, <2>6
<1> QED
  BY <1>7, <1>8, <1>9 DEF QueueInv

\* The first packet of a queue leaves it: the one that is sent, or flushed.
LEMMA FirstLeaves ==
  ASSUME QueueTypeOK, NEW q \in Queue, queue[q] # <<>>,
         queue' = [queue EXCEPT ![q] = Tail(@)]
  PROVE  /\ queue' \in [Queue -> Seq(Block)]
         /\ \A r \in Queue : Len(queue'[r]) <= Len(queue[r])
         /\ \A b \in Block, r \in Queue, i \in Nat \ {0} :
              Queued(b, r, i)' <=> Queued(b, r, IF r = q THEN i + 1 ELSE i)
         /\ Queued(queue[q][1], q, 1) /\ queue[q][1] \in Block
<1>1. queue \in [Queue -> Seq(Block)] /\ queue[q] \in Seq(Block)
  BY DEF QueueTypeOK
<1>2. /\ Tail(queue[q]) \in Seq(Block)
      /\ Len(queue[q]) \in Nat \ {0} /\ Len(Tail(queue[q])) = Len(queue[q]) - 1
      /\ queue[q][1] \in Block
      /\ \A i \in 1 .. Len(queue[q]) - 1 : Tail(queue[q])[i] = queue[q][i + 1]
  BY <1>1, TailFacts
<1>3. queue' = [queue EXCEPT ![q] = Tail(queue[q])]
  OBVIOUS
<1>4. Queued(queue[q][1], q, 1)
  BY <1>2 DEF Queued
<1> DEFINE rest == Tail(queue[q])
<1> HIDE DEF rest
<1>5. 1 \in Nat /\ 1 <= Len(queue[q])
  BY <1>2
<1> QED
  BY <1>2, <1>3, <1>4, <1>5, RestOfQueue DEF rest

LEMMA SlotEndKeeps ==
  ASSUME QueueInv, SlotEnd
  PROVE  QueueInv'
<1> USE DEF interrupt, process, flags
<1>1. QueueTypeOK /\ Reservations /\ tx # <<>> /\ tx' = <<>> /\ ~locked
  BY DEF QueueInv, SlotEnd, Reservations
<1> DEFINE q == tx[1]
           x == tx[2]
<1>2. q \in Queue /\ x \in Block
  BY <1>1, PairFacts DEF QueueTypeOK
<1>3. UNCHANGED <<used, pc, adding, expired, locked, torn>>
  BY DEF SlotEnd
<1>4. associated' \in BOOLEAN
  BY <1>1 DEF SlotEnd, QueueTypeOK
<1>5. CASE UNCHANGED <<queue, dequeued>>
  <2>1. QueueTypeOK'
    BY <1>1, <1>3, <1>4, <1>5 DEF QueueTypeOK
  <2>2. Reservations'
    BY <1>1, <1>3, <1>5 DEF Reservations
  <2>3. Waiting' = Waiting /\ \A b : Adding(b)' = Adding(b)
    BY <1>3, <1>5 DEF Waiting, Adding
  <2>4. /\ \A b, i : Sent(b, i)' = Sent(b, i)
        /\ \A b, r, i : Queued(b, r, i)' = Queued(b, r, i)
    BY <2>3, <1>5 DEF Sent, Queued
  <2>5. (~torn => SlotAtHead)'
    BY <1>1 DEF SlotAtHead
  <2>6. (~torn => Apart)'
    BY <1>3, <2>3, <2>4 DEF QueueInv, Apart
  <2>7. (~torn => UsedIsSomewhere)'
    BY <1>3, <2>3, <2>4 DEF QueueInv, UsedIsSomewhere
  <2> QED
    BY <2>1, <2>2, <2>5, <2>6, <2>7 DEF QueueInv
<1>6. CASE queue' = WithoutFirst(q) /\ dequeued' = Append(dequeued, x)
  <2> HIDE DEF q, x
  <2>1. /\ dequeued \in Seq(Block) /\ Len(dequeued) < DequeuedSize
        /\ DequeuedSize \in Nat /\ QueueSize \in Nat
    BY <1>1, QueueAssumption DEF QueueTypeOK, Reservations
  <2>2. /\ dequeued' \in Seq(Block) /\ dequeued' # <<>>
        /\ Len(dequeued) \in Nat /\ Len(dequeued') = Len(dequeued) + 1
        /\ \A i \in 1 .. Len(dequeued) : dequeued'[i] = dequeued[i]
        /\ dequeued'[Len(dequeued) + 1] = x
    BY <2>1, <1>2, <1>6, AppendFacts
  <2>3. /\ queue' \in [Queue -> Seq(Block)]
        /\ \A r \in Queue : Len(queue'[r]) <= Len(queue[r])
    <3>1. CASE queue[q] = <<>>
      BY <3>1, <1>1, <1>6 DEF WithoutFirst, QueueTypeOK
    <3>2. CASE queue[q] # <<>>
      BY <3>2, <1>1, <1>2, <1>6, FirstLeaves DEF WithoutFirst
    <3> QED
      BY <3>1, <3>2
  <2>4. QueueTypeOK'
    <3>1. \A r \in Queue : Len(queue'[r]) <= QueueSize
      BY <1>1, <2>1, <2>3 DEF QueueTypeOK
    <3>2. Len(dequeued') <= DequeuedSize
      BY <2>1, <2>2
    <3> QED
      BY <1>1, <1>3, <1>4, <2>2, <2>3, <3>1, <3>2 DEF QueueTypeOK
  <2>5. Reservations'
    <3>1. pc = "put" => Len(queue'[adding[1]]) < QueueSize
      <4>1. CASE pc = "put"
        <5>1. adding[1] \in Queue
          BY <4>1, <1>1, PairFacts DEF Reservations, QueueTypeOK
        <5>2. Len(queue[adding[1]]) < QueueSize /\ Len(queue'[adding[1]]) <= Len(queue[adding[1]])
          BY <5>1, <4>1, <1>1, <2>3 DEF Reservations
        <5> QED
          BY <5>1, <5>2, <1>1, <2>1, <2>3 DEF QueueTypeOK
      <4> QED
        BY <4>1
    <3> QED
      BY <1>1, <1>3, <2>2, <3>1 DEF Reservations
  <2>6. ASSUME ~torn'
        PROVE  SlotAtHead' /\ Apart' /\ UsedIsSomewhere'
    <3>1. SlotAtHead /\ Apart /\ UsedIsSomewhere
      BY <2>6, <1>3 DEF QueueInv
    <3>2. queue[q] # <<>> /\ queue[q][1] = x
      BY <3>1, <1>1 DEF SlotAtHead, q, x
    <3>3. /\ \A b \in Block, r \in Queue, i \in Nat \ {0} :
               Queued(b, r, i)' <=> Queued(b, r, IF r = q THEN i + 1 ELSE i)
          /\ Queued(x, q, 1)
      BY <3>2, <1>1, <1>2, <1>6, FirstLeaves DEF WithoutFirst
    <3>4. PICK n \in Nat : Len(Waiting) = n /\ \A b \in Block, i \in Nat \ {0} :
            Sent(b, i)' <=> Sent(b, i) \/ (i = n + 1 /\ b = x)
      <4>1. CASE pc = "reported"
        <5>1. dequeued # <<>>
          BY <4>1, <1>1 DEF Reservations
        <5>2. /\ Waiting = Tail(dequeued) /\ Waiting' = Tail(dequeued')
              /\ Len(dequeued) \in Nat \ {0}
          BY <4>1, <5>1, <1>3, <2>1, TailFacts DEF Waiting
        <5>3. /\ Len(Waiting) = Len(dequeued) - 1
              /\ \A i \in 1 .. Len(dequeued) - 1 : Waiting[i] = dequeued[i + 1]
          BY <5>1, <5>2, <2>1, TailFacts
        <5>4. /\ Len(Waiting') = Len(dequeued)
              /\ \A i \in 1 .. Len(dequeued) : Waiting'[i] = dequeued'[i + 1]
          BY <5>2, <2>2, TailFacts
        <5>5. \A i \in 1 .. Len(dequeued) - 1 : Waiting'[i] = Waiting[i]
          BY <5>2, <5>3, <5>4, <2>2
        <5>6. Waiting'[Len(dequeued)] = x
          BY <5>2, <5>4, <2>2
        <5> DEFINE n == Len(Waiting)
        <5>7. n \in Nat /\ Len(Waiting') = n + 1 /\ Waiting'[n + 1] = x
              /\ \A i \in 1 .. n : Waiting'[i] = Waiting[i]
          BY <5>2, <5>3, <5>4, <5>5, <5>6
        <5> HIDE DEF n
        <5>8. ASSUME NEW b \in Block, NEW i \in Nat \ {0}
              PROVE  Sent(b, i)' <=> Sent(b, i) \/ (i = n + 1 /\ b = x)
          <6>1. Sent(b, i) <=> i <= n /\ Waiting[i] = b
            BY DEF Sent, n
          <6>2. Sent(b, i)' <=> i <= n + 1 /\ Waiting'[i] = b
            BY <5>7 DEF Sent
          <6>3. i <= n <=> i \in 1 .. n
            BY <5>7
          <6>4. i <= n + 1 <=> i <= n \/ i = n + 1
            BY <5>7
          <6>5. ~(n + 1 <= n)
            BY <5>7
          <6> QED
            BY <6>1, <6>2, <6>3, <6>4, <6>5, <5>7
        <5>9. Len(Waiting) = n
          BY DEF n
        <5> QED
          BY <5>7, <5>8, <5>9
      <4>2. CASE pc # "reported"
        <5>1. Waiting = dequeued /\ Waiting' = dequeued'
          BY <4>2, <1>3 DEF Waiting
        <5> QED
          BY <5>1, <2>2 DEF Sent
      <4> QED
        BY <4>1, <4>2
    <3>5. \A b : Adding(b)' = Adding(b)
      BY <1>3 DEF Adding
    <3>6. ~Sent(x, n + 1)
      BY <3>4 DEF Sent
    <3>7. \A b \in Block, r \in Queue, i \in Nat \ {0} :
            Queued(b, r, i)' => b # x /\ \E j \in Nat \ {0} : Queued(b, r, j) /\ j = IF r = q THEN i + 1 ELSE i
      <4> TAKE b \in Block, r \in Queue, i \in Nat \ {0}
      <4> HAVE Queued(b, r, i)'
      <4> DEFINE j == IF r = q THEN i + 1 ELSE i
      <4>1. j \in Nat \ {0} /\ Queued(b, r, j)
        BY <3>3
      <4>2. ASSUME b = x
            PROVE  FALSE
        <5>1. r = q /\ j = 1
          BY <4>1, <4>2, <3>1, <3>3, <1>2 DEF Apart
        <5> QED
          BY <5>1
      <4> QED
        BY <4>1, <4>2
    <3>8. ~Adding(x) /\ (\A i \in Nat \ {0} : ~Sent(x, i)) /\ x \in used
      BY <3>1, <3>3, <1>2 DEF Apart, UsedIsSomewhere
    <3>9. Apart'
      <4> SUFFICES ASSUME NEW b \in Block
                   PROVE  /\ \A p, r \in Queue : \A i, j \in Nat \ {0} :
                               Queued(b, p, i)' /\ Queued(b, r, j)' => p = r /\ i = j
                          /\ \A i, j \in Nat \ {0} : Sent(b, i)' /\ Sent(b, j)' => i = j
                          /\ \A r \in Queue : \A i, j \in Nat \ {0} : ~(Queued(b, r, i)' /\ Sent(b, j)')
                          /\ \A r \in Queue : \A i \in Nat \ {0} : ~(Adding(b)' /\ Queued(b, r, i)')
                          /\ \A i \in Nat \ {0} : ~(Adding(b)' /\ Sent(b, i)')
        BY DEF Apart
      <4>1. ASSUME NEW p \in Queue, NEW r \in Queue, NEW i \in Nat \ {0}, NEW j \in Nat \ {0},
                   Queued(b, p, i)', Queued(b, r, j)'
            PROVE  p = r /\ i = j
        <5>1. PICK k \in Nat \ {0} : Queued(b, p, k) /\ k = IF p = q THEN i + 1 ELSE i
          BY <4>1, <3>7
        <5>2. PICK l \in Nat \ {0} : Queued(b, r, l) /\ l = IF r = q THEN j + 1 ELSE j
          BY <4>1, <3>7
        <5>3. p = r /\ k = l
          BY <5>1, <5>2, <3>1 DEF Apart
        <5> QED
          BY <5>1, <5>2, <5>3
      <4>2. ASSUME NEW r \in Queue, NEW i \in Nat \ {0}, Queued(b, r, i)'
            PROVE  ~Adding(b) /\ \A j \in Nat \ {0} : ~Sent(b, j)'
        <5>1. ~Adding(b) /\ \A j \in Nat \ {0} : ~Sent(b, j)
          BY <4>2, <3>7, <3>1 DEF Apart
        <5> QED
          BY <5>1, <4>2, <3>4, <3>7
      <4>3. \A i, j \in Nat \ {0} : Sent(b, i)' /\ Sent(b, j)' => i = j
        BY <3>1, <3>4, <3>8 DEF Apart
      <4>4. \A i \in Nat \ {0} : ~(Adding(b)' /\ Sent(b, i)')
        BY <3>1, <3>4, <3>5, <3>8 DEF Apart
      <4> QED
        BY <4>1, <4>2, <4>3, <4>4, <3>5
    <3>10. UsedIsSomewhere'
      <4> SUFFICES ASSUME NEW b \in Block
                   PROVE  b \in used' <=> \/ Adding(b)'
                                          \/ \E r \in Queue, i \in Nat \ {0} : Queued(b, r, i)'
                                          \/ \E i \in Nat \ {0} : Sent(b, i)'
        BY DEF UsedIsSomewhere
      <4>1. CASE b = x
        BY <4>1, <3>4, <3>8, <1>3
      <4>2. CASE b # x
        <5>1. ASSUME NEW r \in Queue, NEW i \in Nat \ {0}, Queued(b, r, i)
              PROVE  \E j \in Nat \ {0} : Queued(b, r, j)'
          <6>1. CASE r = q
            <7>1. i # 1
              BY <5>1, <6>1, <4>2, <3>2 DEF Queued
            <7>2. i - 1 \in Nat \ {0} /\ (i - 1) + 1 = i
              BY <7>1
            <7> QED
              BY <7>2, <6>1, <5>1, <3>3
          <6>2. CASE r # q
            BY <6>2, <5>1, <3>3
          <6> QED
            BY <6>1, <6>2
        <5>2. (\E r \in Queue, i \in Nat \ {0} : Queued(b, r, i)') <=> \E r \in Queue, i \in Nat \ {0} : Queued(b, r, i)
          BY <5>1, <3>7
        <5>3. (\E i \in Nat \ {0} : Sent(b, i)') <=> \E i \in Nat \ {0} : Sent(b, i)
          BY <4>2, <3>4
        <5>4. b \in used <=> \/ Adding(b)
                             \/ \E r \in Queue, i \in Nat \ {0} : Queued(b, r, i)
                             \/ \E i \in Nat \ {0} : Sent(b, i)
          BY <3>1 DEF UsedIsSomewhere
        <5> QED
          BY <5>2, <5>3, <5>4, <3>5, <1>3
      <4> QED
        BY <4>1, <4>2
    <3>11. SlotAtHead'
      BY <1>1 DEF SlotAtHead
    <3> QED
      BY <3>9, <3>10, <3>11
  <2> QED
    BY <2>4, <2>5, <2>6 DEF QueueInv
<1> QED
  BY <1>5, <1>6 DEF SlotEnd

LEMMA AllocPacketKeeps ==
  ASSUME QueueInv, NEW q \in Queue, AllocPacket(q)
  PROVE  QueueInv'
<1> USE DEF interrupt, process, flags
<1>1. QueueTypeOK /\ Reservations /\ pc = "idle" /\ pc' = "put" /\ Len(queue[q]) < QueueSize
  BY DEF QueueInv, AllocPacket
<1>2. PICK b \in Block \ used :
        used' = used \cup {b} /\ expired' = expired \ {b} /\ adding' = <<q, b>>
  BY DEF AllocPacket
<1>3. UNCHANGED <<queue, dequeued, tx, locked, associated, torn>>
  BY DEF AllocPacket
<1>4. QueueTypeOK'
  BY <1>1, <1>2, <1>3 DEF QueueTypeOK
<1>5. Reservations'
  <2>1. adding' # <<>> /\ adding'[1] = q
    BY <1>2
  <2> QED
    BY <2>1, <1>1, <1>3 DEF Reservations
<1>6. ASSUME ~torn'
      PROVE  SlotAtHead' /\ Apart' /\ UsedIsSomewhere'
  <2>1. SlotAtHead /\ Apart /\ UsedIsSomewhere
    BY <1>6, <1>3 DEF QueueInv
  <2>2. SlotAtHead'
    BY <2>1, <1>3 DEF SlotAtHead
  <2>3. Waiting' = Waiting
    BY <1>1, <1>3 DEF Waiting
  <2>4. /\ \A c, r, i : Queued(c, r, i)' = Queued(c, r, i)
        /\ \A c, i : Sent(c, i)' = Sent(c, i)
    BY <1>3, <2>3 DEF Queued, Sent
  <2>5. \A c : (Adding(c)' <=> c = b) /\ ~Adding(c)
    BY <1>1, <1>2 DEF Adding
  <2>6. (\A r \in Queue, i \in Nat \ {0} : ~Queued(b, r, i)) /\ \A i \in Nat \ {0} : ~Sent(b, i)
    BY <2>1 DEF UsedIsSomewhere
  <2>7. Apart'
    BY <2>1, <2>4, <2>5, <2>6 DEF Apart
  <2>8. UsedIsSomewhere'
    BY <2>1, <2>4, <2>5, <1>2 DEF UsedIsSomewhere
  <2> QED
    BY <2>2, <2>7, <2>8
<1> QED
  BY <1>4, <1>5, <1>6 DEF QueueInv

LEMMA PutPacketKeeps ==
  ASSUME QueueInv, PutPacket
  PROVE  QueueInv'
<1> USE DEF interrupt, process, flags
<1>1. QueueTypeOK /\ Reservations /\ pc = "put" /\ pc' = "idle" /\ adding # <<>> /\ adding' = <<>>
  BY DEF QueueInv, PutPacket, Reservations
<1>2. PICK q \in Queue, x \in Block : adding = <<q, x>> /\ Len(queue[q]) < QueueSize
  <2>1. adding[1] \in Queue /\ adding[2] \in Block /\ adding = <<adding[1], adding[2]>>
    BY <1>1, PairFacts DEF QueueTypeOK
  <2>2. Len(queue[adding[1]]) < QueueSize
    BY <1>1 DEF Reservations
  <2> QED
    BY <2>1, <2>2
<1>3. UNCHANGED <<used, dequeued, tx, expired, locked, associated, torn>>
  BY DEF PutPacket
<1>4. queue' = [queue EXCEPT ![q] = Append(queue[q], x)]
  BY <1>2 DEF PutPacket
<1>5. Adding(x) /\ \A c : (Adding(c) => c = x) /\ ~Adding(c)'
  BY <1>1, <1>2 DEF Adding
<1>6. PICK n \in Nat : n = Len(queue[q]) /\ queue[q] \in Seq(Block) /\ QueueSize \in Nat
  BY <1>1, <1>2, QueueAssumption DEF QueueTypeOK
<1>7. /\ queue' \in [Queue -> Seq(Block)] /\ \A r \in Queue \ {q} : queue'[r] = queue[r]
      /\ queue'[q] = Append(queue[q], x)
  BY <1>1, <1>2, <1>4, <1>6, AppendFacts DEF QueueTypeOK
<1>8. /\ Len(queue'[q]) = n + 1 /\ queue'[q][n + 1] = x /\ queue'[q] # <<>>
      /\ \A i \in 1 .. n : queue'[q][i] = queue[q][i]
  <2>1. /\ Append(queue[q], x) # <<>> /\ Len(Append(queue[q], x)) = n + 1
        /\ Append(queue[q], x)[n + 1] = x
        /\ \A i \in 1 .. n : Append(queue[q], x)[i] = queue[q][i]
    BY <1>2, <1>6, AppendFacts
  <2> QED
    BY <2>1, <1>7
<1>9. n + 1 <= QueueSize
  BY <1>2, <1>6
<1>10. QueueTypeOK'
  <2>1. \A r \in Queue : Len(queue'[r]) <= QueueSize
    BY <1>1, <1>6, <1>7, <1>8, <1>9 DEF QueueTypeOK
  <2> QED
    BY <2>1, <1>1, <1>3, <1>7 DEF QueueTypeOK
<1>11. Reservations'
  BY <1>1, <1>3 DEF Reservations
<1>12. ASSUME ~torn'
       PROVE  SlotAtHead' /\ Apart' /\ UsedIsSomewhere'
  <2>1. SlotAtHead /\ Apart /\ UsedIsSomewhere
    BY <1>12, <1>3 DEF QueueInv
  <2>2. SlotAtHead'
    <3>1. ASSUME tx # <<>>
          PROVE  queue'[tx[1]] # <<>> /\ queue'[tx[1]][1] = tx[2]
      <4>1. tx[1] \in Queue /\ queue[tx[1]] # <<>> /\ queue[tx[1]][1] = tx[2]
        BY <3>1, <2>1, <1>1, PairFacts DEF SlotAtHead, QueueTypeOK
      <4>2. CASE tx[1] = q
        <5>1. n \in Nat \ {0}
          BY <4>1, <4>2, <1>6, TailFacts
        <5> QED
          BY <5>1, <4>1, <4>2, <1>8
      <4>3. CASE tx[1] # q
        BY <4>1, <4>3, <1>7
      <4> QED
        BY <4>2, <4>3
    <3> QED
      BY <3>1, <1>3 DEF SlotAtHead
  <2>3. Waiting' = Waiting
    BY <1>1, <1>3 DEF Waiting
  <2>4. \A c, i : Sent(c, i)' = Sent(c, i)
    BY <2>3 DEF Sent
  <2>5. ASSUME NEW c \in Block, NEW r \in Queue, NEW i \in Nat \ {0}
        PROVE  Queued(c, r, i)' <=> Queued(c, r, i) \/ (c = x /\ r = q /\ i = n + 1)
    <3>1. CASE r = q
      <4>1. Queued(c, q, i) <=> i <= n /\ queue[q][i] = c
        BY <1>6 DEF Queued
      <4>2. Queued(c, q, i)' <=> i <= n + 1 /\ queue'[q][i] = c
        BY <1>8 DEF Queued
      <4>3. i <= n <=> i \in 1 .. n
        BY <1>6
      <4>4. (i <= n + 1 <=> i <= n \/ i = n + 1) /\ ~(n + 1 <= n)
        BY <1>6
      <4> QED
        BY <4>1, <4>2, <4>3, <4>4, <3>1, <1>8
    <3>2. CASE r # q
      BY <3>2, <1>7 DEF Queued
    <3> QED
      BY <3>1, <3>2
  <2>6. ~Queued(x, q, n + 1) /\ n + 1 \in Nat \ {0}
    BY <1>6 DEF Queued
  <2>7. /\ \A r \in Queue, i \in Nat \ {0} : ~Queued(x, r, i)
        /\ \A i \in Nat \ {0} : ~Sent(x, i)
    BY <2>1, <1>2, <1>5 DEF Apart
  <2>8. Apart'
    BY <2>1, <2>4, <2>5, <2>7, <1>5 DEF Apart
  <2>9. UsedIsSomewhere'
    <3> SUFFICES ASSUME NEW c \in Block
                 PROVE  c \in used <=> \/ \E r \in Queue, i \in Nat \ {0} : Queued(c, r, i)'
                                       \/ \E i \in Nat \ {0} : Sent(c, i)
      BY <1>3, <1>5, <2>4 DEF UsedIsSomewhere
    <3>1. c \in used <=> \/ Adding(c)
                         \/ \E r \in Queue, i \in Nat \ {0} : Queued(c, r, i)
                         \/ \E i \in Nat \ {0} : Sent(c, i)
      BY <2>1 DEF UsedIsSomewhere
    <3> QED
      BY <3>1, <2>5, <2>6, <1>2, <1>5
  <2> QED
    BY <2>2, <2>8, <2>9
<1> QED
  BY <1>10, <1>11, <1>12 DEF QueueInv

LEMMA ReportPacketKeeps ==
  ASSUME QueueInv, ReportPacket
  PROVE  QueueInv'
<1> USE DEF interrupt, process, flags
<1>1. QueueTypeOK /\ Reservations /\ pc = "idle" /\ pc' = "reported" /\ dequeued # <<>>
  BY DEF QueueInv, ReportPacket
<1>2. /\ used' = used \ {dequeued[1]} /\ Len(dequeued) \in Nat \ {0} /\ dequeued[1] \in Block
      /\ Len(Tail(dequeued)) = Len(dequeued) - 1
      /\ \A i \in 1 .. Len(dequeued) - 1 : Tail(dequeued)[i] = dequeued[i + 1]
  BY <1>1, TailFacts DEF ReportPacket, QueueTypeOK
<1>3. UNCHANGED <<queue, dequeued, tx, adding, expired, locked, associated, torn>>
  BY DEF ReportPacket
<1>4. QueueTypeOK'
  BY <1>1, <1>2, <1>3 DEF QueueTypeOK
<1>5. Reservations'
  BY <1>1, <1>3 DEF Reservations
<1>6. ASSUME ~torn'
      PROVE  SlotAtHead' /\ Apart' /\ UsedIsSomewhere'
  <2>1. SlotAtHead /\ Apart /\ UsedIsSomewhere
    BY <1>6, <1>3 DEF QueueInv
  <2>2. SlotAtHead'
    BY <2>1, <1>3 DEF SlotAtHead
  <2>3. Waiting = dequeued /\ Waiting' = Tail(dequeued)
    BY <1>1, <1>3 DEF Waiting
  <2>4. \A c \in Block, i \in Nat \ {0} : Sent(c, i)' <=> Sent(c, i + 1)
    BY <1>2, <2>3 DEF Sent
  <2>5. Sent(dequeued[1], 1)
    BY <1>2, <2>3 DEF Sent
  <2>6. /\ \A c, r, i : Queued(c, r, i)' = Queued(c, r, i)
        /\ \A c : ~Adding(c) /\ ~Adding(c)'
    BY <1>1, <1>3 DEF Queued, Adding
  <2>7. \A c \in Block, i \in Nat \ {0} : Sent(c, i)' => c # dequeued[1]
    <3> SUFFICES ASSUME NEW i \in Nat \ {0}, Sent(dequeued[1], i + 1)
                 PROVE  FALSE
      BY <2>4, <1>2
    <3>1. i + 1 = 1
      BY <2>1, <2>5, <1>2 DEF Apart
    <3> QED
      BY <3>1
  <2>8. Apart'
    BY <2>1, <2>4, <2>6 DEF Apart
  <2>9. UsedIsSomewhere'
    <3> SUFFICES ASSUME NEW c \in Block
                 PROVE  c \in used' <=> \/ \E r \in Queue, i \in Nat \ {0} : Queued(c, r, i)
                                        \/ \E i \in Nat \ {0} : Sent(c, i)'
      BY <2>6 DEF UsedIsSomewhere
    <3>1. c \in used <=> \/ \E r \in Queue, i \in Nat \ {0} : Queued(c, r, i)
                         \/ \E i \in Nat \ {0} : Sent(c, i)
      BY <2>1, <2>6 DEF UsedIsSomewhere
    <3>2. CASE c = dequeued[1]
      BY <3>2, <2>1, <2>5, <2>7, <1>2 DEF Apart
    <3>3. CASE c # dequeued[1]
      <4>1. ASSUME NEW i \in Nat \ {0}, Sent(c, i)
            PROVE  i - 1 \in Nat \ {0} /\ Sent(c, i - 1)'
        <5>1. i # 1
          BY <4>1, <3>3, <2>3 DEF Sent
        <5>2. i - 1 \in Nat \ {0} /\ (i - 1) + 1 = i
          BY <5>1
        <5> QED
          BY <5>2, <4>1, <2>4
      <4> QED
        BY <4>1, <3>1, <3>3, <2>4, <1>2
    <3> QED
      BY <3>2, <3>3
  <2> QED
    BY <2>2, <2>8, <2>9
<1> QED
  BY <1>4, <1>5, <1>6 DEF QueueInv

LEMMA GetDequeuedKeeps ==
  ASSUME QueueInv, GetDequeued
  PROVE  QueueInv'
<1> USE DEF interrupt, process, flags
<1>1. QueueTypeOK /\ Reservations /\ pc = "reported" /\ pc' = "idle" /\ dequeued # <<>>
  BY DEF QueueInv, GetDequeued, Reservations
<1>2. /\ dequeued' = Tail(dequeued) /\ dequeued' \in Seq(Block)
      /\ Len(dequeued) \in Nat \ {0} /\ Len(dequeued') = Len(dequeued) - 1
  BY <1>1, TailFacts DEF GetDequeued, QueueTypeOK
<1>3. UNCHANGED <<used, queue, tx, adding, expired, locked, associated, torn>>
  BY DEF GetDequeued
<1>4. DequeuedSize \in Nat
  BY QueueAssumption
<1>5. QueueTypeOK'
  <2>1. Len(dequeued') <= DequeuedSize
    BY <1>1, <1>2, <1>4 DEF QueueTypeOK
  <2> QED
    BY <2>1, <1>1, <1>2, <1>3 DEF QueueTypeOK
<1>6. Reservations'
  BY <1>1, <1>2, <1>3, <1>4 DEF Reservations
<1>7. Waiting' = Waiting
  BY <1>1, <1>2 DEF Waiting
<1>8. /\ \A c, r, i : Queued(c, r, i)' = Queued(c, r, i)
      /\ \A c, i : Sent(c, i)' = Sent(c, i)
      /\ \A c : ~Adding(c) /\ ~Adding(c)'
  BY <1>1, <1>3, <1>7 DEF Queued, Sent, Adding
<1>9. (~torn => SlotAtHead)'
  BY <1>3 DEF QueueInv, SlotAtHead
<1>10. (~torn => Apart)'
  BY <1>3, <1>8 DEF QueueInv, Apart
<1>11. (~torn => UsedIsSomewhere)'
  BY <1>3, <1>8 DEF QueueInv, UsedIsSomewhere
<1> QED
  BY <1>5, <1>6, <1>9, <1>10, <1>11 DEF QueueInv

LEMMA FlushPacketKeeps ==
  ASSUME QueueInv, NEW q \in Queue, FlushPacket(q), ~locked
  PROVE  QueueInv'
<1> USE DEF interrupt, process, flags
<1>1. QueueTypeOK /\ Reservations /\ pc = "flush" /\ queue[q] # <<>>
  BY DEF QueueInv, FlushPacket
<1> DEFINE x == queue[q][1]
<1>2. x \in Block /\ Head(queue[q]) = x
  BY <1>1, TailFacts DEF QueueTypeOK
<1>3. UNCHANGED <<dequeued, tx, pc, adding, expired, locked, associated>> /\ used' = used \ {x}
      /\ torn' = (torn \/ tx = <<q, x>>)
  BY <1>2 DEF FlushPacket
<1>4. queue' = [queue EXCEPT ![q] = Tail(@)]
  BY <1>1 DEF FlushPacket, WithoutFirst
<1>5. /\ queue' \in [Queue -> Seq(Block)]
      /\ \A r \in Queue : Len(queue'[r]) <= Len(queue[r])
      /\ \A b \in Block, r \in Queue, i \in Nat \ {0} :
           Queued(b, r, i)' <=> Queued(b, r, IF r = q THEN i + 1 ELSE i)
      /\ Queued(x, q, 1)
  BY <1>1, <1>4, FirstLeaves
<1> HIDE DEF x
<1>6. QueueTypeOK'
  <2>1. \A r \in Queue : Len(queue'[r]) <= QueueSize
    BY <1>1, <1>5, QueueAssumption DEF QueueTypeOK
  <2>2. torn' \in BOOLEAN /\ used' \subseteq Block
    BY <1>1, <1>3 DEF QueueTypeOK
  <2> QED
    BY <1>1, <1>3, <1>5, <2>1, <2>2 DEF QueueTypeOK
<1>7. Reservations'
  BY <1>1, <1>3 DEF Reservations
<1>8. ASSUME ~torn'
      PROVE  SlotAtHead' /\ Apart' /\ UsedIsSomewhere'
  <2>1. SlotAtHead /\ Apart /\ UsedIsSomewhere /\ tx # <<q, x>>
    BY <1>8, <1>3 DEF QueueInv
  <2>2. SlotAtHead'
    <3>1. ASSUME tx # <<>>
          PROVE  queue'[tx[1]] = queue[tx[1]]
      <4>1. tx[1] \in Queue /\ tx = <<tx[1], tx[2]>> /\ queue[tx[1]][1] = tx[2]
        BY <3>1, <2>1, <1>1, PairFacts DEF SlotAtHead, QueueTypeOK
      <4>2. tx[1] # q
        BY <4>1, <2>1 DEF x
      <4> QED
        BY <4>1, <4>2, <1>1, <1>4 DEF QueueTypeOK
    <3> QED
      BY <3>1, <2>1, <1>3 DEF SlotAtHead
  <2>3. /\ \A b, i : Sent(b, i)' = Sent(b, i)
        /\ \A b : ~Adding(b) /\ ~Adding(b)'
    BY <1>1, <1>3 DEF Sent, Waiting, Adding
  <2>4. \A b \in Block, r \in Queue, i \in Nat \ {0} :
          Queued(b, r, i)' => b # x /\ \E j \in Nat \ {0} : Queued(b, r, j) /\ j = IF r = q THEN i + 1 ELSE i
    <3> TAKE b \in Block, r \in Queue, i \in Nat \ {0}
    <3> HAVE Queued(b, r, i)'
    <3> DEFINE j == IF r = q THEN i + 1 ELSE i
    <3>1. j \in Nat \ {0} /\ Queued(b, r, j)
      BY <1>5
    <3>2. ASSUME b = x
          PROVE  FALSE
      <4>1. Queued(x, r, j) /\ Queued(x, q, 1)
        BY <3>1, <3>2, <1>5
      <4> HIDE DEF j
      <4>2. r = q /\ j = 1
        BY <3>1, <4>1, <2>1, <1>2 DEF Apart
      <4> USE DEF j
      <4> QED
        BY <4>2
    <3> QED
      BY <3>1, <3>2
  <2>5. Apart'
    <3> SUFFICES ASSUME NEW b \in Block
                 PROVE  /\ \A p, r \in Queue : \A i, j \in Nat \ {0} :
                             Queued(b, p, i)' /\ Queued(b, r, j)' => p = r /\ i = j
                        /\ \A i, j \in Nat \ {0} : Sent(b, i)' /\ Sent(b, j)' => i = j
                        /\ \A r \in Queue : \A i, j \in Nat \ {0} : ~(Queued(b, r, i)' /\ Sent(b, j)')
      BY <2>3 DEF Apart
    <3>1. ASSUME NEW p \in Queue, NEW r \in Queue, NEW i \in Nat \ {0}, NEW j \in Nat \ {0},
                 Queued(b, p, i)', Queued(b, r, j)'
          PROVE  p = r /\ i = j
      <4>1. PICK k \in Nat \ {0} : Queued(b, p, k) /\ k = IF p = q THEN i + 1 ELSE i
        BY <3>1, <2>4
      <4>2. PICK l \in Nat \ {0} : Queued(b, r, l) /\ l = IF r = q THEN j + 1 ELSE j
        BY <3>1, <2>4
      <4>3. p = r /\ k = l
        BY <4>1, <4>2, <2>1 DEF Apart
      <4> QED
        BY <4>1, <4>2, <4>3
    <3>2. ASSUME NEW r \in Queue, NEW i \in Nat \ {0}, Queued(b, r, i)'
          PROVE  \A j \in Nat \ {0} : ~Sent(b, j)
      BY <3>2, <2>4, <2>1 DEF Apart
    <3> QED
      BY <3>1, <3>2, <2>1, <2>3 DEF Apart
  <2>6. UsedIsSomewhere'
    <3> SUFFICES ASSUME NEW b \in Block
                 PROVE  b \in used' <=> \/ \E r \in Queue, i \in Nat \ {0} : Queued(b, r, i)'
                                        \/ \E i \in Nat \ {0} : Sent(b, i)
      BY <2>3 DEF UsedIsSomewhere
    <3>1. CASE b = x
      BY <3>1, <2>1, <2>4, <1>2, <1>3, <1>5 DEF Apart
    <3>2. CASE b # x
      <4>1. ASSUME NEW r \in Queue, NEW i \in Nat \ {0}, Queued(b, r, i)
            PROVE  \E j \in Nat \ {0} : Queued(b, r, j)'
        <5>1. CASE r = q
          <6>1. i # 1
            BY <4>1, <5>1, <3>2 DEF Queued, x
          <6>2. i - 1 \in Nat \ {0} /\ (i - 1) + 1 = i
            BY <6>1
          <6> QED
            BY <6>2, <5>1, <4>1, <1>5
        <5>2. CASE r # q
          BY <5>2, <4>1, <1>5
        <5> QED
          BY <5>1, <5>2
      <4>2. b \in used <=> \/ \E r \in Queue, i \in Nat \ {0} : Queued(b, r, i)
                           \/ \E i \in Nat \ {0} : Sent(b, i)
        BY <2>1, <2>3 DEF UsedIsSomewhere
      <4> QED
        BY <4>1, <4>2, <3>2, <2>4, <1>3
    <3> QED
      BY <3>1, <3>2
  <2> QED
    BY <2>2, <2>5, <2>6
<1> QED
  BY <1>6, <1>7, <1>8 DEF QueueInv

-----------------------------------------------------------------------------
(***************************************************************************)
(* The theorems.                                                           *)
(***************************************************************************)
LEMMA QueueInvInitially == Init => QueueInv
<1> SUFFICES ASSUME Init
             PROVE  QueueInv
  OBVIOUS
<1>1. QueueTypeOK
  <2>1. queue \in [Queue -> Seq(Block)] /\ \A q \in Queue : Len(queue[q]) = 0
    BY DEF Init
  <2>2. dequeued \in Seq(Block) /\ Len(dequeued) = 0
    BY DEF Init
  <2>3. QueueSize \in Nat /\ DequeuedSize \in Nat
    BY QueueAssumption
  <2>4. (\A q \in Queue : Len(queue[q]) <= QueueSize) /\ Len(dequeued) <= DequeuedSize
    BY <2>1, <2>2, <2>3
  <2> QED
    BY <2>1, <2>2, <2>4 DEF Init, QueueTypeOK
<1>2. Reservations
  BY DEF Init, Reservations
<1>3. SlotAtHead
  BY DEF Init, SlotAtHead
<1>4. \A b : \A q \in Queue, i \in Nat \ {0} : ~Queued(b, q, i)
  BY DEF Init, Queued
<1>5. \A b : ~Adding(b) /\ \A i \in Nat \ {0} : ~Sent(b, i)
  BY DEF Init, Adding, Sent, Waiting
<1>6. Apart /\ UsedIsSomewhere
  BY <1>4, <1>5 DEF Apart, UsedIsSomewhere, Init
<1> QED
  BY <1>1, <1>2, <1>3, <1>6 DEF QueueInv

LEMMA QueueInvKept == QueueInv /\ [Next]_vars => QueueInv'
<1> SUFFICES ASSUME QueueInv, [Next]_vars
             PROVE  QueueInv'
  OBVIOUS
<1> USE DEF interrupt, process, flags
<1>1. QueueTypeOK /\ Reservations
  BY DEF QueueInv
<1>2. ASSUME QueueTypeOK', Reservations', UNCHANGED <<used, queue, dequeued, tx, adding, torn>>,
             pc' = pc \/ {pc, pc'} \cap {"put", "reported"} = {}
      PROVE  QueueInv'
  BY <1>2, PlacesUnmoved DEF QueueInv
<1>3. ASSUME NEW q \in Queue, SlotStart(q)
      PROVE  QueueInv'
  BY <1>3, SlotStartKeeps
<1>4. CASE SlotEnd
  BY <1>4, SlotEndKeeps
<1>5. ASSUME NEW b \in Block, Expire(b)
      PROVE  QueueInv'
  BY <1>1, <1>2, <1>5 DEF Expire, QueueTypeOK, Reservations
<1>6. ASSUME NEW q \in Queue, AllocPacket(q)
      PROVE  QueueInv'
  BY <1>6, AllocPacketKeeps
<1>7. CASE PutPacket
  BY <1>7, PutPacketKeeps
<1>8. CASE ReportPacket \/ GetDequeued
  BY <1>8, ReportPacketKeeps, GetDequeuedKeeps
<1>9. CASE Disassociate
  BY <1>1, <1>2, <1>9 DEF Disassociate, QueueTypeOK, Reservations
<1>10. CASE Reset
  BY <1>1, <1>2, <1>10 DEF Reset, QueueTypeOK, Reservations
<1>11. CASE Associate
  BY <1>1, <1>2, <1>11 DEF Associate, QueueTypeOK, Reservations
<1>12. ASSUME NEW q \in Queue, FlushPacket(q), ~locked
       PROVE  QueueInv'
  BY <1>12, FlushPacketKeeps
<1>13. CASE GetLock
  BY <1>1, <1>2, <1>13 DEF GetLock, QueueTypeOK, Reservations
<1>14. CASE ReleaseLock
  BY <1>1, <1>2, <1>14 DEF ReleaseLock, QueueTypeOK, Reservations
<1>15. CASE UNCHANGED vars
  BY <1>1, <1>2, <1>15 DEF vars, QueueTypeOK, Reservations
<1> QED
  BY <1>3, <1>4, <1>5, <1>6, <1>7, <1>8, <1>9, <1>10, <1>11, <1>12, <1>13, <1>14, <1>15
     DEF Next, Report, Leave

THEOREM QueueInvAlways == Spec => []QueueInv
BY QueueInvInitially, QueueInvKept, PTL DEF Spec

(***************************************************************************)
(* No ring ever holds more than it has room for: neither may a packet that *)
(* tsch_queue_add_packet checked the room for find its queue full, nor a   *)
(* slot that ends the dequeued ring.                                       *)
(***************************************************************************)
THEOREM TypeCorrect == Spec => []QueueTypeOK
<1>1. QueueInv => QueueTypeOK
  BY DEF QueueInv
<1> QED
  BY <1>1, QueueInvAlways, PTL

(***************************************************************************)
(* As long as no reset tears a slot, a packet is in one place while its    *)
(* block is in use and in none afterwards: it is freed and reported once   *)
(* and its block is not given to another packet meanwhile.                 *)
(***************************************************************************)
THEOREM PacketsOnce == Spec => []EachPacketOnce
<1>1. QueueInv => EachPacketOnce
  BY PlacesCount DEF EachPacketOnce
<1> QED
  BY <1>1, QueueInvAlways, PTL

=============================================================================
