----------------------- MODULE TschSchedule_proofs -----------------------
(***************************************************************************)
(* Proofs about TschSchedule, for every set of nodes, any generated        *)
(* schedule and any order of installs, changes of parent and schedules:    *)
(* the pool of links and the slotframes agree, the pointer kept to a link  *)
(* leads to the parent, a node keeps the links of discovery and meets its  *)
(* parent, the ends of a generated link run together, and no queue of a    *)
(* slotframe is counted too low.                                           *)
(***************************************************************************)
EXTENDS TschSchedule, TLAPS, FiniteSetTheorems, WellFoundedInduction

-----------------------------------------------------------------------------
(***************************************************************************)
(* What a schedule is.                                                     *)
(***************************************************************************)
LinkRecord ==
  [frame : Frame, options : SUBSET {"tx", "rx"}, slot : Nat, channel : Nat, to : Address]

\* slotframe_list, and the lists of links: by the handles that are there.
ByHandle(T) == UNION { [H -> T] : H \in SUBSET Frame }

Typed(s) ==
  /\ s \in [memory : [Block -> LinkRecord], used : SUBSET Block, size : ByHandle(Nat),
            links : ByHandle(SUBSET Block), count : [Address -> 0 .. ByteModulus - 1],
            best : Block \cup {NULL}]
  /\ DOMAIN s.size = DOMAIN s.links

\* A block in use is in one list, that of the slotframe its contents name, and a
\* slotframe has one link in a slot.
Listed(s) ==
  /\ \A b \in Block : b \in s.used <=> \E h \in DOMAIN s.links : b \in s.links[h]
  /\ \A h \in DOMAIN s.links : \A b \in s.links[h] :
       /\ s.memory[b].frame = h
       /\ \A c \in s.links[h] \ {b} : s.memory[c].slot # s.memory[b].slot

Fine(s) == Typed(s) /\ Listed(s)

\* A function by handles is a function on some set of handles.
LEMMA Handles ==
  ASSUME NEW T, NEW f
  PROVE  f \in ByHandle(T) <=> f \in [DOMAIN f -> T] /\ DOMAIN f \subseteq Frame
  BY DEF ByHandle

\* The type of a schedule, field by field.
LEMMA TypedFields ==
  ASSUME NEW s, Typed(s)
  PROVE  /\ s.memory \in [Block -> LinkRecord] /\ s.used \subseteq Block
         /\ DOMAIN s.size = DOMAIN s.links /\ DOMAIN s.links \subseteq Frame
         /\ s.size \in [DOMAIN s.links -> Nat] /\ s.links \in [DOMAIN s.links -> SUBSET Block]
         /\ s.count \in [Address -> 0 .. ByteModulus - 1] /\ s.best \in Block \cup {NULL}
  BY Handles DEF Typed

\* Sets of blocks are finite.
LEMMA BlocksAreFinite ==
  ASSUME NEW B, B \subseteq Block
  PROVE  IsFiniteSet(B) /\ Cardinality(B) \in Nat
<1>1. MaxLinks \in Nat /\ 1 \in Nat
  BY ScheduleAssumption
<1>2. IsFiniteSet(Block)
  BY <1>1, FS_Interval DEF Block
<1>3. IsFiniteSet(B)
  BY <1>2, FS_Subset
<1>4. QED BY <1>3, FS_CardinalityType

\* The counters stay in their byte.
LEMMA CountsKeepType ==
  ASSUME NEW s, Typed(s), NEW B, B \subseteq Block, NEW a \in Address
  PROVE  /\ CountDown(s, B) \in [Address -> 0 .. ByteModulus - 1]
         /\ CountUp(s, a) \in [Address -> 0 .. ByteModulus - 1]
<1>1. ByteModulus \in Nat \ {0}
  BY ScheduleAssumption
<1>2. \A x \in Address : s.count[x] \in 0 .. ByteModulus - 1
  BY TypedFields
<1>3. ASSUME NEW x \in Address, NEW k \in Nat
      PROVE  (s.count[x] - k) % ByteModulus \in 0 .. ByteModulus - 1
  <2>1. s.count[x] - k \in Int
    BY <1>2
  <2>2. QED BY <1>1, <2>1
<1>4. CountDown(s, B) \in [Address -> 0 .. ByteModulus - 1]
  <2>1. \A x : { b \in B : Tx(s.memory[b]) /\ s.memory[b].to = x } \subseteq Block
    OBVIOUS
  <2>2. \A x : Cardinality({ b \in B : Tx(s.memory[b]) /\ s.memory[b].to = x }) \in Nat
    BY <2>1, BlocksAreFinite
  <2>3. QED BY <1>3, <2>2 DEF CountDown
<1>5. (s.count[a] + 1) % ByteModulus \in 0 .. ByteModulus - 1
  BY <1>1, <1>2
<1>6. CountUp(s, a) \in [Address -> 0 .. ByteModulus - 1]
  BY <1>5, TypedFields DEF CountUp
<1>7. QED BY <1>4, <1>6

-----------------------------------------------------------------------------
(***************************************************************************)
(* What the operations of tsch-schedule.c do.                              *)
(***************************************************************************)
LEMMA RemoveNothing ==
  ASSUME NEW s, Typed(s), NEW h, h \notin DOMAIN s.links, NEW B
  PROVE  RemoveLinks(s, h, B) = s
  BY DEF RemoveLinks, Typed

\* The blocks of B whose contents name slotframe h.
Naming(s, h, B) == { b \in B \ {NULL} : s.memory[b].frame = h }

\* tsch_schedule_remove_link takes links out of one list and the pool only.
LEMMA RemoveLinksFacts ==
  ASSUME NEW s, Fine(s), NEW h \in DOMAIN s.links, NEW B, B \subseteq Block \cup {NULL},
         NEW t, t = RemoveLinks(s, h, B)
  PROVE  /\ Fine(t)
         /\ t.memory = s.memory /\ t.size = s.size /\ t.best = s.best
         /\ t.used = s.used \ (s.links[h] \cap B)
         /\ t.links = [s.links EXCEPT ![h] = @ \ B]
         /\ t.count = CountDown(s, Naming(s, h, B))
<1> DEFINE gone == { b \in B \ {NULL} : s.memory[b].frame = h }
           ls == [s.links EXCEPT ![h] = @ \ gone]
           us == s.used \ gone
           cs == CountDown(s, gone)
<1>1. /\ s.memory \in [Block -> LinkRecord] /\ s.used \subseteq Block
      /\ DOMAIN s.size = DOMAIN s.links /\ DOMAIN s.links \subseteq Frame
      /\ s.size \in [DOMAIN s.links -> Nat] /\ s.links \in [DOMAIN s.links -> SUBSET Block]
      /\ s.best \in Block \cup {NULL} /\ Typed(s) /\ Listed(s)
  BY TypedFields DEF Fine
<1>2. gone \subseteq Block /\ NULL \notin Block
  <2>1. NULL \notin Block
    BY ScheduleAssumption DEF Block, NULL
  <2>2. QED BY <2>1
<1>3. t = [s EXCEPT !.links = ls, !.used = us, !.count = cs]
  BY <1>1 DEF RemoveLinks
<1>4. ls = [s.links EXCEPT ![h] = @ \ B]
  <2>1. s.links[h] \ gone = s.links[h] \ B
    BY <1>1, <1>2 DEF Listed
  <2>2. QED BY <2>1
<1>5. us = s.used \ (s.links[h] \cap B)
  <2>1. ASSUME NEW b \in Block, b \in s.used, b \in gone PROVE b \in s.links[h] \cap B
    <3>1. PICK g \in DOMAIN s.links : b \in s.links[g]
      BY <1>1, <2>1 DEF Listed
    <3>2. g = h
      BY <1>1, <2>1, <3>1 DEF Listed
    <3>3. QED BY <2>1, <3>1, <3>2
  <2>2. ASSUME NEW b \in s.links[h] \cap B PROVE b \in gone
    BY <1>1, <1>2, <2>2 DEF Listed
  <2>3. QED BY <1>1, <2>1, <2>2
<1>6. ls \in ByHandle(SUBSET Block) /\ DOMAIN ls = DOMAIN s.links
  <2>1. DOMAIN ls = DOMAIN s.links /\ ls \in [DOMAIN s.links -> SUBSET Block]
    BY <1>1
  <2> HIDE DEF ls
  <2>2. QED BY <1>1, <2>1, Handles
<1>7. us \subseteq Block /\ cs \in [Address -> 0 .. ByteModulus - 1]
  <2>1. \E a : a \in Address
    BY DEF Address
  <2>2. QED BY <1>1, <1>2, <2>1, CountsKeepType
<1> HIDE DEF ls, us, cs, gone
<1>8. /\ t.memory = s.memory /\ t.size = s.size /\ t.best = s.best
      /\ t.used = us /\ t.links = ls /\ t.count = cs
  BY <1>1, <1>3 DEF Typed
<1>9. Typed(t)
  BY <1>1, <1>3, <1>6, <1>7, <1>8 DEF Typed
<1>10. Listed(t)
  <2>1. \A g \in DOMAIN s.links : ls[g] = IF g = h THEN s.links[h] \ B ELSE s.links[g]
    BY <1>1, <1>4
  <2>2. ASSUME NEW b \in Block
        PROVE  b \in us <=> \E g \in DOMAIN s.links : b \in ls[g]
    <3>1. ASSUME b \in us PROVE \E g \in DOMAIN s.links : b \in ls[g]
      <4>1. b \in s.used /\ ~(b \in s.links[h] /\ b \in B)
        BY <1>5, <3>1
      <4>2. PICK g \in DOMAIN s.links : b \in s.links[g]
        BY <1>1, <4>1 DEF Listed
      <4>3. b \in ls[g]
        BY <2>1, <4>1, <4>2
      <4>4. QED BY <4>3
    <3>2. ASSUME NEW g \in DOMAIN s.links, b \in ls[g] PROVE b \in us
      <4>1. b \in s.links[g] /\ b \in s.used /\ (g = h => b \notin B)
        BY <1>1, <2>1, <3>2 DEF Listed
      <4>2. g # h => b \notin s.links[h]
        BY <1>1, <4>1 DEF Listed
      <4>3. QED BY <1>5, <4>1, <4>2
    <3>3. QED BY <3>1, <3>2
  <2>3. ASSUME NEW g \in DOMAIN s.links, NEW b \in ls[g]
        PROVE  /\ s.memory[b].frame = g
               /\ \A c \in ls[g] \ {b} : s.memory[c].slot # s.memory[b].slot
    <3>1. b \in s.links[g] /\ ls[g] \subseteq s.links[g]
      BY <2>1
    <3>2. QED BY <1>1, <3>1 DEF Listed
  <2>4. QED BY <1>6, <1>8, <2>2, <2>3 DEF Listed
<1>11. QED BY <1>4, <1>5, <1>8, <1>9, <1>10 DEF Fine, gone, cs, Naming

-----------------------------------------------------------------------------
\* tsch_schedule_remove_slotframe leaves the other slotframes as they are.
LEMMA RemoveFrameFacts ==
  ASSUME NEW s, Fine(s), NEW h, NEW t, t = RemoveFrame(s, h)
  PROVE  /\ Fine(t)
         /\ t.memory = s.memory /\ t.best = s.best
         /\ DOMAIN t.links = DOMAIN s.links \ {h}
         /\ \A g \in DOMAIN t.links : t.links[g] = s.links[g] /\ t.size[g] = s.size[g]
         /\ t.used = s.used \ (IF h \in DOMAIN s.links THEN s.links[h] ELSE {})
         /\ t.count = IF h \in DOMAIN s.links THEN CountDown(s, s.links[h]) ELSE s.count
<1>1. /\ s.memory \in [Block -> LinkRecord] /\ s.used \subseteq Block
      /\ DOMAIN s.size = DOMAIN s.links /\ DOMAIN s.links \subseteq Frame
      /\ s.size \in [DOMAIN s.links -> Nat] /\ s.links \in [DOMAIN s.links -> SUBSET Block]
      /\ s.best \in Block \cup {NULL} /\ Typed(s) /\ Listed(s)
  BY TypedFields DEF Fine
<1>2. CASE h \notin DOMAIN s.links
  <2>1. t = s
    BY <1>1, <1>2 DEF RemoveFrame
  <2>2. QED BY <1>1, <1>2, <2>1
<1>3. CASE h \in DOMAIN s.links
  <2> DEFINE r == RemoveLinks(s, h, s.links[h])
             rest == DOMAIN s.links \ {h}
             zs == [i \in rest |-> r.size[i]]
             ls == [i \in rest |-> r.links[i]]
  <2>1. s.links[h] \subseteq Block \cup {NULL}
    BY <1>1, <1>3
  <2>2. /\ Fine(r) /\ r.memory = s.memory /\ r.size = s.size /\ r.best = s.best
        /\ r.used = s.used \ (s.links[h] \cap s.links[h])
        /\ r.links = [s.links EXCEPT ![h] = @ \ s.links[h]]
        /\ r.count = CountDown(s, Naming(s, h, s.links[h]))
    BY <1>3, <2>1, RemoveLinksFacts DEF Fine
  <2>3. Naming(s, h, s.links[h]) = s.links[h]
    <3>1. \A b \in s.links[h] : b # NULL /\ s.memory[b].frame = h
      BY <1>1, <1>3, ScheduleAssumption DEF Listed, Block, NULL
    <3>2. QED BY <3>1 DEF Naming
  <2>4. t = [r EXCEPT !.size = zs, !.links = ls]
    <3>1. h \in DOMAIN s.size /\ DOMAIN s.size = DOMAIN s.links
      BY <1>1, <1>3
    <3>2. RemoveFrame(s, h) =
            [r EXCEPT !.size = [i \in DOMAIN s.size \ {h} |-> r.size[i]],
                      !.links = [i \in DOMAIN s.size \ {h} |-> r.links[i]]]
      BY <3>1 DEF RemoveFrame
    <3> HIDE DEF r
    <3>3. QED BY <3>1, <3>2
  <2> HIDE DEF r
  <2>5. Typed(r) /\ Listed(r) /\ r.used \subseteq Block /\ r.count \in [Address -> 0 .. ByteModulus - 1]
    BY <2>2, TypedFields DEF Fine
  <2>6. /\ zs \in [rest -> Nat] /\ ls \in [rest -> SUBSET Block] /\ rest \subseteq Frame
        /\ \A g \in rest : ls[g] = s.links[g] /\ zs[g] = s.size[g]
    BY <1>1, <1>3, <2>2
  <2>7. zs \in ByHandle(Nat) /\ ls \in ByHandle(SUBSET Block) /\ DOMAIN zs = rest /\ DOMAIN ls = rest
    <3>1. DOMAIN zs = rest /\ DOMAIN ls = rest
      OBVIOUS
    <3> HIDE DEF zs, ls, rest
    <3>2. QED BY <2>6, <3>1, Handles
  <2> HIDE DEF zs, ls
  <2>8. /\ t.memory = s.memory /\ t.best = s.best /\ t.size = zs /\ t.links = ls
        /\ t.used = s.used \ s.links[h] /\ t.count = CountDown(s, s.links[h])
    BY <2>2, <2>3, <2>4, <2>5 DEF Typed
  <2>9. Typed(t)
    BY <1>1, <2>2, <2>4, <2>5, <2>7, <2>8 DEF Typed
  <2>10. Listed(t)
    <3>1. ASSUME NEW b \in Block
          PROVE  b \in t.used <=> \E g \in rest : b \in ls[g]
      <4>1. ASSUME b \in t.used PROVE \E g \in rest : b \in ls[g]
        <5>1. PICK g \in DOMAIN s.links : b \in s.links[g]
          BY <1>1, <2>8, <4>1 DEF Listed
        <5>2. g # h
          BY <2>8, <4>1, <5>1
        <5>3. QED BY <2>6, <5>1, <5>2
      <4>2. ASSUME NEW g \in rest, b \in ls[g] PROVE b \in t.used
        <5>1. b \in s.links[g] /\ b \in s.used /\ s.memory[b].frame = g
          BY <1>1, <2>6, <4>2 DEF Listed
        <5>2. b \notin s.links[h]
          BY <1>1, <1>3, <5>1 DEF Listed
        <5>3. QED BY <2>8, <5>1, <5>2
      <4>3. QED BY <4>1, <4>2
    <3>2. ASSUME NEW g \in rest, NEW b \in ls[g]
          PROVE  /\ s.memory[b].frame = g
                 /\ \A c \in ls[g] \ {b} : s.memory[c].slot # s.memory[b].slot
      BY <1>1, <2>6 DEF Listed
    <3>3. QED BY <2>7, <2>8, <3>1, <3>2 DEF Listed
  <2>11. QED BY <1>3, <2>6, <2>7, <2>8, <2>9, <2>10 DEF Fine
<1>4. QED BY <1>2, <1>3

\* tsch_schedule_add_slotframe adds an empty list.
LEMMA AddFrameFacts ==
  ASSUME NEW s, Fine(s), NEW h \in Frame, NEW size \in Nat \ {0}, h \notin DOMAIN s.links,
         NEW t, t = AddFrame(s, h, size)
  PROVE  /\ Fine(t)
         /\ t.memory = s.memory /\ t.best = s.best /\ t.used = s.used /\ t.count = s.count
         /\ DOMAIN t.links = DOMAIN s.links \cup {h}
         /\ \A g \in DOMAIN s.links : t.links[g] = s.links[g] /\ t.size[g] = s.size[g]
         /\ t.links[h] = {} /\ t.size[h] = size
<1>1. /\ s.memory \in [Block -> LinkRecord] /\ s.used \subseteq Block
      /\ DOMAIN s.size = DOMAIN s.links /\ DOMAIN s.links \subseteq Frame
      /\ s.size \in [DOMAIN s.links -> Nat] /\ s.links \in [DOMAIN s.links -> SUBSET Block]
      /\ s.best \in Block \cup {NULL} /\ Typed(s) /\ Listed(s)
  BY TypedFields DEF Fine
<1> DEFINE all == DOMAIN s.links \cup {h}
           zs == [i \in all |-> IF i = h THEN size ELSE s.size[i]]
           ls == [i \in all |-> IF i = h THEN {} ELSE s.links[i]]
<1>2. t = [s EXCEPT !.size = zs, !.links = ls]
  BY <1>1 DEF AddFrame
<1>3. /\ zs \in [all -> Nat] /\ ls \in [all -> SUBSET Block] /\ all \subseteq Frame
      /\ \A g \in DOMAIN s.links : ls[g] = s.links[g] /\ zs[g] = s.size[g]
      /\ ls[h] = {} /\ zs[h] = size /\ DOMAIN zs = all /\ DOMAIN ls = all
  BY <1>1
<1>4. zs \in ByHandle(Nat) /\ ls \in ByHandle(SUBSET Block)
  <2> HIDE DEF zs, ls, all
  <2>1. QED BY <1>3, Handles
<1> HIDE DEF zs, ls
<1>5. /\ t.memory = s.memory /\ t.best = s.best /\ t.size = zs /\ t.links = ls
      /\ t.used = s.used /\ t.count = s.count
  BY <1>1, <1>2 DEF Typed
<1>6. Typed(t)
  BY <1>1, <1>2, <1>3, <1>4, <1>5 DEF Typed
<1>7. Listed(t)
  <2>1. ASSUME NEW b \in Block
        PROVE  b \in s.used <=> \E g \in all : b \in ls[g]
    BY <1>1, <1>3 DEF Listed
  <2>2. ASSUME NEW g \in all, NEW b \in ls[g]
        PROVE  /\ s.memory[b].frame = g
               /\ \A c \in ls[g] \ {b} : s.memory[c].slot # s.memory[b].slot
    BY <1>1, <1>3 DEF Listed
  <2>3. QED BY <1>3, <1>5, <2>1, <2>2 DEF Listed
<1>8. QED BY <1>3, <1>5, <1>6, <1>7 DEF Fine

\* Every non-empty set of naturals has a least element.
LEMMA LeastNat ==
  ASSUME NEW T, T \subseteq Nat, T # {}
  PROVE  \E x \in T : \A y \in T : x <= y
<1>1. IsWellFoundedOn(OpToRel(<, Nat), Nat)
  BY NatLessThanWellFounded
<1>2. PICK x \in T : \A y \in T : ~(<<y, x>> \in OpToRel(<, Nat))
  BY <1>1, WFMin
<1>3. \A y \in T : ~(y < x)
  BY <1>2 DEF OpToRel
<1>4. QED BY <1>3

\* The blocks whose links are in the way of a link in the slot.
InSlot(s, h, slot) == { b \in s.links[h] : s.memory[b].slot = slot }

(***************************************************************************)
(* A link that fits takes the place of the one in its slot and the first   *)
(* free block of the pool.                                                 *)
(***************************************************************************)
Added(s, h, l, t, b) ==
  /\ Fine(t) /\ t.size = s.size /\ t.best = s.best /\ DOMAIN t.links = DOMAIN s.links
  /\ ~Fits(s, h, l) => t = s /\ b = NULL
  /\ Fits(s, h, l) /\ b = NULL =>
       /\ h \in DOMAIN s.links
       /\ t.used = Block /\ t.memory = s.memory
       /\ t.links = [s.links EXCEPT ![h] = @ \ InSlot(s, h, l.slot)]
  /\ b # NULL =>
       /\ Fits(s, h, l) /\ h \in DOMAIN s.links
       /\ b \in Block /\ b \notin s.used \ InSlot(s, h, l.slot)
       /\ \A c \in Block \ (s.used \ InSlot(s, h, l.slot)) : b <= c
       /\ t.used = (s.used \ InSlot(s, h, l.slot)) \cup {b}
       /\ t.memory = [s.memory EXCEPT ![b] = [l EXCEPT !.frame = h]]
       /\ t.links = [s.links EXCEPT ![h] = (@ \ InSlot(s, h, l.slot)) \cup {b}]

AddedCounts(s, h, l, t, b) ==
  /\ Fits(s, h, l) /\ b = NULL => t.count = CountDown(s, InSlot(s, h, l.slot))
  /\ b # NULL => \A a \in Address :
       t.count[a] = IF Tx(l) /\ a = FlowQueue(h)
                    THEN (CountDown(s, InSlot(s, h, l.slot))[a] + 1) % ByteModulus
                    ELSE CountDown(s, InSlot(s, h, l.slot))[a]

\* What tsch_schedule_add_link makes of a schedule and of its counters.
LEMMA AddLinkFacts ==
  ASSUME NEW s, Fine(s), NEW h, NEW l \in LinkRecord,
         NEW t, t = AddLink(s, h, l), NEW b, b = NewBlock(s, h, l)
  PROVE  Added(s, h, l, t, b) /\ AddedCounts(s, h, l, t, b)
<1>1. /\ s.memory \in [Block -> LinkRecord] /\ s.used \subseteq Block
      /\ DOMAIN s.size = DOMAIN s.links /\ DOMAIN s.links \subseteq Frame
      /\ s.size \in [DOMAIN s.links -> Nat] /\ s.links \in [DOMAIN s.links -> SUBSET Block]
      /\ s.best \in Block \cup {NULL} /\ Typed(s) /\ Listed(s)
  BY TypedFields DEF Fine
<1>n. NULL \notin Block /\ Block \subseteq Nat
  BY ScheduleAssumption DEF Block, NULL
<1>2. CASE ~Fits(s, h, l)
  <2>1. t = s /\ b = NULL
    BY <1>2 DEF AddLink, NewBlock
  <2>2. QED BY <1>1, <1>2, <2>1 DEF Added, AddedCounts
<1>3. CASE Fits(s, h, l)
  <2> DEFINE gone == InSlot(s, h, l.slot)
             r == RemoveBySlot(s, h, l.slot)
             free == Block \ r.used
  <2>1. h \in DOMAIN s.links /\ h \in Frame /\ s.links[h] \subseteq Block
    BY <1>1, <1>3 DEF Fits
  <2>2. gone \subseteq s.links[h]
    BY DEF InSlot
  <2>3. r = RemoveLinks(s, h, gone)
    BY DEF RemoveBySlot, InSlot
  <2>4. /\ Fine(r) /\ r.memory = s.memory /\ r.size = s.size /\ r.best = s.best
        /\ r.used = s.used \ (s.links[h] \cap gone)
        /\ r.links = [s.links EXCEPT ![h] = @ \ gone]
        /\ r.count = CountDown(s, Naming(s, h, gone))
    <3> HIDE DEF gone, r
    <3>1. gone \subseteq Block \cup {NULL}
      BY <2>1, <2>2
    <3>2. QED BY <2>1, <2>3, <3>1, RemoveLinksFacts
  <2>5. Naming(s, h, gone) = gone
    <3>1. \A c \in gone : c # NULL /\ s.memory[c].frame = h
      BY <1>1, <1>n, <2>1, <2>2 DEF Listed
    <3>2. QED BY <3>1 DEF Naming
  <2>6. r.used = s.used \ gone /\ r.count = CountDown(s, gone)
    BY <2>2, <2>4, <2>5
  <2>7. /\ Typed(r) /\ Listed(r) /\ r.used \subseteq Block /\ r.memory \in [Block -> LinkRecord]
        /\ r.links \in [DOMAIN s.links -> SUBSET Block] /\ DOMAIN r.links = DOMAIN s.links
        /\ r.count \in [Address -> 0 .. ByteModulus - 1]
    BY <2>4, TypedFields DEF Fine
  <2>8. b = IF free # {} THEN Min(free) ELSE NULL
    BY <1>3 DEF NewBlock
  <2>9. t = IF b = NULL THEN r
            ELSE [r EXCEPT !.memory[b] = [l EXCEPT !.frame = h],
                           !.used      = @ \cup {b},
                           !.links[h]  = @ \cup {b},
                           !.count     = IF Tx(l) THEN CountUp(r, FlowQueue(h)) ELSE @]
    BY <1>3 DEF AddLink
  <2> HIDE DEF r, gone
  <2>10. CASE free = {}
    <3>1. b = NULL /\ t = r /\ r.used = Block
      BY <2>7, <2>8, <2>9, <2>10
    <3>2. QED BY <1>3, <2>1, <2>4, <2>6, <2>7, <3>1 DEF gone, Added, AddedCounts
  <2>11. CASE free # {}
    <3>1. \E x \in free : \A y \in free : x <= y
      BY <1>n, <2>11, LeastNat
    <3>2. b \in free /\ \A y \in free : b <= y
      BY <2>8, <2>11, <3>1 DEF Min
    <3>3. b \in Block /\ b \notin r.used /\ b # NULL
      BY <1>n, <3>2
    <3> DEFINE k == [l EXCEPT !.frame = h]
               ms == [r.memory EXCEPT ![b] = k]
               us == r.used \cup {b}
               ls == [r.links EXCEPT ![h] = @ \cup {b}]
               cs == IF Tx(l) THEN CountUp(r, FlowQueue(h)) ELSE r.count
    <3>4. t = [r EXCEPT !.memory = ms, !.used = us, !.links = ls, !.count = cs]
      BY <2>9, <3>3
    <3>5. k \in LinkRecord /\ k.frame = h /\ k.slot = l.slot
      BY <2>1 DEF LinkRecord
    <3> HIDE DEF k
    <3>6. ms \in [Block -> LinkRecord] /\ us \subseteq Block
      BY <2>7, <3>3, <3>5
    <3>7. ls \in [DOMAIN s.links -> SUBSET Block] /\ DOMAIN ls = DOMAIN s.links
      BY <2>1, <2>7, <3>3
    <3>8. ls \in ByHandle(SUBSET Block)
      <4> HIDE DEF ls
      <4>1. QED BY <1>1, <3>7, Handles
    <3>9. cs \in [Address -> 0 .. ByteModulus - 1]
      <4>1. FlowQueue(h) \in Address
        BY <2>1 DEF Address
      <4>2. {} \subseteq Block
        OBVIOUS
      <4>3. CountUp(r, FlowQueue(h)) \in [Address -> 0 .. ByteModulus - 1]
        BY <2>7, <4>1, <4>2, CountsKeepType
      <4>4. QED BY <2>7, <4>3
    <3>10. /\ \A c \in Block : ms[c] = IF c = b THEN k ELSE s.memory[c]
           /\ \A g \in DOMAIN s.links :
                ls[g] = IF g = h THEN (s.links[h] \ gone) \cup {b} ELSE s.links[g]
      BY <1>1, <2>1, <2>4, <2>7, <3>3
    <3>11. /\ ms = [s.memory EXCEPT ![b] = k]
           /\ ls = [s.links EXCEPT ![h] = (@ \ gone) \cup {b}]
      BY <1>1, <2>1, <2>4, <2>7, <3>3
    <3> HIDE DEF ms, us, ls, cs
    <3>12. /\ t.memory = ms /\ t.used = us /\ t.links = ls /\ t.count = cs
           /\ t.size = s.size /\ t.best = s.best
      BY <2>4, <2>7, <3>4 DEF Typed
    <3>13. Typed(t)
      BY <1>1, <2>4, <2>7, <3>4, <3>6, <3>7, <3>8, <3>9, <3>12 DEF Typed
    <3>14. Listed(t)
      <4>1. ASSUME NEW c \in Block
            PROVE  c \in us <=> \E g \in DOMAIN s.links : c \in ls[g]
        <5>1. c \in r.used <=> \E g \in DOMAIN s.links : c \in r.links[g]
          BY <2>7 DEF Listed
        <5>2. \A g \in DOMAIN s.links : ls[g] = IF g = h THEN r.links[h] \cup {b} ELSE r.links[g]
          BY <1>1, <2>1, <2>4, <3>10
        <5>3. QED BY <2>1, <5>1, <5>2 DEF us
      <4>2. ASSUME NEW g \in DOMAIN s.links, NEW c \in ls[g], c # b
            PROVE  c \in s.links[g] /\ c \in Block /\ ms[c] = s.memory[c] /\ (g = h => c \notin gone)
        <5>1. c \in s.links[g] /\ (g = h => c \notin gone)
          BY <3>10, <4>2
        <5>2. QED BY <1>1, <3>10, <4>2, <5>1
      <4>3. ASSUME NEW g \in DOMAIN s.links, b \in ls[g] PROVE g = h
        <5>1. CASE g # h
          <6>1. b \in s.links[g] /\ r.links[g] = s.links[g]
            BY <1>1, <2>1, <2>4, <3>10, <4>3, <5>1
          <6>2. b \in r.used
            BY <2>7, <3>3, <6>1 DEF Listed
          <6>3. QED BY <3>3, <6>2
        <5>2. QED BY <5>1
      <4>4. ms[b] = k
        BY <3>3, <3>10
      <4>5. ASSUME NEW g \in DOMAIN s.links, NEW c \in ls[g]
            PROVE  ms[c].frame = g
        <5>1. CASE c = b
          BY <3>5, <4>3, <4>4, <5>1
        <5>2. CASE c # b
          BY <1>1, <4>2, <5>2 DEF Listed
        <5>3. QED BY <5>1, <5>2
      <4>6. ASSUME NEW g \in DOMAIN s.links, NEW c \in ls[g], NEW d \in ls[g], c # d
            PROVE  ms[c].slot # ms[d].slot
        <5>1. CASE c # b /\ d # b
          BY <1>1, <4>2, <4>6, <5>1 DEF Listed
        <5>2. ASSUME NEW e \in ls[g], e # b, b \in ls[g] PROVE ms[e].slot # ms[b].slot
          <6>1. g = h
            BY <4>3, <5>2
          <6>2. e \in s.links[h] /\ e \notin gone /\ ms[e] = s.memory[e]
            BY <4>2, <5>2, <6>1
          <6>3. s.memory[e].slot # l.slot
            BY <6>2 DEF gone, InSlot
          <6>4. QED BY <3>5, <4>4, <6>2, <6>3
        <5>3. CASE c = b \/ d = b
          BY <4>6, <5>2, <5>3
        <5>4. QED BY <5>1, <5>3
      <4>7. QED BY <3>7, <3>12, <4>1, <4>5, <4>6 DEF Listed
    <3>15. AddedCounts(s, h, l, t, b)
      <4>1. t.count = IF Tx(l) THEN CountUp(r, FlowQueue(h)) ELSE r.count
        BY <3>12 DEF cs
      <4>2. FlowQueue(h) \in Address
        BY <2>1 DEF Address
      <4>3. ASSUME NEW a \in Address
            PROVE  t.count[a] = IF Tx(l) /\ a = FlowQueue(h) THEN (r.count[a] + 1) % ByteModulus
                                ELSE r.count[a]
        BY <2>7, <4>1, <4>2 DEF CountUp
      <4>4. QED BY <2>6, <3>3, <4>3 DEF AddedCounts, gone
    <3>16. \A c \in Block \ (s.used \ gone) : b <= c
      BY <2>6, <3>2
    <3>17. Added(s, h, l, t, b)
      BY <1>3, <2>1, <2>6, <3>3, <3>7, <3>11, <3>12, <3>13, <3>14, <3>16
         DEF Fine, gone, us, k, Added
    <3>18. QED BY <3>15, <3>17
  <2>12. QED BY <2>10, <2>11
<1>4. QED BY <1>2, <1>3

\* The same, said of the operators themselves.
LEMMA LinkAdded ==
  ASSUME NEW s, Fine(s), NEW h, NEW l \in LinkRecord
  PROVE  /\ Added(s, h, l, AddLink(s, h, l), NewBlock(s, h, l))
         /\ AddedCounts(s, h, l, AddLink(s, h, l), NewBlock(s, h, l))
BY AddLinkFacts

-----------------------------------------------------------------------------
(***************************************************************************)
(* generated_schedule, step by step.                                       *)
(***************************************************************************)
\* A set of naturals that holds 0, and the successor of each of its members up
\* to n, holds all up to n.
LEMMA UpTo ==
  ASSUME NEW n \in Nat, NEW T, 0 \in T, \A i \in 1 .. n : i - 1 \in T => i \in T
  PROVE  \A i \in 0 .. n : i \in T
<1> DEFINE out == {i \in 0 .. n : i \notin T}
<1>1. ASSUME out # {} PROVE FALSE
  <2>1. PICK i \in out : \A j \in out : i <= j
    <3>1. out \subseteq Nat
      OBVIOUS
    <3> HIDE DEF out
    <3>2. QED BY <1>1, <3>1, LeastNat
  <2>2. i # 0
    BY <2>1
  <2>3. i \in 1 .. n /\ i - 1 \in 0 .. n /\ i - 1 \notin out
    BY <2>1, <2>2
  <2>4. QED BY <2>1, <2>3
<1>2. QED BY <1>1

\* The steps of the loop over the slotframes of the flows.
LEMMA FlowFramesSteps ==
  ASSUME NEW s
  PROVE  /\ FlowFrames(s)[0] = s
         /\ \A i \in 1 .. MaxFrame : FlowFrames(s)[i] = AddFrame(RemoveFrame(FlowFrames(s)[i - 1], i), i, ScheduleLength)
<1> DEFINE Step(f, i) == IF i = 0 THEN s ELSE AddFrame(RemoveFrame(f[i - 1], i), i, ScheduleLength)
           Goes(k, f) == f = [i \in 0 .. k |-> Step(f, i)]
           bad == {k \in Nat : \A f : ~Goes(k, f)}
<1>1. ASSUME bad # {} PROVE FALSE
  <2>1. PICK k \in bad : \A m \in bad : k <= m
    <3>1. bad \subseteq Nat
      OBVIOUS
    <3> HIDE DEF bad
    <3>2. QED BY <1>1, <3>1, LeastNat
  <2>2. k # 0
    <3> DEFINE z == [i \in 0 .. 0 |-> s]
    <3>1. \A i \in 0 .. 0 : z[i] = s /\ Step(z, i) = s
      OBVIOUS
    <3>2. Goes(0, z)
      BY <3>1
    <3>3. QED BY <3>2
  <2>3. k - 1 \in Nat /\ k - 1 \notin bad
    <3>1. k \in Nat
      OBVIOUS
    <3> HIDE DEF bad
    <3>2. QED BY <2>1, <2>2, <3>1
  <2>4. PICK g : Goes(k - 1, g)
    <3> HIDE DEF Goes
    <3>1. QED BY <2>3
  <2> DEFINE f == [i \in 0 .. k |-> IF i < k THEN g[i] ELSE Step(g, k)]
  <2>5. ASSUME NEW i \in 0 .. k PROVE f[i] = Step(f, i)
    <3>1. CASE i < k
      <4>1. i \in 0 .. k - 1
        BY <3>1
      <4>2. g[i] = Step(g, i)
        BY <2>4, <4>1
      <4>3. i # 0 => f[i - 1] = g[i - 1]
        BY <2>1, <4>1
      <4>4. QED BY <3>1, <4>2, <4>3
    <3>2. CASE i = k
      <4>1. f[k] = Step(g, k)
        BY <2>1
      <4>2. f[k - 1] = g[k - 1]
        BY <2>1, <2>2
      <4>3. QED BY <2>2, <3>2, <4>1, <4>2
    <3>3. QED BY <3>1, <3>2
  <2>6. Goes(k, f)
    BY <2>5
  <2>7. QED BY <2>1, <2>6
<1>2. MaxFrame \in Nat
  BY ScheduleAssumption
<1>3. \E f : Goes(MaxFrame, f)
  <2> HIDE DEF Goes
  <2>1. QED BY <1>1, <1>2
<1>4. FlowFrames(s) = CHOOSE f : Goes(MaxFrame, f)
  BY DEF FlowFrames
<1>5. Goes(MaxFrame, FlowFrames(s))
  BY <1>3, <1>4
<1> DEFINE w == FlowFrames(s)
<1> HIDE DEF w
<1>6. w = [i \in 0 .. MaxFrame |-> Step(w, i)]
  BY <1>5 DEF w
<1>7. \A i \in 0 .. MaxFrame : w[i] = Step(w, i)
  BY <1>6
<1>8. \A i \in 1 .. MaxFrame : i \in 0 .. MaxFrame /\ i # 0
  BY <1>2
<1>9. QED BY <1>2, <1>7, <1>8 DEF w

\* The steps of the loop over the generated links.
LEMMA LinksAddedSteps ==
  ASSUME NEW s, NEW n \in Node
  PROVE  /\ LinksAdded(s, n)[0] = FlowFrames(s)[MaxFrame]
         /\ \A i \in 1 .. Len(Generated[n]) : LinksAdded(s, n)[i] = AddLink(LinksAdded(s, n)[i - 1], Generated[n][i].frame, Generated[n][i])
<1> DEFINE Step(f, i) == IF i = 0 THEN FlowFrames(s)[MaxFrame] ELSE AddLink(f[i - 1], Generated[n][i].frame, Generated[n][i])
           Goes(k, f) == f = [i \in 0 .. k |-> Step(f, i)]
           bad == {k \in Nat : \A f : ~Goes(k, f)}
<1>1. ASSUME bad # {} PROVE FALSE
  <2>1. PICK k \in bad : \A m \in bad : k <= m
    <3>1. bad \subseteq Nat
      OBVIOUS
    <3> HIDE DEF bad
    <3>2. QED BY <1>1, <3>1, LeastNat
  <2>2. k # 0
    <3> DEFINE z == [i \in 0 .. 0 |-> FlowFrames(s)[MaxFrame]]
    <3>1. \A i \in 0 .. 0 : z[i] = FlowFrames(s)[MaxFrame] /\ Step(z, i) = FlowFrames(s)[MaxFrame]
      OBVIOUS
    <3>2. Goes(0, z)
      BY <3>1
    <3>3. QED BY <3>2
  <2>3. k - 1 \in Nat /\ k - 1 \notin bad
    <3>1. k \in Nat
      OBVIOUS
    <3> HIDE DEF bad
    <3>2. QED BY <2>1, <2>2, <3>1
  <2>4. PICK g : Goes(k - 1, g)
    <3> HIDE DEF Goes
    <3>1. QED BY <2>3
  <2> DEFINE f == [i \in 0 .. k |-> IF i < k THEN g[i] ELSE Step(g, k)]
  <2>5. ASSUME NEW i \in 0 .. k PROVE f[i] = Step(f, i)
    <3>1. CASE i < k
      <4>1. i \in 0 .. k - 1
        BY <3>1
      <4>2. g[i] = Step(g, i)
        BY <2>4, <4>1
      <4>3. i # 0 => f[i - 1] = g[i - 1]
        BY <2>1, <4>1
      <4>4. QED BY <3>1, <4>2, <4>3
    <3>2. CASE i = k
      <4>1. f[k] = Step(g, k)
        BY <2>1
      <4>2. f[k - 1] = g[k - 1]
        BY <2>1, <2>2
      <4>3. QED BY <2>2, <3>2, <4>1, <4>2
    <3>3. QED BY <3>1, <3>2
  <2>6. Goes(k, f)
    BY <2>5
  <2>7. QED BY <2>1, <2>6
<1>2. Len(Generated[n]) \in Nat
  BY ScheduleAssumption
<1>3. \E f : Goes(Len(Generated[n]), f)
  <2> HIDE DEF Goes
  <2>1. QED BY <1>1, <1>2
<1>4. LinksAdded(s, n) = CHOOSE f : Goes(Len(Generated[n]), f)
  BY DEF LinksAdded
<1>5. Goes(Len(Generated[n]), LinksAdded(s, n))
  BY <1>3, <1>4
<1> DEFINE w == LinksAdded(s, n)
<1> HIDE DEF w
<1>6. w = [i \in 0 .. Len(Generated[n]) |-> Step(w, i)]
  BY <1>5 DEF w
<1>7. \A i \in 0 .. Len(Generated[n]) : w[i] = Step(w, i)
  BY <1>6
<1>8. \A i \in 1 .. Len(Generated[n]) : i \in 0 .. Len(Generated[n]) /\ i # 0
  BY <1>2
<1>9. QED BY <1>2, <1>7, <1>8 DEF w

-----------------------------------------------------------------------------
(***************************************************************************)
(* What an operation leaves as it is.                                      *)
(***************************************************************************)
\* Slotframe g has the links in t that it has in s.
Keeps(s, t, g) ==
  /\ g \in DOMAIN t.links /\ t.links[g] = s.links[g] /\ t.size[g] = s.size[g]
  /\ \A c \in s.links[g] : t.memory[c] = s.memory[c]

\* A link that comes leaves other slotframes, and other timeslots of its own, alone.
LEMMA AddLinkKeeps ==
  ASSUME NEW s, Fine(s), NEW h, NEW l \in LinkRecord, NEW t, t = AddLink(s, h, l)
  PROVE  /\ \A g \in DOMAIN s.links \ {h} : Keeps(s, t, g)
         /\ h \in DOMAIN s.links => \A c \in s.links[h] : s.memory[c].slot # l.slot
              => c \in t.links[h] /\ t.memory[c] = s.memory[c]
<1> DEFINE b == NewBlock(s, h, l)
           gone == InSlot(s, h, l.slot)
<1>1. /\ s.memory \in [Block -> LinkRecord] /\ s.used \subseteq Block
      /\ DOMAIN s.size = DOMAIN s.links
      /\ s.links \in [DOMAIN s.links -> SUBSET Block] /\ Listed(s)
  BY TypedFields DEF Fine
<1>2. Added(s, h, l, t, b)
  BY LinkAdded
<1> HIDE DEF b, gone
<1>n. /\ t.size = s.size /\ DOMAIN t.links = DOMAIN s.links
      /\ ~Fits(s, h, l) => t = s
      /\ Fits(s, h, l) /\ b = NULL =>
           /\ h \in DOMAIN s.links /\ t.memory = s.memory
           /\ t.links = [s.links EXCEPT ![h] = @ \ gone]
      /\ b # NULL =>
           /\ h \in DOMAIN s.links /\ b \in Block /\ b \notin s.used \ gone
           /\ t.memory = [s.memory EXCEPT ![b] = [l EXCEPT !.frame = h]]
           /\ t.links = [s.links EXCEPT ![h] = (@ \ gone) \cup {b}]
  BY <1>2 DEF Added, gone
<1>3. CASE ~Fits(s, h, l)
  BY <1>n, <1>3 DEF Keeps
<1>4. CASE Fits(s, h, l) /\ b = NULL
  <2>1. /\ t.memory = s.memory /\ t.links[h] = s.links[h] \ gone
        /\ \A g \in DOMAIN s.links \ {h} : t.links[g] = s.links[g]
    BY <1>n, <1>4
  <2>2. \A c \in s.links[h] : s.memory[c].slot # l.slot => c \notin gone
    BY DEF gone, InSlot
  <2>3. QED BY <1>n, <2>1, <2>2 DEF Keeps
<1>5. CASE b # NULL
  <2>1. /\ h \in DOMAIN s.links
        /\ \A c \in Block \ {b} : t.memory[c] = s.memory[c]
        /\ t.links[h] = (s.links[h] \ gone) \cup {b}
        /\ \A g \in DOMAIN s.links \ {h} : t.links[g] = s.links[g]
    BY <1>1, <1>n, <1>5
  <2>2. ASSUME NEW g \in DOMAIN s.links, NEW c \in s.links[g], g # h \/ c \notin gone
        PROVE  c \in Block /\ c # b
    <3>1. c \in Block /\ c \in s.used /\ (g # h => c \notin s.links[h])
      BY <1>1, <2>1 DEF Listed
    <3>2. gone \subseteq s.links[h]
      BY DEF gone, InSlot
    <3>3. c \notin gone
      BY <2>2, <3>1, <3>2
    <3>4. QED BY <1>n, <1>5, <3>1, <3>3
  <2>3. \A g \in DOMAIN s.links \ {h} : Keeps(s, t, g)
    BY <1>n, <2>1, <2>2 DEF Keeps
  <2>4. \A c \in s.links[h] : s.memory[c].slot # l.slot => c \notin gone
    BY DEF gone, InSlot
  <2>5. QED BY <2>1, <2>2, <2>3, <2>4
<1>6. QED BY <1>3, <1>4, <1>5

\* A slotframe of that size without links, whether or not there was one before.
LEMMA ResetFrame ==
  ASSUME NEW s, Fine(s), NEW h \in Frame, NEW size \in Nat \ {0},
         NEW t, t = AddFrame(RemoveFrame(s, h), h, size)
  PROVE  /\ Fine(t)
         /\ t.memory = s.memory /\ t.best = s.best
         /\ DOMAIN t.links = DOMAIN s.links \cup {h}
         /\ \A g \in DOMAIN s.links \ {h} : Keeps(s, t, g)
         /\ t.links[h] = {} /\ t.size[h] = size
         /\ t.used = s.used \ (IF h \in DOMAIN s.links THEN s.links[h] ELSE {})
         /\ t.count = IF h \in DOMAIN s.links THEN CountDown(s, s.links[h]) ELSE s.count
<1> DEFINE r == RemoveFrame(s, h)
<1>1. /\ Fine(r) /\ r.memory = s.memory /\ r.best = s.best
      /\ DOMAIN r.links = DOMAIN s.links \ {h}
      /\ \A g \in DOMAIN r.links : r.links[g] = s.links[g] /\ r.size[g] = s.size[g]
      /\ r.used = s.used \ (IF h \in DOMAIN s.links THEN s.links[h] ELSE {})
      /\ r.count = IF h \in DOMAIN s.links THEN CountDown(s, s.links[h]) ELSE s.count
  BY RemoveFrameFacts
<1> HIDE DEF r
<1>2. /\ Fine(t) /\ t.memory = r.memory /\ t.best = r.best /\ t.used = r.used /\ t.count = r.count
      /\ DOMAIN t.links = DOMAIN r.links \cup {h}
      /\ \A g \in DOMAIN r.links : t.links[g] = r.links[g] /\ t.size[g] = r.size[g]
      /\ t.links[h] = {} /\ t.size[h] = size
  <2>1. t = AddFrame(r, h, size)
    BY DEF r
  <2>2. h \notin DOMAIN r.links
    BY <1>1
  <2>3. QED BY <1>1, <2>1, <2>2, AddFrameFacts
<1>3. \A g \in DOMAIN s.links \ {h} : Keeps(s, t, g)
  BY <1>1, <1>2 DEF Keeps
<1>4. QED BY <1>1, <1>2, <1>3

\* The handles: beacons at 0, the flows after them, discovery at 1 or last.
LEMMA FrameNumbers ==
  /\ \A applied \in BOOLEAN : DiscoveryFrame(applied) \in Frame \ {0}
  /\ 0 \in Frame /\ DiscoveryFrame(TRUE) = MaxFrame + 1 /\ DiscoveryFrame(FALSE) = 1
  /\ \A h \in 1 .. MaxFrame : h \in Frame /\ h # 0 /\ h # MaxFrame + 1
BY ScheduleAssumption DEF DiscoveryFrame, Frame

\* The links of beacons and of discovery are links.
LEMMA LinksAreLinks ==
  /\ EbLink \in LinkRecord
  /\ \A n \in Node, applied \in BOOLEAN : ListenLink(n, applied) \in LinkRecord
  /\ \A n \in Node, m \in Node \cup {0}, applied \in BOOLEAN : ParentLink(n, m, applied) \in LinkRecord
<1>1. 0 \in Frame /\ \A h \in 1 .. MaxFrame : h \in Frame
  BY FrameNumbers
<1>2. ASSUME NEW o \in SUBSET {"tx", "rx"}, NEW slot \in Nat, NEW c \in Nat, NEW a \in Address
      PROVE  Link(o, slot, c, a) \in LinkRecord
  BY <1>1 DEF Link, LinkRecord
<1>3. Broadcast \in Address /\ \A m \in Node \cup {0} : NbrQueue(m) \in Address
  BY DEF Address
<1>4. Node \subseteq Nat /\ 0 \in Nat
  BY ScheduleAssumption
<1>5. \A n \in Node : Available[n] \in [txSlot : Nat, txChannel : Nat, rxSlot : Nat, rxChannel : Nat]
  BY ScheduleAssumption
<1>6. {"tx", "rx"} \in SUBSET {"tx", "rx"} /\ {"tx"} \in SUBSET {"tx", "rx"} /\ {"rx"} \in SUBSET {"tx", "rx"}
  OBVIOUS
<1>7. EbLink \in LinkRecord
  BY <1>2, <1>3, <1>4, <1>6 DEF EbLink
<1>8. ASSUME NEW n \in Node, NEW applied \in BOOLEAN PROVE ListenLink(n, applied) \in LinkRecord
  <2>1. Available[n].rxSlot \in Nat /\ Available[n].rxChannel \in Nat
    BY <1>5
  <2>2. Link({"rx"}, Available[n].rxSlot, Available[n].rxChannel, NbrQueue(n)) \in LinkRecord
    BY <1>2, <1>3, <1>6, <2>1
  <2>3. Link({"rx"}, n, 0, NbrQueue(n)) \in LinkRecord
    BY <1>2, <1>3, <1>4, <1>6
  <2>4. QED BY <2>2, <2>3 DEF ListenLink
<1>9. ASSUME NEW n \in Node, NEW m \in Node \cup {0}, NEW applied \in BOOLEAN
      PROVE  ParentLink(n, m, applied) \in LinkRecord
  <2>1. Available[n].txSlot \in Nat /\ Available[n].txChannel \in Nat
    BY <1>5
  <2>2. Link({"tx"}, Available[n].txSlot, Available[n].txChannel, NbrQueue(m)) \in LinkRecord
    BY <1>2, <1>3, <1>6, <2>1
  <2>3. Link({"tx"}, m, 0, NbrQueue(m)) \in LinkRecord
    BY <1>2, <1>3, <1>4, <1>6
  <2>4. QED BY <2>2, <2>3 DEF ParentLink
<1>10. QED BY <1>7, <1>8, <1>9

\* The generated links are links of flows that lead to nodes.
LEMMA GeneratedLinks ==
  ASSUME NEW n \in Node, NEW i \in 1 .. Len(Generated[n])
  PROVE  /\ Generated[n][i] \in LinkRecord
         /\ Generated[n][i].frame \in 1 .. MaxFrame /\ Generated[n][i].frame # 0
         /\ \E m \in Node : Generated[n][i].to = NbrQueue(m)
<1> DEFINE T == [frame : 1..MaxFrame, options : SUBSET {"tx", "rx"},
                 slot : Nat, channel : Nat, to : { NbrQueue(k) : k \in Node }]
<1>1. Generated \in [Node -> Seq(T)]
  BY ScheduleAssumption
<1>2. ASSUME NEW l \in T
      PROVE  l \in LinkRecord /\ l.frame \in 1 .. MaxFrame /\ \E m \in Node : l.to = NbrQueue(m)
  <2>1. { NbrQueue(k) : k \in Node } \subseteq Address
    BY DEF Address
  <2>2. 1 .. MaxFrame \subseteq Frame
    BY FrameNumbers
  <2>3. \E m \in Node : l.to = NbrQueue(m)
    OBVIOUS
  <2> HIDE DEF NbrQueue
  <2>4. QED BY <2>1, <2>2, <2>3 DEF LinkRecord
<1> HIDE DEF T
<1>3. Generated[n] \in Seq(T)
  BY <1>1
<1>4. Generated[n][i] \in T
  BY <1>3
<1>5. Generated[n][i].frame # 0
  BY <1>2, <1>4, ScheduleAssumption
<1>6. QED BY <1>2, <1>4, <1>5

-----------------------------------------------------------------------------
(***************************************************************************)
(* What the operations of master-routing.c do.                             *)
(***************************************************************************)
\* The blocks in use outside slotframe h.
Outside(s, h) == s.used \ (IF h \in DOMAIN s.links THEN s.links[h] ELSE {})

\* install_discovery_schedule leaves one link at most in its slotframe.
LEMMA InstallDiscoveryFacts ==
  ASSUME NEW s, Fine(s), NEW n \in Node, NEW applied \in BOOLEAN,
         NEW t, t = InstallDiscovery(s, n, applied), NEW h, h = DiscoveryFrame(applied)
  PROVE  /\ Fine(t) /\ t.best = s.best
         /\ DOMAIN t.links = DOMAIN s.links \cup {h} /\ t.size[h] = DiscoveryLength
         /\ \A g \in DOMAIN s.links \ {h} : Keeps(s, t, g)
         /\ \E b \in Block \cup {NULL} :
              /\ b = NULL => /\ t.links[h] = {} /\ t.memory = s.memory /\ t.used = Outside(s, h)
                             /\ ListenLink(n, applied).slot < DiscoveryLength
                                /\ ListenLink(n, applied).channel <= 15 => t.used = Block
              /\ b # NULL => /\ b \in Block \ Outside(s, h)
                             /\ \A c \in Block \ Outside(s, h) : b <= c
                             /\ t.links[h] = {b} /\ t.used = Outside(s, h) \cup {b}
                             /\ t.memory = [s.memory EXCEPT ![b] = [ListenLink(n, applied) EXCEPT !.frame = h]]
<1> DEFINE u == AddFrame(RemoveFrame(s, h), h, DiscoveryLength)
           l == ListenLink(n, applied)
           b == NewBlock(u, h, l)
<1>1. h \in Frame /\ DiscoveryLength \in Nat \ {0}
  BY FrameNumbers, ScheduleAssumption
<1>2. /\ Fine(u) /\ u.memory = s.memory /\ u.best = s.best
      /\ DOMAIN u.links = DOMAIN s.links \cup {h}
      /\ \A g \in DOMAIN s.links \ {h} : Keeps(s, u, g)
      /\ u.links[h] = {} /\ u.size[h] = DiscoveryLength /\ u.used = Outside(s, h)
  BY <1>1, ResetFrame DEF Outside
<1>3. t = AddLink(u, h, l) /\ l \in LinkRecord
  BY LinksAreLinks DEF InstallDiscovery, ListenLink
<1> HIDE DEF u, l, b
<1>4. InSlot(u, h, l.slot) = {}
  BY <1>2 DEF InSlot
<1>5. h \in DOMAIN u.links /\ h \in DOMAIN u.size /\ u.memory \in [Block -> LinkRecord]
      /\ u.links \in [DOMAIN u.links -> SUBSET Block]
  BY <1>2, TypedFields DEF Fine
<1>6. /\ Fine(t) /\ t.size = u.size /\ t.best = u.best /\ DOMAIN t.links = DOMAIN u.links
      /\ ~Fits(u, h, l) => t = u /\ b = NULL
      /\ Fits(u, h, l) /\ b = NULL =>
           /\ t.used = Block /\ t.memory = u.memory
           /\ t.links = [u.links EXCEPT ![h] = @ \ InSlot(u, h, l.slot)]
      /\ b # NULL =>
           /\ b \in Block /\ b \notin u.used \ InSlot(u, h, l.slot)
           /\ \A c \in Block \ (u.used \ InSlot(u, h, l.slot)) : b <= c
           /\ t.used = (u.used \ InSlot(u, h, l.slot)) \cup {b}
           /\ t.memory = [u.memory EXCEPT ![b] = [l EXCEPT !.frame = h]]
           /\ t.links = [u.links EXCEPT ![h] = (@ \ InSlot(u, h, l.slot)) \cup {b}]
  BY <1>2, <1>3, LinkAdded DEF Added, b
<1>7. \A g \in DOMAIN u.links \ {h} : Keeps(u, t, g)
  BY <1>2, <1>3, AddLinkKeeps
<1>8. \A g \in DOMAIN s.links \ {h} : Keeps(s, t, g)
  BY <1>2, <1>7 DEF Keeps
<1>9. l.slot < DiscoveryLength /\ l.channel <= 15 => Fits(u, h, l)
  BY <1>2, <1>5 DEF Fits
<1>10. b = NULL => /\ t.links[h] = {} /\ t.memory = s.memory /\ t.used = Outside(s, h)
                   /\ l.slot < DiscoveryLength /\ l.channel <= 15 => t.used = Block
  <2>1. CASE ~Fits(u, h, l)
    BY <1>2, <1>6, <1>9, <2>1
  <2>2. CASE Fits(u, h, l) /\ b = NULL
    <3>1. t.used = Block /\ t.memory = s.memory /\ t.links[h] = {}
      BY <1>2, <1>4, <1>5, <1>6, <2>2
    <3>2. u.used = Block
      <4>1. /\ u.used \subseteq Block
            /\ \A c \in Block : c \in t.used <=> \E g \in DOMAIN t.links : c \in t.links[g]
            /\ \A c \in Block : c \in u.used <=> \E g \in DOMAIN u.links : c \in u.links[g]
        BY <1>2, <1>6, TypedFields DEF Fine, Listed
      <4>2. ASSUME NEW g \in DOMAIN t.links PROVE t.links[g] = u.links[g]
        <5>1. CASE g = h
          BY <1>2, <3>1, <5>1
        <5>2. CASE g # h
          BY <1>6, <1>7, <5>2 DEF Keeps
        <5>3. QED BY <5>1, <5>2
      <4>3. DOMAIN t.links = DOMAIN u.links /\ t.used = Block
        BY <1>6, <3>1
      <4>4. ASSUME NEW c \in Block PROVE c \in u.used
        <5>1. PICK g \in DOMAIN t.links : c \in t.links[g]
          BY <4>1, <4>3
        <5>2. c \in u.links[g] /\ g \in DOMAIN u.links
          BY <4>2, <4>3, <5>1
        <5>3. QED BY <4>1, <5>2
      <4>5. QED BY <4>1, <4>4
    <3>3. QED BY <1>2, <3>1, <3>2
  <2>3. QED BY <2>1, <2>2
<1>11. b # NULL => /\ b \in Block \ Outside(s, h)
                   /\ \A c \in Block \ Outside(s, h) : b <= c
                   /\ t.links[h] = {b} /\ t.used = Outside(s, h) \cup {b}
                   /\ t.memory = [s.memory EXCEPT ![b] = [l EXCEPT !.frame = h]]
  <2>1. ASSUME b # NULL PROVE t.links[h] = {b}
    BY <1>2, <1>4, <1>5, <1>6, <2>1
  <2>2. QED BY <1>2, <1>4, <1>6, <2>1
<1>12. b \in Block \cup {NULL}
  BY <1>6
<1>13. QED BY <1>2, <1>6, <1>8, <1>10, <1>11, <1>12 DEF l

\* Setting best_tsch_shedule_link changes nothing else.
LEMMA SetBest ==
  ASSUME NEW s, Fine(s), NEW b \in Block \cup {NULL}, NEW t, t = [s EXCEPT !.best = b]
  PROVE  /\ Fine(t) /\ t.best = b /\ t.memory = s.memory /\ t.used = s.used
         /\ t.size = s.size /\ t.links = s.links /\ t.count = s.count
BY DEF Fine, Typed, Listed

\* The schedule after add_link_to_best_node has removed the link it put up before.
Cleared(s, h) == [RemoveLinks(s, h, {s.best}) EXCEPT !.best = NULL]

ClearedIs(s, h, t) ==
  /\ Fine(t) /\ t.best = NULL /\ t.memory = s.memory /\ t.size = s.size
  /\ DOMAIN t.links = DOMAIN s.links
  /\ \A g \in DOMAIN s.links \ {h} : t.links[g] = s.links[g]
  /\ h \in DOMAIN s.links => /\ t.links[h] = s.links[h] \ {s.best}
                             /\ t.used = s.used \ (s.links[h] \cap {s.best})
                             /\ t.count = CountDown(s, Naming(s, h, {s.best}))
  /\ h \notin DOMAIN s.links => t.used = s.used /\ t.count = s.count

\* add_link_to_best_node first removes the old link, if the pointer still names one.
LEMMA ClearedFacts ==
  ASSUME NEW s, Fine(s), NEW h
  PROVE  ClearedIs(s, h, Cleared(s, h))
<1> DEFINE r == RemoveLinks(s, h, {s.best})
           t == Cleared(s, h)
<1>1. s.best \in Block \cup {NULL} /\ Typed(s)
      /\ s.links \in [DOMAIN s.links -> SUBSET Block]
  BY TypedFields DEF Fine
<1>2. t = [r EXCEPT !.best = NULL]
  BY DEF Cleared
<1> HIDE DEF t
<1>3. CASE h \notin DOMAIN s.links
  <2>1. r = s
    BY <1>1, <1>3, RemoveNothing
  <2> HIDE DEF r
  <2>2. /\ Fine(t) /\ t.best = NULL /\ t.memory = s.memory /\ t.used = s.used
        /\ t.size = s.size /\ t.links = s.links /\ t.count = s.count
    BY <1>2, <2>1, SetBest
  <2>3. QED BY <1>3, <2>2 DEF ClearedIs, t
<1>4. CASE h \in DOMAIN s.links
  <2>1. /\ Fine(r)
        /\ r.memory = s.memory /\ r.size = s.size
        /\ r.used = s.used \ (s.links[h] \cap {s.best})
        /\ r.links = [s.links EXCEPT ![h] = @ \ {s.best}]
        /\ r.count = CountDown(s, Naming(s, h, {s.best}))
    <3>1. {s.best} \subseteq Block \cup {NULL}
      BY <1>1
    <3>2. QED BY <1>4, <3>1, RemoveLinksFacts
  <2> HIDE DEF r
  <2>2. /\ Fine(t) /\ t.best = NULL /\ t.memory = r.memory /\ t.used = r.used
        /\ t.size = r.size /\ t.links = r.links /\ t.count = r.count
    BY <1>2, <2>1, SetBest
  <2>3. DOMAIN t.links = DOMAIN s.links
        /\ t.links[h] = s.links[h] \ {s.best}
        /\ \A g \in DOMAIN s.links \ {h} : t.links[g] = s.links[g]
    BY <1>1, <1>4, <2>1, <2>2
  <2>4. QED BY <1>4, <2>1, <2>2, <2>3 DEF ClearedIs, t
<1>5. QED BY <1>3, <1>4

\* Slotframe h of s has no transmit link but perhaps the one of the pointer.
OnlyBestSends(s, h) == h \in DOMAIN s.links => \A c \in s.links[h] : Tx(s.memory[c]) => c = s.best

\* What add_link_to_best_node does where the discovery slotframe h is installed:
\* s becomes t with link l.
Linked(s, t, h, l) ==
  /\ Fine(t) /\ t.size = s.size /\ DOMAIN t.links = DOMAIN s.links
  /\ \A g \in DOMAIN s.links \ {h} : Keeps(s, t, g)
  /\ \A c \in s.links[h] \ {s.best} : s.memory[c].slot # l.slot
       => c \in t.links[h] /\ t.memory[c] = s.memory[c]
  /\ \A c \in t.links[h] \ {t.best} : c \in s.links[h] \ {s.best} /\ t.memory[c] = s.memory[c]
  /\ t.best = NULL => t.memory = s.memory
                      /\ (l.slot < s.size[h] /\ l.channel <= 15 => t.used = Block)
  /\ t.best # NULL => /\ t.best \in Block /\ t.best \in t.links[h]
                      /\ t.memory = [s.memory EXCEPT ![t.best] = [l EXCEPT !.frame = h]]
                      /\ \A c \in Block \ Cleared(s, h).used : t.best <= c
                      /\ (\A c \in s.links[h] \ {s.best} : s.memory[c].slot # l.slot)
                           => /\ t.best \notin Cleared(s, h).used
                              /\ t.used = Cleared(s, h).used \cup {t.best}

\* add_link_to_best_node, when the discovery slotframe is there.
LEMMA ParentLinkFacts ==
  ASSUME NEW s, Fine(s), NEW n \in Node, NEW m \in Node \cup {0}, NEW applied \in BOOLEAN,
         NEW t, t = AddLinkToBestNode(s, n, m, applied), NEW h, h = DiscoveryFrame(applied),
         h \in DOMAIN s.links, NEW l, l = ParentLink(n, m, applied)
  PROVE  Linked(s, t, h, l)
<1> DEFINE r == Cleared(s, h)
           u == AddLink(r, h, l)
           b == NewBlock(r, h, l)
           gone == InSlot(r, h, l.slot)
<1>1. t = [u EXCEPT !.best = b]
  BY DEF AddLinkToBestNode, ParentLink, Cleared
<1>2. /\ Fine(r) /\ r.best = NULL /\ r.memory = s.memory /\ r.size = s.size
      /\ DOMAIN r.links = DOMAIN s.links
      /\ r.links[h] = s.links[h] \ {s.best}
      /\ \A g \in DOMAIN s.links \ {h} : r.links[g] = s.links[g]
  <2>1. ClearedIs(s, h, r)
    BY ClearedFacts
  <2> HIDE DEF r
  <2>2. Fine(r) /\ r.best = NULL /\ r.memory = s.memory /\ r.size = s.size
    BY <2>1 DEF ClearedIs
  <2>3. DOMAIN r.links = DOMAIN s.links
    BY <2>1 DEF ClearedIs
  <2>4. r.links[h] = s.links[h] \ {s.best}
    BY <2>1 DEF ClearedIs
  <2>5. \A g \in DOMAIN s.links \ {h} : r.links[g] = s.links[g]
    BY <2>1 DEF ClearedIs
  <2>6. QED BY <2>2, <2>3, <2>4, <2>5
<1>3. l \in LinkRecord
  BY LinksAreLinks
<1>4. NULL \notin Block
  BY ScheduleAssumption DEF Block, NULL
<1> HIDE DEF r
<1>5. /\ Fine(u) /\ u.size = r.size /\ DOMAIN u.links = DOMAIN r.links
      /\ ~Fits(r, h, l) => u = r /\ b = NULL
      /\ Fits(r, h, l) /\ b = NULL =>
           /\ u.used = Block /\ u.memory = r.memory
           /\ u.links = [r.links EXCEPT ![h] = @ \ gone]
      /\ b # NULL =>
           /\ b \in Block /\ b \notin r.used \ gone
           /\ \A c \in Block \ (r.used \ gone) : b <= c
           /\ u.used = (r.used \ gone) \cup {b}
           /\ u.memory = [r.memory EXCEPT ![b] = [l EXCEPT !.frame = h]]
           /\ u.links = [r.links EXCEPT ![h] = (@ \ gone) \cup {b}]
  BY <1>2, <1>3, LinkAdded DEF Added
<1>6. /\ \A g \in DOMAIN r.links \ {h} : Keeps(r, u, g)
      /\ \A c \in r.links[h] : r.memory[c].slot # l.slot
           => c \in u.links[h] /\ u.memory[c] = r.memory[c]
  BY <1>2, <1>3, AddLinkKeeps
<1>7. gone \subseteq r.links[h] /\ \A c \in gone : r.memory[c].slot = l.slot
  BY DEF InSlot
<1>8. /\ r.memory \in [Block -> LinkRecord] /\ r.links \in [DOMAIN r.links -> SUBSET Block]
      /\ DOMAIN r.size = DOMAIN r.links /\ Listed(r)
  BY <1>2, TypedFields DEF Fine
<1> HIDE DEF u, b, gone
<1>9. /\ Fine(t) /\ t.best = b /\ t.memory = u.memory /\ t.used = u.used
      /\ t.size = u.size /\ t.links = u.links
  <2>1. b \in Block \cup {NULL}
    BY <1>5
  <2>2. QED BY <1>1, <1>5, <2>1, SetBest
<1>10. \A g \in DOMAIN s.links \ {h} : Keeps(s, t, g)
  BY <1>2, <1>6, <1>9 DEF Keeps
<1>11. \A c \in s.links[h] \ {s.best} : s.memory[c].slot # l.slot
         => c \in t.links[h] /\ t.memory[c] = s.memory[c]
  BY <1>2, <1>6, <1>9
<1>12. ASSUME NEW c \in t.links[h] \ {t.best}
       PROVE  c \in s.links[h] \ {s.best} /\ t.memory[c] = s.memory[c]
  <2>1. CASE ~Fits(r, h, l)
    BY <1>2, <1>5, <1>9, <1>12, <2>1
  <2>2. CASE Fits(r, h, l) /\ b = NULL
    <3>1. u.links[h] = r.links[h] \ gone
      BY <1>2, <1>5, <2>2
    <3>2. QED BY <1>2, <1>5, <1>9, <1>12, <2>2, <3>1
  <2>3. CASE b # NULL
    <3>1. u.links[h] = (r.links[h] \ gone) \cup {b}
      BY <1>2, <1>5, <2>3
    <3>2. c \in r.links[h] /\ c # b /\ c \in Block
      BY <1>2, <1>8, <1>9, <1>12, <3>1
    <3>3. u.memory[c] = r.memory[c]
      BY <1>5, <1>8, <2>3, <3>2
    <3>4. QED BY <1>2, <1>9, <3>2, <3>3
  <2>4. QED BY <2>1, <2>2, <2>3
<1>13. t.best = NULL => t.memory = s.memory
                        /\ (l.slot < s.size[h] /\ l.channel <= 15 => t.used = Block)
  <2>1. l.slot < s.size[h] /\ l.channel <= 15 => Fits(r, h, l)
    BY <1>2, <1>8 DEF Fits
  <2>2. QED BY <1>2, <1>5, <1>9, <2>1
<1>14. ASSUME t.best # NULL
       PROVE  /\ t.best \in Block /\ t.best \in t.links[h]
              /\ t.memory = [s.memory EXCEPT ![t.best] = [l EXCEPT !.frame = h]]
              /\ \A c \in Block \ r.used : t.best <= c
              /\ (\A c \in s.links[h] \ {s.best} : s.memory[c].slot # l.slot)
                   => t.best \notin r.used /\ t.used = r.used \cup {t.best}
  <2>1. b # NULL
    BY <1>9, <1>14
  <2>2. b \in u.links[h]
    BY <1>2, <1>5, <2>1
  <2>3. (\A c \in s.links[h] \ {s.best} : s.memory[c].slot # l.slot) => gone = {}
    BY <1>2, <1>7
  <2>4. QED BY <1>2, <1>5, <1>9, <2>1, <2>2, <2>3
<1>15. QED BY <1>2, <1>5, <1>9, <1>10, <1>11, <1>12, <1>13, <1>14 DEF r, Linked

\* And where it is not.
LEMMA NoParentLinkFacts ==
  ASSUME NEW s, Fine(s), NEW n \in Node, NEW m \in Node \cup {0}, NEW applied \in BOOLEAN,
         NEW t, t = AddLinkToBestNode(s, n, m, applied),
         DiscoveryFrame(applied) \notin DOMAIN s.links
  PROVE  /\ Fine(t) /\ t.best = NULL /\ t.memory = s.memory /\ t.used = s.used
         /\ t.size = s.size /\ t.links = s.links /\ t.count = s.count
<1> DEFINE h == DiscoveryFrame(applied)
           l == ParentLink(n, m, applied)
           r == Cleared(s, h)
<1>1. t = [AddLink(r, h, l) EXCEPT !.best = NewBlock(r, h, l)]
  BY DEF AddLinkToBestNode, ParentLink, Cleared
<1> HIDE DEF h, l
<1>2. r = [s EXCEPT !.best = NULL] /\ DOMAIN s.size = DOMAIN s.links
  <2>1. RemoveLinks(s, h, {s.best}) = s
    BY RemoveNothing DEF Fine, h
  <2>2. QED BY <2>1, TypedFields DEF Fine, Cleared
<1> HIDE DEF r
<1>3. /\ Fine(r) /\ r.best = NULL /\ r.memory = s.memory /\ r.used = s.used
      /\ r.size = s.size /\ r.links = s.links /\ r.count = s.count
  BY <1>2, SetBest
<1>4. ~Fits(r, h, l)
  BY <1>2, <1>3 DEF Fits, h
<1>5. AddLink(r, h, l) = r /\ NewBlock(r, h, l) = NULL
  BY <1>4 DEF AddLink, NewBlock
<1>6. t = [r EXCEPT !.best = NULL]
  BY <1>1, <1>5
<1>7. QED BY <1>3, <1>6, SetBest

\* The pointer leads to the parent, and is the only transmit link.
LEMMA BestAfter ==
  ASSUME NEW s, Fine(s), NEW n \in Node, NEW m \in Node \cup {0}, NEW applied \in BOOLEAN,
         NEW t, t = AddLinkToBestNode(s, n, m, applied), NEW h, h = DiscoveryFrame(applied),
         OnlyBestSends(s, h)
  PROVE  /\ OnlyBestSends(t, h)
         /\ t.best # NULL => /\ h \in DOMAIN t.links /\ t.best \in t.links[h]
                             /\ Tx(t.memory[t.best]) /\ t.memory[t.best].to = NbrQueue(m)
<1>1. CASE h \notin DOMAIN s.links
  BY <1>1, NoParentLinkFacts DEF OnlyBestSends
<1>2. CASE h \in DOMAIN s.links
  <2> DEFINE l == ParentLink(n, m, applied)
  <2>1. l \in LinkRecord /\ Tx(l) /\ l.to = NbrQueue(m)
    BY LinksAreLinks DEF ParentLink, Link, Tx
  <2> HIDE DEF l
  <2>2. /\ DOMAIN t.links = DOMAIN s.links
        /\ \A c \in t.links[h] \ {t.best} : c \in s.links[h] \ {s.best} /\ t.memory[c] = s.memory[c]
        /\ t.best # NULL => /\ t.best \in Block /\ t.best \in t.links[h]
                            /\ t.memory = [s.memory EXCEPT ![t.best] = [l EXCEPT !.frame = h]]
    <3>1. Linked(s, t, h, l)
      BY <1>2, ParentLinkFacts DEF l
    <3>2. QED BY <3>1 DEF Linked
  <2>3. OnlyBestSends(t, h)
    BY <1>2, <2>2 DEF OnlyBestSends
  <2>4. t.best # NULL => Tx(t.memory[t.best]) /\ t.memory[t.best].to = NbrQueue(m)
    <3>1. ASSUME t.best # NULL PROVE t.memory[t.best] = [l EXCEPT !.frame = h]
      <4>1. s.memory \in [Block -> LinkRecord]
        BY TypedFields DEF Fine
      <4>2. QED BY <2>2, <3>1, <4>1
    <3>2. QED BY <2>1, <3>1 DEF Tx, LinkRecord
  <2>5. QED BY <1>2, <2>2, <2>3, <2>4
<1>3. QED BY <1>1, <1>2

(***************************************************************************)
(* What generated_schedule does.                                           *)
(***************************************************************************)
\* t is s with the slotframes of the flows up to i, which have no links yet.
Framed(s, t, i) ==
  /\ Fine(t) /\ t.best = s.best /\ t.memory = s.memory
  /\ DOMAIN t.links = DOMAIN s.links \cup 1 .. i
  /\ Keeps(s, t, 0)
  /\ \A g \in 1 .. i : t.links[g] = {} /\ t.size[g] = ScheduleLength

\* After i slotframes: they are there and empty, and the beacons untouched.
LEMMA FlowFramesFacts ==
  ASSUME NEW s, Fine(s), 0 \in DOMAIN s.links, NEW i \in 0 .. MaxFrame
  PROVE  Framed(s, FlowFrames(s)[i], i)
<1> DEFINE P(u, k) == /\ Fine(u) /\ u.best = s.best /\ u.memory = s.memory
                      /\ DOMAIN u.links = DOMAIN s.links \cup 1 .. k
                      /\ Keeps(s, u, 0)
                      /\ \A g \in 1 .. k : u.links[g] = {} /\ u.size[g] = ScheduleLength
           T == {k \in 0 .. MaxFrame : P(FlowFrames(s)[k], k)}
<1>1. MaxFrame \in Nat /\ ScheduleLength \in Nat \ {0}
  BY ScheduleAssumption
<1>2. /\ FlowFrames(s)[0] = s
      /\ \A k \in 1 .. MaxFrame :
           FlowFrames(s)[k] = AddFrame(RemoveFrame(FlowFrames(s)[k - 1], k), k, ScheduleLength)
  BY FlowFramesSteps
<1>3. P(s, 0)
  BY DEF Keeps
<1>4. ASSUME NEW k \in 1 .. MaxFrame, NEW u, NEW v, P(u, k - 1),
             v = AddFrame(RemoveFrame(u, k), k, ScheduleLength)
      PROVE  P(v, k)
  <2>1. k \in Frame /\ k # 0
    BY FrameNumbers
  <2>2. /\ Fine(v) /\ v.memory = u.memory /\ v.best = u.best
        /\ DOMAIN v.links = DOMAIN u.links \cup {k}
        /\ \A g \in DOMAIN u.links \ {k} : Keeps(u, v, g)
        /\ v.links[k] = {} /\ v.size[k] = ScheduleLength
    <3>1. Fine(u) /\ v = AddFrame(RemoveFrame(u, k), k, ScheduleLength)
      BY <1>4
    <3> HIDE DEF P
    <3>2. QED BY <1>1, <2>1, <3>1, ResetFrame
  <2>3. 1 .. k = (1 .. (k - 1)) \cup {k}
    BY <1>1
  <2>4. Keeps(s, v, 0)
    BY <1>4, <2>1, <2>2 DEF Keeps
  <2>5. DOMAIN v.links = DOMAIN s.links \cup 1 .. k
    BY <1>4, <2>2, <2>3
  <2>6. ASSUME NEW g \in 1 .. k PROVE v.links[g] = {} /\ v.size[g] = ScheduleLength
    <3>1. CASE g = k
      BY <2>2, <3>1
    <3>2. CASE g # k
      <4>1. g \in 1 .. (k - 1)
        BY <2>3, <3>2
      <4>2. Keeps(u, v, g) /\ u.links[g] = {} /\ u.size[g] = ScheduleLength
        BY <1>4, <2>2, <3>2, <4>1
      <4>3. QED BY <4>2 DEF Keeps
    <3>3. QED BY <3>1, <3>2
  <2>7. QED BY <1>4, <2>2, <2>4, <2>5, <2>6
<1> HIDE DEF P
<1>5. 0 \in T
  BY <1>1, <1>2, <1>3
<1>6. \A k \in 1 .. MaxFrame : k - 1 \in T => k \in T
  BY <1>1, <1>2, <1>4
<1> HIDE DEF T
<1>7. i \in T
  BY <1>1, <1>5, <1>6, UpTo
<1>8. P(FlowFrames(s)[i], i)
  BY <1>7 DEF T
<1>9. QED BY <1>8 DEF P, Framed

\* tsch_schedule_add_link keeps the slotframes and the pointer.
LEMMA AddLinkTypes ==
  ASSUME NEW s, Fine(s), NEW h, NEW l \in LinkRecord
  PROVE  /\ Fine(AddLink(s, h, l)) /\ AddLink(s, h, l).best = s.best
         /\ AddLink(s, h, l).size = s.size
         /\ DOMAIN AddLink(s, h, l).links = DOMAIN s.links
<1> DEFINE t == AddLink(s, h, l)
           b == NewBlock(s, h, l)
<1>1. Added(s, h, l, t, b)
  BY LinkAdded
<1> HIDE DEF t, b
<1>2. Fine(t) /\ t.best = s.best /\ t.size = s.size /\ DOMAIN t.links = DOMAIN s.links
  BY <1>1 DEF Added
<1>3. QED BY <1>2 DEF t

\* After i generated links: the slotframes of the flows, the beacons untouched.
LEMMA LinksAddedFacts ==
  ASSUME NEW s, Fine(s), 0 \in DOMAIN s.links, NEW n \in Node, NEW i \in 0 .. Len(Generated[n]),
         NEW t, t = LinksAdded(s, n)[i]
  PROVE  /\ Fine(t) /\ t.best = s.best
         /\ DOMAIN t.links = DOMAIN s.links \cup 1 .. MaxFrame
         /\ Keeps(s, t, 0)
<1> DEFINE P(u) == /\ Fine(u) /\ u.best = s.best
                   /\ DOMAIN u.links = DOMAIN s.links \cup 1 .. MaxFrame
                   /\ Keeps(s, u, 0)
           m == Len(Generated[n])
           T == {k \in 0 .. m : P(LinksAdded(s, n)[k])}
<1>1. MaxFrame \in Nat /\ m \in Nat
  BY ScheduleAssumption
<1>2. /\ LinksAdded(s, n)[0] = FlowFrames(s)[MaxFrame]
      /\ \A k \in 1 .. m : LinksAdded(s, n)[k] =
                             AddLink(LinksAdded(s, n)[k - 1], Generated[n][k].frame, Generated[n][k])
  BY LinksAddedSteps
<1>3. P(FlowFrames(s)[MaxFrame])
  <2>1. MaxFrame \in 0 .. MaxFrame
    BY <1>1
  <2>2. QED BY <2>1, FlowFramesFacts DEF Framed
<1>4. ASSUME NEW k \in 1 .. m, NEW u, NEW v, P(u),
             v = AddLink(u, Generated[n][k].frame, Generated[n][k])
      PROVE  P(v)
  <2> DEFINE l == Generated[n][k]
             h == l.frame
  <2>1. l \in LinkRecord /\ h # 0
    BY GeneratedLinks
  <2>2. Fine(v) /\ v.best = u.best /\ DOMAIN v.links = DOMAIN u.links
    BY <1>4, <2>1, AddLinkTypes
  <2>3. Keeps(u, v, 0)
    BY <1>4, <2>1, AddLinkKeeps
  <2>4. Keeps(s, v, 0)
    BY <1>4, <2>3 DEF Keeps
  <2>5. QED BY <1>4, <2>2, <2>4
<1> HIDE DEF P, m
<1>5. 0 \in T
  BY <1>1, <1>2, <1>3
<1>6. \A k \in 1 .. m : k - 1 \in T => k \in T
  BY <1>1, <1>2, <1>4
<1>7. i \in 0 .. m
  BY DEF m
<1> HIDE DEF T
<1>8. i \in T
  BY <1>1, <1>5, <1>6, <1>7, UpTo
<1>9. P(t)
  BY <1>8 DEF T
<1>10. QED BY <1>9 DEF P

-----------------------------------------------------------------------------
(***************************************************************************)
(* The inductive invariant, for a node with schedule s, phase ph, parent m.*)
(***************************************************************************)
Ready(s, ph) ==
  /\ Fine(s)
  /\ 0 \in DOMAIN s.links
  /\ ph = "booted" => DOMAIN s.links = {0}
  /\ ph # "booted" => /\ DiscoveryFrame(ph = "applied") \in DOMAIN s.links
                      /\ s.size[DiscoveryFrame(ph = "applied")] = DiscoveryLength
  /\ OnlyBestSends(s, DiscoveryFrame(ph = "applied"))

Good(s, ph, m) ==
  /\ Ready(s, ph)
  /\ s.best # NULL => /\ DiscoveryFrame(ph = "applied") \in DOMAIN s.links
                      /\ s.best \in s.links[DiscoveryFrame(ph = "applied")]
                      /\ Tx(s.memory[s.best]) /\ s.memory[s.best].to = NbrQueue(m)

\* After the generated schedule, only a full pool leaves a node without the link
\* to its parent.
Full(s, ph) == ph = "applied" /\ s.best = NULL => s.used = Block

\* The discovery slotframe first holds nothing but the listening link.
ListensOnly(s, t, h) ==
  /\ Fine(t) /\ t.best = s.best
  /\ DOMAIN t.links = DOMAIN s.links \cup {h} /\ t.size[h] = DiscoveryLength
  /\ \A c \in t.links[h] : ~Tx(t.memory[c])

\* After install_discovery_schedule no link of the discovery slotframe transmits.
LEMMA ListenOnly ==
  ASSUME NEW s, Fine(s), NEW n \in Node, NEW applied \in BOOLEAN
  PROVE  ListensOnly(s, InstallDiscovery(s, n, applied), DiscoveryFrame(applied))
<1> DEFINE l == ListenLink(n, applied)
           t == InstallDiscovery(s, n, applied)
           h == DiscoveryFrame(applied)
<1>1. l \in LinkRecord /\ ~Tx(l)
  BY LinksAreLinks DEF ListenLink, Link, Tx
<1> HIDE DEF l
<1>2. /\ Fine(t) /\ t.best = s.best
      /\ DOMAIN t.links = DOMAIN s.links \cup {h} /\ t.size[h] = DiscoveryLength
  BY InstallDiscoveryFacts
<1>3. PICK b \in Block \cup {NULL} :
        /\ b = NULL => t.links[h] = {}
        /\ b # NULL => /\ b \in Block
                       /\ t.links[h] = {b}
                       /\ t.memory = [s.memory EXCEPT ![b] = [l EXCEPT !.frame = h]]
  BY InstallDiscoveryFacts DEF l
<1>4. s.memory \in [Block -> LinkRecord]
  BY TypedFields DEF Fine
<1>5. b # NULL => t.memory[b] = [l EXCEPT !.frame = h]
  BY <1>3, <1>4
<1>6. b # NULL => ~Tx(t.memory[b])
  BY <1>1, <1>5 DEF Tx, LinkRecord
<1> HIDE DEF t, h
<1>7. ListensOnly(s, t, h)
  BY <1>2, <1>3, <1>6 DEF ListensOnly
<1>8. QED BY <1>7 DEF t, h

\* The schedule before init_master_routing.
LEMMA EmptyScheduleFine ==
  Fine(NoSchedule) /\ DOMAIN NoSchedule.links = {} /\ NoSchedule.best = NULL
<1>1. MaxLinks \in Nat \ {0} /\ ByteModulus \in Nat \ {0} /\ 0 \in Frame /\ NULL \notin Block
  BY ScheduleAssumption, FrameNumbers DEF Block, NULL
<1>2. DOMAIN << >> = {}
  OBVIOUS
<1>3. << >> \in ByHandle(Nat) /\ << >> \in ByHandle(SUBSET Block)
  <2>1. << >> \in [{} -> Nat] /\ << >> \in [{} -> SUBSET Block]
    OBVIOUS
  <2>2. QED BY <1>2, <2>1, Handles
<1>4. [b \in Block |-> EmptyBlock] \in [Block -> LinkRecord]
  <2>1. NbrQueue(0) \in Address
    BY DEF Address
  <2>2. EmptyBlock \in LinkRecord
    BY <1>1, <2>1 DEF EmptyBlock, LinkRecord
  <2>3. QED BY <2>2
<1>5. [a \in Address |-> 0] \in [Address -> 0 .. ByteModulus - 1]
  BY <1>1
<1>6. Typed(NoSchedule)
  BY <1>2, <1>3, <1>4, <1>5 DEF Typed, NoSchedule
<1>7. Listed(NoSchedule) /\ DOMAIN NoSchedule.links = {} /\ NoSchedule.best = NULL
  BY <1>2 DEF Listed, NoSchedule
<1>8. QED BY <1>6, <1>7 DEF Fine

\* init_master_routing.
LEMMA GoodAtBoot ==
  LET s == AddLink(AddFrame(NoSchedule, 0, 1), 0, EbLink) IN Good(s, "booted", 0) /\ s.best = NULL
<1> DEFINE u == AddFrame(NoSchedule, 0, 1)
           t == AddLink(u, 0, EbLink)
<1>1. Fine(NoSchedule) /\ DOMAIN NoSchedule.links = {} /\ NoSchedule.best = NULL
  BY EmptyScheduleFine
<1>2. 0 \in Frame /\ 1 \in Nat \ {0} /\ EbLink \in LinkRecord
  BY FrameNumbers, LinksAreLinks
<1>3. /\ Fine(u)
      /\ u.memory = NoSchedule.memory /\ u.best = NoSchedule.best
      /\ u.used = NoSchedule.used /\ u.count = NoSchedule.count
      /\ DOMAIN u.links = DOMAIN NoSchedule.links \cup {0}
      /\ \A g \in DOMAIN NoSchedule.links : u.links[g] = NoSchedule.links[g] /\ u.size[g] = NoSchedule.size[g]
      /\ u.links[0] = {} /\ u.size[0] = 1
  BY <1>1, <1>2, AddFrameFacts
<1> HIDE DEF u
<1>4. Fine(t) /\ t.best = u.best /\ DOMAIN t.links = DOMAIN u.links
  BY <1>2, <1>3, AddLinkTypes
<1> HIDE DEF t
<1>5. Fine(t) /\ t.best = NULL /\ DOMAIN t.links = {0}
  BY <1>1, <1>3, <1>4
<1>6. DiscoveryFrame(FALSE) # 0
  BY FrameNumbers
<1>7. Good(t, "booted", 0)
  BY <1>5, <1>6 DEF Good, Ready, OnlyBestSends
<1>8. QED BY <1>5, <1>7 DEF t, u

\* master_install_schedule.
LEMMA GoodAfterInstall ==
  ASSUME NEW s, NEW m, Good(s, "booted", m), NEW n \in Node,
         NEW t, t = InstallDiscovery(AddLink(AddFrame(RemoveFrame(s, 0), 0, EbPeriod), 0, EbLink), n, FALSE)
  PROVE  Good(t, "configured", m)
<1> DEFINE u == AddFrame(RemoveFrame(s, 0), 0, EbPeriod)
           v == AddLink(u, 0, EbLink)
<1>1. Fine(s) /\ DOMAIN s.links = {0} /\ DiscoveryFrame(FALSE) = 1 /\ 1 # 0
  BY FrameNumbers DEF Good, Ready
<1>2. s.best = NULL
  BY <1>1 DEF Good, Ready
<1>3. 0 \in Frame /\ EbPeriod \in Nat \ {0} /\ EbLink \in LinkRecord
  BY FrameNumbers, LinksAreLinks, ScheduleAssumption
<1>4. Fine(u) /\ u.best = s.best /\ DOMAIN u.links = DOMAIN s.links \cup {0}
  BY <1>1, <1>3, ResetFrame
<1>5. t = InstallDiscovery(v, n, FALSE)
  OBVIOUS
<1> HIDE DEF u
<1>6. Fine(v) /\ v.best = u.best /\ DOMAIN v.links = DOMAIN u.links
  BY <1>3, <1>4, AddLinkTypes
<1> HIDE DEF v
<1>7. /\ Fine(t) /\ t.best = v.best
      /\ DOMAIN t.links = DOMAIN v.links \cup {1} /\ t.size[1] = DiscoveryLength
      /\ \A c \in t.links[1] : ~Tx(t.memory[c])
  <2>1. ListensOnly(v, t, 1)
    BY <1>1, <1>5, <1>6, ListenOnly
  <2>2. QED BY <2>1 DEF ListensOnly
<1>8. t.best = NULL /\ DOMAIN t.links = {0, 1}
  BY <1>1, <1>2, <1>4, <1>6, <1>7
<1>9. QED BY <1>1, <1>7, <1>8 DEF Good, Ready, OnlyBestSends

\* add_link_to_best_node, whatever the pointer named before.
LEMMA GoodAfterChoice ==
  ASSUME NEW s, NEW ph \in Phase, Ready(s, ph), NEW n \in Node, NEW k \in Node \cup {0},
         NEW t, t = AddLinkToBestNode(s, n, k, ph = "applied")
  PROVE  Good(t, ph, k) /\ (SlotsExist => Full(t, ph))
<1> DEFINE applied == ph = "applied"
           h == DiscoveryFrame(applied)
           l == ParentLink(n, k, applied)
<1>1. Fine(s) /\ OnlyBestSends(s, h) /\ applied \in BOOLEAN /\ t = AddLinkToBestNode(s, n, k, applied)
  BY DEF Good, Ready
<1>2. h = DiscoveryFrame(applied) /\ l = ParentLink(n, k, applied)
  OBVIOUS
<1>3. ph = "booted" => ~applied
  OBVIOUS
<1>4. /\ 0 \in DOMAIN s.links
      /\ ph = "booted" => DOMAIN s.links = {0}
      /\ ph # "booted" => h \in DOMAIN s.links /\ s.size[h] = DiscoveryLength
  BY DEF Good, Ready
<1>5. SlotsExist => l.slot < DiscoveryLength /\ l.channel <= 15
  <2>1. DiscoveryLength \in Nat \ {0}
    BY ScheduleAssumption
  <2>2. QED BY <2>1 DEF SlotsExist, ParentLink, Link
<1> HIDE DEF h, l
<1>6. CASE h \in DOMAIN s.links
  <2>1. /\ Fine(t) /\ t.size = s.size /\ DOMAIN t.links = DOMAIN s.links
        /\ t.best = NULL => t.memory = s.memory
                            /\ (l.slot < s.size[h] /\ l.channel <= 15 => t.used = Block)
    <3> HIDE DEF applied
    <3>1. Linked(s, t, h, l)
      BY <1>1, <1>2, <1>6, ParentLinkFacts
    <3>2. QED BY <3>1 DEF Linked
  <2>2. /\ OnlyBestSends(t, h)
        /\ t.best # NULL => /\ h \in DOMAIN t.links /\ t.best \in t.links[h]
                            /\ Tx(t.memory[t.best]) /\ t.memory[t.best].to = NbrQueue(k)
    <3> HIDE DEF applied
    <3>1. QED BY <1>1, <1>2, BestAfter
  <2>3. Good(t, ph, k)
    BY <1>2, <1>4, <2>1, <2>2 DEF Good, Ready
  <2>4. SlotsExist => Full(t, ph)
    BY <1>4, <1>5, <2>1 DEF Full
  <2>5. QED BY <2>3, <2>4
<1>7. CASE h \notin DOMAIN s.links
  <2>1. ph = "booted"
    BY <1>4, <1>7
  <2>2. /\ Fine(t) /\ t.best = NULL /\ t.memory = s.memory /\ t.used = s.used
        /\ t.size = s.size /\ t.links = s.links /\ t.count = s.count
    <3> HIDE DEF applied
    <3>1. QED BY <1>1, <1>2, <1>7, NoParentLinkFacts
  <2>3. OnlyBestSends(t, h)
    BY <1>7, <2>2 DEF OnlyBestSends
  <2>4. Good(t, ph, k)
    BY <1>2, <1>4, <2>1, <2>2, <2>3 DEF Good, Ready
  <2>5. QED BY <2>1, <2>4 DEF Full
<1>8. QED BY <1>6, <1>7

\* apply_generated_schedule.
LEMMA GoodAfterApply ==
  ASSUME NEW s, NEW m \in Node \cup {0}, Good(s, "configured", m), NEW n \in Node,
         NEW t, t = ApplyGenerated(s, n, m)
  PROVE  Good(t, "applied", m) /\ (SlotsExist => Full(t, "applied"))
<1> DEFINE L == Len(Generated[n])
           u == LinksAdded(s, n)[L]
           v == InstallDiscovery(u, n, TRUE)
           h == DiscoveryFrame(TRUE)
<1>1. t = AddLinkToBestNode(v, n, m, TRUE)
  BY DEF ApplyGenerated, GeneratedSchedule
<1>2. /\ Fine(u) /\ u.best = s.best
      /\ DOMAIN u.links = DOMAIN s.links \cup 1 .. MaxFrame
      /\ Keeps(s, u, 0)
  <2>1. L \in 0 .. L
    BY ScheduleAssumption
  <2>2. Fine(s) /\ 0 \in DOMAIN s.links
    BY DEF Good, Ready
  <2>3. QED BY <2>1, <2>2, LinksAddedFacts
<1>3. 0 \in DOMAIN u.links
  BY <1>2 DEF Keeps
<1> HIDE DEF u
<1>4. /\ Fine(v) /\ v.best = u.best
      /\ DOMAIN v.links = DOMAIN u.links \cup {h} /\ v.size[h] = DiscoveryLength
      /\ \A c \in v.links[h] : ~Tx(v.memory[c])
  <2>1. ListensOnly(u, v, h)
    BY <1>2, ListenOnly
  <2>2. QED BY <2>1 DEF ListensOnly
<1> HIDE DEF v
<1>5. OnlyBestSends(v, h) /\ h = DiscoveryFrame("applied" = "applied")
  BY <1>4 DEF OnlyBestSends
<1>6. Ready(v, "applied")
  BY <1>3, <1>4, <1>5 DEF Ready
<1>7. QED BY <1>1, <1>6, GoodAfterChoice DEF Phase

-----------------------------------------------------------------------------
\* Whom a node may be told to take as its parent, and where it is.
NodesOK ==
  /\ phase \in [Node -> Phase] /\ bestNode \in [Node -> Node \cup {0}]
  /\ choices \in [Node -> Nat]
  /\ schedule = [n \in Node |-> schedule[n]]

SchedulesGood == \A n \in Node : Good(schedule[n], phase[n], bestNode[n])

ScheduleInv == NodesOK /\ SchedulesGood

SchedulesFull == \A n \in Node : Full(schedule[n], phase[n])

\* The first state.
LEMMA InitEstablishesScheduleInv == Init => ScheduleInv /\ SchedulesFull
<1> SUFFICES ASSUME Init PROVE ScheduleInv /\ SchedulesFull
  OBVIOUS
<1> DEFINE s == AddLink(AddFrame(NoSchedule, 0, 1), 0, EbLink)
<1>1. Good(s, "booted", 0)
  BY GoodAtBoot
<1> HIDE DEF s
<1>2. schedule = [n \in Node |-> s] /\ phase = [n \in Node |-> "booted"]
      /\ bestNode = [n \in Node |-> 0] /\ choices = [n \in Node |-> 0]
  BY DEF Init, s
<1>3. NodesOK
  BY <1>2 DEF NodesOK, Phase
<1>4. SchedulesGood /\ SchedulesFull
  BY <1>1, <1>2 DEF SchedulesGood, SchedulesFull, Full
<1>5. QED BY <1>3, <1>4 DEF ScheduleInv

\* A step changes one node; what it makes of that node's schedule is enough.
LEMMA OneNode ==
  ASSUME ScheduleInv, NEW n \in Node, NEW t, NEW ph \in Phase, NEW m \in Node \cup {0}, NEW k \in Nat,
         schedule' = [schedule EXCEPT ![n] = t], phase' = [phase EXCEPT ![n] = ph],
         bestNode' = [bestNode EXCEPT ![n] = m], choices' = [choices EXCEPT ![n] = k],
         Good(t, ph, m)
  PROVE  ScheduleInv' /\ (SchedulesFull /\ Full(t, ph) => SchedulesFull')
<1>1. NodesOK /\ SchedulesGood
  BY DEF ScheduleInv
<1>2. NodesOK'
  BY <1>1 DEF NodesOK
<1>3. \A x \in Node :
        /\ schedule'[x] = IF x = n THEN t ELSE schedule[x]
        /\ phase'[x] = IF x = n THEN ph ELSE phase[x]
        /\ bestNode'[x] = IF x = n THEN m ELSE bestNode[x]
  BY <1>1 DEF NodesOK
<1>4. ASSUME NEW x \in Node PROVE Good(schedule'[x], phase'[x], bestNode'[x])
  BY <1>1, <1>3 DEF SchedulesGood
<1>5. ASSUME SchedulesFull, Full(t, ph), NEW x \in Node PROVE Full(schedule'[x], phase'[x])
  BY <1>3, <1>5 DEF SchedulesFull
<1>6. SchedulesGood'
  BY <1>4 DEF SchedulesGood
<1>7. SchedulesFull /\ Full(t, ph) => SchedulesFull'
  BY <1>5 DEF SchedulesFull
<1>8. QED BY <1>2, <1>6, <1>7 DEF ScheduleInv

\* Every step: one case per action.
LEMMA StepKeepsScheduleInv ==
  ASSUME ScheduleInv, [Next]_vars
  PROVE  ScheduleInv' /\ (SlotsExist /\ SchedulesFull => SchedulesFull')
<1>1. NodesOK /\ SchedulesGood
  BY DEF ScheduleInv
<1>2. CASE UNCHANGED vars
  BY <1>1, <1>2 DEF vars, ScheduleInv, NodesOK, SchedulesGood, SchedulesFull
<1>3. ASSUME NEW n \in Node, InstallSchedule(n)
      PROVE  ScheduleInv' /\ (SlotsExist /\ SchedulesFull => SchedulesFull')
  <2> DEFINE t == InstallDiscovery(
                    AddLink(AddFrame(RemoveFrame(schedule[n], 0), 0, EbPeriod), 0, EbLink), n, FALSE)
  <2>1. Good(schedule[n], "booted", bestNode[n])
    BY <1>1, <1>3 DEF SchedulesGood, InstallSchedule
  <2>2. Good(t, "configured", bestNode[n])
    BY <2>1, GoodAfterInstall
  <2>3. schedule' = [schedule EXCEPT ![n] = t]
    BY <1>3 DEF InstallSchedule
  <2> HIDE DEF t
  <2>4. /\ phase' = [phase EXCEPT ![n] = "configured"] /\ "configured" \in Phase
        /\ bestNode' = [bestNode EXCEPT ![n] = bestNode[n]] /\ bestNode[n] \in Node \cup {0}
        /\ choices' = [choices EXCEPT ![n] = choices[n]] /\ choices[n] \in Nat
    BY <1>1, <1>3 DEF InstallSchedule, NodesOK, Phase
  <2>5. Full(t, "configured")
    BY DEF Full
  <2>6. QED BY <2>2, <2>3, <2>4, <2>5, OneNode
<1>4. ASSUME NEW n \in Node, NEW m \in Parents[n], ChooseParent(n, m)
      PROVE  ScheduleInv' /\ (SlotsExist /\ SchedulesFull => SchedulesFull')
  <2> DEFINE t == AddLinkToBestNode(schedule[n], n, m, phase[n] = "applied")
  <2>1. m \in Node /\ phase[n] \in Phase
    BY <1>1, ScheduleAssumption DEF NodesOK
  <2>2. Ready(schedule[n], phase[n])
    BY <1>1 DEF SchedulesGood, Good
  <2>3. Good(t, phase[n], m) /\ (SlotsExist => Full(t, phase[n]))
    BY <2>1, <2>2, GoodAfterChoice
  <2>4. schedule' = [schedule EXCEPT ![n] = t]
    BY <1>4 DEF ChooseParent
  <2> HIDE DEF t
  <2>5. /\ phase' = [phase EXCEPT ![n] = phase[n]]
        /\ bestNode' = [bestNode EXCEPT ![n] = m] /\ m \in Node \cup {0}
        /\ choices' = [choices EXCEPT ![n] = choices[n] + 1] /\ choices[n] + 1 \in Nat
    BY <1>1, <1>4, <2>1 DEF ChooseParent, NodesOK
  <2>6. QED BY <2>1, <2>3, <2>4, <2>5, OneNode
<1>5. ASSUME NEW n \in Node, ApplyGeneratedSchedule(n)
      PROVE  ScheduleInv' /\ (SlotsExist /\ SchedulesFull => SchedulesFull')
  <2> DEFINE t == ApplyGenerated(schedule[n], n, bestNode[n])
  <2>1. Good(schedule[n], "configured", bestNode[n]) /\ bestNode[n] \in Node \cup {0}
    BY <1>1, <1>5 DEF SchedulesGood, ApplyGeneratedSchedule, NodesOK
  <2>2. Good(t, "applied", bestNode[n]) /\ (SlotsExist => Full(t, "applied"))
    BY <2>1, GoodAfterApply
  <2>3. schedule' = [schedule EXCEPT ![n] = t]
    BY <1>5 DEF ApplyGeneratedSchedule
  <2> HIDE DEF t
  <2>4. /\ phase' = [phase EXCEPT ![n] = "applied"] /\ "applied" \in Phase
        /\ bestNode' = [bestNode EXCEPT ![n] = bestNode[n]] /\ bestNode[n] \in Node \cup {0}
        /\ choices' = [choices EXCEPT ![n] = choices[n]] /\ choices[n] \in Nat
    BY <1>1, <1>5 DEF ApplyGeneratedSchedule, NodesOK, Phase
  <2>5. QED BY <2>2, <2>3, <2>4, OneNode
<1>6. QED BY <1>2, <1>3, <1>4, <1>5 DEF Next

\* The inductive invariant of the schedules holds in every state.
THEOREM ScheduleInvAlways == Spec => []ScheduleInv
<1>1. Init => ScheduleInv
  BY InitEstablishesScheduleInv
<1>2. ScheduleInv /\ [Next]_vars => ScheduleInv'
  BY StepKeepsScheduleInv
<1>3. QED BY <1>1, <1>2, PTL DEF Spec

\* PoolMatchesLists, for every number of nodes, any generated schedule, any pool and
\* any sequence of installs, parent changes and schedules: the pool of links and the
\* lists of the slotframes agree (tsch-schedule.c).
THEOREM PoolsAgree == Spec => []PoolMatchesLists
<1>1. ScheduleInv => PoolMatchesLists
  <2> SUFFICES ASSUME ScheduleInv, NEW n \in Node, NEW s, s = schedule[n]
               PROVE  /\ s.used = UNION { s.links[h] : h \in DOMAIN s.links }
                      /\ \A h \in DOMAIN s.links : \A b \in s.links[h] :
                           /\ s.memory[b].frame = h
                           /\ \A c \in s.links[h] \ {b} : s.memory[c].slot # s.memory[b].slot
    BY DEF PoolMatchesLists
  <2>1. Fine(s)
    BY DEF ScheduleInv, SchedulesGood, Good, Ready
  <2>2. s.used \subseteq Block /\ s.links \in [DOMAIN s.links -> SUBSET Block]
    BY <2>1, TypedFields DEF Fine
  <2>3. s.used = UNION { s.links[h] : h \in DOMAIN s.links }
    BY <2>1, <2>2 DEF Fine, Listed
  <2>4. QED BY <2>1, <2>3 DEF Fine, Listed
<1>2. QED BY <1>1, ScheduleInvAlways, PTL

\* BestLinkLeadsToParent, if the slots of discovery lie in its slotframe: the pointer
\* of add_link_to_best_node leads to the present parent or the pool is full.
THEOREM PointerLeadsToParent ==
  ASSUME SlotsExist
  PROVE  Spec => []BestLinkLeadsToParent
<1>1. Init => ScheduleInv /\ SchedulesFull
  BY InitEstablishesScheduleInv
<1>2. ScheduleInv /\ SchedulesFull /\ [Next]_vars => ScheduleInv' /\ SchedulesFull'
  BY StepKeepsScheduleInv
<1>3. ScheduleInv /\ SchedulesFull => BestLinkLeadsToParent
  <2> SUFFICES ASSUME ScheduleInv, SchedulesFull, NEW n \in Node, NEW s, s = schedule[n],
                      NEW h, h = DiscoveryFrame(phase[n] = "applied")
               PROVE  /\ s.best # NULL =>
                           /\ { b \in s.links[h] : Tx(s.memory[b]) } = {s.best}
                           /\ s.memory[s.best].to = NbrQueue(bestNode[n])
                      /\ phase[n] = "applied" /\ s.best = NULL => s.used = Block
    BY DEF BestLinkLeadsToParent
  <2>1. Good(s, phase[n], bestNode[n]) /\ Full(s, phase[n])
    BY DEF ScheduleInv, SchedulesGood, SchedulesFull
  <2>2. QED BY <2>1 DEF Good, Ready, OnlyBestSends, Full
<1>4. QED BY <1>1, <1>2, <1>3, PTL DEF Spec

-----------------------------------------------------------------------------
(***************************************************************************)
(* Where the links are: a link that fits and whose slot is free takes the  *)
(* next block of a pool that is used from its start.                       *)
(***************************************************************************)
NextLink(s, t, h, l, k) ==
  /\ Fine(t) /\ t.size = s.size /\ t.best = s.best /\ DOMAIN t.links = DOMAIN s.links
  /\ t.used = 1 .. (k + 1)
  /\ t.links[h] = s.links[h] \cup {k + 1}
  /\ t.memory[k + 1] = [l EXCEPT !.frame = h]
  /\ \A g \in DOMAIN s.links \ {h} : Keeps(s, t, g)
  /\ \A c \in s.links[h] : t.memory[c] = s.memory[c]

\* A link that displaces none takes the block after those in use.
LEMMA NextBlock ==
  ASSUME NEW s, Fine(s), NEW h \in DOMAIN s.links, NEW l \in LinkRecord,
         l.slot < s.size[h], l.channel <= 15,
         \A c \in s.links[h] : s.memory[c].slot # l.slot,
         NEW k \in Nat, s.used = 1 .. k, k < MaxLinks
  PROVE  NextLink(s, AddLink(s, h, l), h, l, k)
<1> DEFINE t == AddLink(s, h, l)
           b == NewBlock(s, h, l)
           gone == InSlot(s, h, l.slot)
<1>1. /\ Fine(t) /\ t.size = s.size /\ t.best = s.best /\ DOMAIN t.links = DOMAIN s.links
      /\ ~Fits(s, h, l) => t = s /\ b = NULL
      /\ Fits(s, h, l) /\ b = NULL =>
           /\ t.used = Block /\ t.memory = s.memory
           /\ t.links = [s.links EXCEPT ![h] = @ \ gone]
      /\ b # NULL =>
           /\ b \in Block /\ b \notin s.used \ gone
           /\ \A c \in Block \ (s.used \ gone) : b <= c
           /\ t.used = (s.used \ gone) \cup {b}
           /\ t.memory = [s.memory EXCEPT ![b] = [l EXCEPT !.frame = h]]
           /\ t.links = [s.links EXCEPT ![h] = (@ \ gone) \cup {b}]
  BY LinkAdded DEF Added
<1>2. /\ \A g \in DOMAIN s.links \ {h} : Keeps(s, t, g)
      /\ h \in DOMAIN s.links => \A c \in s.links[h] : s.memory[c].slot # l.slot
           => c \in t.links[h] /\ t.memory[c] = s.memory[c]
  BY AddLinkKeeps
<1>3. /\ s.memory \in [Block -> LinkRecord] /\ DOMAIN s.size = DOMAIN s.links
      /\ s.links \in [DOMAIN s.links -> SUBSET Block] /\ Listed(s)
  BY TypedFields DEF Fine
<1>4. gone = {}
  BY DEF InSlot
<1>5. Fits(s, h, l)
  BY <1>3 DEF Fits
<1> HIDE DEF t, b, gone
<1>6. k + 1 \in Block /\ k + 1 \notin s.used /\ Block \subseteq Nat
  BY ScheduleAssumption DEF Block
<1>7. b # NULL
  <2>1. ASSUME b = NULL PROVE FALSE
    <3>1. t.used = Block /\ \A g \in DOMAIN s.links : t.links[g] = s.links[g]
      BY <1>1, <1>3, <1>4, <1>5, <2>1
    <3>2. Listed(t)
      BY <1>1 DEF Fine
    <3>3. PICK g \in DOMAIN s.links : k + 1 \in s.links[g]
      BY <1>1, <1>6, <3>1, <3>2 DEF Listed
    <3>4. QED BY <1>3, <1>6, <3>3 DEF Listed
  <2>2. QED BY <2>1
<1>8. b = k + 1
  <2>1. b \in Block /\ b \notin 1 .. k /\ b <= k + 1
    BY <1>1, <1>4, <1>6, <1>7
  <2>2. QED BY <2>1 DEF Block
<1>9. t.used = 1 .. (k + 1)
  <2>1. t.used = s.used \cup {k + 1}
    BY <1>1, <1>4, <1>7, <1>8
  <2>2. QED BY <2>1
<1>10. t.links[h] = s.links[h] \cup {k + 1} /\ t.memory[k + 1] = [l EXCEPT !.frame = h]
  BY <1>1, <1>3, <1>4, <1>6, <1>7, <1>8
<1>11. NextLink(s, t, h, l, k)
  BY <1>1, <1>2, <1>9, <1>10 DEF NextLink
<1>12. QED BY <1>11 DEF t

(***************************************************************************)
(* The generated schedule takes the blocks after that of the beacons.      *)
(***************************************************************************)
\* The first k links of the generated schedule of node n are in place in u.
Placed(u, n, k) ==
  \A g \in 1 .. MaxFrame :
    /\ g \in DOMAIN u.links /\ u.size[g] = ScheduleLength
    /\ \A c : c \in u.links[g] <=> \E j \in 1 .. k : Generated[n][j].frame = g /\ c = j + 1
    /\ \A c \in u.links[g] : u.memory[c] = Generated[n][c - 1]

\* The i-th generated link lies in the block i + 1.
LEMMA GeneratedPlaced ==
  ASSUME GeneratedFits, NEW s, Fine(s), NEW n \in Node,
         DOMAIN s.links = {0, 1}, s.links[0] = {1}, MaxFrame # 0,
         NEW i \in 0 .. Len(Generated[n]), NEW t, t = LinksAdded(s, n)[i]
  PROVE  Fine(t) /\ t.used = 1 .. (i + 1) /\ Placed(t, n, i)
<1> DEFINE L == Len(Generated[n])
           P(u, k) == /\ Fine(u) /\ DOMAIN u.links = 0 .. MaxFrame
                      /\ u.used = 1 .. (k + 1) /\ Placed(u, n, k)
           T == {k \in 0 .. L : P(LinksAdded(s, n)[k], k)}
<1>1. MaxFrame \in Nat /\ L \in Nat /\ L + 2 <= MaxLinks /\ MaxLinks \in Nat
  BY ScheduleAssumption DEF GeneratedFits
<1>2. /\ LinksAdded(s, n)[0] = FlowFrames(s)[MaxFrame]
      /\ \A k \in 1 .. L : LinksAdded(s, n)[k] =
                             AddLink(LinksAdded(s, n)[k - 1], Generated[n][k].frame, Generated[n][k])
  BY LinksAddedSteps
<1>3. P(FlowFrames(s)[MaxFrame], 0)
  <2> DEFINE u == FlowFrames(s)[MaxFrame]
  <2>1. /\ Fine(u) /\ u.best = s.best /\ u.memory = s.memory
        /\ DOMAIN u.links = DOMAIN s.links \cup 1 .. MaxFrame
        /\ Keeps(s, u, 0)
        /\ \A g \in 1 .. MaxFrame : u.links[g] = {} /\ u.size[g] = ScheduleLength
    <3>1. MaxFrame \in 0 .. MaxFrame /\ 0 \in DOMAIN s.links
      BY <1>1
    <3>2. Framed(s, u, MaxFrame)
      BY <3>1, FlowFramesFacts
    <3> HIDE DEF u
    <3>3. QED BY <3>2 DEF Framed
  <2> HIDE DEF u
  <2>2. DOMAIN u.links = 0 .. MaxFrame
    BY <1>1, <2>1
  <2>3. u.links[0] = {1} /\ u.used \subseteq Block /\ Listed(u)
    BY <2>1, TypedFields DEF Keeps, Fine
  <2>4. 1 \in Block
    BY <1>1 DEF Block
  <2>5. ASSUME NEW c \in Block PROVE c \in u.used <=> c = 1
    <3>1. c \in u.used <=> \E g \in 0 .. MaxFrame : c \in u.links[g]
      BY <2>2, <2>3 DEF Listed
    <3>2. \A g \in 0 .. MaxFrame : g = 0 \/ g \in 1 .. MaxFrame
      BY <1>1
    <3>3. 0 \in 0 .. MaxFrame
      BY <1>1
    <3>4. QED BY <2>1, <2>3, <3>1, <3>2, <3>3
  <2>6. u.used = 1 .. (0 + 1)
    BY <2>3, <2>4, <2>5
  <2>7. Placed(u, n, 0)
    BY <1>1, <2>1, <2>2 DEF Placed
  <2>8. P(u, 0)
    BY <2>1, <2>2, <2>6, <2>7
  <2>9. QED BY <2>8 DEF u
<1>4. ASSUME NEW k \in 1 .. L, NEW u, NEW v, P(u, k - 1),
             v = AddLink(u, Generated[n][k].frame, Generated[n][k])
      PROVE  P(v, k)
  <2> DEFINE l == Generated[n][k]
             h == l.frame
  <2>1. l \in LinkRecord /\ h \in 1 .. MaxFrame /\ l.slot < ScheduleLength /\ l.channel <= 15
    BY GeneratedLinks DEF GeneratedFits
  <2>2. h \in DOMAIN u.links /\ u.size[h] = ScheduleLength
    BY <1>4, <2>1 DEF Placed
  <2>3. \A c \in u.links[h] : u.memory[c].slot # l.slot
    <3>1. ASSUME NEW c \in u.links[h] PROVE u.memory[c].slot # l.slot
      <4>1. PICK j \in 1 .. (k - 1) : Generated[n][j].frame = h /\ c = j + 1
        BY <1>4, <2>1, <3>1 DEF Placed
      <4>2. u.memory[c] = Generated[n][c - 1] /\ c - 1 = j
        BY <1>4, <2>1, <3>1, <4>1 DEF Placed
      <4>3. j \in 1 .. L /\ j # k
        BY <1>1, <4>1
      <4>4. QED BY <4>1, <4>2, <4>3 DEF GeneratedFits
    <3>2. QED BY <3>1
  <2>4. k \in Nat /\ k < MaxLinks /\ u.used = 1 .. k /\ Fine(u)
    BY <1>1, <1>4
  <2>5. v = AddLink(u, h, l)
    BY <1>4
  <2>6. [l EXCEPT !.frame = h] = l
    BY <2>1 DEF LinkRecord
  <2> HIDE DEF l, h
  <2>7. NextLink(u, v, h, l, k)
    BY <2>1, <2>2, <2>3, <2>4, <2>5, NextBlock
  <2>8. Placed(v, n, k)
    <3>1. /\ DOMAIN v.links = DOMAIN u.links /\ v.size = u.size
          /\ v.links[h] = u.links[h] \cup {k + 1} /\ v.memory[k + 1] = l
          /\ \A c \in u.links[h] : v.memory[c] = u.memory[c]
          /\ \A g \in DOMAIN u.links \ {h} : Keeps(u, v, g)
      BY <2>6, <2>7 DEF NextLink
    <3>2. ASSUME NEW g \in 1 .. MaxFrame
          PROVE  /\ g \in DOMAIN u.links /\ u.size[g] = ScheduleLength
                 /\ \A c : c \in u.links[g] <=> \E j \in 1 .. (k - 1) : Generated[n][j].frame = g /\ c = j + 1
                 /\ \A c \in u.links[g] : u.memory[c] = Generated[n][c - 1]
      BY <1>4 DEF Placed
    <3>3. ASSUME NEW g \in 1 .. MaxFrame
          PROVE  /\ g \in DOMAIN v.links /\ v.size[g] = ScheduleLength
                 /\ \A c : c \in v.links[g] <=> \E j \in 1 .. k : Generated[n][j].frame = g /\ c = j + 1
                 /\ \A c \in v.links[g] : v.memory[c] = Generated[n][c - 1]
      <4>1. g \in DOMAIN v.links /\ v.size[g] = ScheduleLength
        BY <3>1, <3>2
      <4>2. 1 .. k = (1 .. (k - 1)) \cup {k}
        BY <2>4
      <4>3. CASE g = h
        <5>1. Generated[n][k].frame = g /\ Generated[n][(k + 1) - 1] = l
          BY <2>4, <4>3 DEF h, l
        <5>2. \A c : c \in v.links[g] <=> c \in u.links[g] \/ c = k + 1
          BY <3>1, <4>3
        <5>3. \A c : c \in v.links[g] <=> \E j \in 1 .. k : Generated[n][j].frame = g /\ c = j + 1
          <6>1. ASSUME NEW c, c \in v.links[g]
                PROVE  \E j \in 1 .. k : Generated[n][j].frame = g /\ c = j + 1
            <7>1. CASE c = k + 1
              BY <4>2, <5>1, <7>1
            <7>2. CASE c \in u.links[g]
              BY <3>2, <4>2, <7>2
            <7>3. QED BY <5>2, <6>1, <7>1, <7>2
          <6>2. ASSUME NEW c, NEW j \in 1 .. k, Generated[n][j].frame = g, c = j + 1
                PROVE  c \in v.links[g]
            <7>1. CASE j = k
              BY <5>2, <6>2, <7>1
            <7>2. CASE j \in 1 .. (k - 1)
              BY <3>2, <5>2, <6>2, <7>2
            <7>3. QED BY <4>2, <7>1, <7>2
          <6>3. QED BY <6>1, <6>2
        <5>4. \A c \in v.links[g] : v.memory[c] = Generated[n][c - 1]
          BY <3>1, <3>2, <4>3, <5>1, <5>2
        <5>5. QED BY <4>1, <5>3, <5>4
      <4>4. CASE g # h
        <5>1. Generated[n][k].frame # g
          BY <4>4 DEF h, l
        <5>2. v.links[g] = u.links[g] /\ \A c \in u.links[g] : v.memory[c] = u.memory[c]
          BY <3>1, <3>2, <4>4 DEF Keeps
        <5>3. QED BY <3>2, <4>1, <4>2, <5>1, <5>2
      <4>5. QED BY <4>3, <4>4
    <3>4. QED BY <3>3 DEF Placed
  <2>9. QED BY <1>4, <2>7, <2>8 DEF NextLink
<1> HIDE DEF P, L
<1>5. 0 \in T
  BY <1>1, <1>2, <1>3
<1>6. \A k \in 1 .. L : k - 1 \in T => k \in T
  BY <1>1, <1>2, <1>4
<1>7. i \in 0 .. L
  BY DEF L
<1> HIDE DEF T
<1>8. i \in T
  BY <1>1, <1>5, <1>6, <1>7, UpTo
<1>9. P(t, i)
  BY <1>8 DEF T
<1>10. QED BY <1>9 DEF P

-----------------------------------------------------------------------------
(***************************************************************************)
(* What each node's schedule looks like, as long as the slots of discovery *)
(* are there and the generated schedule fits.                              *)
(***************************************************************************)
In(l, h) == [l EXCEPT !.frame = h]

Beacons(s) ==
  0 \in DOMAIN s.links /\ s.links[0] = {1} /\ s.memory[1] = EbLink /\ s.size[0] = EbPeriod

\* Configured: block 2 listens, block 3 leads to the parent.
ConfiguredShape(s, n, m) ==
  /\ Beacons(s) /\ DOMAIN s.links = {0, 1} /\ s.size[1] = DiscoveryLength
  /\ s.best \in {NULL, 3} /\ s.links[1] = {2} \cup ({s.best} \ {NULL})
  /\ s.memory[2] = In(ListenLink(n, FALSE), 1)
  /\ s.best # NULL => s.memory[s.best] = In(ParentLink(n, m, FALSE), 1) /\ m \in Node

\* Applied: the generated links, then the one that listens, unless it took the
\* block that the pointer still named.
AppliedShape(s, n) ==
  /\ Beacons(s) /\ Placed(s, n, Len(Generated[n]))
  /\ \A c \in s.links[MaxFrame + 1] \ {s.best} : s.memory[c] = In(ListenLink(n, TRUE), MaxFrame + 1)
  /\ Len(Generated[n]) # 1 => Len(Generated[n]) + 2 \in s.links[MaxFrame + 1] \ {s.best}

BestShape(s, n, m) ==
  s.best # NULL => s.memory[s.best] = In(ParentLink(n, m, TRUE), MaxFrame + 1)

Shape(s, ph, n, m) ==
  /\ m \in Parents[n] \cup {0}
  /\ ph = "configured" => ConfiguredShape(s, n, m)
  /\ ph = "applied" => AppliedShape(s, n) /\ BestShape(s, n, m)

\* The link that listens takes the next block.
Listening(s, t, n, applied, k) ==
  /\ Fine(t) /\ t.best = s.best
  /\ DOMAIN t.links = DOMAIN s.links \cup {DiscoveryFrame(applied)}
  /\ t.size[DiscoveryFrame(applied)] = DiscoveryLength
  /\ t.links[DiscoveryFrame(applied)] = {k + 1} /\ t.used = 1 .. (k + 1)
  /\ t.memory[k + 1] = In(ListenLink(n, applied), DiscoveryFrame(applied))
  /\ \A g \in DOMAIN s.links \ {DiscoveryFrame(applied)} : Keeps(s, t, g)

\* The listening link takes the first free block.
LEMMA ListenPlaced ==
  ASSUME DiscoveryFits, NEW s, Fine(s), NEW n \in Node, NEW applied \in BOOLEAN,
         NEW k \in Nat, k < MaxLinks, Outside(s, DiscoveryFrame(applied)) = 1 .. k
  PROVE  Listening(s, InstallDiscovery(s, n, applied), n, applied, k)
<1> DEFINE h == DiscoveryFrame(applied)
           l == ListenLink(n, applied)
           u == AddFrame(RemoveFrame(s, h), h, DiscoveryLength)
           t == AddLink(u, h, l)
<1>1. InstallDiscovery(s, n, applied) = t
  BY DEF InstallDiscovery, ListenLink
<1>2. h \in Frame /\ DiscoveryLength \in Nat \ {0} /\ l \in LinkRecord
  BY FrameNumbers, LinksAreLinks, ScheduleAssumption
<1>3. l.slot < DiscoveryLength /\ l.channel <= 15
  <2>1. /\ n < DiscoveryLength
        /\ Available[n].rxSlot < DiscoveryLength /\ Available[n].rxChannel <= 15
    BY DEF DiscoveryFits, SlotsExist
  <2>2. QED BY <2>1 DEF ListenLink, Link
<1>4. Outside(s, h) = 1 .. k
  OBVIOUS
<1>5. u = AddFrame(RemoveFrame(s, h), h, DiscoveryLength)
  OBVIOUS
<1> HIDE DEF h, l, u
<1>6. /\ Fine(u)
      /\ u.memory = s.memory /\ u.best = s.best
      /\ DOMAIN u.links = DOMAIN s.links \cup {h}
      /\ \A g \in DOMAIN s.links \ {h} : Keeps(s, u, g)
      /\ u.links[h] = {} /\ u.size[h] = DiscoveryLength
      /\ u.used = s.used \ (IF h \in DOMAIN s.links THEN s.links[h] ELSE {})
  BY <1>2, <1>5, ResetFrame
<1>7. u.used = 1 .. k /\ h \in DOMAIN u.links
  BY <1>4, <1>6 DEF Outside
<1>8. NextLink(u, t, h, l, k)
  BY <1>2, <1>3, <1>6, <1>7, NextBlock
<1> HIDE DEF t
<1>9. /\ Fine(t) /\ t.size = u.size /\ t.best = u.best /\ DOMAIN t.links = DOMAIN u.links
      /\ t.used = 1 .. (k + 1) /\ t.links[h] = {k + 1} /\ t.memory[k + 1] = In(l, h)
      /\ \A g \in DOMAIN u.links \ {h} : Keeps(u, t, g)
  BY <1>6, <1>8 DEF NextLink, In
<1>10. \A g \in DOMAIN s.links \ {h} : Keeps(s, t, g)
  BY <1>6, <1>9 DEF Keeps
<1>11. QED BY <1>1, <1>6, <1>9, <1>10 DEF Listening, h, l

\* The beacon link as it lies in its slotframe.
LEMMA EbInPlace ==
  EbLink.slot = 0 /\ EbLink.channel = 0 /\ [EbLink EXCEPT !.frame = 0] = EbLink
BY DEF EbLink, Link

\* master_install_schedule: the beacons in block 1, the listening link in block 2.
LEMMA ShapeAfterInstall ==
  ASSUME GeneratedFits, DiscoveryFits, NEW n \in Node, NEW s, NEW m, Good(s, "booted", m),
         NEW t, t = InstallDiscovery(AddLink(AddFrame(RemoveFrame(s, 0), 0, EbPeriod), 0, EbLink), n, FALSE)
  PROVE  ConfiguredShape(t, n, m)
<1> DEFINE u == AddFrame(RemoveFrame(s, 0), 0, EbPeriod)
           v == AddLink(u, 0, EbLink)
<1>1. Fine(s) /\ DOMAIN s.links = {0} /\ DiscoveryFrame(FALSE) = 1 /\ s.best = NULL
  BY FrameNumbers DEF Good, Ready
<1>2. 0 \in Frame /\ EbPeriod \in Nat \ {0} /\ EbLink \in LinkRecord
  BY FrameNumbers, LinksAreLinks, ScheduleAssumption
<1>3. 0 < MaxLinks /\ 1 < MaxLinks /\ 0 \in Nat /\ 1 \in Nat
  <2>1. Len(Generated[n]) \in Nat /\ 3 <= MaxLinks /\ MaxLinks \in Nat
    BY ScheduleAssumption DEF GeneratedFits
  <2>2. QED BY <2>1
<1>4. s.used = s.links[0]
  <2>1. s.used \subseteq Block /\ s.links[0] \subseteq Block
    BY <1>1, TypedFields DEF Fine
  <2>2. \A b \in Block : b \in s.used <=> b \in s.links[0]
    BY <1>1 DEF Fine, Listed
  <2>3. QED BY <2>1, <2>2
<1>5. u = AddFrame(RemoveFrame(s, 0), 0, EbPeriod)
  OBVIOUS
<1>6. t = InstallDiscovery(v, n, FALSE)
  OBVIOUS
<1> HIDE DEF u
<1>7. /\ Fine(u)
      /\ u.memory = s.memory /\ u.best = s.best
      /\ DOMAIN u.links = DOMAIN s.links \cup {0}
      /\ \A g \in DOMAIN s.links \ {0} : Keeps(s, u, g)
      /\ u.links[0] = {} /\ u.size[0] = EbPeriod
      /\ u.used = s.used \ (IF 0 \in DOMAIN s.links THEN s.links[0] ELSE {})
  BY <1>1, <1>2, <1>5, ResetFrame
<1>8. u.used = 1 .. 0 /\ 0 \in DOMAIN u.links
  BY <1>1, <1>4, <1>7
<1>9. NextLink(u, v, 0, EbLink, 0)
  <2>1. EbLink.slot < u.size[0] /\ EbLink.channel <= 15
    BY <1>2, <1>7, EbInPlace
  <2>2. QED BY <1>2, <1>3, <1>7, <1>8, <2>1, NextBlock
<1> HIDE DEF v
<1>10. /\ Fine(v) /\ v.best = NULL /\ DOMAIN v.links = {0} /\ v.size[0] = EbPeriod
       /\ v.links[0] = {1} /\ v.memory[1] = EbLink /\ v.used = 1 .. 1
  <2>1. /\ Fine(v) /\ v.size = u.size /\ v.best = u.best /\ DOMAIN v.links = DOMAIN u.links
        /\ v.used = 1 .. (0 + 1) /\ v.links[0] = u.links[0] \cup {0 + 1}
        /\ v.memory[0 + 1] = [EbLink EXCEPT !.frame = 0]
    BY <1>9 DEF NextLink
  <2>2. 0 + 1 = 1
    OBVIOUS
  <2>3. v.memory[1] = EbLink
    BY <2>1, <2>2, EbInPlace
  <2>4. v.used = 1 .. 1 /\ v.links[0] = {1}
    BY <1>7, <2>1, <2>2
  <2>5. DOMAIN v.links = {0} /\ v.best = NULL /\ v.size[0] = EbPeriod
    BY <1>1, <1>7, <2>1
  <2>6. Fine(v)
    BY <2>1
  <2>7. QED BY <2>3, <2>4, <2>5, <2>6
<1>11. Outside(v, DiscoveryFrame(FALSE)) = 1 .. 1
  <2> DEFINE h == DiscoveryFrame(FALSE)
  <2>1. h = 1
    BY <1>1
  <2> HIDE DEF h
  <2>2. h \notin DOMAIN v.links
    BY <1>10, <2>1
  <2>3. Outside(v, h) = 1 .. 1
    BY <1>10, <2>2 DEF Outside
  <2>4. QED BY <2>3 DEF h
<1>12. Listening(v, t, n, FALSE, 1)
  <2>1. FALSE \in BOOLEAN
    OBVIOUS
  <2>2. Listening(v, InstallDiscovery(v, n, FALSE), n, FALSE, 1)
    BY <1>3, <1>10, <1>11, <2>1, ListenPlaced
  <2>3. QED BY <1>6, <2>2
<1>13. /\ t.best = NULL /\ DOMAIN t.links = {0, 1} /\ t.size[1] = DiscoveryLength
       /\ t.links[1] = {2} /\ t.memory[2] = In(ListenLink(n, FALSE), 1) /\ Keeps(v, t, 0)
  <2> DEFINE h == DiscoveryFrame(FALSE)
  <2>1. /\ t.best = v.best /\ DOMAIN t.links = DOMAIN v.links \cup {h}
        /\ t.size[h] = DiscoveryLength /\ t.links[h] = {1 + 1}
        /\ t.memory[1 + 1] = In(ListenLink(n, FALSE), h)
        /\ \A g \in DOMAIN v.links \ {h} : Keeps(v, t, g)
    BY <1>12 DEF Listening
  <2>2. h = 1 /\ 1 + 1 = 2 /\ 0 # 1
    <3>1. h = 1
      BY <1>1
    <3>2. 1 + 1 = 2 /\ 0 # 1
      OBVIOUS
    <3>3. QED BY <3>1, <3>2
  <2> HIDE DEF h
  <2>3. t.best = NULL /\ DOMAIN t.links = {0, 1} /\ t.size[1] = DiscoveryLength
    BY <1>10, <2>1, <2>2
  <2>4. t.links[1] = {2} /\ t.memory[2] = In(ListenLink(n, FALSE), 1)
    BY <2>1, <2>2
  <2>5. Keeps(v, t, 0)
    BY <1>10, <2>1, <2>2
  <2>6. QED BY <2>3, <2>4, <2>5
<1>14. Beacons(t)
  BY <1>10, <1>13 DEF Beacons, Keeps
<1>15. QED BY <1>13, <1>14 DEF ConfiguredShape

\* The fields of the links of discovery, and what In changes.
LEMMA DiscoveryLinkFields ==
  ASSUME NEW n \in Node, NEW m \in Node \cup {0}, NEW applied \in BOOLEAN, NEW h
  PROVE  /\ In(ListenLink(n, applied), h).slot = ListenLink(n, applied).slot
         /\ In(ListenLink(n, applied), h).to = NbrQueue(n)
         /\ In(ListenLink(n, applied), h).options = {"rx"}
         /\ In(ListenLink(n, applied), h).channel = ListenLink(n, applied).channel
         /\ In(ListenLink(n, applied), h).frame = h
         /\ In(ParentLink(n, m, applied), h).slot = ParentLink(n, m, applied).slot
         /\ In(ParentLink(n, m, applied), h).to = NbrQueue(m)
         /\ In(ParentLink(n, m, applied), h).options = {"tx"}
         /\ In(ParentLink(n, m, applied), h).channel = ParentLink(n, m, applied).channel
         /\ In(ParentLink(n, m, applied), h).frame = h
BY DEF In, ListenLink, ParentLink, Link

\* The timeslots of discovery before the generated schedule.
LEMMA FirstSlots ==
  ASSUME NEW n \in Node, NEW m \in Node \cup {0}
  PROVE  /\ ListenLink(n, FALSE).slot = n /\ ParentLink(n, m, FALSE).slot = m
         /\ ListenLink(n, FALSE).channel = 0 /\ ParentLink(n, m, FALSE).channel = 0
BY DEF ListenLink, ParentLink, Link

\* ParentLinkFacts, said of the operator itself.
LEMMA ParentLinked ==
  ASSUME NEW s, Fine(s), NEW n \in Node, NEW m \in Node \cup {0}, NEW applied \in BOOLEAN,
         DiscoveryFrame(applied) \in DOMAIN s.links
  PROVE  Linked(s, AddLinkToBestNode(s, n, m, applied), DiscoveryFrame(applied), ParentLink(n, m, applied))
BY ParentLinkFacts

\* The beacons stay where slotframe 0 is untouched.
LEMMA BeaconsStay ==
  ASSUME NEW s, NEW t, Beacons(s), Keeps(s, t, 0)
  PROVE  Beacons(t)
BY DEF Beacons, Keeps

\* A change of parent before the generated schedule.
LEMMA ConfiguredAfterChoice ==
  ASSUME GeneratedFits, NEW n \in Node, NEW s, NEW m, Ready(s, "configured"), ConfiguredShape(s, n, m),
         NEW k \in Parents[n], NEW t, t = AddLinkToBestNode(s, n, k, FALSE)
  PROVE  ConfiguredShape(t, n, k)
<1> DEFINE l == ParentLink(n, k, FALSE)
           r == Cleared(s, 1)
<1>1. k \in Node /\ k # n /\ NULL = 0 /\ NULL \notin Block /\ DiscoveryFrame(FALSE) = 1
  <2>1. DiscoveryFrame(FALSE) = 1
    BY FrameNumbers
  <2>2. NULL = 0 /\ NULL \notin Block
    BY ScheduleAssumption DEF NULL, Block
  <2>3. Parents[n] \subseteq Node /\ n \notin Parents[n]
    BY ScheduleAssumption
  <2>4. QED BY <2>1, <2>2, <2>3
<1>2. Fine(s)
  BY DEF Ready
<1>3. /\ Beacons(s) /\ DOMAIN s.links = {0, 1} /\ s.size[1] = DiscoveryLength
      /\ s.best \in {NULL, 3} /\ s.links[1] = {2} \cup ({s.best} \ {NULL})
      /\ s.memory[2] = In(ListenLink(n, FALSE), 1)
  BY DEF ConfiguredShape
<1>4. s.memory[2].slot = n /\ l.slot = k
  <2>1. In(ListenLink(n, FALSE), 1).slot = n
    BY DEF In, ListenLink, Link
  <2>2. l.slot = k
    BY DEF ParentLink, Link
  <2>3. QED BY <1>3, <2>1, <2>2
<1>5. Linked(s, t, 1, l)
  <2>1. FALSE \in BOOLEAN /\ k \in Node \cup {0} /\ DiscoveryFrame(FALSE) \in DOMAIN s.links
    BY <1>1, <1>3
  <2>2. Linked(s, AddLinkToBestNode(s, n, k, FALSE), DiscoveryFrame(FALSE), l)
    BY <1>2, <2>1, ParentLinked
  <2>3. QED BY <1>1, <2>2
<1> HIDE DEF l
<1>6. ClearedIs(s, 1, r)
  BY <1>2, ClearedFacts
<1> HIDE DEF r
<1>7. s.links[1] \ {s.best} = {2}
  BY <1>1, <1>3
<1>8. r.used = {1, 2}
  <2>1. r.used = s.used \ (s.links[1] \cap {s.best})
    BY <1>3, <1>6 DEF ClearedIs
  <2>2. s.used = {1} \cup s.links[1]
    <3>1. /\ s.used \subseteq Block /\ s.links[1] \subseteq Block /\ s.links[0] \subseteq Block
          /\ \A b \in Block : b \in s.used <=> \E g \in DOMAIN s.links : b \in s.links[g]
      BY <1>2, <1>3, TypedFields DEF Fine, Listed
    <3>2. s.links[0] = {1}
      BY <1>3 DEF Beacons
    <3>3. QED BY <1>3, <3>1, <3>2
  <2>3. s.best # 1
    BY <1>1, <1>3
  <2>4. QED BY <1>7, <2>1, <2>2, <2>3
<1>9. /\ Fine(t) /\ t.size = s.size /\ DOMAIN t.links = DOMAIN s.links
      /\ \A g \in DOMAIN s.links \ {1} : Keeps(s, t, g)
      /\ \A c \in s.links[1] \ {s.best} : s.memory[c].slot # l.slot
           => c \in t.links[1] /\ t.memory[c] = s.memory[c]
      /\ \A c \in t.links[1] \ {t.best} : c \in s.links[1] \ {s.best}
      /\ t.best # NULL => /\ t.best \in Block /\ t.best \in t.links[1]
                          /\ t.memory = [s.memory EXCEPT ![t.best] = [l EXCEPT !.frame = 1]]
                          /\ \A c \in Block \ r.used : t.best <= c
                          /\ (\A c \in s.links[1] \ {s.best} : s.memory[c].slot # l.slot)
                               => t.best \notin r.used
  BY <1>5 DEF Linked, r
<1>10. 2 \in t.links[1] /\ t.memory[2] = s.memory[2]
       /\ \A c \in s.links[1] \ {s.best} : s.memory[c].slot # l.slot
  BY <1>1, <1>4, <1>7, <1>9
<1>11. t.best # NULL => t.best = 3
  <2>1. 3 \in Block
    <3>1. Len(Generated[n]) \in Nat /\ 3 <= MaxLinks /\ MaxLinks \in Nat
      BY ScheduleAssumption DEF GeneratedFits
    <3>2. QED BY <3>1 DEF Block
  <2>2. ASSUME t.best # NULL PROVE t.best = 3
    <3>1. 3 \notin r.used
      BY <1>8
    <3>2. t.best \in Block /\ t.best \notin r.used /\ \A c \in Block \ r.used : t.best <= c
      BY <1>9, <1>10, <2>2
    <3>3. t.best <= 3 /\ t.best # 1 /\ t.best # 2
      BY <1>8, <2>1, <3>1, <3>2
    <3>4. t.best \in Nat /\ t.best # 0
      <4>1. \A b \in Block : b \in Nat /\ b # 0
        BY ScheduleAssumption DEF Block
      <4>2. QED BY <3>2, <4>1
    <3>5. \A b \in Nat : b <= 3 /\ b # 0 /\ b # 1 /\ b # 2 => b = 3
      OBVIOUS
    <3>6. QED BY <3>3, <3>4, <3>5
  <2>3. QED BY <2>2
<1>12. t.links[1] = {2} \cup ({t.best} \ {NULL})
  <2>1. NULL \notin t.links[1]
    <3>1. t.links \in [DOMAIN t.links -> SUBSET Block] /\ 1 \in DOMAIN t.links
      <4>1. Fine(t) /\ DOMAIN t.links = DOMAIN s.links
        BY <1>9
      <4>2. QED BY <1>3, <4>1, TypedFields DEF Fine
    <3>2. QED BY <1>1, <3>1
  <2>2. \A c \in t.links[1] \ {t.best} : c = 2
    BY <1>7, <1>9
  <2>3. t.best # NULL => t.best \in t.links[1]
    BY <1>9
  <2>4. 2 \in t.links[1]
    BY <1>10
  <2>5. QED BY <2>1, <2>2, <2>3, <2>4
<1>13. t.best # NULL => t.memory[t.best] = In(l, 1)
  <2>1. s.memory \in [Block -> LinkRecord]
    BY <1>2, TypedFields DEF Fine
  <2>2. QED BY <1>9, <2>1 DEF In
<1>14. Beacons(t)
  <2>1. Keeps(s, t, 0)
    <3>1. \A g \in DOMAIN s.links \ {1} : Keeps(s, t, g)
      BY <1>9
    <3>2. 0 \in DOMAIN s.links \ {1}
      BY <1>3
    <3>3. QED BY <3>1, <3>2
  <2>2. QED BY <1>3, <2>1, BeaconsStay
<1>15. t.best \in {NULL, 3}
  BY <1>11
<1>16. QED BY <1>1, <1>3, <1>9, <1>10, <1>12, <1>13, <1>14, <1>15 DEF ConfiguredShape, l

\* The generated links stay where their slotframes are untouched.
LEMMA PlacedStays ==
  ASSUME NEW s, NEW t, NEW n, NEW k, Placed(s, n, k), \A g \in 1 .. MaxFrame : Keeps(s, t, g)
  PROVE  Placed(t, n, k)
BY DEF Placed, Keeps

\* A change of parent after the generated schedule.
LEMMA AppliedAfterChoice ==
  ASSUME DiscoveryFits, NEW n \in Node, NEW s, Ready(s, "applied"), AppliedShape(s, n),
         NEW k \in Parents[n] \cup {0}, NEW t, t = AddLinkToBestNode(s, n, k, TRUE)
  PROVE  AppliedShape(t, n) /\ BestShape(t, n, k)
<1> DEFINE l == ParentLink(n, k, TRUE)
           h == MaxFrame + 1
           w == Len(Generated[n]) + 2
           r == Cleared(s, h)
<1>1. k \in Node \cup {0} /\ DiscoveryFrame(TRUE) = h /\ h # 0
      /\ \A g \in 1 .. MaxFrame : g # h
  BY FrameNumbers, ScheduleAssumption
<1>2. Fine(s) /\ h \in DOMAIN s.links
  <2>1. DiscoveryFrame("applied" = "applied") \in DOMAIN s.links /\ Fine(s)
    BY DEF Ready
  <2>2. QED BY <1>1, <2>1
<1>3. Linked(s, t, h, l)
  <2>1. TRUE \in BOOLEAN /\ DiscoveryFrame(TRUE) \in DOMAIN s.links
    BY <1>1, <1>2
  <2>2. Linked(s, AddLinkToBestNode(s, n, k, TRUE), DiscoveryFrame(TRUE), l)
    BY <1>1, <1>2, <2>1, ParentLinked
  <2>3. QED BY <1>1, <2>2
<1>4. l.slot # ListenLink(n, TRUE).slot
  BY DEF DiscoveryFits
<1>5. /\ Beacons(s) /\ Placed(s, n, Len(Generated[n]))
      /\ \A c \in s.links[h] \ {s.best} : s.memory[c] = In(ListenLink(n, TRUE), h)
      /\ Len(Generated[n]) # 1 => w \in s.links[h] \ {s.best}
  BY DEF AppliedShape
<1>6. ClearedIs(s, h, r)
  BY <1>2, ClearedFacts
<1> HIDE DEF l, h, w, r
<1>7. /\ Fine(t) /\ DOMAIN t.links = DOMAIN s.links
      /\ \A g \in DOMAIN s.links \ {h} : Keeps(s, t, g)
      /\ \A c \in s.links[h] \ {s.best} : s.memory[c].slot # l.slot
           => c \in t.links[h] /\ t.memory[c] = s.memory[c]
      /\ \A c \in t.links[h] \ {t.best} : c \in s.links[h] \ {s.best} /\ t.memory[c] = s.memory[c]
      /\ t.best # NULL => /\ t.best \in Block
                          /\ t.memory = [s.memory EXCEPT ![t.best] = [l EXCEPT !.frame = h]]
                          /\ (\A c \in s.links[h] \ {s.best} : s.memory[c].slot # l.slot)
                               => t.best \notin r.used
  BY <1>3 DEF Linked, r
<1>8. \A c \in s.links[h] \ {s.best} : s.memory[c].slot # l.slot
  <2>1. In(ListenLink(n, TRUE), h).slot = ListenLink(n, TRUE).slot
    BY DEF In, ListenLink, Link
  <2>2. QED BY <1>4, <1>5, <2>1
<1>9. Beacons(t)
  <2>1. Keeps(s, t, 0)
    BY <1>1, <1>5, <1>7 DEF Beacons
  <2>2. QED BY <1>5, <2>1, BeaconsStay
<1>10. Placed(t, n, Len(Generated[n]))
  <2>1. \A g \in 1 .. MaxFrame : Keeps(s, t, g)
    BY <1>1, <1>5, <1>7 DEF Placed
  <2>2. QED BY <1>5, <2>1, PlacedStays
<1>11. \A c \in t.links[h] \ {t.best} : t.memory[c] = In(ListenLink(n, TRUE), h)
  BY <1>5, <1>7
<1>12. ASSUME Len(Generated[n]) # 1 PROVE w \in t.links[h] \ {t.best}
  <2>1. w \in s.links[h] \ {s.best} /\ w \in t.links[h]
    BY <1>5, <1>7, <1>8, <1>12
  <2>2. w \in Block /\ w \in s.used /\ NULL \notin Block
    <3>1. w \in Block
      BY <1>2, <2>1, TypedFields DEF Fine
    <3>2. QED BY <1>2, <2>1, <3>1, ScheduleAssumption DEF Fine, Listed, NULL, Block
  <2>3. w \in r.used
    BY <1>2, <1>6, <2>1, <2>2 DEF ClearedIs
  <2>4. QED BY <1>7, <1>8, <2>1, <2>2, <2>3
<1>13. BestShape(t, n, k)
  <2>1. s.memory \in [Block -> LinkRecord]
    BY <1>2, TypedFields DEF Fine
  <2>2. t.best # NULL => t.memory[t.best] = In(l, h)
    BY <1>7, <2>1 DEF In
  <2>3. QED BY <2>2 DEF BestShape, l, h
<1>14. QED BY <1>9, <1>10, <1>11, <1>12, <1>13 DEF AppliedShape, h, w

\* apply_generated_schedule: every link it adds has a block of its own, but the old
\* pointer to block 3 may take one away again.
LEMMA ShapeAfterApply ==
  ASSUME GeneratedFits, DiscoveryFits, NEW n \in Node, NEW s, NEW m \in Parents[n] \cup {0},
         Good(s, "configured", m), ConfiguredShape(s, n, m), NEW t, t = ApplyGenerated(s, n, m)
  PROVE  AppliedShape(t, n) /\ BestShape(t, n, m)
<1> DEFINE L == Len(Generated[n])
           u == LinksAdded(s, n)[L]
           v == InstallDiscovery(u, n, TRUE)
           h == MaxFrame + 1
<1>1. t = AddLinkToBestNode(v, n, m, TRUE)
  BY DEF ApplyGenerated, GeneratedSchedule
<1>2. /\ L \in Nat /\ MaxFrame \in Nat /\ L + 2 <= MaxLinks /\ MaxLinks \in Nat
      /\ L \in 0 .. L
  BY ScheduleAssumption DEF GeneratedFits
<1>3. /\ Fine(s) /\ Beacons(s) /\ DOMAIN s.links = {0, 1} /\ s.best \in {NULL, 3}
      /\ s.links[1] = {2} \cup ({s.best} \ {NULL})
  BY DEF Good, Ready, ConfiguredShape
<1>4. s.links[0] = {1} /\ 0 \in DOMAIN s.links
  BY <1>3 DEF Beacons
<1>5. /\ Fine(u) /\ u.best = s.best
      /\ DOMAIN u.links = DOMAIN s.links \cup 1 .. MaxFrame
      /\ Keeps(s, u, 0)
  BY <1>2, <1>3, <1>4, LinksAddedFacts
<1>6. u.used \subseteq Block /\ DiscoveryFrame(TRUE) = h /\ NULL = 0
  BY <1>5, TypedFields, FrameNumbers DEF Fine, NULL
<1>7. Outside(u, h) = 1 .. (L + 1) /\ Placed(u, n, L)
  <2>1. CASE MaxFrame # 0
    <3>1. u.used = 1 .. (L + 1) /\ Placed(u, n, L)
      BY <1>2, <1>3, <1>4, <2>1, GeneratedPlaced
    <3> HIDE DEF u
    <3>2. h \notin DOMAIN u.links
      BY <1>2, <1>3, <1>5, <2>1
    <3>3. QED BY <3>1, <3>2 DEF Outside
  <2>2. CASE MaxFrame = 0
    <3>1. L = 0
      <4>1. ASSUME L # 0 PROVE FALSE
        <5>1. 1 \in 1 .. L
          BY <1>2, <4>1
        <5>2. Generated[n][1].frame \in 1 .. MaxFrame
          BY <5>1, GeneratedLinks
        <5>3. QED BY <2>2, <5>2
      <4>2. QED BY <4>1
    <3>2. u = s
      BY <2>2, <3>1, LinksAddedSteps, FlowFramesSteps
    <3> HIDE DEF u
    <3>3. h = 1
      BY <2>2
    <3>4. s.used = {1} \cup s.links[1]
      <4>1. /\ s.used \subseteq Block /\ s.links[1] \subseteq Block /\ s.links[0] \subseteq Block
            /\ \A b \in Block : b \in s.used <=> \E g \in DOMAIN s.links : b \in s.links[g]
        BY <1>3, TypedFields DEF Fine, Listed
      <4>2. QED BY <1>3, <1>4, <4>1
    <3>5. 1 \notin s.links[1]
      BY <1>3
    <3>6. Outside(u, h) = {1}
      BY <1>3, <3>2, <3>3, <3>4, <3>5 DEF Outside
    <3>7. Placed(u, n, L)
      BY <2>2 DEF Placed
    <3> HIDE DEF L
    <3>8. 1 .. (L + 1) = {1}
      BY <3>1
    <3>9. QED BY <3>6, <3>7, <3>8
  <2>3. QED BY <2>1, <2>2
<1>8. Keeps(s, u, 0) /\ Beacons(u)
  BY <1>3, <1>5, BeaconsStay
<1> HIDE DEF u
<1>9. Listening(u, v, n, TRUE, L + 1)
  <2>1. TRUE \in BOOLEAN /\ L + 1 \in Nat /\ L + 1 < MaxLinks
    BY <1>2
  <2>2. Outside(u, DiscoveryFrame(TRUE)) = 1 .. (L + 1)
    BY <1>6, <1>7
  <2> HIDE DEF L
  <2>3. QED BY <1>5, <2>1, <2>2, ListenPlaced
<1>10. ListensOnly(u, v, h)
  BY <1>5, <1>6, ListenOnly
<1> HIDE DEF v
<1>11. /\ Fine(v) /\ v.best = s.best /\ v.size[h] = DiscoveryLength
       /\ DOMAIN v.links = DOMAIN u.links \cup {h}
       /\ \A c \in v.links[h] : ~Tx(v.memory[c])
  BY <1>5, <1>10 DEF ListensOnly
<1>12. /\ v.links[h] = {L + 2} /\ v.memory[L + 2] = In(ListenLink(n, TRUE), h)
       /\ \A g \in DOMAIN u.links \ {h} : Keeps(u, v, g)
  <2>1. (L + 1) + 1 = L + 2
    BY <1>2
  <2> HIDE DEF L, h
  <2>2. /\ v.links[h] = {(L + 1) + 1} /\ v.memory[(L + 1) + 1] = In(ListenLink(n, TRUE), h)
        /\ \A g \in DOMAIN u.links \ {h} : Keeps(u, v, g)
    BY <1>6, <1>9 DEF Listening
  <2>3. QED BY <2>1, <2>2
<1>13. Ready(v, "applied")
  <2>1. "applied" # "booted" /\ ("applied" = "applied") = TRUE
    OBVIOUS
  <2>2. 0 \in DOMAIN v.links /\ h \in DOMAIN v.links
    BY <1>4, <1>5, <1>11
  <2>3. OnlyBestSends(v, h)
    BY <1>11 DEF OnlyBestSends
  <2>4. QED BY <1>6, <1>11, <2>1, <2>2, <2>3 DEF Ready
<1>14. AppliedShape(v, n)
  <2>1. Beacons(v)
    <3>1. 0 \in DOMAIN u.links \ {h}
      BY <1>2, <1>4, <1>5
    <3>2. Keeps(u, v, 0)
      BY <1>12, <3>1
    <3>3. QED BY <1>8, <3>2, BeaconsStay
  <2>2. Placed(v, n, L)
    <3>1. ASSUME NEW g \in 1 .. MaxFrame PROVE Keeps(u, v, g)
      <4>1. g \in DOMAIN u.links /\ g # h
        BY <1>2, <1>5
      <4>2. QED BY <1>12, <4>1
    <3>2. QED BY <1>7, <3>1, PlacedStays
  <2>3. \A c \in v.links[h] \ {v.best} : v.memory[c] = In(ListenLink(n, TRUE), h)
    BY <1>12
  <2>4. L # 1 => L + 2 \in v.links[h] \ {v.best}
    <3> HIDE DEF L, h
    <3>1. L # 1 => L + 2 # 3 /\ L + 2 # 0
      BY <1>2
    <3>2. L # 1 => L + 2 # v.best
      BY <1>3, <1>6, <1>11, <3>1
    <3>3. QED BY <1>12, <3>2
  <2>5. QED BY <2>1, <2>2, <2>3, <2>4 DEF AppliedShape
<1>15. QED BY <1>1, <1>13, <1>14, AppliedAfterChoice

ShapesOK == \A n \in Node : Shape(schedule[n], phase[n], n, bestNode[n])

\* The first state.
LEMMA InitEstablishesShapes == Init => ShapesOK
BY DEF Init, ShapesOK, Shape

\* A step changes one node; the shape of that node's schedule is enough.
LEMMA OneShape ==
  ASSUME ScheduleInv, ShapesOK, NEW n \in Node, NEW t, NEW ph, NEW m,
         schedule' = [schedule EXCEPT ![n] = t], phase' = [phase EXCEPT ![n] = ph],
         bestNode' = [bestNode EXCEPT ![n] = m], Shape(t, ph, n, m)
  PROVE  ShapesOK'
<1>1. NodesOK
  BY DEF ScheduleInv
<1>2. \A x \in Node :
        /\ schedule'[x] = IF x = n THEN t ELSE schedule[x]
        /\ phase'[x] = IF x = n THEN ph ELSE phase[x]
        /\ bestNode'[x] = IF x = n THEN m ELSE bestNode[x]
  BY <1>1 DEF NodesOK
<1>3. ASSUME NEW x \in Node PROVE Shape(schedule'[x], phase'[x], x, bestNode'[x])
  BY <1>2 DEF ShapesOK
<1>4. QED BY <1>3 DEF ShapesOK

\* Every step: one case per action.
LEMMA StepKeepsShapes ==
  ASSUME GeneratedFits, DiscoveryFits, ScheduleInv, ShapesOK, [Next]_vars
  PROVE  ShapesOK'
<1>1. NodesOK /\ SchedulesGood
  BY DEF ScheduleInv
<1>2. CASE UNCHANGED vars
  BY <1>2 DEF vars, ShapesOK
<1>3. ASSUME NEW n \in Node, InstallSchedule(n) PROVE ShapesOK'
  <2> DEFINE t == InstallDiscovery(
                    AddLink(AddFrame(RemoveFrame(schedule[n], 0), 0, EbPeriod), 0, EbLink), n, FALSE)
             m == bestNode[n]
  <2>1. Good(schedule[n], "booted", m)
    BY <1>1, <1>3 DEF SchedulesGood, InstallSchedule
  <2>2. ConfiguredShape(t, n, m)
    BY <2>1, ShapeAfterInstall
  <2>3. schedule' = [schedule EXCEPT ![n] = t]
    BY <1>3 DEF InstallSchedule
  <2>4. m \in Parents[n] \cup {0}
    BY DEF ShapesOK, Shape
  <2> HIDE DEF t
  <2>5. Shape(t, "configured", n, m)
    BY <2>2, <2>4 DEF Shape
  <2>6. phase' = [phase EXCEPT ![n] = "configured"] /\ bestNode' = [bestNode EXCEPT ![n] = m]
    BY <1>1, <1>3 DEF InstallSchedule, NodesOK
  <2>7. QED BY <2>3, <2>5, <2>6, OneShape
<1>4. ASSUME NEW n \in Node, NEW k \in Parents[n], ChooseParent(n, k) PROVE ShapesOK'
  <2> DEFINE s == schedule[n]
             ph == phase[n]
             t == AddLinkToBestNode(s, n, k, ph = "applied")
  <2>1. ph \in Phase /\ Ready(s, ph) /\ Shape(s, ph, n, bestNode[n])
    BY <1>1 DEF NodesOK, SchedulesGood, Good, ShapesOK
  <2>2. schedule' = [schedule EXCEPT ![n] = t] /\ bestNode' = [bestNode EXCEPT ![n] = k]
        /\ phase' = [phase EXCEPT ![n] = ph]
    BY <1>1, <1>4 DEF ChooseParent, NodesOK
  <2>3. t = AddLinkToBestNode(s, n, k, ph = "applied")
    OBVIOUS
  <2> HIDE DEF s, ph, t
  <2>4. k \in Parents[n] \cup {0}
    OBVIOUS
  <2>5. ph = "configured" => ConfiguredShape(t, n, k)
    <3>1. ASSUME ph = "configured" PROVE ConfiguredShape(t, n, k)
      <4>1. (ph = "applied") = FALSE
        BY <3>1
      <4>2. t = AddLinkToBestNode(s, n, k, FALSE)
        BY <2>3, <4>1
      <4>3. Ready(s, "configured") /\ ConfiguredShape(s, n, bestNode[n])
        BY <2>1, <3>1 DEF Shape
      <4>4. QED BY <4>2, <4>3, ConfiguredAfterChoice
    <3>2. QED BY <3>1
  <2>6. ph = "applied" => AppliedShape(t, n) /\ BestShape(t, n, k)
    <3>1. ASSUME ph = "applied" PROVE AppliedShape(t, n) /\ BestShape(t, n, k)
      <4>1. (ph = "applied") = TRUE
        BY <3>1
      <4>2. t = AddLinkToBestNode(s, n, k, TRUE)
        BY <2>3, <4>1
      <4>3. Ready(s, "applied") /\ AppliedShape(s, n)
        BY <2>1, <3>1 DEF Shape
      <4>4. QED BY <2>4, <4>2, <4>3, AppliedAfterChoice
    <3>2. QED BY <3>1
  <2>7. Shape(t, ph, n, k)
    BY <2>4, <2>5, <2>6 DEF Shape
  <2>8. QED BY <2>2, <2>7, OneShape
<1>5. ASSUME NEW n \in Node, ApplyGeneratedSchedule(n) PROVE ShapesOK'
  <2> DEFINE s == schedule[n]
             m == bestNode[n]
             t == ApplyGenerated(s, n, m)
  <2>1. Good(s, "configured", m) /\ Shape(s, "configured", n, m)
    BY <1>1, <1>5 DEF SchedulesGood, ApplyGeneratedSchedule, ShapesOK
  <2>2. schedule' = [schedule EXCEPT ![n] = t] /\ bestNode' = [bestNode EXCEPT ![n] = m]
        /\ phase' = [phase EXCEPT ![n] = "applied"]
    BY <1>1, <1>5 DEF ApplyGeneratedSchedule, NodesOK
  <2>3. t = ApplyGenerated(s, n, m)
    OBVIOUS
  <2> HIDE DEF s, m, t
  <2>4. m \in Parents[n] \cup {0} /\ ConfiguredShape(s, n, m)
    BY <2>1 DEF Shape
  <2>5. AppliedShape(t, n) /\ BestShape(t, n, m)
    BY <2>1, <2>3, <2>4, ShapeAfterApply
  <2>6. Shape(t, "applied", n, m)
    BY <2>4, <2>5 DEF Shape
  <2>7. QED BY <2>2, <2>6, OneShape
<1>6. QED BY <1>2, <1>3, <1>4, <1>5 DEF Next

\* The shape of every node's schedule, in every state.
LEMMA ShapesAlways ==
  ASSUME GeneratedFits, DiscoveryFits
  PROVE  Spec => []ShapesOK
<1>1. Init => ShapesOK
  BY InitEstablishesShapes
<1>2. ScheduleInv /\ ShapesOK /\ [Next]_vars => ShapesOK'
  BY StepKeepsShapes
<1>3. QED BY <1>1, <1>2, ScheduleInvAlways, PTL DEF Spec

\* DiscoveryKept, for every network whose generated schedule fits its slotframes and
\* the pool, and whose discovery slots are apart: a node keeps its beacons and the
\* link on which it hears its children, whatever happens to its parent.
THEOREM DiscoveryStays ==
  ASSUME GeneratedFits, DiscoveryFits
  PROVE  Spec => []DiscoveryKept
<1>1. ScheduleInv /\ ShapesOK => DiscoveryKept
  <2> SUFFICES ASSUME ScheduleInv, ShapesOK, NEW n \in Node, phase[n] # "booted",
                      NEW s, s = schedule[n], NEW h, h = DiscoveryFrame(phase[n] = "applied")
               PROVE  /\ \E b \in s.links[0] : s.memory[b] = EbLink
                      /\ \/ \E b \in s.links[h] : Rx(s.memory[b]) /\ s.memory[b].to = NbrQueue(n)
                         \/ phase[n] = "applied" /\ Len(Generated[n]) = 1
    BY DEF DiscoveryKept
  <2>1. Shape(s, phase[n], n, bestNode[n]) /\ phase[n] \in {"configured", "applied"}
    BY DEF ScheduleInv, NodesOK, Phase, ShapesOK
  <2>2. CASE phase[n] = "configured"
    <3>1. /\ Beacons(s) /\ 2 \in s.links[1] /\ s.memory[2] = In(ListenLink(n, FALSE), 1)
      BY <2>1, <2>2 DEF Shape, ConfiguredShape
    <3>2. h = 1
      <4>1. (phase[n] = "applied") = FALSE
        BY <2>2
      <4>2. QED BY <4>1, FrameNumbers
    <3>3. Rx(In(ListenLink(n, FALSE), 1)) /\ In(ListenLink(n, FALSE), 1).to = NbrQueue(n)
      BY DEF In, ListenLink, Link, Rx
    <3>4. QED BY <3>1, <3>2, <3>3 DEF Beacons
  <2>3. CASE phase[n] = "applied"
    <3> DEFINE w == Len(Generated[n]) + 2
    <3>1. /\ Beacons(s)
          /\ \A c \in s.links[MaxFrame + 1] \ {s.best} :
               s.memory[c] = In(ListenLink(n, TRUE), MaxFrame + 1)
          /\ Len(Generated[n]) # 1 => w \in s.links[MaxFrame + 1] \ {s.best}
      BY <2>1, <2>3 DEF Shape, AppliedShape
    <3>2. h = MaxFrame + 1
      <4>1. (phase[n] = "applied") = TRUE
        BY <2>3
      <4>2. QED BY <4>1, FrameNumbers
    <3>3. Rx(In(ListenLink(n, TRUE), h)) /\ In(ListenLink(n, TRUE), h).to = NbrQueue(n)
      BY DEF In, ListenLink, Link, Rx
    <3> HIDE DEF w
    <3>4. Len(Generated[n]) # 1 => w \in s.links[h] /\ s.memory[w] = In(ListenLink(n, TRUE), h)
      BY <3>1, <3>2
    <3>5. \E b \in s.links[0] : s.memory[b] = EbLink
      BY <3>1 DEF Beacons
    <3>6. QED BY <2>3, <3>3, <3>4, <3>5
  <2>4. QED BY <2>1, <2>2, <2>3
<1>2. QED BY <1>1, ScheduleInvAlways, ShapesAlways, PTL

(***************************************************************************)
(* Where a node sends to its parent and where the parent listens.          *)
(***************************************************************************)
\* A slot number and the one a slotframe later are the same timeslot.
LEMMA Wrapped ==
  ASSUME NEW d \in Nat \ {0}, NEW m \in Nat, m < d
  PROVE  m % d = m /\ (m + d) % d = m
  OBVIOUS

\* If beacons come at both, the slotframe is a multiple of their period.
LEMMA TwiceZero ==
  ASSUME NEW d \in Nat, NEW m \in Nat, NEW e \in Nat \ {0}, m % e = 0, (m + d) % e = 0
  PROVE  d % e = 0
<1> DEFINE a == m \div e
           b == (m + d) \div e
<1>1. a \in Nat /\ b \in Nat /\ m = a * e + (m % e) /\ m + d = b * e + ((m + d) % e)
  OBVIOUS
<1>2. d = b * e - a * e
  <2>1. m = a * e /\ m + d = b * e /\ a * e \in Int /\ b * e \in Int
    BY <1>1
  <2> HIDE DEF a, b
  <2>2. QED BY <2>1
<1> HIDE DEF a, b
<1>3. d = (b - a) * e + 0 /\ b - a \in Int
  BY <1>1, <1>2
<1>4. ((b - a) * e + 0) % e = 0
  <2>1. \A k \in Int : (k * e + 0) % e = 0
    OBVIOUS
  <2>2. QED BY <1>3, <2>1
<1>5. QED BY <1>3, <1>4

\* Some slot of timeslot m is not a slot of the beacons.
LEMMA SlotWithoutBeacons ==
  ASSUME BeaconsMove, NEW m \in Nat, m < DiscoveryLength
  PROVE  \E k \in 0 .. EbPeriod - 1 : LET asn == m + k * DiscoveryLength IN
           asn \in Nat /\ asn % DiscoveryLength = m /\ asn % EbPeriod # 0
<1>1. DiscoveryLength \in Nat \ {0} /\ EbPeriod \in Nat \ {0}
  BY ScheduleAssumption
<1>2. EbPeriod # 1
  <2>1. DiscoveryLength % 1 = 0
    BY <1>1
  <2>2. QED BY <2>1 DEF BeaconsMove
<1>3. 0 \in 0 .. EbPeriod - 1 /\ 1 \in 0 .. EbPeriod - 1
  BY <1>1, <1>2
<1>4. m + 0 * DiscoveryLength = m /\ m + 1 * DiscoveryLength = m + DiscoveryLength
      /\ m + DiscoveryLength \in Nat
  BY <1>1
<1>5. m % DiscoveryLength = m /\ (m + DiscoveryLength) % DiscoveryLength = m
  BY <1>1, Wrapped
<1>6. m % EbPeriod # 0 \/ (m + DiscoveryLength) % EbPeriod # 0
  BY <1>1, TwiceZero DEF BeaconsMove
<1>7. CASE m % EbPeriod # 0
  BY <1>3, <1>4, <1>5, <1>7
<1>8. CASE (m + DiscoveryLength) % EbPeriod # 0
  BY <1>3, <1>4, <1>5, <1>8
<1>9. QED BY <1>6, <1>7, <1>8

\* In a slot that is not for beacons, a configured node has the link on which it
\* listens in its own timeslot, the one to its parent in the parent's, and no other.
OnlyDiscovery(s, n, m, asn) ==
  /\ \A k \in ActiveAt(s, asn) :
       \/ k = In(ListenLink(n, FALSE), 1) /\ asn % DiscoveryLength = n
       \/ k = In(ParentLink(n, m, FALSE), 1) /\ asn % DiscoveryLength = m /\ s.best # NULL
  /\ asn % DiscoveryLength = n => In(ListenLink(n, FALSE), 1) \in ActiveAt(s, asn)
  /\ asn % DiscoveryLength = m /\ s.best # NULL =>
       In(ParentLink(n, m, FALSE), 1) \in ActiveAt(s, asn)

\* At a slot number without beacons, only the discovery slotframe is active.
LEMMA ConfiguredActive ==
  ASSUME NEW n \in Node, NEW m, NEW s, Fine(s), ConfiguredShape(s, n, m),
         NEW asn \in Nat, asn % EbPeriod # 0
  PROVE  OnlyDiscovery(s, n, m, asn)
<1> DEFINE a == In(ListenLink(n, FALSE), 1)
           p == In(ParentLink(n, m, FALSE), 1)
<1>1. /\ s.links[0] = {1} /\ s.memory[1] = EbLink /\ s.size[0] = EbPeriod
      /\ DOMAIN s.links = {0, 1} /\ s.size[1] = DiscoveryLength
      /\ s.best \in {NULL, 3} /\ s.links[1] = {2} \cup ({s.best} \ {NULL})
      /\ s.memory[2] = a
      /\ s.best # NULL => s.memory[s.best] = p /\ m \in Node
  BY DEF ConfiguredShape, Beacons
<1>2. EbLink.slot = 0 /\ EbLink.frame = 0
  BY DEF EbLink, Link
<1>3. a.slot = n /\ a.frame = 1
  BY DEF In, ListenLink, Link
<1>4. p.slot = m /\ p.frame = 1
  BY DEF In, ParentLink, Link
<1> HIDE DEF a, p
<1>5. s.used \subseteq Block /\ \A b \in Block : b \in s.used <=> \E h \in DOMAIN s.links : b \in s.links[h]
  BY TypedFields DEF Fine, Listed
<1>6. s.links[0] \subseteq Block /\ s.links[1] \subseteq Block
  BY <1>1, TypedFields DEF Fine
<1>7. \A b : b \in s.used <=> b = 1 \/ b = 2 \/ (b = s.best /\ s.best # NULL)
  BY <1>1, <1>5, <1>6
<1>8. \A k : k \in ActiveAt(s, asn) <=>
               \E b \in s.used : k = s.memory[b] /\ s.memory[b].slot = asn % s.size[s.memory[b].frame]
  BY DEF ActiveAt
<1>9. asn % EbPeriod # EbLink.slot
  BY <1>2
<1>10. ASSUME NEW k \in ActiveAt(s, asn)
       PROVE  \/ k = a /\ asn % DiscoveryLength = n
              \/ k = p /\ asn % DiscoveryLength = m /\ s.best # NULL
  <2>1. PICK b \in s.used : k = s.memory[b] /\ s.memory[b].slot = asn % s.size[s.memory[b].frame]
    BY <1>8
  <2>2. CASE b = 1
    BY <1>1, <1>2, <1>9, <2>1, <2>2
  <2>3. CASE b = 2
    BY <1>1, <1>3, <2>1, <2>3
  <2>4. CASE b = s.best /\ s.best # NULL
    BY <1>1, <1>4, <2>1, <2>4
  <2>5. QED BY <1>7, <2>1, <2>2, <2>3, <2>4
<1>11. asn % DiscoveryLength = n => a \in ActiveAt(s, asn)
  <2>1. s.memory[2].slot = n /\ s.size[s.memory[2].frame] = DiscoveryLength /\ 2 \in s.used
    BY <1>1, <1>3, <1>7
  <2>2. QED BY <1>1, <1>8, <2>1
<1>12. asn % DiscoveryLength = m /\ s.best # NULL => p \in ActiveAt(s, asn)
  <2>1. ASSUME s.best # NULL
        PROVE  s.memory[s.best].slot = m /\ s.size[s.memory[s.best].frame] = DiscoveryLength
               /\ s.best \in s.used
    BY <1>1, <1>4, <1>7, <2>1
  <2>2. QED BY <1>1, <1>8, <2>1
<1>13. QED BY <1>10, <1>11, <1>12 DEF OnlyDiscovery, a, p

\* LinkMeetsParent, for every network whose discovery slotframe is not a multiple of
\* the beacons': whatever parents a node and its parent had before, there is a slot
\* in which the node runs its link to the parent and the parent the link on which it
\* listens, on the same channel offset.
THEOREM ParentHears ==
  ASSUME GeneratedFits, DiscoveryFits, BeaconsMove
  PROVE  Spec => []LinkMeetsParent
<1>1. ASSUME ScheduleInv, ShapesOK, NEW n \in Node, NEW m, m = bestNode[n],
             phase[n] = "configured", phase[m] = "configured", schedule[n].best # NULL
      PROVE  HeardByParent(n)
  <2> DEFINE s == schedule[n]
             r == schedule[m]
             b == bestNode[m]
             l == s.memory[s.best]
             p == In(ParentLink(n, m, FALSE), 1)
             k == In(ListenLink(m, FALSE), 1)
  <2>1. m \in Node /\ m # n /\ l = p /\ s.size[1] = DiscoveryLength
    <3>1. Shape(s, "configured", n, m)
      BY <1>1 DEF ShapesOK
    <3>2. ConfiguredShape(s, n, m) /\ m \in Parents[n] \cup {0}
      BY <3>1 DEF Shape
    <3>3. n \notin Parents[n] /\ n # 0
      BY ScheduleAssumption
    <3>4. QED BY <1>1, <3>2, <3>3 DEF ConfiguredShape
  <2>2. ConfiguredShape(s, n, m) /\ ConfiguredShape(r, m, b) /\ b # m /\ Fine(s) /\ Fine(r)
    <3>1. Shape(s, "configured", n, m) /\ Shape(r, "configured", m, b)
      BY <1>1, <2>1 DEF ShapesOK
    <3>2. b # m
      BY <2>1, <3>1, ScheduleAssumption DEF Shape
    <3>3. Fine(s) /\ Fine(r)
      BY <1>1, <2>1 DEF ScheduleInv, SchedulesGood, Good, Ready
    <3>4. QED BY <3>1, <3>2, <3>3 DEF Shape
  <2>3. m \in Nat /\ m < DiscoveryLength
    BY <2>1, ScheduleAssumption DEF DiscoveryFits, SlotsExist
  <2>4. PICK i \in 0 .. EbPeriod - 1 : LET asn == m + i * DiscoveryLength IN
          asn \in Nat /\ asn % DiscoveryLength = m /\ asn % EbPeriod # 0
    BY <2>3, SlotWithoutBeacons
  <2> DEFINE asn == m + i * DiscoveryLength
  <2>5. asn \in Nat /\ asn % DiscoveryLength = m /\ asn % EbPeriod # 0
    BY <2>4
  <2>6. p.slot = m /\ p.frame = 1 /\ p.channel = 0 /\ k.channel = 0 /\ Rx(k)
    BY DEF In, ParentLink, ListenLink, Link, Rx
  <2>7. asn \in TimesOf(s, l)
    BY <2>1, <2>6 DEF TimesOf
  <2> HIDE DEF asn
  <2>8. OnlyDiscovery(s, n, m, asn) /\ OnlyDiscovery(r, m, b, asn)
    BY <2>1, <2>2, <2>5, ConfiguredActive
  <2> HIDE DEF s, r, b, l, p, k
  <2>9. ActiveAt(s, asn) = {p}
    BY <1>1, <2>1, <2>5, <2>8 DEF OnlyDiscovery, p, s
  <2>10. ActiveAt(r, asn) = {k}
    BY <2>1, <2>2, <2>5, <2>8 DEF OnlyDiscovery, k
  <2>11. RunsAt(n, asn) = {p} /\ RunsAt(m, asn) = {k}
    BY <2>9, <2>10 DEF RunsAt, s, r
  <2>12. l \in RunsAt(n, asn) /\ k \in RunsAt(m, asn) /\ Rx(k) /\ k.channel = l.channel
    BY <2>1, <2>6, <2>11
  <2>13. QED BY <1>1, <2>7, <2>12 DEF HeardByParent, s, l
<1>2. ScheduleInv /\ ShapesOK => LinkMeetsParent
  BY <1>1 DEF LinkMeetsParent
<1>3. QED BY <1>2, ScheduleInvAlways, ShapesAlways, PTL

(***************************************************************************)
(* Both ends of a generated link.                                          *)
(***************************************************************************)
\* Where a link of a flow lies after the generated schedule was applied.
LEMMA FlowLinks ==
  ASSUME NEW n \in Node, NEW s, Fine(s), AppliedShape(s, n), NEW b \in s.used
  PROVE  \E h \in DOMAIN s.links :
           /\ b \in s.links[h] /\ s.memory[b].frame = h /\ h \in 0 .. MaxFrame + 1
           /\ h \in 1 .. MaxFrame =>
                \E i \in 1 .. Len(Generated[n]) : b = i + 1 /\ s.memory[b] = Generated[n][i]
<1>1. PICK h \in DOMAIN s.links : b \in s.links[h]
  BY TypedFields DEF Fine, Listed
<1>2. s.memory[b].frame = h /\ h \in 0 .. MaxFrame + 1
  BY <1>1, TypedFields DEF Fine, Listed, Frame
<1>3. ASSUME h \in 1 .. MaxFrame
      PROVE  \E i \in 1 .. Len(Generated[n]) : b = i + 1 /\ s.memory[b] = Generated[n][i]
  <2>1. Placed(s, n, Len(Generated[n]))
    BY DEF AppliedShape
  <2>2. /\ b \in s.links[h] <=> \E j \in 1 .. Len(Generated[n]) : Generated[n][j].frame = h /\ b = j + 1
        /\ s.memory[b] = Generated[n][b - 1]
    BY <1>1, <1>3, <2>1 DEF Placed
  <2>3. PICK i \in 1 .. Len(Generated[n]) : b = i + 1
    BY <1>1, <2>2
  <2>4. b - 1 = i
    BY <2>3
  <2>5. QED BY <2>2, <2>3, <2>4
<1>4. QED BY <1>1, <1>2, <1>3

\* At a slot number without beacons, a generated link is the only one active.
LEMMA OnlyGenerated ==
  ASSUME CellsMeet, NEW m \in Node, NEW p, NEW r, Fine(r), Ready(r, "applied"),
         Shape(r, "applied", m, p), NEW j \in 1 .. Len(Generated[m]),
         NEW asn, asn % EbPeriod # 0, asn % ScheduleLength = Generated[m][j].slot
  PROVE  ActiveAt(r, asn) = {Generated[m][j]}
<1> DEFINE k == Generated[m][j]
           d == MaxFrame + 1
<1>1. /\ AppliedShape(r, m) /\ BestShape(r, m, p) /\ p \in Parents[m] \cup {0}
      /\ Beacons(r) /\ Placed(r, m, Len(Generated[m]))
  BY DEF Shape, AppliedShape
<1>2. /\ ScheduleLength = DiscoveryLength
      /\ \A i \in 1 .. Len(Generated[m]) \ {j} : Generated[m][i].slot # k.slot
      /\ k.slot # ListenLink(m, TRUE).slot /\ k.slot # ParentLink(m, p, TRUE).slot
  BY <1>1 DEF CellsMeet
<1>3. k.frame \in 1 .. MaxFrame /\ MaxFrame \in Nat
  BY GeneratedLinks, ScheduleAssumption
<1>4. r.size[d] = DiscoveryLength
  <2>1. ("applied" = "applied") = TRUE
    OBVIOUS
  <2>2. QED BY <2>1, FrameNumbers DEF Ready
<1>5. j + 1 \in r.used /\ r.memory[j + 1] = k
  <2>1. j + 1 \in r.links[k.frame] /\ k.frame \in DOMAIN r.links
    BY <1>1, <1>3 DEF Placed
  <2>2. r.memory[j + 1] = Generated[m][(j + 1) - 1] /\ (j + 1) - 1 = j
    BY <1>1, <1>3, <2>1 DEF Placed
  <2>3. j + 1 \in r.used
    BY <2>1, TypedFields DEF Fine, Listed
  <2>4. QED BY <2>2, <2>3
<1>6. r.size[k.frame] = ScheduleLength
  BY <1>1, <1>3 DEF Placed
<1>7. ASSUME NEW b \in r.used, r.memory[b].slot = asn % r.size[r.memory[b].frame]
      PROVE  r.memory[b] = k
  <2>1. PICK h \in DOMAIN r.links :
           /\ b \in r.links[h] /\ r.memory[b].frame = h /\ h \in 0 .. d
           /\ h \in 1 .. MaxFrame =>
                \E i \in 1 .. Len(Generated[m]) : b = i + 1 /\ r.memory[b] = Generated[m][i]
    BY <1>1, FlowLinks
  <2>2. r.memory[b].slot = asn % r.size[h]
    BY <1>7, <2>1
  <2>3. CASE h = 0
    <3>1. b = 1 /\ r.memory[b].slot = 0 /\ r.size[h] = EbPeriod
      BY <1>1, <2>1, <2>3, EbInPlace DEF Beacons
    <3>2. QED BY <2>2, <3>1
  <2>4. CASE h \in 1 .. MaxFrame
    <3>1. PICK i \in 1 .. Len(Generated[m]) : b = i + 1 /\ r.memory[b] = Generated[m][i]
      BY <2>1, <2>4
    <3>2. r.size[h] = ScheduleLength
      BY <1>1, <2>4 DEF Placed
    <3>3. Generated[m][i].slot = k.slot
      BY <2>2, <3>1, <3>2
    <3>4. i = j
      BY <1>2, <3>3
    <3>5. QED BY <3>1, <3>4
  <2>5. CASE h = d
    <3>1. asn % r.size[h] = k.slot
      BY <1>2, <1>4, <2>5
    <3>2. CASE b = r.best
      <4>1. r.best # NULL
        <5>1. NULL \notin Block /\ b \in Block
          BY <2>1, TypedFields, ScheduleAssumption DEF Fine, Block, NULL
        <5>2. QED BY <3>2, <5>1
      <4>2. r.memory[b] = In(ParentLink(m, p, TRUE), d)
        BY <1>1, <3>2, <4>1 DEF BestShape
      <4>3. r.memory[b].slot = ParentLink(m, p, TRUE).slot
        BY <4>2 DEF In, ParentLink, Link
      <4>4. QED BY <1>2, <2>2, <3>1, <4>3
    <3>3. CASE b # r.best
      <4>1. r.memory[b] = In(ListenLink(m, TRUE), d)
        BY <1>1, <2>1, <2>5, <3>3 DEF AppliedShape
      <4>2. r.memory[b].slot = ListenLink(m, TRUE).slot
        BY <4>1 DEF In, ListenLink, Link
      <4>3. QED BY <1>2, <2>2, <3>1, <4>2
    <3>4. QED BY <3>2, <3>3
  <2>6. h = 0 \/ h \in 1 .. MaxFrame \/ h = d
    BY <1>3, <2>1
  <2>7. QED BY <2>3, <2>4, <2>5, <2>6
<1> HIDE DEF k, d
<1>8. k \in ActiveAt(r, asn)
  <2>1. r.memory[j + 1].slot = asn % r.size[r.memory[j + 1].frame]
    BY <1>5, <1>6 DEF k
  <2>2. QED BY <1>5, <2>1 DEF ActiveAt
<1>9. \A x \in ActiveAt(r, asn) : x = k
  BY <1>7 DEF ActiveAt
<1>10. QED BY <1>8, <1>9 DEF k

\* CellsAgree, for every network whose generated schedule has both ends of each link
\* and keeps the slots of a node apart, as the scheduler's do: the two ends of a
\* transmit link of a flow run in the same slots, on the same channel offset, though
\* beacons displace links of flows (tsch_schedule_get_next_active_link).
THEOREM EndsAgree ==
  ASSUME GeneratedFits, DiscoveryFits, CellsMeet
  PROVE  Spec => []CellsAgree
<1>1. ASSUME ScheduleInv, ShapesOK, NEW n \in Node, phase[n] = "applied",
             NEW b \in schedule[n].used, NEW l, l = schedule[n].memory[b],
             Tx(l), l.frame \in 1 .. MaxFrame, NEW m, m = l.to[1], phase[m] = "applied",
             NEW asn, l \in RunsAt(n, asn)
      PROVE  \E k \in RunsAt(m, asn) : Rx(k) /\ k.frame = l.frame /\ k.channel = l.channel
  <2> DEFINE s == schedule[n]
             r == schedule[m]
  <2>1. /\ Fine(s) /\ Ready(s, "applied") /\ Shape(s, "applied", n, bestNode[n])
        /\ AppliedShape(s, n) /\ Beacons(s) /\ Placed(s, n, Len(Generated[n]))
    BY <1>1 DEF ScheduleInv, SchedulesGood, Good, Ready, ShapesOK, Shape, AppliedShape
  <2>2. PICK i \in 1 .. Len(Generated[n]) : l = Generated[n][i]
    BY <1>1, <2>1, FlowLinks
  <2>3. m \in Node
    <3>1. PICK x \in Node : l.to = NbrQueue(x)
      BY <2>2, GeneratedLinks
    <3>2. QED BY <1>1, <3>1 DEF NbrQueue
  <2>4. PICK j \in 1 .. Len(Generated[m]) :
          /\ Rx(Generated[m][j]) /\ Generated[m][j].frame = l.frame
          /\ Generated[m][j].slot = l.slot /\ Generated[m][j].channel = l.channel
    <3>1. Tx(Generated[n][i]) /\ Generated[n][i].to[1] = m
      BY <1>1, <2>2
    <3>2. \E j \in 1 .. Len(Generated[Generated[n][i].to[1]]) :
            LET k == Generated[Generated[n][i].to[1]][j] IN
            /\ Rx(k) /\ k.frame = Generated[n][i].frame
            /\ k.slot = Generated[n][i].slot /\ k.channel = Generated[n][i].channel
      BY <2>2, <3>1 DEF CellsMeet
    <3>3. \E j \in 1 .. Len(Generated[m]) :
            /\ Rx(Generated[m][j]) /\ Generated[m][j].frame = l.frame
            /\ Generated[m][j].slot = l.slot /\ Generated[m][j].channel = l.channel
      BY <2>2, <3>1, <3>2
    <3>4. QED BY <3>3
  <2>5. Fine(r) /\ Ready(r, "applied") /\ Shape(r, "applied", m, bestNode[m])
    BY <1>1, <2>3 DEF ScheduleInv, SchedulesGood, Good, Ready, ShapesOK
  <2>6. l \in ActiveAt(s, asn) /\ \A k \in ActiveAt(s, asn) \ {l} : Before(l, k)
    BY <1>1 DEF RunsAt
  <2>7. asn % ScheduleLength = l.slot
    <3>1. PICK c \in s.used : l = s.memory[c] /\ s.memory[c].slot = asn % s.size[s.memory[c].frame]
      BY <2>6 DEF ActiveAt
    <3>2. s.size[l.frame] = ScheduleLength
      BY <1>1, <2>1 DEF Placed
    <3>3. QED BY <3>1, <3>2
  <2>8. asn % EbPeriod # 0
    <3>1. SUFFICES ASSUME asn % EbPeriod = 0 PROVE FALSE
      OBVIOUS
    <3>2. /\ 1 \in s.links[0] /\ 0 \in DOMAIN s.links /\ s.memory[1] = EbLink
          /\ s.size[0] = EbPeriod /\ EbLink.frame = 0 /\ EbLink.slot = 0 /\ Tx(EbLink)
      BY <2>1, EbInPlace DEF Beacons, EbLink, Link, Tx
    <3>3. 1 \in s.used
      BY <2>1, <3>2, TypedFields DEF Fine, Listed
    <3>4. EbLink \in ActiveAt(s, asn)
      <4>1. s.memory[1].slot = asn % s.size[s.memory[1].frame]
        BY <3>1, <3>2
      <4>2. QED BY <3>2, <3>3, <4>1 DEF ActiveAt
    <3>5. EbLink # l /\ ~(l.frame < EbLink.frame)
      BY <1>1, <3>2
    <3>6. ~Before(l, EbLink)
      BY <1>1, <3>2, <3>5 DEF Before
    <3>7. QED BY <2>6, <3>4, <3>5, <3>6
  <2> HIDE DEF s, r
  <2>9. ActiveAt(r, asn) = {Generated[m][j]}
    BY <2>3, <2>4, <2>5, <2>7, <2>8, OnlyGenerated
  <2>10. Generated[m][j] \in RunsAt(m, asn)
    BY <2>9 DEF RunsAt, r
  <2>11. QED BY <2>4, <2>10
<1>2. ScheduleInv /\ ShapesOK => CellsAgree
  <2> SUFFICES ASSUME ScheduleInv, ShapesOK, NEW n \in Node, phase[n] = "applied",
                      NEW b \in schedule[n].used, NEW l, l = schedule[n].memory[b],
                      Tx(l), l.frame \in 1 .. MaxFrame, phase[l.to[1]] = "applied",
                      NEW asn \in TimesOf(schedule[n], l), l \in RunsAt(n, asn)
               PROVE  \E k \in RunsAt(l.to[1], asn) :
                        Rx(k) /\ k.frame = l.frame /\ k.channel = l.channel
    BY DEF CellsAgree
  <2>1. QED BY <1>1
<1>3. QED BY <1>2, ScheduleInvAlways, ShapesAlways, PTL

-----------------------------------------------------------------------------
(***************************************************************************)
(* The counters of transmit links. A link is counted at the queue of its   *)
(* slotframe when it comes and at its own address when it goes; as long as *)
(* no link is addressed to the queue of a slotframe, those counters only   *)
(* go up.                                                                  *)
(***************************************************************************)
FlowQueues == { FlowQueue(g) : g \in Frame }

Quiet(l) == Tx(l) => l.to \notin FlowQueues

\* Every link in a list is quiet, and the one best_tsch_shedule_link still names.
Quietly(s) ==
  /\ \A g \in DOMAIN s.links : \A b \in s.links[g] : Quiet(s.memory[b])
  /\ s.best # NULL => Quiet(s.memory[s.best])

Senders(s, g) == { b \in s.links[g] : Tx(s.memory[b]) }

\* The queue of slotframe g counts its transmit links and at least d[g] more, and none
\* counts more than c.
Covers(s, d) ==
  \A g \in DOMAIN s.links : Cardinality(Senders(s, g)) + d[g] <= s.count[FlowQueue(g)]
Below(s, c) == \A g \in Frame : s.count[FlowQueue(g)] <= c

\* What may be spare: nothing, or one at slotframe 0.
Spare == { d \in [Frame -> {0, 1}] : \A g \in Frame \ {0} : d[g] = 0 }
None  == [g \in Frame |-> 0]
AtZero == [g \in Frame |-> IF g = 0 THEN 1 ELSE 0]

Counts(s, c, d) == Fine(s) /\ Quietly(s) /\ Covers(s, d) /\ Below(s, c)

\* The two amounts that may be spare.
LEMMA SpareKinds == None \in Spare /\ AtZero \in Spare /\ 0 \in Frame
BY FrameNumbers DEF Spare, None, AtZero

\* The addresses of slotframes differ from those of nodes, except for node 0.
LEMMA QueueAddresses ==
  /\ \A g \in Frame : FlowQueue(g) \in Address /\ FlowQueue(g) \in FlowQueues
  /\ \A g, i \in Frame : FlowQueue(g) = FlowQueue(i) => g = i
  /\ \A m \in Node : NbrQueue(m) \notin FlowQueues
  /\ Broadcast \notin FlowQueues /\ NbrQueue(0) = FlowQueue(0)
<1>1. Frame \subseteq Nat /\ \A m \in Node : m # 0
  BY ScheduleAssumption DEF Frame
<1>2. \A g : FlowQueue(g) = <<0, g>>
  BY DEF FlowQueue
<1>3. \A m : NbrQueue(m) = <<m, 0>>
  BY DEF NbrQueue
<1>4. \A m, g : m # 0 => <<m, 0>> # <<0, g>>
  OBVIOUS
<1>5. \A m \in Node : NbrQueue(m) \notin FlowQueues
  BY <1>1, <1>2, <1>3, <1>4 DEF FlowQueues
<1>6. Broadcast \notin FlowQueues
  BY <1>1, <1>2, <1>3, <1>4 DEF FlowQueues, Broadcast
<1>7. \A g, i : <<0, g>> = <<0, i>> => g = i
  OBVIOUS
<1>8. \A g \in Frame : FlowQueue(g) \in Address /\ FlowQueue(g) \in FlowQueues
  BY DEF Address, FlowQueues
<1>9. QED BY <1>2, <1>3, <1>5, <1>6, <1>7, <1>8

\* Only the link to no parent is addressed to the queue of a slotframe.
LEMMA QuietLinks ==
  /\ Quiet(EbLink)
  /\ \A n \in Node, applied \in BOOLEAN :
       Quiet(ListenLink(n, applied)) /\ ~Tx(ListenLink(n, applied))
  /\ \A n \in Node, m \in Node, applied \in BOOLEAN : Quiet(ParentLink(n, m, applied))
  /\ \A n \in Node : \A i \in 1 .. Len(Generated[n]) : Quiet(Generated[n][i])
<1>1. Quiet(EbLink)
  BY QueueAddresses DEF EbLink, Link, Quiet
<1>2. ASSUME NEW n \in Node, NEW applied \in BOOLEAN PROVE ~Tx(ListenLink(n, applied))
  BY DEF ListenLink, Link, Tx
<1>3. ASSUME NEW n \in Node, NEW m \in Node, NEW applied \in BOOLEAN
      PROVE  ParentLink(n, m, applied).to \notin FlowQueues
  <2>1. ParentLink(n, m, applied).to = NbrQueue(m)
    BY DEF ParentLink, Link
  <2>2. QED BY <2>1, QueueAddresses
<1>4. ASSUME NEW n \in Node, NEW i \in 1 .. Len(Generated[n]) PROVE Generated[n][i].to \notin FlowQueues
  BY GeneratedLinks, QueueAddresses
<1>5. QED BY <1>1, <1>2, <1>3, <1>4 DEF Quiet

\* The counter of a slotframe is a byte.
LEMMA FlowCounts ==
  ASSUME NEW s, Fine(s), NEW g \in Frame
  PROVE  s.count[FlowQueue(g)] \in 0 .. ByteModulus - 1 /\ s.count[FlowQueue(g)] \in Nat
<1>1. s.count \in [Address -> 0 .. ByteModulus - 1]
  BY TypedFields DEF Fine
<1>2. s.count[FlowQueue(g)] \in 0 .. ByteModulus - 1
  BY <1>1, QueueAddresses
<1>3. QED BY <1>2, ScheduleAssumption

\* The transmit links of a slotframe are finitely many.
LEMMA SendersAreFinite ==
  ASSUME NEW s, Fine(s), NEW g \in DOMAIN s.links
  PROVE  /\ Senders(s, g) \subseteq Block /\ IsFiniteSet(Senders(s, g))
         /\ Cardinality(Senders(s, g)) \in Nat
<1>1. s.links[g] \subseteq Block
  BY TypedFields DEF Fine
<1>2. Senders(s, g) \subseteq Block
  BY <1>1 DEF Senders
<1>3. QED BY <1>2, BlocksAreFinite

\* Quiet links that go leave the counters of the slotframes as they are.
LEMMA QuietLinksGo ==
  ASSUME NEW s, Fine(s), NEW B, B \subseteq Block, \A b \in B : Quiet(s.memory[b]), NEW g \in Frame
  PROVE  CountDown(s, B)[FlowQueue(g)] = s.count[FlowQueue(g)]
<1>1. { b \in B : Tx(s.memory[b]) /\ s.memory[b].to = FlowQueue(g) } = {}
  BY QueueAddresses DEF Quiet
<1>2. Cardinality({}) = 0
  BY FS_EmptySet
<1>3. CountDown(s, B)[FlowQueue(g)] = (s.count[FlowQueue(g)] - 0) % ByteModulus
  BY <1>1, <1>2, QueueAddresses DEF CountDown
<1>4. s.count[FlowQueue(g)] \in 0 .. ByteModulus - 1
  BY FlowCounts
<1>5. \A k \in 0 .. ByteModulus - 1 : (k - 0) % ByteModulus = k
  BY ScheduleAssumption
<1>6. QED BY <1>3, <1>4, <1>5

\* A slotframe without links, in place of one whose links are quiet.
LEMMA ResetCounts ==
  ASSUME NEW s, NEW c, NEW d \in Spare, Counts(s, c, d), NEW h \in Frame, NEW size \in Nat \ {0},
         d[h] <= s.count[FlowQueue(h)]
  PROVE  Counts(AddFrame(RemoveFrame(s, h), h, size), c, d)
<1> DEFINE t == AddFrame(RemoveFrame(s, h), h, size)
<1>1. /\ Fine(t)
      /\ t.memory = s.memory /\ t.best = s.best
      /\ DOMAIN t.links = DOMAIN s.links \cup {h}
      /\ \A g \in DOMAIN s.links \ {h} : Keeps(s, t, g)
      /\ t.links[h] = {}
      /\ t.count = IF h \in DOMAIN s.links THEN CountDown(s, s.links[h]) ELSE s.count
  BY ResetFrame DEF Counts
<1> HIDE DEF t
<1>2. Fine(s) /\ Quietly(s) /\ Covers(s, d) /\ Below(s, c)
  BY DEF Counts
<1>3. ASSUME NEW g \in Frame PROVE t.count[FlowQueue(g)] = s.count[FlowQueue(g)]
  <2>1. CASE h \in DOMAIN s.links
    <3>1. s.links[h] \subseteq Block /\ \A b \in s.links[h] : Quiet(s.memory[b])
      BY <1>2, <2>1, TypedFields DEF Fine, Quietly
    <3>2. QED BY <1>1, <1>2, <2>1, <3>1, QuietLinksGo
  <2>2. CASE h \notin DOMAIN s.links
    BY <1>1, <2>2
  <2>3. QED BY <2>1, <2>2
<1>4. Quietly(t)
  BY <1>1, <1>2 DEF Quietly, Keeps
<1>5. ASSUME NEW g \in DOMAIN t.links
      PROVE  Cardinality(Senders(t, g)) + d[g] <= t.count[FlowQueue(g)]
  <2>1. g \in Frame
    BY <1>1, TypedFields DEF Fine
  <2>2. CASE g = h
    <3>1. Senders(t, g) = {}
      BY <1>1, <2>2 DEF Senders
    <3>2. Cardinality(Senders(t, g)) = 0
      BY <3>1, FS_EmptySet
    <3>3. d[g] \in Nat
      BY <2>1 DEF Spare
    <3>4. QED BY <1>3, <2>1, <2>2, <3>2, <3>3
  <2>3. CASE g # h
    <3>1. g \in DOMAIN s.links /\ Keeps(s, t, g)
      BY <1>1, <2>3
    <3>2. Senders(t, g) = Senders(s, g)
      BY <3>1 DEF Senders, Keeps
    <3>3. QED BY <1>2, <1>3, <2>1, <3>1, <3>2 DEF Covers
  <2>4. QED BY <2>2, <2>3
<1>6. QED BY <1>1, <1>2, <1>3, <1>4, <1>5 DEF Counts, Covers, Below, t

\* What adding link l makes of the counters: its slotframe counts one more if it
\* transmits, the others what they did.
Counted(s, t, l, c, d, b) ==
  /\ Fine(t) /\ t.best = s.best /\ Covers(t, d)
  /\ Below(t, c + 1) /\ (~Tx(l) => Below(t, c))
  /\ \A g \in DOMAIN t.links : \A x \in t.links[g] \ {b} : Quiet(t.memory[x])
  /\ b # NULL => b \in Block /\ (Quiet(l) => Quiet(t.memory[b]))
  /\ \A x \in Block : Quiet(s.memory[x]) /\ x # b => Quiet(t.memory[x])

\* tsch_schedule_add_link counts the link it adds and loses none that is quiet.
LEMMA AddLinkCounted ==
  ASSUME NEW s, NEW c \in Nat, c + 1 < ByteModulus, NEW d \in Spare, Counts(s, c, d),
         NEW h, NEW l \in LinkRecord
  PROVE  Counted(s, AddLink(s, h, l), l, c, d, NewBlock(s, h, l))
<1> DEFINE t == AddLink(s, h, l)
           b == NewBlock(s, h, l)
           gone == InSlot(s, h, l.slot)
           r == CountDown(s, gone)
<1>1. Fine(s) /\ Quietly(s) /\ Covers(s, d) /\ Below(s, c)
  BY DEF Counts
<1>2. /\ s.memory \in [Block -> LinkRecord] /\ s.used \subseteq Block
      /\ DOMAIN s.size = DOMAIN s.links /\ DOMAIN s.links \subseteq Frame
      /\ s.links \in [DOMAIN s.links -> SUBSET Block] /\ Listed(s)
      /\ s.count \in [Address -> 0 .. ByteModulus - 1]
  BY <1>1, TypedFields DEF Fine
<1>3. /\ Fine(t)
      /\ t.size = s.size /\ t.best = s.best /\ DOMAIN t.links = DOMAIN s.links
      /\ ~Fits(s, h, l) => t = s /\ b = NULL
      /\ Fits(s, h, l) /\ b = NULL =>
           /\ h \in DOMAIN s.links
           /\ t.memory = s.memory
           /\ t.links = [s.links EXCEPT ![h] = @ \ gone]
           /\ t.count = CountDown(s, gone)
      /\ b # NULL =>
           /\ h \in DOMAIN s.links
           /\ b \in Block /\ b \notin s.used \ gone
           /\ t.memory = [s.memory EXCEPT ![b] = [l EXCEPT !.frame = h]]
           /\ t.links = [s.links EXCEPT ![h] = (@ \ gone) \cup {b}]
           /\ \A a \in Address :
                t.count[a] = IF Tx(l) /\ a = FlowQueue(h) THEN (r[a] + 1) % ByteModulus ELSE r[a]
  <2>1. Added(s, h, l, t, b) /\ AddedCounts(s, h, l, t, b)
    BY <1>1, LinkAdded
  <2> HIDE DEF t, b
  <2>2. QED BY <2>1 DEF Added, AddedCounts
<1>4. \A g \in DOMAIN s.links \ {h} : Keeps(s, t, g)
  BY <1>1, AddLinkKeeps
<1>5. c \in Nat /\ c <= c + 1
  OBVIOUS
<1>6. ASSUME NEW g \in DOMAIN s.links \ {h} PROVE Senders(t, g) = Senders(s, g)
  BY <1>4 DEF Senders, Keeps
<1>7. /\ h \in DOMAIN s.links => gone \subseteq s.links[h] /\ gone \subseteq Block
      /\ h \in DOMAIN s.links => \A x \in gone : Quiet(s.memory[x])
  BY <1>1, <1>2 DEF InSlot, Quietly
<1>8. h \in DOMAIN s.links => \A g \in Frame : CountDown(s, gone)[FlowQueue(g)] = s.count[FlowQueue(g)]
  BY <1>1, <1>7, QuietLinksGo
<1>9. \A g \in Frame : s.count[FlowQueue(g)] \in Nat /\ s.count[FlowQueue(g)] <= c
  BY <1>1, FlowCounts DEF Below
<1>10. r = CountDown(s, gone)
  OBVIOUS
<1> HIDE DEF t, b, gone, r
<1>11. CASE ~Fits(s, h, l)
  <2>1. t = s /\ b = NULL
    BY <1>3, <1>11
  <2>2. Below(t, c + 1) /\ Below(t, c)
    BY <1>9, <2>1 DEF Below
  <2>3. QED BY <1>1, <2>1, <2>2 DEF Counted, Quietly, t, b
<1>12. CASE Fits(s, h, l) /\ b = NULL
  <2>1. \A g \in Frame : t.count[FlowQueue(g)] = s.count[FlowQueue(g)]
    BY <1>3, <1>8, <1>12
  <2>2. Below(t, c + 1) /\ Below(t, c)
    BY <1>9, <2>1 DEF Below
  <2>3. \A g \in DOMAIN s.links : t.links[g] \subseteq s.links[g] /\ t.memory = s.memory
    BY <1>2, <1>3, <1>12
  <2>4. \A g \in DOMAIN t.links : \A x \in t.links[g] : Quiet(t.memory[x])
    BY <1>1, <1>3, <2>3 DEF Quietly
  <2>5. ASSUME NEW g \in DOMAIN t.links
        PROVE  Cardinality(Senders(t, g)) + d[g] <= t.count[FlowQueue(g)]
    <3>1. Senders(t, g) \subseteq Senders(s, g) /\ g \in DOMAIN s.links /\ g \in Frame
      BY <1>2, <1>3, <2>3 DEF Senders
    <3>2. IsFiniteSet(Senders(s, g)) /\ Cardinality(Senders(s, g)) \in Nat
      BY <1>1, <3>1, SendersAreFinite
    <3>3. Cardinality(Senders(t, g)) <= Cardinality(Senders(s, g)) /\ Cardinality(Senders(t, g)) \in Nat
      BY <1>3, <3>1, <3>2, FS_Subset, SendersAreFinite
    <3>4. Cardinality(Senders(s, g)) + d[g] <= s.count[FlowQueue(g)] /\ d[g] \in Nat
      BY <1>1, <3>1 DEF Covers, Spare
    <3>5. QED BY <1>9, <2>1, <3>1, <3>2, <3>3, <3>4
  <2>6. QED BY <1>3, <1>12, <2>2, <2>3, <2>4, <2>5 DEF Counted, Covers, t, b
<1>13. CASE b # NULL
  <2>1. /\ h \in DOMAIN s.links /\ h \in Frame /\ b \in Block
        /\ \A x \in Block \ {b} : t.memory[x] = s.memory[x]
        /\ t.memory[b] = [l EXCEPT !.frame = h]
        /\ t.links[h] = (s.links[h] \ gone) \cup {b}
        /\ \A g \in DOMAIN s.links \ {h} : t.links[g] = s.links[g]
    BY <1>2, <1>3, <1>13
  <2>2. Tx(t.memory[b]) <=> Tx(l)
    BY <2>1 DEF Tx, LinkRecord
  <2>3. Quiet(l) => Quiet(t.memory[b])
    BY <2>1 DEF Tx, Quiet, LinkRecord
  <2>4. ASSUME NEW g \in Frame
        PROVE  t.count[FlowQueue(g)] =
                 IF Tx(l) /\ g = h THEN s.count[FlowQueue(g)] + 1 ELSE s.count[FlowQueue(g)]
    <3>1. FlowQueue(g) \in Address /\ (FlowQueue(g) = FlowQueue(h) <=> g = h)
      BY <2>1, QueueAddresses
    <3>2. r[FlowQueue(g)] = s.count[FlowQueue(g)]
      BY <1>8, <1>10, <2>1
    <3>3. t.count[FlowQueue(g)] =
            IF Tx(l) /\ g = h THEN (r[FlowQueue(g)] + 1) % ByteModulus ELSE r[FlowQueue(g)]
      BY <1>3, <1>13, <3>1
    <3>4. s.count[FlowQueue(g)] + 1 < ByteModulus /\ s.count[FlowQueue(g)] \in Nat
          /\ ByteModulus \in Nat
      BY <1>9, ScheduleAssumption
    <3>5. \A k \in Nat : k + 1 < ByteModulus => (k + 1) % ByteModulus = k + 1
      BY <3>4
    <3>6. QED BY <3>2, <3>3, <3>4, <3>5
  <2>5. Below(t, c + 1) /\ (~Tx(l) => Below(t, c))
    BY <1>9, <2>4 DEF Below
  <2>6. ASSUME NEW g \in DOMAIN t.links, NEW x \in t.links[g] \ {b} PROVE Quiet(t.memory[x])
    <3>1. g \in DOMAIN s.links /\ x \in s.links[g]
      BY <1>3, <2>1
    <3>2. x \in Block
      BY <1>2, <3>1
    <3>3. QED BY <1>1, <2>1, <3>1, <3>2 DEF Quietly
  <2>7. ASSUME NEW g \in DOMAIN t.links
        PROVE  Cardinality(Senders(t, g)) + d[g] <= t.count[FlowQueue(g)]
    <3>1. g \in DOMAIN s.links /\ g \in Frame
      BY <1>2, <1>3
    <3>2. IsFiniteSet(Senders(s, g)) /\ Cardinality(Senders(s, g)) \in Nat
          /\ Cardinality(Senders(t, g)) \in Nat
      BY <1>1, <1>3, <3>1, SendersAreFinite
    <3>3. Cardinality(Senders(s, g)) + d[g] <= s.count[FlowQueue(g)] /\ d[g] \in Nat
      BY <1>1, <3>1 DEF Covers, Spare
    <3>4. CASE g # h
      BY <1>6, <2>4, <3>1, <3>3, <3>4
    <3>5. CASE g = h
      <4>1. \A x \in Senders(t, h) : x # b => x \in Senders(s, h)
        <5>1. ASSUME NEW x \in t.links[h], Tx(t.memory[x]), x # b PROVE x \in s.links[h] /\ Tx(s.memory[x])
          BY <1>2, <2>1, <5>1
        <5>2. QED BY <5>1 DEF Senders
      <4>2. ~Tx(l) => Senders(t, h) \subseteq Senders(s, h)
        BY <2>2, <4>1 DEF Senders
      <4>3. Senders(t, h) \subseteq Senders(s, h) \cup {b}
        BY <4>1
      <4>4. CASE ~Tx(l)
        <5>1. Cardinality(Senders(t, g)) <= Cardinality(Senders(s, g))
          BY <3>2, <3>5, <4>2, <4>4, FS_Subset
        <5>2. QED BY <1>9, <2>4, <3>1, <3>2, <3>3, <4>4, <5>1
      <4>5. CASE Tx(l)
        <5>1. /\ IsFiniteSet(Senders(s, h) \cup {b})
              /\ Cardinality(Senders(s, h) \cup {b}) \in Nat
              /\ Cardinality(Senders(s, h) \cup {b}) <= Cardinality(Senders(s, h)) + 1
          <6>1. IsFiniteSet(Senders(s, h)) /\ Cardinality(Senders(s, h)) \in Nat
            BY <3>2, <3>5
          <6>2. /\ IsFiniteSet(Senders(s, h) \cup {b})
                /\ Cardinality(Senders(s, h) \cup {b}) =
                     IF b \in Senders(s, h) THEN Cardinality(Senders(s, h)) ELSE Cardinality(Senders(s, h)) + 1
            BY <6>1, FS_AddElement
          <6>3. QED BY <6>1, <6>2
        <5>2. Cardinality(Senders(t, g)) <= Cardinality(Senders(s, h) \cup {b})
          BY <3>5, <4>3, <5>1, FS_Subset
        <5>3. QED BY <1>9, <2>4, <3>1, <3>2, <3>3, <3>5, <4>5, <5>1, <5>2
      <4>6. QED BY <4>4, <4>5
    <3>6. QED BY <3>4, <3>5
  <2>8. \A x \in Block : Quiet(s.memory[x]) /\ x # b => Quiet(t.memory[x])
    BY <2>1
  <2>9. QED BY <1>3, <2>1, <2>3, <2>5, <2>6, <2>7, <2>8 DEF Counted, Covers, t, b
<1>14. QED BY <1>11, <1>12, <1>13

\* A quiet link keeps what the counters say; one that only listens is not counted.
LEMMA AddLinkCounts ==
  ASSUME NEW s, NEW c \in Nat, c + 1 < ByteModulus, NEW d \in Spare, Counts(s, c, d),
         NEW h, NEW l \in LinkRecord, Quiet(l)
  PROVE  Counts(AddLink(s, h, l), c + 1, d) /\ (~Tx(l) => Counts(AddLink(s, h, l), c, d))
<1> DEFINE t == AddLink(s, h, l)
           b == NewBlock(s, h, l)
<1>1. Counted(s, t, l, c, d, b)
  BY AddLinkCounted
<1>2. Quietly(s) /\ s.best \in Block \cup {NULL}
  BY TypedFields DEF Counts, Fine
<1> HIDE DEF t, b
<1>3. NULL \notin Block
  BY ScheduleAssumption DEF Block, NULL
<1>4. b = NULL \/ Quiet(t.memory[b])
  BY <1>1 DEF Counted
<1>5. Quietly(t)
  <2>1. \A g \in DOMAIN t.links : \A x \in t.links[g] : Quiet(t.memory[x])
    <3>1. \A g \in DOMAIN t.links : NULL \notin t.links[g]
      BY <1>1, <1>3, TypedFields DEF Counted, Fine
    <3>2. QED BY <1>1, <1>4, <3>1 DEF Counted
  <2>2. t.best # NULL => Quiet(t.memory[t.best])
    BY <1>1, <1>2, <1>4 DEF Counted, Quietly
  <2>3. QED BY <2>1, <2>2 DEF Quietly
<1>6. QED BY <1>1, <1>5 DEF Counted, Counts, t

\* A slotframe of a flow that is emptied and added again.
LEMMA ResetFlowCounts ==
  ASSUME NEW s, NEW c, NEW d \in Spare, Counts(s, c, d), NEW h \in Frame \ {0}, NEW size \in Nat \ {0}
  PROVE  Counts(AddFrame(RemoveFrame(s, h), h, size), c, d)
<1>1. d[h] = 0 /\ s.count[FlowQueue(h)] \in Nat
  BY FlowCounts DEF Spare, Counts
<1>2. d[h] <= s.count[FlowQueue(h)]
  BY <1>1
<1>3. QED BY <1>2, ResetCounts

\* install_discovery_schedule, whose link does not transmit.
LEMMA InstallCounts ==
  ASSUME NEW s, NEW c \in Nat, c + 1 < ByteModulus, NEW d \in Spare, Counts(s, c, d),
         NEW n \in Node, NEW applied \in BOOLEAN
  PROVE  Counts(InstallDiscovery(s, n, applied), c, d)
<1> DEFINE h == DiscoveryFrame(applied)
           u == AddFrame(RemoveFrame(s, h), h, DiscoveryLength)
           l == ListenLink(n, applied)
<1>1. InstallDiscovery(s, n, applied) = AddLink(u, h, l)
  BY DEF InstallDiscovery, ListenLink
<1>2. h \in Frame \ {0} /\ DiscoveryLength \in Nat \ {0}
  BY FrameNumbers, ScheduleAssumption
<1> HIDE DEF h
<1>3. Counts(u, c, d)
  BY <1>2, ResetFlowCounts
<1>4. l \in LinkRecord /\ Quiet(l) /\ ~Tx(l)
  BY LinksAreLinks, QuietLinks
<1> HIDE DEF u, l
<1>5. Counts(AddLink(u, h, l), c, d)
  BY <1>3, <1>4, AddLinkCounts
<1>6. QED BY <1>1, <1>5

\* The slotframes of the flows, emptied one after the other.
LEMMA FlowFramesCounts ==
  ASSUME NEW s, NEW c, NEW d \in Spare, Counts(s, c, d)
  PROVE  Counts(FlowFrames(s)[MaxFrame], c, d)
<1> DEFINE T == {k \in 0 .. MaxFrame : Counts(FlowFrames(s)[k], c, d)}
<1>1. MaxFrame \in Nat /\ ScheduleLength \in Nat \ {0}
  BY ScheduleAssumption
<1>2. 0 \in T
  BY <1>1, FlowFramesSteps
<1>3. ASSUME NEW k \in 1 .. MaxFrame, k - 1 \in T PROVE k \in T
  <2>1. k \in Frame \ {0} /\ Counts(FlowFrames(s)[k - 1], c, d)
    BY <1>3, FrameNumbers
  <2>2. FlowFrames(s)[k] = AddFrame(RemoveFrame(FlowFrames(s)[k - 1], k), k, ScheduleLength)
    BY FlowFramesSteps
  <2>3. Counts(FlowFrames(s)[k], c, d)
    BY <1>1, <2>1, <2>2, ResetFlowCounts
  <2>4. k \in 0 .. MaxFrame
    BY <1>1
  <2>5. QED BY <2>3, <2>4
<1> HIDE DEF T
<1>4. MaxFrame \in T
  <2>1. \A k \in 0 .. MaxFrame : k \in T
    BY <1>1, <1>2, <1>3, UpTo
  <2>2. QED BY <1>1, <2>1
<1>5. QED BY <1>4 DEF T

\* A link of the generated schedule counts once.
LEMMA GeneratedCounts ==
  ASSUME NEW s, NEW n \in Node, NEW c \in Nat, c + Len(Generated[n]) < ByteModulus,
         NEW d \in Spare, Counts(s, c, d)
  PROVE  Counts(GeneratedSchedule(s, n), c + Len(Generated[n]), d)
<1> DEFINE m == Len(Generated[n])
           T == {k \in 0 .. m : Counts(LinksAdded(s, n)[k], c + k, d)}
<1>1. m \in Nat /\ ByteModulus \in Nat
  BY ScheduleAssumption
<1>2. /\ LinksAdded(s, n)[0] = FlowFrames(s)[MaxFrame]
      /\ \A k \in 1 .. m : LinksAdded(s, n)[k] =
                             AddLink(LinksAdded(s, n)[k - 1], Generated[n][k].frame, Generated[n][k])
  BY LinksAddedSteps
<1>3. 0 \in T
  <2>1. Counts(LinksAdded(s, n)[0], c, d) /\ c + 0 = c
    BY <1>2, FlowFramesCounts
  <2>2. QED BY <1>1, <2>1
<1>4. ASSUME NEW k \in 1 .. m, k - 1 \in T PROVE k \in T
  <2> DEFINE l == Generated[n][k]
             u == LinksAdded(s, n)[k - 1]
  <2>1. Counts(u, c + (k - 1), d)
    BY <1>4
  <2>2. l \in LinkRecord /\ Quiet(l)
    BY GeneratedLinks, QuietLinks
  <2>3. LinksAdded(s, n)[k] = AddLink(u, l.frame, l)
    BY <1>2
  <2> HIDE DEF l, u
  <2>4. c + (k - 1) \in Nat /\ (c + (k - 1)) + 1 = c + k /\ c + k < ByteModulus /\ k \in 0 .. m
    BY <1>1
  <2>5. Counts(AddLink(u, l.frame, l), (c + (k - 1)) + 1, d)
    BY <2>1, <2>2, <2>4, AddLinkCounts
  <2>6. QED BY <2>3, <2>4, <2>5
<1> HIDE DEF T, m
<1>5. m \in T
  <2>1. \A k \in 0 .. m : k \in T
    BY <1>1, <1>3, <1>4, UpTo
  <2>2. QED BY <1>1, <2>1
<1>6. QED BY <1>5 DEF T, GeneratedSchedule, m

\* What add_link_to_best_node removes: a quiet link leaves the counters alone.
LEMMA ClearedCounts ==
  ASSUME NEW s, NEW c, NEW d \in Spare, Counts(s, c, d), NEW h \in DOMAIN s.links
  PROVE  Counts(Cleared(s, h), c, d)
<1> DEFINE r == Cleared(s, h)
<1>1. Fine(s) /\ Quietly(s) /\ Covers(s, d) /\ Below(s, c)
  BY DEF Counts
<1>2. ClearedIs(s, h, r)
  BY <1>1, ClearedFacts
<1> HIDE DEF r
<1>3. /\ Fine(r) /\ r.best = NULL /\ r.memory = s.memory
      /\ DOMAIN r.links = DOMAIN s.links
      /\ \A g \in DOMAIN s.links : r.links[g] \subseteq s.links[g]
      /\ r.count = CountDown(s, Naming(s, h, {s.best}))
  BY <1>2 DEF ClearedIs
<1>4. /\ Naming(s, h, {s.best}) \subseteq Block
      /\ \A b \in Naming(s, h, {s.best}) : Quiet(s.memory[b])
  BY <1>1, TypedFields DEF Fine, Naming, Quietly
<1>5. \A g \in Frame : r.count[FlowQueue(g)] = s.count[FlowQueue(g)]
  BY <1>1, <1>3, <1>4, QuietLinksGo
<1>6. Quietly(r)
  BY <1>1, <1>3 DEF Quietly
<1>7. ASSUME NEW g \in DOMAIN r.links
      PROVE  Cardinality(Senders(r, g)) + d[g] <= r.count[FlowQueue(g)]
  <2>1. g \in DOMAIN s.links /\ g \in Frame /\ Senders(r, g) \subseteq Senders(s, g)
    BY <1>1, <1>3, TypedFields DEF Fine, Senders
  <2>2. /\ IsFiniteSet(Senders(s, g)) /\ Cardinality(Senders(s, g)) \in Nat
        /\ Cardinality(Senders(r, g)) \in Nat
    BY <1>1, <1>3, <2>1, SendersAreFinite
  <2>3. Cardinality(Senders(r, g)) <= Cardinality(Senders(s, g))
    BY <2>1, <2>2, FS_Subset
  <2>4. Cardinality(Senders(s, g)) + d[g] <= s.count[FlowQueue(g)] /\ d[g] \in Nat
        /\ s.count[FlowQueue(g)] \in Nat
    BY <1>1, <2>1, FlowCounts DEF Covers, Spare
  <2>5. QED BY <1>5, <2>1, <2>2, <2>3, <2>4
<1>8. QED BY <1>1, <1>3, <1>5, <1>6, <1>7 DEF Counts, Covers, Below, r

\* A node that applied the schedule without a parent: only the link to nobody, which
\* is addressed to the queue of slotframe 0, is not quiet, and there one is spare.
Zeroed(s, c) ==
  /\ Fine(s) /\ Covers(s, AtZero) /\ Below(s, c)
  /\ \A g \in DOMAIN s.links : \A b \in s.links[g] \ {s.best} : Quiet(s.memory[b])

\* When the link to nobody goes, it takes the one that was spare at slotframe 0.
LEMMA ZeroCleared ==
  ASSUME NEW s, NEW c \in Nat, Zeroed(s, c), NEW h \in DOMAIN s.links \ {0}, 0 \in DOMAIN s.links,
         s.best # NULL => s.best \in s.links[h] /\ s.memory[s.best].to = FlowQueue(0)
  PROVE  Counts(Cleared(s, h), c, None)
<1> DEFINE r == Cleared(s, h)
           gone == Naming(s, h, {s.best})
           down(g) == { b \in gone : Tx(s.memory[b]) /\ s.memory[b].to = FlowQueue(g) }
<1>1. /\ Fine(s) /\ Covers(s, AtZero) /\ Below(s, c)
      /\ \A g \in DOMAIN s.links : \A b \in s.links[g] \ {s.best} : Quiet(s.memory[b])
  BY DEF Zeroed
<1>2. ClearedIs(s, h, r)
  BY <1>1, ClearedFacts
<1> HIDE DEF r
<1>3. /\ Fine(r) /\ r.best = NULL /\ r.memory = s.memory
      /\ DOMAIN r.links = DOMAIN s.links
      /\ \A g \in DOMAIN s.links : r.links[g] \subseteq s.links[g]
      /\ r.links[h] = s.links[h] \ {s.best}
      /\ r.count = CountDown(s, gone)
  BY <1>2 DEF ClearedIs
<1>4. gone \subseteq {s.best} \ {NULL} /\ s.best \in Block \cup {NULL}
  BY <1>1, TypedFields DEF Fine, Naming
<1>5. /\ \A g \in DOMAIN s.links : s.links[g] \subseteq Block /\ g \in Frame
      /\ Listed(s)
  BY <1>1, TypedFields DEF Fine
<1>6. \A g \in DOMAIN s.links : \A b \in r.links[g] : b # s.best
  <2>1. ASSUME NEW g \in DOMAIN s.links, NEW b \in r.links[g], b = s.best PROVE FALSE
    <3>1. b \in s.links[g] /\ b \in Block /\ b # NULL
      BY <1>3, <1>5, <2>1, ScheduleAssumption DEF Block, NULL
    <3>2. s.memory[b].frame = g /\ s.memory[b].frame = h
      BY <1>5, <2>1, <3>1 DEF Listed
    <3>3. QED BY <1>3, <2>1, <3>2
  <2>2. QED BY <2>1
<1>7. Quietly(r)
  BY <1>1, <1>3, <1>6 DEF Quietly
<1>8. \A g \in Frame : s.count[FlowQueue(g)] \in Nat /\ s.count[FlowQueue(g)] < ByteModulus
      /\ s.count[FlowQueue(g)] <= c
  BY <1>1, FlowCounts, ScheduleAssumption DEF Below
<1>9. ASSUME NEW g \in Frame
      PROVE  Cardinality(down(g)) \in {0, 1} /\ (g # 0 => Cardinality(down(g)) = 0)
  <2>1. CASE down(g) = {}
    BY <2>1, FS_EmptySet
  <2>2. CASE down(g) # {}
    <3>1. s.best # NULL /\ down(g) = {s.best} /\ s.memory[s.best].to = FlowQueue(g)
      BY <1>4, <2>2
    <3>2. g = 0
      BY <3>1, QueueAddresses, SpareKinds
    <3>3. Cardinality({s.best}) = 1
      BY FS_Singleton
    <3>4. QED BY <3>1, <3>2, <3>3
  <2>3. QED BY <2>1, <2>2
<1>10. Cardinality(Senders(s, 0)) + 1 <= s.count[FlowQueue(0)] /\ Cardinality(Senders(s, 0)) \in Nat
  BY <1>1, SpareKinds, SendersAreFinite DEF Covers, AtZero
<1>11. ASSUME NEW g \in Frame
       PROVE  r.count[FlowQueue(g)] = s.count[FlowQueue(g)] - Cardinality(down(g))
  <2>1. r.count[FlowQueue(g)] = (s.count[FlowQueue(g)] - Cardinality(down(g))) % ByteModulus
    BY <1>3, QueueAddresses DEF CountDown
  <2> HIDE DEF down
  <2>2. s.count[FlowQueue(g)] - Cardinality(down(g)) \in Nat
        /\ s.count[FlowQueue(g)] - Cardinality(down(g)) < ByteModulus
    <3>1. CASE g = 0
      BY <1>8, <1>9, <1>10, <3>1, ScheduleAssumption
    <3>2. CASE g # 0
      BY <1>8, <1>9, <3>2, ScheduleAssumption
    <3>3. QED BY <3>1, <3>2
  <2>3. \A k \in Nat : k < ByteModulus => k % ByteModulus = k
    BY ScheduleAssumption
  <2>4. QED BY <2>1, <2>2, <2>3
<1> HIDE DEF down, gone
<1>12. ASSUME NEW g \in Frame
       PROVE  /\ r.count[FlowQueue(g)] \in Nat /\ r.count[FlowQueue(g)] <= s.count[FlowQueue(g)]
              /\ s.count[FlowQueue(g)] <= r.count[FlowQueue(g)] + AtZero[g]
  <2>1. r.count[FlowQueue(g)] \in Nat
    BY <1>3, FlowCounts
  <2>2. CASE g = 0
    <3>1. AtZero[g] = 1
      BY <2>2 DEF AtZero
    <3>2. QED BY <1>8, <1>9, <1>11, <2>1, <3>1
  <2>3. CASE g # 0
    <3>1. AtZero[g] = 0
      BY <2>3 DEF AtZero
    <3>2. QED BY <1>8, <1>9, <1>11, <2>1, <2>3, <3>1
  <2>4. QED BY <2>2, <2>3
<1>13. ASSUME NEW g \in DOMAIN r.links
       PROVE  Cardinality(Senders(r, g)) + None[g] <= r.count[FlowQueue(g)]
  <2>1. g \in DOMAIN s.links /\ g \in Frame /\ Senders(r, g) \subseteq Senders(s, g)
    BY <1>3, <1>5 DEF Senders
  <2>2. /\ IsFiniteSet(Senders(s, g)) /\ Cardinality(Senders(s, g)) \in Nat
        /\ Cardinality(Senders(r, g)) \in Nat
    BY <1>1, <1>3, <2>1, SendersAreFinite
  <2>3. Cardinality(Senders(r, g)) <= Cardinality(Senders(s, g))
    BY <2>1, <2>2, FS_Subset
  <2>4. Cardinality(Senders(s, g)) + AtZero[g] <= s.count[FlowQueue(g)]
    BY <1>1, <2>1 DEF Covers
  <2>5. None[g] = 0 /\ AtZero[g] \in Nat
    BY <2>1 DEF None, AtZero
  <2>6. \A i, j, x, y, z \in Nat : i <= j /\ j + x <= y /\ y <= z + x => i + 0 <= z
    OBVIOUS
  <2>7. /\ r.count[FlowQueue(g)] \in Nat /\ s.count[FlowQueue(g)] \in Nat
        /\ s.count[FlowQueue(g)] <= r.count[FlowQueue(g)] + AtZero[g]
    BY <1>8, <1>12, <2>1
  <2>8. Cardinality(Senders(r, g)) + 0 <= r.count[FlowQueue(g)]
    BY <2>2, <2>3, <2>4, <2>5, <2>6, <2>7
  <2>9. QED BY <2>5, <2>8
<1>14. Below(r, c)
  <2>1. ASSUME NEW g \in Frame PROVE r.count[FlowQueue(g)] <= c
    <3>1. Cardinality(down(g)) \in Nat /\ c \in Nat
      BY <1>9
    <3>2. QED BY <1>8, <1>11, <3>1
  <2>2. QED BY <2>1 DEF Below
<1>15. QED BY <1>3, <1>7, <1>13, <1>14 DEF Counts, Covers, r

\* add_link_to_best_node counts at most one link more.
LEMMA ChoiceCounts ==
  ASSUME NEW s, Fine(s), NEW n \in Node, NEW m \in Node \cup {0}, NEW applied \in BOOLEAN,
         NEW c \in Nat, c + 1 < ByteModulus, NEW d \in Spare,
         Counts(Cleared(s, DiscoveryFrame(applied)), c, d),
         NEW t, t = AddLinkToBestNode(s, n, m, applied)
  PROVE  /\ m # 0 => Counts(t, c + 1, d)
         /\ d = AtZero => Zeroed(t, c + 1)
<1> DEFINE h == DiscoveryFrame(applied)
           r == Cleared(s, h)
           l == ParentLink(n, m, applied)
           u == AddLink(r, h, l)
           b == NewBlock(r, h, l)
<1>1. t = [u EXCEPT !.best = b]
  BY DEF AddLinkToBestNode, ParentLink, Cleared
<1>2. l \in LinkRecord /\ (m # 0 => Quiet(l))
  BY LinksAreLinks, QuietLinks
<1>3. Counts(r, c, d)
  OBVIOUS
<1> HIDE DEF h, r, l
<1>4. Counted(r, u, l, c, d, b)
  BY <1>2, <1>3, AddLinkCounted
<1> HIDE DEF u, b
<1>5. Fine(u) /\ b \in Block \cup {NULL}
  BY <1>4 DEF Counted
<1>6. /\ Fine(t) /\ t.best = b /\ t.memory = u.memory /\ t.links = u.links /\ t.count = u.count
  BY <1>1, <1>5, SetBest
<1>7. /\ \A g \in DOMAIN t.links : \A x \in t.links[g] \ {t.best} : Quiet(t.memory[x])
      /\ Below(t, c + 1)
  BY <1>4, <1>6 DEF Counted, Below
<1>8. Covers(t, d)
  <2>1. \A g : Senders(t, g) = Senders(u, g)
    BY <1>6 DEF Senders
  <2>2. Covers(u, d)
    BY <1>4 DEF Counted
  <2>3. QED BY <1>6, <2>1, <2>2 DEF Covers
<1>9. m # 0 => Quietly(t)
  <2>1. m # 0 /\ b # NULL => Quiet(t.memory[b])
    BY <1>2, <1>4, <1>6 DEF Counted
  <2>2. \A g \in DOMAIN t.links : NULL \notin t.links[g]
    <3>1. NULL \notin Block
      BY ScheduleAssumption DEF Block, NULL
    <3>2. QED BY <1>6, <3>1, TypedFields DEF Fine
  <2>3. QED BY <1>6, <1>7, <2>1, <2>2 DEF Quietly
<1>10. QED BY <1>6, <1>7, <1>8, <1>9 DEF Counts, Zeroed

(***************************************************************************)
(* The counters of every node, after k changes of its parent.              *)
(***************************************************************************)
QueueState(s, ph, n, m, k) ==
  /\ k \in 0 .. MaxChoices
  /\ ph = "booted" => Counts(s, k + 1, None) /\ 1 <= s.count[FlowQueue(0)]
  /\ ph = "configured" => Counts(s, k + 2, AtZero)
  /\ ph = "applied" => /\ m # 0 => Counts(s, k + Len(Generated[n]) + 3, None)
                       /\ m = 0 => Zeroed(s, k + Len(Generated[n]) + 3)

CountsOK == \A n \in Node : QueueState(schedule[n], phase[n], n, bestNode[n], choices[n])

\* init_master_routing.
LEMMA CountsAtBoot ==
  ASSUME CountsFit, NEW n \in Node
  PROVE  QueueState(AddLink(AddFrame(NoSchedule, 0, 1), 0, EbLink), "booted", n, 0, 0)
<1> DEFINE u == AddFrame(NoSchedule, 0, 1)
           t == AddLink(u, 0, EbLink)
<1>1. Fine(NoSchedule) /\ DOMAIN NoSchedule.links = {} /\ NoSchedule.best = NULL
      /\ NoSchedule.used = {} /\ \A a \in Address : NoSchedule.count[a] = 0
  <2>1. NoSchedule.count = [a \in Address |-> 0] /\ NoSchedule.used = {}
    BY DEF NoSchedule
  <2>2. QED BY <2>1, EmptyScheduleFine
<1>2. 0 \in Frame /\ 1 \in Nat \ {0} /\ EbLink \in LinkRecord /\ Quiet(EbLink)
  BY FrameNumbers, LinksAreLinks, QuietLinks
<1>3. /\ Fine(u) /\ u.best = NULL /\ u.used = {} /\ u.count = NoSchedule.count
      /\ DOMAIN u.links = {0} /\ u.links[0] = {} /\ u.size[0] = 1
  BY <1>1, <1>2, AddFrameFacts
<1> HIDE DEF u
<1>4. \A g \in Frame : u.count[FlowQueue(g)] = 0
  BY <1>1, <1>3, QueueAddresses
<1>5. Counts(u, 0, None)
  <2>1. Senders(u, 0) = {} /\ Cardinality({}) = 0 /\ None[0] = 0
    BY <1>2, <1>3, FS_EmptySet DEF Senders, None
  <2>2. QED BY <1>2, <1>3, <1>4, <2>1 DEF Counts, Quietly, Covers, Below
<1>6. \A x \in Node : Len(Generated[x]) \in Nat /\ MaxChoices \in Nat /\ ByteModulus \in Nat
  BY ScheduleAssumption
<1>7. 0 + 1 < ByteModulus /\ 0 \in Nat /\ 0 + 1 = 1 /\ 0 \in 0 .. MaxChoices
  <2>1. MaxChoices + Len(Generated[n]) + 3 < ByteModulus
    BY DEF CountsFit
  <2>2. QED BY <1>6, <2>1
<1>8. Counts(t, 0 + 1, None)
  BY <1>2, <1>5, <1>7, SpareKinds, AddLinkCounts
<1>9. 1 <= t.count[FlowQueue(0)]
  <2> DEFINE b == NewBlock(u, 0, EbLink)
  <2>1. Added(u, 0, EbLink, t, b) /\ AddedCounts(u, 0, EbLink, t, b)
    BY <1>2, <1>3, LinkAdded
  <2>2. EbLink.slot = 0 /\ EbLink.channel = 0 /\ Tx(EbLink)
    BY DEF EbLink, Link, Tx
  <2>3. Fits(u, 0, EbLink)
    BY <1>3, <2>2, TypedFields DEF Fits, Fine
  <2>4. InSlot(u, 0, EbLink.slot) = {}
    BY <1>3 DEF InSlot
  <2>5. 1 \in Block
    BY ScheduleAssumption DEF Block
  <2> HIDE DEF t, b
  <2>6. b # NULL
    <3>1. ASSUME b = NULL PROVE FALSE
      <4>1. t.used = Block /\ t.links = [u.links EXCEPT ![0] = @ \ InSlot(u, 0, EbLink.slot)]
            /\ DOMAIN t.links = DOMAIN u.links
        BY <2>1, <2>3, <3>1 DEF Added
      <4>2. t.links[0] = {} /\ DOMAIN t.links = {0}
        BY <1>3, <2>4, <4>1
      <4>3. Listed(t)
        BY <1>8 DEF Counts, Fine
      <4>4. QED BY <2>5, <4>1, <4>2, <4>3 DEF Listed
    <3>2. QED BY <3>1
  <2>7. CountDown(u, {})[FlowQueue(0)] = u.count[FlowQueue(0)]
    BY <1>2, <1>3, QuietLinksGo
  <2>8. t.count[FlowQueue(0)] = (CountDown(u, {})[FlowQueue(0)] + 1) % ByteModulus
    BY <1>2, <2>1, <2>2, <2>4, <2>6, QueueAddresses DEF AddedCounts
  <2>9. t.count[FlowQueue(0)] = (0 + 1) % ByteModulus
    BY <1>2, <1>4, <2>7, <2>8
  <2>10. (0 + 1) % ByteModulus = 1
    BY <1>6, <1>7
  <2>11. QED BY <2>9, <2>10
<1> HIDE DEF t
<1>10. QueueState(t, "booted", n, 0, 0)
  <2>1. "booted" # "configured" /\ "booted" # "applied"
    OBVIOUS
  <2>2. QED BY <1>7, <1>8, <1>9, <2>1 DEF QueueState
<1>11. QED BY <1>10 DEF t, u

\* No counter of a node can wrap.
LEMMA Room ==
  ASSUME CountsFit, NEW n \in Node, NEW k \in 0 .. MaxChoices
  PROVE  /\ Len(Generated[n]) \in Nat /\ k \in Nat /\ MaxChoices \in Nat /\ ByteModulus \in Nat
         /\ k + Len(Generated[n]) + 3 < ByteModulus
<1>1. Len(Generated[n]) \in Nat /\ MaxChoices \in Nat /\ ByteModulus \in Nat
  BY ScheduleAssumption
<1>2. MaxChoices + Len(Generated[n]) + 3 < ByteModulus
  BY DEF CountsFit
<1>3. QED BY <1>1, <1>2

\* master_install_schedule: the counter of the beacons' slotframe does not go down
\* when their link goes, so that from now on it counts one more than there is.
LEMMA CountsAfterInstall ==
  ASSUME CountsFit, NEW n \in Node, NEW s, NEW m, NEW k, Good(s, "booted", m),
         QueueState(s, "booted", n, m, k),
         NEW t, t = InstallDiscovery(AddLink(AddFrame(RemoveFrame(s, 0), 0, EbPeriod), 0, EbLink), n, FALSE)
  PROVE  QueueState(t, "configured", n, m, k)
<1> DEFINE u == AddFrame(RemoveFrame(s, 0), 0, EbPeriod)
           v == AddLink(u, 0, EbLink)
<1>1. /\ k \in 0 .. MaxChoices /\ Counts(s, k + 1, None) /\ 1 <= s.count[FlowQueue(0)]
      /\ Fine(s) /\ DOMAIN s.links = {0}
  BY DEF QueueState, Good, Ready
<1>2. /\ k \in Nat /\ k + 1 \in Nat /\ (k + 1) + 1 = k + 2 /\ k + 2 \in Nat
      /\ k + 2 < ByteModulus /\ (k + 2) + 1 < ByteModulus
  BY <1>1, Room
<1>3. 0 \in Frame /\ EbPeriod \in Nat \ {0} /\ EbLink \in LinkRecord /\ Quiet(EbLink)
  BY FrameNumbers, LinksAreLinks, QuietLinks, ScheduleAssumption
<1>4. Counts(u, k + 1, None)
  <2>1. None[0] = 0 /\ s.count[FlowQueue(0)] \in Nat
    BY <1>1, <1>3, FlowCounts DEF None
  <2>2. None[0] <= s.count[FlowQueue(0)]
    BY <2>1
  <2>3. QED BY <1>1, <1>3, <2>2, SpareKinds, ResetCounts
<1>5. /\ DOMAIN u.links = {0} /\ u.links[0] = {}
      /\ u.count = CountDown(s, s.links[0])
  BY <1>1, <1>3, ResetFrame
<1> HIDE DEF u
<1>6. u.count[FlowQueue(0)] = s.count[FlowQueue(0)]
  <2>1. s.links[0] \subseteq Block /\ \A b \in s.links[0] : Quiet(s.memory[b])
    BY <1>1, TypedFields DEF Fine, Counts, Quietly
  <2>2. QED BY <1>1, <1>3, <1>5, <2>1, QuietLinksGo
<1>7. Counts(u, k + 1, AtZero)
  <2>1. Senders(u, 0) = {} /\ Cardinality({}) = 0 /\ AtZero[0] = 1
    BY <1>3, <1>5, FS_EmptySet DEF Senders, AtZero
  <2>2. Covers(u, AtZero)
    BY <1>1, <1>5, <1>6, <2>1 DEF Covers
  <2>3. QED BY <1>4, <2>2 DEF Counts
<1>8. Counts(v, (k + 1) + 1, AtZero)
  BY <1>2, <1>3, <1>7, SpareKinds, AddLinkCounts
<1>9. t = InstallDiscovery(v, n, FALSE)
  BY DEF u
<1> HIDE DEF v
<1>10. Counts(t, k + 2, AtZero)
  BY <1>2, <1>8, <1>9, SpareKinds, InstallCounts
<1>11. "configured" # "booted" /\ "configured" # "applied"
  OBVIOUS
<1>12. QED BY <1>1, <1>10, <1>11 DEF QueueState

\* add_link_to_best_node counts one link more, in every phase.
LEMMA CountsAfterChoice ==
  ASSUME CountsFit, NEW n \in Node, NEW s, NEW ph \in Phase, NEW m \in Node \cup {0}, NEW k,
         Good(s, ph, m), QueueState(s, ph, n, m, k), k < MaxChoices, NEW j \in Node,
         NEW t, t = AddLinkToBestNode(s, n, j, ph = "applied")
  PROVE  QueueState(t, ph, n, j, k + 1)
<1> DEFINE L == Len(Generated[n])
<1>1. /\ k \in 0 .. MaxChoices /\ k + 1 \in 0 .. MaxChoices /\ k \in Nat /\ L \in Nat
      /\ ByteModulus \in Nat /\ (k + 1) + L + 3 < ByteModulus
  <2>1. k \in 0 .. MaxChoices
    BY DEF QueueState
  <2>2. k + 1 \in 0 .. MaxChoices
    BY <2>1, ScheduleAssumption
  <2>3. QED BY <2>1, <2>2, Room
<1>2. Fine(s) /\ 0 \in DOMAIN s.links /\ j # 0 /\ j \in Node \cup {0}
  BY ScheduleAssumption DEF Good, Ready
<1> HIDE DEF L
<1>3. CASE ph = "booted"
  <2>1. (ph = "applied") = FALSE
    BY <1>3
  <2>2. PICK a \in BOOLEAN : a = FALSE
    OBVIOUS
  <2>3. DiscoveryFrame(a) \notin DOMAIN s.links
    BY <1>3, <2>2, FrameNumbers DEF Good, Ready
  <2>4. /\ Fine(t) /\ t.best = NULL /\ t.memory = s.memory /\ t.used = s.used
        /\ t.size = s.size /\ t.links = s.links /\ t.count = s.count
    <3>1. t = AddLinkToBestNode(s, n, j, a)
      BY <2>1, <2>2
    <3>2. QED BY <1>2, <2>3, <3>1, NoParentLinkFacts
  <2>5. Counts(s, k + 1, None) /\ 1 <= s.count[FlowQueue(0)]
    BY <1>3 DEF QueueState
  <2>6. \A g : Senders(t, g) = Senders(s, g)
    BY <2>4 DEF Senders
  <2>7. Covers(t, None)
    BY <2>4, <2>5, <2>6 DEF Counts, Covers
  <2>8. Below(t, (k + 1) + 1)
    <3>1. ASSUME NEW g \in Frame PROVE t.count[FlowQueue(g)] <= (k + 1) + 1
      <4>1. s.count[FlowQueue(g)] <= k + 1 /\ s.count[FlowQueue(g)] \in Nat
        BY <1>2, <2>5, FlowCounts DEF Counts, Below
      <4>2. QED BY <1>1, <2>4, <4>1
    <3>2. QED BY <3>1 DEF Below
  <2>9. Counts(t, (k + 1) + 1, None) /\ 1 <= t.count[FlowQueue(0)]
    BY <2>4, <2>5, <2>7, <2>8 DEF Counts, Quietly
  <2>10. ph # "configured" /\ ph # "applied"
    BY <1>3
  <2>11. QED BY <1>1, <2>9, <2>10 DEF QueueState
<1>4. CASE ph = "configured"
  <2>1. (ph = "applied") = FALSE
    BY <1>4
  <2>2. t = AddLinkToBestNode(s, n, j, FALSE) /\ FALSE \in BOOLEAN
    BY <2>1
  <2>3. DiscoveryFrame(FALSE) \in DOMAIN s.links
    <3>1. DiscoveryFrame(ph = "applied") \in DOMAIN s.links
      BY <1>4 DEF Good, Ready
    <3>2. QED BY <2>1, <3>1
  <2>4. Counts(s, k + 2, AtZero)
    BY <1>4 DEF QueueState
  <2>5. Counts(Cleared(s, DiscoveryFrame(FALSE)), k + 2, AtZero)
    BY <2>3, <2>4, SpareKinds, ClearedCounts
  <2>6. k + 2 \in Nat /\ (k + 2) + 1 < ByteModulus /\ (k + 2) + 1 = (k + 1) + 2
    BY <1>1
  <2>7. Counts(t, (k + 2) + 1, AtZero)
    BY <1>2, <2>2, <2>5, <2>6, SpareKinds, ChoiceCounts
  <2>8. ph # "booted" /\ ph # "applied"
    BY <1>4
  <2>9. QED BY <1>1, <2>6, <2>7, <2>8 DEF QueueState
<1>5. CASE ph = "applied"
  <2> DEFINE c == k + L + 3
  <2>1. (ph = "applied") = TRUE
    BY <1>5
  <2>2. t = AddLinkToBestNode(s, n, j, TRUE) /\ TRUE \in BOOLEAN
    BY <2>1
  <2>3. DiscoveryFrame(TRUE) \in DOMAIN s.links /\ DiscoveryFrame(TRUE) # 0
    <3>1. DiscoveryFrame(ph = "applied") \in DOMAIN s.links
      BY <1>5 DEF Good, Ready
    <3>2. QED BY <2>1, <3>1, FrameNumbers
  <2>4. c \in Nat /\ c + 1 < ByteModulus /\ c + 1 = (k + 1) + L + 3
    BY <1>1
  <2> HIDE DEF c
  <2>5. Counts(Cleared(s, DiscoveryFrame(TRUE)), c, None)
    <3>1. CASE m # 0
      <4>1. Counts(s, c, None)
        BY <1>5, <3>1 DEF QueueState, c, L
      <4>2. QED BY <2>3, <4>1, SpareKinds, ClearedCounts
    <3>2. CASE m = 0
      <4>1. Zeroed(s, c)
        BY <1>5, <3>2 DEF QueueState, c, L
      <4>2. s.best # NULL => s.best \in s.links[DiscoveryFrame(ph = "applied")]
                             /\ s.memory[s.best].to = NbrQueue(m)
        BY DEF Good
      <4>3. s.best # NULL => s.best \in s.links[DiscoveryFrame(TRUE)]
                             /\ s.memory[s.best].to = FlowQueue(0)
        BY <2>1, <3>2, <4>2, QueueAddresses
      <4>4. QED BY <1>2, <2>3, <2>4, <4>1, <4>3, ZeroCleared
    <3>3. QED BY <3>1, <3>2
  <2>6. Counts(t, c + 1, None)
    BY <1>2, <2>2, <2>4, <2>5, SpareKinds, ChoiceCounts
  <2>7. ph # "booted" /\ ph # "configured"
    BY <1>5
  <2>8. QED BY <1>1, <1>2, <2>4, <2>6, <2>7 DEF QueueState, L
<1>6. QED BY <1>3, <1>4, <1>5 DEF Phase

\* apply_generated_schedule counts the generated links and the one to the parent.
LEMMA CountsAfterApply ==
  ASSUME CountsFit, NEW n \in Node, NEW s, NEW m \in Node \cup {0}, NEW k,
         Good(s, "configured", m), QueueState(s, "configured", n, m, k),
         NEW t, t = ApplyGenerated(s, n, m)
  PROVE  QueueState(t, "applied", n, m, k)
<1> DEFINE L == Len(Generated[n])
           u == GeneratedSchedule(s, n)
           v == InstallDiscovery(u, n, TRUE)
           c == k + 2 + L
<1>1. /\ k \in 0 .. MaxChoices /\ Counts(s, k + 2, AtZero)
  BY DEF QueueState
<1>2. /\ k \in Nat /\ L \in Nat /\ ByteModulus \in Nat /\ k + L + 3 < ByteModulus
  BY <1>1, Room
<1> HIDE DEF L, u, v
<1>3. /\ k + 2 \in Nat /\ (k + 2) + L < ByteModulus /\ c = (k + 2) + L
      /\ c \in Nat /\ c + 1 < ByteModulus /\ c + 1 = k + L + 3
  BY <1>2
<1>4. t = AddLinkToBestNode(v, n, m, TRUE)
  BY DEF ApplyGenerated, u, v
<1>5. Counts(u, c, AtZero)
  <2>1. Counts(u, (k + 2) + L, AtZero)
    BY <1>1, <1>3, SpareKinds, GeneratedCounts DEF u, L
  <2>2. QED BY <1>3, <2>1
<1> HIDE DEF L, c
<1>6. Fine(u)
  BY <1>5 DEF Counts
<1> HIDE DEF u
<1>7. DiscoveryFrame(TRUE) \in DOMAIN v.links
  <2>1. ListensOnly(u, v, DiscoveryFrame(TRUE))
    BY <1>6, ListenOnly DEF v
  <2>2. QED BY <2>1 DEF ListensOnly
<1>8. Counts(v, c, AtZero)
  BY <1>3, <1>5, SpareKinds, InstallCounts DEF v
<1> HIDE DEF v
<1>9. Counts(Cleared(v, DiscoveryFrame(TRUE)), c, AtZero) /\ Fine(v)
  BY <1>7, <1>8, SpareKinds, ClearedCounts DEF Counts
<1>10. (m # 0 => Counts(t, c + 1, AtZero)) /\ Zeroed(t, c + 1)
  BY <1>3, <1>4, <1>9, SpareKinds, ChoiceCounts
<1>11. m # 0 => Counts(t, c + 1, None)
  <2>1. ASSUME m # 0 PROVE Covers(t, None)
    <3>1. ASSUME NEW g \in DOMAIN t.links
          PROVE  Cardinality(Senders(t, g)) + None[g] <= t.count[FlowQueue(g)]
      <4>1. g \in Frame /\ Cardinality(Senders(t, g)) \in Nat /\ t.count[FlowQueue(g)] \in Nat
        BY <1>10, TypedFields, SendersAreFinite, FlowCounts DEF Zeroed, Fine
      <4>2. Cardinality(Senders(t, g)) + AtZero[g] <= t.count[FlowQueue(g)]
        BY <1>10 DEF Zeroed, Covers
      <4>3. None[g] = 0 /\ AtZero[g] \in {0, 1}
        BY <4>1 DEF None, AtZero
      <4>4. QED BY <4>1, <4>2, <4>3
    <3>2. QED BY <3>1 DEF Covers
  <2>2. QED BY <1>10, <2>1 DEF Counts
<1>12. "applied" # "booted" /\ "applied" # "configured"
  OBVIOUS
<1>13. QED BY <1>1, <1>3, <1>10, <1>11, <1>12 DEF QueueState, L

\* The first state.
LEMMA InitEstablishesCounts ==
  ASSUME CountsFit, Init
  PROVE  CountsOK
<1> DEFINE s == AddLink(AddFrame(NoSchedule, 0, 1), 0, EbLink)
<1>1. \A n \in Node : QueueState(s, "booted", n, 0, 0)
  BY CountsAtBoot
<1> HIDE DEF s
<1>2. schedule = [n \in Node |-> s] /\ phase = [n \in Node |-> "booted"]
      /\ bestNode = [n \in Node |-> 0] /\ choices = [n \in Node |-> 0]
  BY DEF Init, s
<1>3. QED BY <1>1, <1>2 DEF CountsOK

\* A step changes one node; the counters of that node are enough.
LEMMA OneCount ==
  ASSUME ScheduleInv, CountsOK, NEW n \in Node, NEW t, NEW ph, NEW m, NEW k,
         schedule' = [schedule EXCEPT ![n] = t], phase' = [phase EXCEPT ![n] = ph],
         bestNode' = [bestNode EXCEPT ![n] = m], choices' = [choices EXCEPT ![n] = k],
         QueueState(t, ph, n, m, k)
  PROVE  CountsOK'
<1>1. NodesOK
  BY DEF ScheduleInv
<1>2. \A x \in Node :
        /\ schedule'[x] = IF x = n THEN t ELSE schedule[x]
        /\ phase'[x] = IF x = n THEN ph ELSE phase[x]
        /\ bestNode'[x] = IF x = n THEN m ELSE bestNode[x]
        /\ choices'[x] = IF x = n THEN k ELSE choices[x]
  BY <1>1 DEF NodesOK
<1>3. ASSUME NEW x \in Node PROVE QueueState(schedule'[x], phase'[x], x, bestNode'[x], choices'[x])
  BY <1>2 DEF CountsOK
<1>4. QED BY <1>3 DEF CountsOK

\* Every step: one case per action.
LEMMA StepKeepsCounts ==
  ASSUME CountsFit, ScheduleInv, CountsOK, [Next]_vars
  PROVE  CountsOK'
<1>1. NodesOK /\ SchedulesGood
  BY DEF ScheduleInv
<1>2. CASE UNCHANGED vars
  BY <1>2 DEF vars, CountsOK
<1>3. ASSUME NEW n \in Node, InstallSchedule(n) PROVE CountsOK'
  <2> DEFINE s == schedule[n]
             m == bestNode[n]
             k == choices[n]
             t == InstallDiscovery(AddLink(AddFrame(RemoveFrame(s, 0), 0, EbPeriod), 0, EbLink), n, FALSE)
  <2>1. Good(s, "booted", m) /\ QueueState(s, "booted", n, m, k)
    BY <1>1, <1>3 DEF SchedulesGood, InstallSchedule, CountsOK
  <2>2. /\ schedule' = [schedule EXCEPT ![n] = t] /\ phase' = [phase EXCEPT ![n] = "configured"]
        /\ bestNode' = [bestNode EXCEPT ![n] = m] /\ choices' = [choices EXCEPT ![n] = k]
    BY <1>1, <1>3 DEF InstallSchedule, NodesOK
  <2> HIDE DEF s, m, k
  <2>3. QueueState(t, "configured", n, m, k)
    BY <2>1, CountsAfterInstall
  <2> HIDE DEF t
  <2>4. QED BY <2>2, <2>3, OneCount
<1>4. ASSUME NEW n \in Node, NEW j \in Parents[n], ChooseParent(n, j) PROVE CountsOK'
  <2> DEFINE s == schedule[n]
             ph == phase[n]
             m == bestNode[n]
             k == choices[n]
             t == AddLinkToBestNode(s, n, j, ph = "applied")
  <2>1. /\ ph \in Phase /\ m \in Node \cup {0} /\ j \in Node
        /\ Good(s, ph, m) /\ QueueState(s, ph, n, m, k) /\ k < MaxChoices
    BY <1>1, <1>4, ScheduleAssumption DEF NodesOK, SchedulesGood, CountsOK, ChooseParent
  <2>2. /\ schedule' = [schedule EXCEPT ![n] = t] /\ phase' = [phase EXCEPT ![n] = ph]
        /\ bestNode' = [bestNode EXCEPT ![n] = j] /\ choices' = [choices EXCEPT ![n] = k + 1]
    BY <1>1, <1>4 DEF ChooseParent, NodesOK
  <2> HIDE DEF s, ph, m, k
  <2>3. QueueState(t, ph, n, j, k + 1)
    BY <2>1, CountsAfterChoice
  <2> HIDE DEF t
  <2>4. QED BY <2>2, <2>3, OneCount
<1>5. ASSUME NEW n \in Node, ApplyGeneratedSchedule(n) PROVE CountsOK'
  <2> DEFINE s == schedule[n]
             m == bestNode[n]
             k == choices[n]
             t == ApplyGenerated(s, n, m)
  <2>1. /\ m \in Node \cup {0} /\ Good(s, "configured", m)
        /\ QueueState(s, "configured", n, m, k)
    BY <1>1, <1>5 DEF NodesOK, SchedulesGood, ApplyGeneratedSchedule, CountsOK
  <2>2. /\ schedule' = [schedule EXCEPT ![n] = t] /\ phase' = [phase EXCEPT ![n] = "applied"]
        /\ bestNode' = [bestNode EXCEPT ![n] = m] /\ choices' = [choices EXCEPT ![n] = k]
    BY <1>1, <1>5 DEF ApplyGeneratedSchedule, NodesOK
  <2> HIDE DEF s, m, k
  <2>3. QueueState(t, "applied", n, m, k)
    BY <2>1, CountsAfterApply
  <2> HIDE DEF t
  <2>4. QED BY <2>2, <2>3, OneCount
<1>6. QED BY <1>2, <1>3, <1>4, <1>5 DEF Next

\* QueueKept, for every network whose nodes add fewer links than the byte
\* tx_links_count can count: the queue of a slotframe counts at least its transmit
\* links, though a link goes at another queue than it came
\* (tsch_queue_free_unused_neighbors frees a queue whose count is 0).
THEOREM QueuesAreKept ==
  ASSUME CountsFit
  PROVE  Spec => []QueueKept
<1>1. Init => CountsOK
  BY InitEstablishesCounts
<1>2. ScheduleInv /\ CountsOK /\ [Next]_vars => CountsOK'
  BY StepKeepsCounts
<1>3. ScheduleInv /\ CountsOK => QueueKept
  <2> SUFFICES ASSUME ScheduleInv, CountsOK, NEW n \in Node, NEW s, s = schedule[n],
                      NEW h \in DOMAIN s.links
               PROVE  s.count[FlowQueue(h)] >= Cardinality({ b \in s.links[h] : Tx(s.memory[b]) })
    BY DEF QueueKept
  <2>1. QueueState(s, phase[n], n, bestNode[n], choices[n]) /\ phase[n] \in Phase
    BY DEF ScheduleInv, NodesOK, CountsOK
  <2>2. Fine(s) /\ (Covers(s, None) \/ Covers(s, AtZero))
    BY <2>1 DEF QueueState, Phase, Counts, Zeroed
  <2>3. h \in Frame /\ None[h] \in {0, 1} /\ AtZero[h] \in {0, 1}
    BY <2>2, TypedFields DEF Fine, None, AtZero
  <2>4. Cardinality(Senders(s, h)) \in Nat /\ s.count[FlowQueue(h)] \in Nat
    BY <2>2, <2>3, SendersAreFinite, FlowCounts
  <2>5. Cardinality(Senders(s, h)) <= s.count[FlowQueue(h)]
    BY <2>2, <2>3, <2>4 DEF Covers
  <2>6. QED BY <2>4, <2>5 DEF Senders
<1>4. QED BY <1>1, <1>2, <1>3, ScheduleInvAlways, PTL DEF Spec
=============================================================================
