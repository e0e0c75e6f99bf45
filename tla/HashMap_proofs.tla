--------------------------- MODULE HashMap_proofs ---------------------------
(***************************************************************************)
(* Proofs about HashMap: its chains end, and it behaves as the map it      *)
(* stands for, for every set of keys, every size of the table and every    *)
(* modulus of the hash.                                                    *)
(***************************************************************************)
EXTENDS HashMap, TLAPS, FiniteSetTheorems, WellFoundedInduction

-----------------------------------------------------------------------------
(***************************************************************************)
(* The inductive invariant.                                                *)
(***************************************************************************)
Entry == [key : Key \cup {0}, val : Val \cup {0}, next : Pos \cup {NULL}]

TypeOK ==
  /\ list \in [Pos -> Entry]
  /\ numberEntries \in Nat
  /\ result \in {0, 1}

Used == {p \in Pos : list[p].key # 0}

\* number_entries is what its name says.
Counted == numberEntries = Cardinality(Used)

\* A free entry is linked to none.
FreeEnds == \A p \in Pos \ Used : list[p].next = NULL

\* An entry is linked to one that was filled after it: the entries can be
\* numbered in the order in which they were filled.
Ranked ==
  \E rank \in [Pos -> Nat] :
    \A p \in Used :
      /\ rank[p] < numberEntries
      /\ list[p].next # NULL =>
           list[p].next \in Used /\ rank[p] < rank[list[p].next]

\* An entry is on the chain of its key, and is the only one of its key.
OnItsChain == \A p \in Used : p \in Chain(list[p].key)
KeysApart == \A p, q \in Used : list[p].key = list[q].key => p = q

Links == TypeOK /\ Counted /\ FreeEnds /\ Ranked
HashInv == Links /\ OnItsChain /\ KeysApart

-----------------------------------------------------------------------------
(***************************************************************************)
(* Naturals, positions and walks.                                          *)
(***************************************************************************)
\* Every non-empty set of naturals has a least element.
LEMMA LeastNat ==
  ASSUME NEW T, T \subseteq Nat, T # {}
  PROVE  \E x \in T : \A y \in T : x <= y
<1>1. IsWellFoundedOn(OpToRel(<, Nat), Nat)
  BY NatLessThanWellFounded
<1>2. PICK x \in T : \A y \in T : ~(<<y, x>> \in OpToRel(<, Nat))
  BY <1>1, WFMin
<1>3. \A y \in T : ~(y < x)
  BY <1>2 DEF OpToRel
<1> QED
  BY <1>3

\* A set of naturals that holds 0, and the successor of each of its members up
\* to n, holds all up to n.
LEMMA UpTo ==
  ASSUME NEW n \in Nat, NEW T, 0 \in T, \A i \in 0 .. n - 1 : i \in T => i + 1 \in T
  PROVE  \A i \in 0 .. n : i \in T
<1> DEFINE out == {i \in 0 .. n : i \notin T}
<1>1. ASSUME out # {}
      PROVE  FALSE
  <2>1. PICK i \in out : \A j \in out : i <= j
    <3>1. out \subseteq Nat
      OBVIOUS
    <3> HIDE DEF out
    <3> QED
      BY <3>1, <1>1, LeastNat
  <2>2. i # 0
    BY <2>1
  <2>3. i - 1 \in 0 .. n - 1 /\ i - 1 \notin out /\ (i - 1) + 1 = i
    BY <2>1, <2>2
  <2> QED
    BY <2>1, <2>3
<1> QED
  BY <1>1

\* The home of a key is a position.
LEMMA HashCodeIsPos == \A k \in Key : HashCode(k) \in Pos
<1> SUFFICES ASSUME NEW k \in Key
             PROVE  HashCode(k) \in Pos
  OBVIOUS
<1>1. k \in Nat /\ KeyModulus \in Nat \ {0} /\ Size \in Nat \ {0}
  BY HashMapAssumption
<1>2. k % KeyModulus \in Nat
  BY <1>1
<1>3. (k % KeyModulus) % Size \in 0 .. Size - 1
  BY <1>1, <1>2
<1> QED
  BY <1>3 DEF HashCode, Pos

\* There are Size positions, so at most Size entries in use.
LEMMA PosFacts ==
  /\ IsFiniteSet(Pos) /\ Cardinality(Pos) = Size
  /\ \A U \in SUBSET Pos : IsFiniteSet(U) /\ Cardinality(U) \in Nat /\ Cardinality(U) <= Size
  /\ \A U \in SUBSET Pos : Cardinality(U) = Size => U = Pos
<1>1. Size \in Nat \ {0}
  BY HashMapAssumption
<1>2. IsFiniteSet(0 .. Size - 1) /\ Cardinality(0 .. Size - 1) = Size
  BY <1>1, FS_Interval
<1>3. IsFiniteSet(Pos) /\ Cardinality(Pos) = Size
  BY <1>2 DEF Pos
<1>4. \A U \in SUBSET Pos : IsFiniteSet(U) /\ Cardinality(U) \in Nat /\ Cardinality(U) <= Size
  BY <1>3, FS_Subset, FS_CardinalityType
<1>5. \A U \in SUBSET Pos : Cardinality(U) = Size => U = Pos
  BY <1>3, FS_Subset
<1> QED
  BY <1>3, <1>4, <1>5

\* A walk makes the steps its definition says.
Steps ==
  \A p : /\ Walk(p)[0] = p
         /\ \A i \in 0 .. Size - 1 :
              Walk(p)[i + 1] = IF Walk(p)[i] = NULL THEN NULL ELSE list[Walk(p)[i]].next

LEMMA WalkSteps == Steps
<1> SUFFICES ASSUME NEW p
             PROVE  /\ Walk(p)[0] = p
                    /\ \A i \in 0 .. Size - 1 :
                         Walk(p)[i + 1] = IF Walk(p)[i] = NULL THEN NULL ELSE list[Walk(p)[i]].next
  BY DEF Steps
<1> DEFINE Step(f, i) == IF i = 0 THEN p ELSE IF f[i - 1] = NULL THEN NULL ELSE list[f[i - 1]].next
           Walks(n, f) == f = [i \in 0 .. n |-> Step(f, i)]
           bad == {n \in Nat : \A f : ~Walks(n, f)}
<1>1. ASSUME bad # {}
      PROVE  FALSE
  <2>1. PICK n \in bad : \A m \in bad : n <= m
    <3>1. bad \subseteq Nat
      OBVIOUS
    <3> HIDE DEF bad
    <3> QED
      BY <3>1, <1>1, LeastNat
  <2>2. n # 0
    <3>1. Walks(0, [i \in 0 .. 0 |-> p])
      OBVIOUS
    <3> QED
      BY <3>1
  <2>3. n - 1 \in Nat /\ n - 1 \notin bad
    BY <2>1, <2>2
  <2>4. PICK g : Walks(n - 1, g)
    BY <2>3
  <2> DEFINE f == [i \in 0 .. n |-> IF i < n THEN g[i] ELSE Step(g, n)]
  <2>5. ASSUME NEW i \in 0 .. n
        PROVE  f[i] = Step(f, i)
    <3>1. CASE i < n
      <4>1. i \in 0 .. n - 1
        BY <3>1
      <4>2. g[i] = Step(g, i)
        BY <4>1, <2>4
      <4>3. i # 0 => f[i - 1] = g[i - 1]
        BY <4>1, <2>1
      <4> QED
        BY <4>2, <4>3, <3>1
    <3>2. CASE i = n
      <4>1. f[n] = Step(g, n)
        BY <2>1
      <4>2. f[n - 1] = g[n - 1]
        BY <2>1, <2>2
      <4> QED
        BY <4>1, <4>2, <3>2, <2>2
    <3> QED
      BY <3>1, <3>2
  <2>6. Walks(n, f)
    BY <2>5
  <2> QED
    BY <2>6, <2>1
<1>2. Size \in Nat
  BY HashMapAssumption
<1>3. \E f : Walks(Size, f)
  BY <1>1, <1>2
<1>4. Walk(p) = CHOOSE f : Walks(Size, f)
  BY DEF Walk
<1>5. Walks(Size, Walk(p))
  BY <1>3, <1>4
<1>6. \A i \in 0 .. Size : Walk(p)[i] = Step(Walk(p), i)
  <2> DEFINE w == Walk(p)
  <2> HIDE DEF w
  <2>1. w = [i \in 0 .. Size |-> Step(w, i)]
    BY <1>5 DEF w
  <2>2. \A i \in 0 .. Size : w[i] = Step(w, i)
    BY <2>1
  <2> QED
    BY <2>2 DEF w
<1>7. Walk(p)[0] = p
  BY <1>2, <1>6
<1>8. ASSUME NEW i \in 0 .. Size - 1
      PROVE  Walk(p)[i + 1] = IF Walk(p)[i] = NULL THEN NULL ELSE list[Walk(p)[i]].next
  <2>1. i + 1 \in 0 .. Size /\ i + 1 # 0 /\ (i + 1) - 1 = i
    BY <1>2
  <2> QED
    BY <2>1, <1>6
<1> QED
  BY <1>7, <1>8

-----------------------------------------------------------------------------
(***************************************************************************)
(* Chains.                                                                 *)
(***************************************************************************)
LEMMA NullIsNoPos == NULL \notin Pos /\ 0 \in 0 .. Size /\ Size \in Nat \ {0}
BY HashMapAssumption DEF NULL, Pos

LEMMA UsedFitTable ==
  Links => /\ numberEntries <= Size /\ Used \subseteq Pos
           /\ numberEntries = Size => Used = Pos
BY PosFacts DEF Links, Counted, Used

\* From an entry in use only such are met, and the i-th of them has at least i
\* filled before it; from a free entry none is met.
LEMMA WalkFromPos ==
  ASSUME Links, NEW p \in Pos
  PROVE  /\ Walk(p)[Size] = NULL
         /\ \A i \in 0 .. Size : Walk(p)[i] = NULL \/ Walk(p)[i] = p \/ Walk(p)[i] \in Used
         /\ p \in Used => \A i \in 0 .. Size : Walk(p)[i] = NULL \/ Walk(p)[i] \in Used
         /\ p \notin Used => \A i \in 1 .. Size : Walk(p)[i] = NULL
<1> DEFINE w == Walk(p)
<1>1. /\ w[0] = p
      /\ \A i \in 0 .. Size - 1 : w[i + 1] = IF w[i] = NULL THEN NULL ELSE list[w[i]].next
  BY WalkSteps DEF Steps
<1> HIDE DEF w
<1>2. PICK rank \in [Pos -> Nat] :
        \A q \in Used :
          /\ rank[q] < numberEntries
          /\ list[q].next # NULL => list[q].next \in Used /\ rank[q] < rank[list[q].next]
  BY DEF Links, Ranked
<1>3. CASE p \in Used
  <2> DEFINE T == {i \in 0 .. Size : w[i] = NULL \/ (w[i] \in Used /\ i <= rank[w[i]])}
  <2>1. 0 \in T
    BY <1>1, <1>2, <1>3, NullIsNoPos DEF Used
  <2>2. ASSUME NEW i \in 0 .. Size - 1, i \in T
        PROVE  i + 1 \in T
    <3>1. i + 1 \in 0 .. Size
      BY NullIsNoPos
    <3>2. CASE w[i] = NULL
      BY <3>1, <3>2, <1>1
    <3>3. CASE w[i] # NULL
      <4>1. w[i] \in Used /\ i <= rank[w[i]] /\ w[i + 1] = list[w[i]].next
        BY <2>2, <3>3, <1>1
      <4>2. CASE w[i + 1] = NULL
        BY <4>2, <3>1
      <4>3. CASE w[i + 1] # NULL
        <5>1. w[i + 1] \in Used /\ rank[w[i]] < rank[w[i + 1]]
          BY <4>1, <4>3, <1>2
        <5>2. rank[w[i]] \in Nat /\ rank[w[i + 1]] \in Nat
          BY <4>1, <5>1 DEF Used
        <5> QED
          BY <5>1, <5>2, <4>1, <3>1
      <4> QED
        BY <4>2, <4>3
    <3> QED
      BY <3>2, <3>3
  <2>3. \A i \in 0 .. Size : i \in T
    <3> HIDE DEF T
    <3> QED
      BY <2>1, <2>2, NullIsNoPos, UpTo
  <2>4. w[Size] = NULL
    <3> SUFFICES ASSUME w[Size] # NULL
                 PROVE  FALSE
      OBVIOUS
    <3>1. w[Size] \in Used /\ Size <= rank[w[Size]]
      BY <2>3, NullIsNoPos
    <3>2. rank[w[Size]] < numberEntries /\ rank[w[Size]] \in Nat
      BY <3>1, <1>2 DEF Used
    <3>3. numberEntries <= Size /\ numberEntries \in Nat
      BY UsedFitTable DEF Links, TypeOK
    <3> QED
      BY <3>1, <3>2, <3>3, NullIsNoPos
  <2> QED
    BY <2>3, <2>4, <1>3 DEF w
<1>4. CASE p \notin Used
  <2>1. list[p].next = NULL /\ p # NULL
    BY <1>4, NullIsNoPos DEF Links, FreeEnds
  <2> DEFINE T == {i \in 0 .. Size : i = 0 \/ w[i] = NULL}
  <2>2. 0 \in T
    BY NullIsNoPos
  <2>3. ASSUME NEW i \in 0 .. Size - 1, i \in T
        PROVE  i + 1 \in T
    <3>1. i + 1 \in 0 .. Size
      BY NullIsNoPos
    <3> QED
      BY <3>1, <2>1, <2>3, <1>1
  <2>4. \A i \in 0 .. Size : i \in T
    <3> HIDE DEF T
    <3> QED
      BY <2>2, <2>3, NullIsNoPos, UpTo
  <2>5. \A i \in 1 .. Size : w[i] = NULL
    BY <2>4
  <2> QED
    BY <2>5, <1>1, <1>4, NullIsNoPos DEF w
<1> QED
  BY <1>3, <1>4

\* A chain: what is on it, and that it ends.
ChainOf(k) ==
  /\ Chain(k) \subseteq Pos /\ HashCode(k) \in Chain(k)
  /\ \A x \in Chain(k) : list[x].next # NULL => list[x].next \in Chain(k)
  /\ HashCode(k) \in Used =>
       Chain(k) \subseteq Used /\ Last(k) \in Chain(k) /\ list[Last(k)].next = NULL
  /\ HashCode(k) \notin Used => Chain(k) = {HashCode(k)}

Chains == ChainsEnd /\ \A k \in Key : ChainOf(k)

LEMMA ChainFacts == Links => Chains
<1> SUFFICES ASSUME Links
             PROVE  ChainsEnd /\ \A k \in Key : ChainOf(k)
  BY DEF Chains
<1>1. ChainsEnd
  BY WalkFromPos DEF ChainsEnd
<1> SUFFICES ASSUME NEW k \in Key
             PROVE  ChainOf(k)
  BY <1>1
<1> DEFINE h == HashCode(k)
           w == Walk(h)
<1>2. h \in Pos
  BY HashCodeIsPos
<1>3. /\ w[0] = h
      /\ \A i \in 0 .. Size - 1 : w[i + 1] = IF w[i] = NULL THEN NULL ELSE list[w[i]].next
  BY WalkSteps DEF Steps
<1>4. /\ w[Size] = NULL
      /\ h \in Used => \A i \in 0 .. Size : w[i] = NULL \/ w[i] \in Used
      /\ h \notin Used => \A i \in 1 .. Size : w[i] = NULL
  BY <1>2, WalkFromPos
<1>5. \A x : x \in Chain(k) <=> x # NULL /\ \E i \in 0 .. Size : x = w[i]
  BY DEF Chain
<1> HIDE DEF h, w
<1>6. Used \subseteq Pos
  BY DEF Used
<1>7. h \in Chain(k)
  BY <1>2, <1>3, <1>5, NullIsNoPos
<1>8. ASSUME NEW x \in Chain(k), list[x].next # NULL
      PROVE  list[x].next \in Chain(k)
  <2>1. PICK i \in 0 .. Size : x = w[i] /\ x # NULL
    BY <1>5
  <2>2. i \in 0 .. Size - 1 /\ i + 1 \in 0 .. Size
    BY <2>1, <1>4, NullIsNoPos
  <2>3. w[i + 1] = list[x].next
    BY <2>1, <2>2, <1>3
  <2> QED
    BY <2>2, <2>3, <1>5, <1>8
<1>9. ASSUME h \in Used
      PROVE  Chain(k) \subseteq Used /\ Last(k) \in Chain(k) /\ list[Last(k)].next = NULL
  <2>1. Chain(k) \subseteq Used
    BY <1>4, <1>5, <1>9
  <2> DEFINE ends == {i \in 0 .. Size : w[i] = NULL}
  <2>2. PICK i \in ends : \A j \in ends : i <= j
    <3>1. ends \subseteq Nat /\ ends # {}
      BY <1>4, NullIsNoPos
    <3> HIDE DEF ends
    <3> QED
      BY <3>1, LeastNat
  <2>3. i # 0
    BY <2>2, <1>2, <1>3, NullIsNoPos
  <2>4. i - 1 \in 0 .. Size - 1 /\ i - 1 \in 0 .. Size /\ (i - 1) + 1 = i /\ i - 1 \notin ends
    BY <2>2, <2>3, NullIsNoPos
  <2>5. w[i - 1] # NULL /\ list[w[i - 1]].next = NULL
    BY <2>2, <2>4, <1>3
  <2>6. \E x \in Chain(k) : list[x].next = NULL
    BY <2>4, <2>5, <1>5
  <2> QED
    BY <2>1, <2>6 DEF Last
<1>10. ASSUME h \notin Used
       PROVE  Chain(k) = {h}
  <2>1. \A i \in 0 .. Size : i = 0 \/ i \in 1 .. Size
    BY NullIsNoPos
  <2> QED
    BY <2>1, <1>3, <1>4, <1>5, <1>7, <1>10
<1>11. Chain(k) \subseteq Pos
  BY <1>2, <1>6, <1>9, <1>10
<1> QED
  BY <1>7, <1>8, <1>9, <1>10, <1>11 DEF ChainOf, h

\* A step that changes no link but that of an entry that had none leaves what was
\* on a chain there.
LEMMA ChainsGrow ==
  ASSUME Links, NEW k \in Key,
         \A p \in Pos : list[p].next # NULL => list'[p].next = list[p].next
  PROVE  Chain(k) \subseteq Chain(k)'
<1> DEFINE h == HashCode(k)
           w == Walk(h)
           v == Walk(h)'
<1>1. h \in Pos
  BY HashCodeIsPos
<1>2. /\ w[0] = h
      /\ \A i \in 0 .. Size - 1 : w[i + 1] = IF w[i] = NULL THEN NULL ELSE list[w[i]].next
  BY WalkSteps DEF Steps
<1>3. /\ v[0] = h
      /\ \A i \in 0 .. Size - 1 : v[i + 1] = IF v[i] = NULL THEN NULL ELSE list'[v[i]].next
  <2>1. Steps'
    BY WalkSteps, PTL
  <2> QED
    BY <2>1 DEF Steps
<1>4. \A i \in 0 .. Size : w[i] = NULL \/ w[i] = h \/ w[i] \in Used
  BY <1>1, WalkFromPos
<1> HIDE DEF h, w, v
<1>5. \A i \in 0 .. Size : w[i] = NULL \/ w[i] \in Pos
  BY <1>1, <1>4 DEF Used
<1> DEFINE T == {i \in 0 .. Size : w[i] # NULL => v[i] = w[i]}
<1>6. 0 \in T
  BY <1>2, <1>3, NullIsNoPos
<1>7. ASSUME NEW i \in 0 .. Size - 1, i \in T
      PROVE  i + 1 \in T
  <2>1. i + 1 \in 0 .. Size /\ i \in 0 .. Size
    BY NullIsNoPos
  <2>2. ASSUME w[i + 1] # NULL
        PROVE  v[i + 1] = w[i + 1]
    <3>1. w[i] # NULL /\ w[i + 1] = list[w[i]].next
      BY <2>2, <1>2
    <3>2. v[i] = w[i] /\ w[i] \in Pos
      BY <3>1, <2>1, <1>5, <1>7
    <3> QED
      BY <3>1, <3>2, <2>2, <1>3
  <2> QED
    BY <2>1, <2>2
<1>8. \A i \in 0 .. Size : i \in T
  <2> HIDE DEF T
  <2> QED
    BY <1>6, <1>7, NullIsNoPos, UpTo
<1>9. \A x : x \in Chain(k) <=> x # NULL /\ \E i \in 0 .. Size : x = w[i]
  BY DEF Chain, h, w
<1>10. \A x : x \in Chain(k)' <=> x # NULL /\ \E i \in 0 .. Size : x = v[i]
  BY DEF Chain, h, v
<1> QED
  BY <1>8, <1>9, <1>10

-----------------------------------------------------------------------------
(***************************************************************************)
(* What is stored, and where.                                              *)
(***************************************************************************)
\* A key is held when an entry has it, and is found there.
Stored ==
  \A k \in Key :
    /\ Holds(k) <=> \E p \in Used : list[p].key = k
    /\ \A p \in Used : list[p].key = k => Place(k) = p /\ Lookup(k) = list[p].val
    /\ HashCode(k) \notin Used => ~Holds(k)

LEMMA StoredFacts == HashInv => Stored
<1> SUFFICES ASSUME HashInv, NEW k \in Key
             PROVE  /\ Holds(k) <=> \E p \in Used : list[p].key = k
                    /\ \A p \in Used : list[p].key = k => Place(k) = p /\ Lookup(k) = list[p].val
                    /\ HashCode(k) \notin Used => ~Holds(k)
  BY DEF Stored
<1>1. k # 0
  BY HashMapAssumption
<1>2. ChainOf(k)
  BY ChainFacts DEF HashInv, Chains
<1>3. ASSUME NEW p \in Chain(k), list[p].key = k
      PROVE  p \in Used
  BY <1>1, <1>2, <1>3 DEF ChainOf, Used
<1>4. ASSUME NEW p \in Used, list[p].key = k
      PROVE  p \in Chain(k) /\ \A q \in Chain(k) : list[q].key = k => q = p
  BY <1>3, <1>4 DEF HashInv, OnItsChain, KeysApart
<1>5. Holds(k) <=> \E p \in Used : list[p].key = k
  BY <1>3, <1>4 DEF Holds
<1>6. ASSUME NEW p \in Used, list[p].key = k
      PROVE  Place(k) = p /\ Lookup(k) = list[p].val
  <2>1. Place(k) = p
    BY <1>4, <1>6 DEF Place
  <2> QED
    BY <2>1, <1>5, <1>6 DEF Lookup
<1>7. ASSUME HashCode(k) \notin Used
      PROVE  ~Holds(k)
  <2>1. Chain(k) = {HashCode(k)}
    BY <1>2, <1>7 DEF ChainOf
  <2> QED
    BY <2>1, <1>3, <1>7 DEF Holds
<1> QED
  BY <1>5, <1>6, <1>7

\* The keys present are as many as the entries.
LEMMA PresentCount ==
  ASSUME HashInv
  PROVE  Cardinality(Present) = numberEntries
<1> DEFINE f == [k \in Present |-> Place(k)]
<1>1. Stored
  BY StoredFacts
<1>2. \A k \in Present : k \in Key /\ Place(k) \in Used /\ list[Place(k)].key = k
  BY <1>1 DEF Stored, Present
<1>3. \A p \in Used : list[p].key \in Key
  BY DEF HashInv, Links, TypeOK, Entry, Used
<1>4. \A p \in Used : list[p].key \in Present /\ Place(list[p].key) = p
  BY <1>1, <1>3 DEF Stored, Present
<1>5. f \in [Present -> Used]
  BY <1>2
<1>6. \A j, k \in Present : f[j] = f[k] => j = k
  BY <1>2
<1>7. \A p \in Used : \E k \in Present : f[k] = p
  BY <1>4
<1>8. f \in Injection(Present, Used) /\ f \in Surjection(Present, Used)
  <2> HIDE DEF f
  <2>1. DOMAIN f = Present
    BY <1>5
  <2> QED
    BY <2>1, <1>5, <1>6, <1>7 DEF Injection, IsInjective, Surjection
<1>9. Used \in SUBSET Pos
  BY DEF Used
<1>10. IsFiniteSet(Used)
  BY <1>9, PosFacts
<1>11. Cardinality(Present) = Cardinality(Used)
  <2> HIDE DEF f
  <2> QED
    BY <1>8, <1>10, FS_Injection
<1> QED
  BY <1>11 DEF HashInv, Links, Counted

\* While there are fewer than Size entries, one is free.
LEMMA FirstFreeIsFree ==
  ASSUME Links, numberEntries < Size, NEW k \in Key
  PROVE  FirstFree(k) \in Pos \ Used
<1> DEFINE D == {Distance(k, p) : p \in Pos \ Used}
<1>1. Size \in Nat \ {0} /\ HashCode(k) \in 0 .. Size - 1
  BY HashMapAssumption, HashCodeIsPos DEF Pos
<1>2. \A p \in Pos : Distance(k, p) \in Nat
  <2>1. \A p \in Pos : p + Size - HashCode(k) \in Nat
    BY <1>1 DEF Pos
  <2> QED
    BY <2>1, <1>1 DEF Distance
<1>3. Used # Pos
  BY PosFacts, NullIsNoPos DEF Links, TypeOK, Counted
<1>4. D # {} /\ D \subseteq Nat
  BY <1>2, <1>3 DEF Used
<1>5. PICK d \in D : \A e \in D : d <= e
  <2> HIDE DEF D
  <2> QED
    BY <1>4, LeastNat
<1>6. PICK p \in Pos \ Used : d = Distance(k, p)
  BY <1>5
<1>7. /\ p \in Pos /\ list[p].key = 0
      /\ \A q \in Pos : list[q].key = 0 => Distance(k, p) <= Distance(k, q)
  BY <1>5, <1>6 DEF Used
<1> HIDE DEF D
<1>8. FirstFree(k) \in Pos /\ list[FirstFree(k)].key = 0
  BY <1>7 DEF FirstFree
<1> QED
  BY <1>8 DEF Used

-----------------------------------------------------------------------------
(***************************************************************************)
(* The steps.                                                              *)
(***************************************************************************)
\* An entry is filled, and linked from another that had no link, or from none.
Fills(p, k, v) ==
  /\ list' \in [Pos -> Entry]
  /\ list'[p] = [key |-> k, val |-> v, next |-> NULL]
  /\ \A q \in Pos \ {p} :
       /\ list'[q].key = list[q].key /\ list'[q].val = list[q].val
       /\ \/ list'[q].next = list[q].next
          \/ q \in Used /\ list[q].next = NULL /\ list'[q].next = p
  /\ numberEntries' = numberEntries + 1
  /\ result' = 1

LEMMA FillsUsed ==
  ASSUME Links, NEW k \in Key, NEW v \in Val, NEW p \in Pos \ Used, Fills(p, k, v)
  PROVE  Used' = Used \cup {p} /\ Links' /\ Chain(k) \subseteq Chain(k)'
<1>1. k # 0 /\ Used \subseteq Pos /\ numberEntries \in Nat
  BY HashMapAssumption DEF Used, Links, TypeOK
<1>2. Used' = Used \cup {p}
  BY <1>1 DEF Used, Fills
<1>3. TypeOK'
  BY <1>1 DEF TypeOK, Fills
<1>4. Counted'
  <2>1. IsFiniteSet(Used)
    BY <1>1, PosFacts
  <2>2. Cardinality(Used \cup {p}) = Cardinality(Used) + 1
    BY <2>1, FS_AddElement
  <2> QED
    BY <2>2, <1>2 DEF Links, Counted, Fills
<1>5. FreeEnds'
  BY <1>2 DEF Links, FreeEnds, Fills
<1>6. Ranked'
  <2>1. PICK rank \in [Pos -> Nat] :
          \A q \in Used :
            /\ rank[q] < numberEntries
            /\ list[q].next # NULL => list[q].next \in Used /\ rank[q] < rank[list[q].next]
    BY DEF Links, Ranked
  <2> DEFINE new == [rank EXCEPT ![p] = numberEntries]
  <2>2. new \in [Pos -> Nat] /\ new[p] = numberEntries /\ \A q \in Used : new[q] = rank[q]
    BY <1>1, <2>1
  <2>3. list'[p].next = NULL /\ numberEntries' = numberEntries + 1
    BY DEF Fills
  <2>4. \A q \in Used : \/ list'[q].next = list[q].next
                        \/ list'[q].next = p
    BY DEF Fills, Used
  <2> HIDE DEF new
  <2>5. ASSUME NEW q \in Used'
        PROVE  /\ new[q] < numberEntries'
               /\ list'[q].next # NULL => list'[q].next \in Used' /\ new[q] < new[list'[q].next]
    <3>1. CASE q = p
      BY <3>1, <1>1, <2>2, <2>3
    <3>2. CASE q \in Used
      <4>1. new[q] < numberEntries /\ new[q] \in Nat
        BY <3>2, <1>1, <2>1, <2>2
      <4>2. CASE list'[q].next = list[q].next
        BY <4>1, <4>2, <3>2, <1>1, <1>2, <2>1, <2>2, <2>3
      <4>3. CASE list'[q].next = p
        BY <4>1, <4>3, <1>1, <1>2, <2>2, <2>3
      <4> QED
        BY <4>2, <4>3, <3>2, <2>4
    <3> QED
      BY <3>1, <3>2, <1>2
  <2> QED
    BY <2>2, <2>5 DEF Ranked
<1>7. ASSUME NEW j \in Key
      PROVE  Chain(j) \subseteq Chain(j)'
  <2>1. \A q \in Pos : list[q].next # NULL => list'[q].next = list[q].next
    BY DEF Fills, Links, FreeEnds
  <2> QED
    BY <2>1, ChainsGrow
<1> QED
  BY <1>2, <1>3, <1>4, <1>5, <1>6, <1>7 DEF Links

LEMMA FillsKeeps ==
  ASSUME HashInv, NEW k \in Key, NEW v \in Val, NEW p \in Pos \ Used, ~Holds(k),
         Fills(p, k, v), p \in Chain(k)'
  PROVE  HashInv'
<1>1. Used' = Used \cup {p} /\ Links'
  BY FillsUsed DEF HashInv
<1>2. list'[p].key = k /\ \A q \in Used : list'[q].key = list[q].key
  BY DEF Fills, Used
<1>3. \A q \in Used : list[q].key \in Key /\ list[q].key # k
  <2>1. \A q \in Used : list[q].key \in Key
    BY DEF HashInv, Links, TypeOK, Entry, Used
  <2> QED
    BY <2>1, StoredFacts DEF Stored
<1>4. OnItsChain'
  <2>1. ASSUME NEW q \in Used
        PROVE  q \in Chain(list[q].key)'
    <3> DEFINE j == list[q].key
    <3>1. j \in Key /\ q \in Chain(j)
      BY <1>3 DEF HashInv, OnItsChain
    <3>2. \A r \in Pos : list[r].next # NULL => list'[r].next = list[r].next
      BY DEF Fills, HashInv, Links, FreeEnds
    <3>3. PICK i \in Key : i = j
      BY <3>1
    <3>4. Chain(i) \subseteq Chain(i)'
      BY <3>2, ChainsGrow DEF HashInv
    <3>5. q \in Chain(i)'
      BY <3>1, <3>3, <3>4
    <3>6. list'[q].key = i
      BY <3>3, <1>2
    <3> QED
      BY <3>5, <3>6
  <2> QED
    BY <2>1, <1>1, <1>2 DEF OnItsChain
<1>5. KeysApart'
  BY <1>1, <1>2, <1>3 DEF HashInv, KeysApart
<1> QED
  BY <1>1, <1>4, <1>5 DEF HashInv

\* What the assignments to the members of an entry make of it.
LEMMA EntryFacts ==
  ASSUME NEW r \in Entry, NEW k, NEW v, NEW n
  PROVE  /\ [[r EXCEPT !.key = k] EXCEPT !.val = v] = [key |-> k, val |-> v, next |-> r.next]
         /\ [r EXCEPT !.next = n] = [key |-> r.key, val |-> r.val, next |-> n]
<1>1. r = [key |-> r.key, val |-> r.val, next |-> r.next]
  BY DEF Entry
<1>2. [r EXCEPT !.key = k] = [key |-> k, val |-> r.val, next |-> r.next]
  BY <1>1
<1>3. [[key |-> k, val |-> r.val, next |-> r.next] EXCEPT !.val = v] = [key |-> k, val |-> v, next |-> r.next]
  OBVIOUS
<1>4. [r EXCEPT !.next = n] = [key |-> r.key, val |-> r.val, next |-> n]
  BY <1>1
<1> QED
  BY <1>2, <1>3, <1>4

\* hash_map_insert fills the home of the key, or the first free entry, which it
\* links to the end of the chain of the key.
LEMMA InsertAtHomeFills ==
  ASSUME HashInv, NEW k \in Key, NEW v \in Val, InsertAtHome(k, v)
  PROVE  /\ HashCode(k) \in Pos \ Used /\ ~Holds(k) /\ numberEntries < Size
         /\ Fills(HashCode(k), k, v) /\ HashInv'
<1> DEFINE h == HashCode(k)
<1>1. h \in Pos \ Used /\ list[h].key = 0
  BY HashCodeIsPos DEF InsertAtHome, Used
<1>2. ~Holds(k)
  BY <1>1, StoredFacts DEF Stored
<1>3. numberEntries < Size
  BY <1>1, UsedFitTable, NullIsNoPos DEF HashInv, Links, TypeOK
<1>4. list[h].next = NULL
  BY <1>1 DEF HashInv, Links, FreeEnds
<1>5. list \in [Pos -> Entry] /\ list[h] \in Entry
  BY <1>1 DEF HashInv, Links, TypeOK
<1> DEFINE e == [key |-> k, val |-> v, next |-> NULL]
<1>6. list' = [list EXCEPT ![h].key = k, ![h].val = v]
  BY DEF InsertAtHome
<1>7. [[list[h] EXCEPT !.key = k] EXCEPT !.val = v] = e
  BY <1>4, <1>5, EntryFacts
<1>8. list'[h] = e /\ \A q \in Pos \ {h} : list'[q] = list[q]
  BY <1>1, <1>5, <1>6, <1>7
<1>9. e \in Entry
  BY DEF Entry
<1>10. list' \in [Pos -> Entry]
  <2>1. list' = [q \in Pos |-> list'[q]]
    BY <1>5, <1>6
  <2>2. \A q \in Pos : list'[q] \in Entry
    BY <1>5, <1>8, <1>9
  <2> QED
    BY <2>1, <2>2
<1>11. Fills(h, k, v)
  <2> HIDE DEF h
  <2> QED
    BY <1>8, <1>10 DEF Fills, InsertAtHome
<1>12. h \in Chain(k)'
  <2>1. Links'
    BY <1>1, <1>11, FillsUsed DEF HashInv
  <2>2. (Links => Chains)'
    BY ChainFacts, PTL
  <2> QED
    BY <2>1, <2>2 DEF Chains, ChainOf
<1>13. HashInv'
  BY <1>1, <1>2, <1>11, <1>12, FillsKeeps
<1> QED
  BY <1>1, <1>2, <1>3, <1>11, <1>13

LEMMA LinkFills ==
  ASSUME HashInv, NEW k \in Key, NEW v \in Val, Link(k, v)
  PROVE  \E p \in Pos \ Used : Fills(p, k, v) /\ ~Holds(k) /\ numberEntries < Size /\ HashInv'
<1>1. PICK p \in Pos \ Used : p = FirstFree(k)
  BY FirstFreeIsFree DEF HashInv, Link
<1>2. PICK l \in Used : l = Last(k) /\ l \in Chain(k) /\ list[l].next = NULL
  <2>1. HashCode(k) \in Used /\ ChainOf(k)
    BY HashCodeIsPos, ChainFacts DEF Link, Used, HashInv, Chains
  <2> QED
    BY <2>1 DEF ChainOf
<1>3. p # l /\ l \in Pos
  BY <1>1, <1>2 DEF Used
<1>4. list[p].next = NULL
  BY <1>1 DEF HashInv, Links, FreeEnds
<1>5. list \in [Pos -> Entry] /\ list[p] \in Entry /\ list[l] \in Entry
  BY <1>1, <1>3 DEF HashInv, Links, TypeOK
<1> DEFINE e == [key |-> k, val |-> v, next |-> NULL]
           m == [list[l] EXCEPT !.next = p]
<1>6. list' = [list EXCEPT ![p].key = k, ![p].val = v, ![l].next = p]
  BY <1>1, <1>2 DEF Link
<1>7. [[list[p] EXCEPT !.key = k] EXCEPT !.val = v] = e
  <2>1. [[list[p] EXCEPT !.key = k] EXCEPT !.val = v] = [key |-> k, val |-> v, next |-> list[p].next]
    BY <1>5, EntryFacts
  <2> QED
    BY <2>1, <1>4
<1>8. list'[p] = e /\ list'[l] = m /\ \A q \in Pos \ {p, l} : list'[q] = list[q]
  BY <1>1, <1>3, <1>5, <1>6, <1>7
<1>9. m \in Entry /\ m.key = list[l].key /\ m.val = list[l].val /\ m.next = p
  <2>1. m = [key |-> list[l].key, val |-> list[l].val, next |-> p]
    BY <1>5, EntryFacts
  <2>2. list[l].key \in Key \cup {0} /\ list[l].val \in Val \cup {0} /\ p \in Pos
    BY <1>1, <1>5 DEF Entry
  <2> HIDE DEF m
  <2>3. m \in Entry
    BY <2>1, <2>2 DEF Entry
  <2> QED
    BY <2>1, <2>3
<1>10. e \in Entry
  BY DEF Entry
<1>11. list' \in [Pos -> Entry]
  <2>1. list' = [q \in Pos |-> list'[q]]
    BY <1>5, <1>6
  <2>2. \A q \in Pos : list'[q] \in Entry
    BY <1>5, <1>8, <1>9, <1>10
  <2> QED
    BY <2>1, <2>2
<1>12. Fills(p, k, v)
  <2>1. ASSUME NEW q \in Pos \ {p}
        PROVE  /\ list'[q].key = list[q].key /\ list'[q].val = list[q].val
               /\ \/ list'[q].next = list[q].next
                  \/ q \in Used /\ list[q].next = NULL /\ list'[q].next = p
    <3> HIDE DEF m
    <3>1. CASE q = l
      BY <3>1, <1>2, <1>8, <1>9
    <3>2. CASE q # l
      BY <3>2, <1>8
    <3> QED
      BY <3>1, <3>2
  <2> QED
    BY <2>1, <1>8, <1>11 DEF Fills, Link
<1>13. p \in Chain(k)'
  <2>1. Links' /\ Chain(k) \subseteq Chain(k)'
    BY <1>1, <1>12, FillsUsed DEF HashInv
  <2>2. (Links => Chains)'
    BY ChainFacts, PTL
  <2>3. \A x \in Chain(k)' : list'[x].next # NULL' => list'[x].next \in Chain(k)'
    BY <2>1, <2>2 DEF Chains, ChainOf
  <2>4. l \in Chain(k)' /\ list'[l].next = p /\ p # NULL'
    BY <2>1, <1>1, <1>2, <1>8, <1>9, NullIsNoPos DEF NULL
  <2> QED
    BY <2>3, <2>4
<1>14. ~Holds(k) /\ numberEntries < Size
  BY DEF Link
<1>15. HashInv'
  BY <1>1, <1>12, <1>13, <1>14, FillsKeeps
<1> QED
  BY <1>12, <1>14, <1>15

\* The value of the entry of a key is replaced.
LEMMA OverwriteKeeps ==
  ASSUME HashInv, NEW k \in Key, NEW v \in Val, Overwrite(k, v)
  PROVE  /\ HashInv' /\ Used' = Used
         /\ \E p \in Used : /\ list[p].key = k /\ list'[p].val = v
                            /\ \A q \in Pos : list'[q].key = list[q].key
                            /\ \A q \in Pos \ {p} : list'[q].val = list[q].val
<1>1. PICK p \in Used : list[p].key = k /\ Place(k) = p
  BY StoredFacts DEF Stored, Overwrite
<1>2. list \in [Pos -> Entry] /\ p \in Pos /\ list[p] \in Entry
  BY <1>1 DEF HashInv, Links, TypeOK, Used
<1>3. list' = [list EXCEPT ![p].val = v]
  BY <1>1 DEF Overwrite
<1>4. [list[p] EXCEPT !.val = v] \in Entry
  BY <1>2 DEF Entry
<1>5. /\ list' \in [Pos -> Entry] /\ list'[p].val = v
      /\ \A q \in Pos : list'[q].key = list[q].key /\ list'[q].next = list[q].next
      /\ \A q \in Pos \ {p} : list'[q].val = list[q].val
  <2>1. list' \in [Pos -> Entry]
    BY <1>2, <1>3, <1>4
  <2>2. list'[p] = [list[p] EXCEPT !.val = v] /\ \A q \in Pos \ {p} : list'[q] = list[q]
    BY <1>2, <1>3
  <2>3. list'[p].val = v /\ list'[p].key = list[p].key /\ list'[p].next = list[p].next
    BY <1>2, <2>2 DEF Entry
  <2> QED
    BY <2>1, <2>2, <2>3
<1>6. UNCHANGED numberEntries /\ result' = 1
  BY DEF Overwrite
<1>7. Used' = Used
  BY <1>5 DEF Used
<1>8. Links'
  <2>1. TypeOK' /\ Counted' /\ FreeEnds'
    BY <1>5, <1>6, <1>7 DEF HashInv, Links, TypeOK, Counted, FreeEnds
  <2>2. \A q \in Used : list'[q].next = list[q].next
    BY <1>5 DEF Used
  <2>3. Ranked'
    BY <1>6, <1>7, <2>2 DEF HashInv, Links, Ranked
  <2> QED
    BY <2>1, <2>3 DEF Links
<1>9. OnItsChain'
  <2>1. ASSUME NEW q \in Used, NEW j \in Key, j = list[q].key
        PROVE  q \in Chain(j)'
    <3>1. Chain(j) \subseteq Chain(j)'
      BY <1>5, ChainsGrow DEF HashInv
    <3> QED
      BY <3>1, <2>1 DEF HashInv, OnItsChain
  <2>2. ASSUME NEW q \in Used
        PROVE  q \in Chain(list[q].key)'
    <3>1. PICK j \in Key : j = list[q].key
      BY DEF HashInv, Links, TypeOK, Entry, Used
    <3>2. q \in Chain(j)' /\ list'[q].key = j
      BY <3>1, <2>1, <1>5 DEF Used
    <3> QED
      BY <3>2
  <2> QED
    BY <2>2, <1>7 DEF OnItsChain
<1>10. KeysApart'
  BY <1>5, <1>7 DEF HashInv, KeysApart, Used
<1> QED
  BY <1>1, <1>5, <1>7, <1>8, <1>9, <1>10 DEF HashInv

\* The table is left as it is.
LEMMA UnchangedKeeps ==
  ASSUME HashInv, UNCHANGED <<list, numberEntries>>, result' \in {0, 1}
  PROVE  HashInv' /\ Used' = Used
<1>1. Used' = Used
  BY DEF Used
<1>2. Links'
  BY <1>1 DEF HashInv, Links, TypeOK, Counted, FreeEnds, Ranked
<1>3. ASSUME NEW j \in Key
      PROVE  Chain(j) \subseteq Chain(j)'
  BY ChainsGrow DEF HashInv
<1>4. \A q \in Used : list[q].key \in Key
  BY DEF HashInv, Links, TypeOK, Entry, Used
<1>5. OnItsChain'
  <2>1. ASSUME NEW q \in Used
        PROVE  q \in Chain(list[q].key)'
    <3>1. PICK j \in Key : j = list[q].key
      BY <1>4
    <3>2. q \in Chain(j)' /\ list'[q].key = j
      BY <3>1, <1>3 DEF HashInv, OnItsChain
    <3> QED
      BY <3>2
  <2> QED
    BY <2>1, <1>1 DEF OnItsChain
<1>6. KeysApart'
  BY <1>1 DEF HashInv, KeysApart
<1> QED
  BY <1>1, <1>2, <1>5, <1>6 DEF HashInv

\* An empty table.
Empty == list = [p \in Pos |-> Free] /\ numberEntries = 0 /\ result \in {0, 1}

LEMMA EmptyIsFine == Empty => HashInv /\ Present = {}
<1> SUFFICES ASSUME Empty
             PROVE  HashInv /\ Present = {}
  OBVIOUS
<1>1. Free \in Entry
  BY DEF Free, Entry
<1>2. Used = {}
  BY DEF Empty, Used, Free
<1>3. TypeOK
  BY <1>1 DEF Empty, TypeOK
<1>4. Counted
  BY <1>2, FS_EmptySet DEF Counted, Empty
<1>5. FreeEnds
  BY DEF FreeEnds, Empty, Free
<1>6. Ranked
  <2>1. [p \in Pos |-> 0] \in [Pos -> Nat]
    OBVIOUS
  <2> QED
    BY <2>1, <1>2 DEF Ranked
<1>7. HashInv
  BY <1>2, <1>3, <1>4, <1>5, <1>6 DEF HashInv, Links, OnItsChain, KeysApart
<1>8. Present = {}
  BY <1>2, <1>7, StoredFacts DEF Stored, Present
<1> QED
  BY <1>7, <1>8

-----------------------------------------------------------------------------
(***************************************************************************)
(* The theorems.                                                           *)
(***************************************************************************)
LEMMA HashInvKept == HashInv /\ [Next]_vars => HashInv'
<1> SUFFICES ASSUME HashInv, [Next]_vars
             PROVE  HashInv'
  OBVIOUS
<1>1. CASE Clear
  <2>1. Empty'
    BY <1>1 DEF Empty, Clear, HashInv, Links, TypeOK
  <2>2. (Empty => HashInv /\ Present = {})'
    BY EmptyIsFine, PTL
  <2> QED
    BY <2>1, <2>2
<1>2. ASSUME NEW k \in Key, NEW v \in Val, Insert(k, v)
      PROVE  HashInv'
  <2>1. CASE InsertAtHome(k, v)
    BY <2>1, InsertAtHomeFills
  <2>2. CASE Overwrite(k, v)
    BY <2>2, OverwriteKeeps
  <2>3. CASE Link(k, v)
    BY <2>3, LinkFills
  <2>4. CASE Refuse(k, v)
    BY <2>4, UnchangedKeeps DEF Refuse
  <2> QED
    BY <1>2, <2>1, <2>2, <2>3, <2>4 DEF Insert
<1>3. CASE UNCHANGED vars
  BY <1>3, UnchangedKeeps DEF vars, HashInv, Links, TypeOK
<1> QED
  BY <1>1, <1>2, <1>3 DEF Next

THEOREM HashInvAlways == Spec => []HashInv
<1>1. Init => HashInv
  BY EmptyIsFine DEF Init, Empty
<1> QED
  BY <1>1, HashInvKept, PTL DEF Spec

(***************************************************************************)
(* The loops of hash_map_insert and hash_map_lookup, which go on until a   *)
(* next of NULL, end after at most Size steps, from wherever they start.   *)
(***************************************************************************)
THEOREM LoopsEnd == Spec => []ChainsEnd
<1>1. HashInv => ChainsEnd
  BY ChainFacts DEF HashInv, Chains
<1> QED
  BY <1>1, HashInvAlways, PTL

-----------------------------------------------------------------------------
(***************************************************************************)
(* The table implements the map of FlowMap.                                *)
(***************************************************************************)
\* The keys present, and their values, before and after a step, in the terms of
\* the entries in use.
LEMMA StoredAfter ==
  ASSUME HashInv, HashInv'
  PROVE  /\ Stored /\ \A k \in Key : k \in Present <=> \E p \in Used : list[p].key = k
         /\ Stored' /\ \A k \in Key : k \in Present' <=> \E p \in Used' : list'[p].key = k
         /\ Present \subseteq Key /\ Present' \subseteq Key
<1>1. Stored
  BY StoredFacts
<1>2. Stored'
  <2>1. (HashInv => Stored)'
    BY StoredFacts, PTL
  <2> QED
    BY <2>1
<1>3. \A k \in Key : k \in Present <=> \E p \in Used : list[p].key = k
  BY <1>1 DEF Stored, Present
<1>4. \A k \in Key : k \in Present' <=> \E p \in Used' : list'[p].key = k
  BY <1>2 DEF Stored, Present
<1> QED
  BY <1>1, <1>2, <1>3, <1>4 DEF Present

\* FlowMap counts as HashMap does.
LEMMA SameCardinality == \A S : Promise!Cardinality(S) = Cardinality(S)
BY DEF Promise!Cardinality, Cardinality

LEMMA FillsInserts ==
  ASSUME HashInv, HashInv', NEW k \in Key, NEW v \in Val, NEW p \in Pos \ Used,
         Fills(p, k, v), ~Holds(k), numberEntries < Size
  PROVE  Promise!Insert(k, v)
<1>1. Used' = Used \cup {p}
  BY FillsUsed DEF HashInv
<1>2. list'[p].key = k /\ list'[p].val = v /\ \A q \in Used : list'[q].key = list[q].key /\ list'[q].val = list[q].val
  BY DEF Fills, Used
<1>3. Present' = Present \cup {k}
  BY <1>1, <1>2, StoredAfter
<1>4. Lookup(k)' = v
  BY <1>1, <1>2, StoredAfter DEF Stored
<1>5. ASSUME NEW j \in Present
      PROVE  Lookup(j)' = Lookup(j) /\ j # k
  <2>1. PICK q \in Used : list[q].key = j
    BY StoredAfter
  <2>2. j \in Key /\ Lookup(j) = list[q].val
    BY <2>1, StoredAfter DEF Stored
  <2>3. q \in Used' /\ list'[q].key = j
    BY <2>1, <1>1, <1>2
  <2>4. Lookup(j)' = list'[q].val
    BY <2>2, <2>3, StoredAfter DEF Stored
  <2>5. j # k
    BY DEF Present
  <2> QED
    BY <2>1, <2>2, <2>4, <2>5, <1>2
<1>6. Cardinality(Present) < Size
  BY PresentCount
<1>7. [j \in Present |-> Lookup(j)]'
        = [j \in Present \cup {k} |-> IF j = k THEN v ELSE [i \in Present |-> Lookup(i)][j]]
  BY <1>3, <1>4, <1>5
<1>8. result' = 1
  BY DEF Fills
<1> QED
  BY <1>6, <1>7, <1>8, SameCardinality DEF Promise!Insert

LEMMA OverwriteInserts ==
  ASSUME HashInv, HashInv', NEW k \in Key, NEW v \in Val, Overwrite(k, v)
  PROVE  Promise!Insert(k, v)
<1>1. PICK p \in Used : /\ list[p].key = k /\ list'[p].val = v
                        /\ \A q \in Pos : list'[q].key = list[q].key
                        /\ \A q \in Pos \ {p} : list'[q].val = list[q].val
  BY OverwriteKeeps
<1>2. Used' = Used /\ Used \subseteq Pos
  BY OverwriteKeeps DEF Used
<1>3. Present' = Present
  BY <1>1, <1>2, StoredAfter
<1>4. k \in Present
  BY <1>1, StoredAfter
<1>5. Lookup(k)' = v
  BY <1>1, <1>2, StoredAfter DEF Stored
<1>6. ASSUME NEW j \in Present, j # k
      PROVE  Lookup(j)' = Lookup(j)
  <2>1. PICK q \in Used : list[q].key = j
    BY StoredAfter
  <2>2. j \in Key /\ Lookup(j) = list[q].val
    BY <2>1, StoredAfter DEF Stored
  <2>3. q \in Used' /\ list'[q].key = j /\ list'[q].val = list[q].val
    BY <2>1, <1>1, <1>2, <1>6
  <2>4. Lookup(j)' = list'[q].val
    BY <2>2, <2>3, StoredAfter DEF Stored
  <2> QED
    BY <2>2, <2>3, <2>4
<1>7. [j \in Present |-> Lookup(j)]'
        = [j \in Present \cup {k} |-> IF j = k THEN v ELSE [i \in Present |-> Lookup(i)][j]]
  BY <1>3, <1>4, <1>5, <1>6
<1>8. result' = 1
  BY DEF Overwrite
<1> QED
  BY <1>4, <1>7, <1>8 DEF Promise!Insert

\* A step that leaves the table as it is leaves the map as it is.
LEMMA UnchangedMap ==
  ASSUME HashInv, HashInv', UNCHANGED list, Used' = Used
  PROVE  [j \in Present |-> Lookup(j)]' = [j \in Present |-> Lookup(j)]
<1>1. Present' = Present
  BY StoredAfter
<1>2. ASSUME NEW j \in Present
      PROVE  Lookup(j)' = Lookup(j)
  <2>1. PICK q \in Used : list[q].key = j
    BY StoredAfter
  <2> QED
    BY <2>1, StoredAfter DEF Stored
<1> QED
  BY <1>1, <1>2

LEMMA EmptyMap == Present = {} => [j \in Present |-> Lookup(j)] = [j \in {} |-> 0]
OBVIOUS

LEMMA NextInserts ==
  ASSUME HashInv, HashInv', [Next]_vars
  PROVE  [Promise!Next]_(Promise!vars)
<1>1. CASE Clear
  <2>1. Empty'
    BY <1>1 DEF Empty, Clear, HashInv, Links, TypeOK
  <2>2. (Empty => HashInv /\ Present = {})'
    BY EmptyIsFine, PTL
  <2>3. (Present = {} => [j \in Present |-> Lookup(j)] = [j \in {} |-> 0])'
    BY EmptyMap, PTL
  <2>4. [j \in Present |-> Lookup(j)]' = [j \in {} |-> 0]
    BY <2>1, <2>2, <2>3
  <2>5. Promise!Clear
    BY <2>4, <1>1 DEF Promise!Clear, Clear
  <2> QED
    BY <2>5 DEF Promise!Next
<1>2. ASSUME NEW k \in Key, NEW v \in Val, Insert(k, v)
      PROVE  Promise!Insert(k, v)
  <2>1. CASE InsertAtHome(k, v)
    <3>1. PICK p \in Pos \ Used : p = HashCode(k)
      BY <2>1, InsertAtHomeFills
    <3>2. Fills(p, k, v) /\ ~Holds(k) /\ numberEntries < Size
      BY <2>1, <3>1, InsertAtHomeFills
    <3> QED
      BY <3>2, FillsInserts
  <2>2. CASE Overwrite(k, v)
    BY <2>2, OverwriteInserts
  <2>3. CASE Link(k, v)
    BY <2>3, LinkFills, FillsInserts
  <2>4. CASE Refuse(k, v)
    <3>1. UNCHANGED list /\ result' = 0 /\ ~Holds(k) /\ numberEntries >= Size
      BY <2>4 DEF Refuse
    <3>2. Used' = Used
      BY <3>1 DEF Used
    <3>3. ~(numberEntries < Size)
      BY <3>1, NullIsNoPos DEF HashInv, Links, TypeOK
    <3>4. [j \in Present |-> Lookup(j)]' = [j \in Present |-> Lookup(j)]
      BY <3>1, <3>2, UnchangedMap
    <3>5. k \notin Present /\ ~(Cardinality(Present) < Size)
      BY <3>1, <3>3, PresentCount DEF Present
    <3> QED
      BY <3>1, <3>4, <3>5, SameCardinality DEF Promise!Insert
  <2> QED
    BY <1>2, <2>1, <2>2, <2>3, <2>4 DEF Insert
<1>3. CASE UNCHANGED vars
  <2>1. UNCHANGED <<list, result>> /\ Used' = Used
    BY <1>3 DEF vars, Used
  <2>2. [j \in Present |-> Lookup(j)]' = [j \in Present |-> Lookup(j)]
    BY <2>1, UnchangedMap
  <2> QED
    BY <2>1, <2>2 DEF Promise!vars
<1> QED
  BY <1>1, <1>2, <1>3 DEF Next, Promise!Next

(***************************************************************************)
(* The table behaves as the map it stands for: a flow is found with its    *)
(* latest value however the chains have grown together, and an insertion   *)
(* fails only when the table holds Size other flows.                       *)
(***************************************************************************)
THEOREM ImplementsFlowMap == Spec => IsFlowMap
<1>1. Init => Promise!Init
  <2>1. Init => Present = {} /\ result = 1
    BY EmptyIsFine DEF Init, Empty
  <2> QED
    BY <2>1, EmptyMap DEF Promise!Init
<1>2. HashInv /\ HashInv' /\ [Next]_vars => [Promise!Next]_(Promise!vars)
  BY NextInserts
<1> QED
  BY <1>1, <1>2, HashInvAlways, PTL DEF Spec, IsFlowMap, Promise!Spec

=============================================================================
