-------------------------- MODULE Scheduler_proofs --------------------------
(***************************************************************************)
(* Proofs about Scheduler, for every set of requests: the grid is free of  *)
(* conflicts while it is filled and after it was cut and turned round, a   *)
(* schedule that is issued has every cell, once and in the order of the    *)
(* route, and the slots given to the nodes for discovery are free.         *)
(***************************************************************************)
EXTENDS Scheduler, TLAPS, FiniteSetTheorems, WellFoundedInduction, SequenceTheorems

-----------------------------------------------------------------------------
(***************************************************************************)
(* Naturals, sequences and orders.                                         *)
(***************************************************************************)
\* Every non-empty set of naturals has a least element.
LEMMA LeastNat ==
  ASSUME NEW T, T \subseteq Nat, T # {}
  PROVE  \E x \in T : \A y \in T : x <= y
<1>1. IsWellFoundedOn(OpToRel(<, Nat), Nat)
  BY NatLessThanWellFounded
<1>2. PICK x \in T : \A y \in T : ~(<<y, x>> \in OpToRel(<, Nat))
  BY <1>1, WFMin
<1>3. \A y \in T : ~(y < x)
  BY <1>2 DEF OpToRel
<1> QED
  BY <1>3

\* A set of naturals that holds 0, and the successor of each of its members up
\* to n, holds all up to n.
LEMMA UpTo ==
  ASSUME NEW n \in Nat, NEW T, 0 \in T, \A i \in 0 .. n - 1 : i \in T => i + 1 \in T
  PROVE  \A i \in 0 .. n : i \in T
<1> DEFINE out == {i \in 0 .. n : i \notin T}
<1>1. ASSUME out # {}
      PROVE  FALSE
  <2>1. PICK i \in out : \A j \in out : i <= j
    <3>1. out \subseteq Nat
      OBVIOUS
    <3> HIDE DEF out
    <3> QED
      BY <3>1, <1>1, LeastNat
  <2>2. i # 0
    BY <2>1
  <2>3. i - 1 \in 0 .. n - 1 /\ i - 1 \notin out /\ (i - 1) + 1 = i
    BY <2>1, <2>2
  <2> QED
    BY <2>1, <2>3
<1> QED
  BY <1>1

\* Two cells of a route in a row share a node.
Linked(cells) ==
  /\ Len(cells) \in Nat /\ DOMAIN cells = 1 .. Len(cells)
  /\ \A k \in 1 .. Len(cells) - 1 : cells[k] \cap cells[k + 1] # {}

LEMMA WindowIsLinked ==
  ASSUME NEW path \in Seq(Nat), Len(path) >= 2, NEW size \in Nat, size >= 2
  PROVE  Linked(Window(path, size))
<1> DEFINE last == Len(path) - 1
           from(p) == IF p = 0 THEN 0 ELSE p - 1
           until(p) == IF p = 0 \/ p = last THEN from(p) + size - 2 ELSE from(p) + size - 1
           who(k) == { path[p + 1] : p \in { p \in 0..last : from(p) <= k - 1 /\ k - 1 <= until(p) } }
           len == last + size - 2
           w == [k \in 1 .. len |-> who(k)]
<1>1. w = Window(path, size)
  BY DEF Window
<1>2. len \in Nat /\ last \in Nat /\ last >= 1
  OBVIOUS
<1>3. Len(w) = len /\ DOMAIN w = 1 .. len
  <2> HIDE DEF len, who
  <2> QED
    BY <1>2
<1>4. ASSUME NEW k \in 1 .. len - 1
      PROVE  who(k) \cap who(k + 1) # {}
  <2>1. PICK i \in 0 .. last : from(i) <= k - 1 /\ k - 1 <= until(i) /\ k <= until(i)
    <3>1. CASE k < last
      <4>1. k \in 0 .. last /\ from(k) <= k - 1 /\ k - 1 <= until(k) /\ k <= until(k)
        BY <3>1, <1>2
      <4> QED
        BY <4>1
    <3>2. CASE ~(k < last)
      <4>1. last \in 0 .. last /\ from(last) <= k - 1 /\ k - 1 <= until(last) /\ k <= until(last)
        <5>1. k \in Int /\ k <= last + size - 3 /\ k >= last
          BY <3>2, <1>2
        <5> HIDE DEF last
        <5> QED
          BY <5>1, <1>2
      <4> QED
        BY <4>1
    <3> QED
      BY <3>1, <3>2
  <2>2. from(i) <= k /\ (k + 1) - 1 = k
    BY <2>1
  <2>3. path[i + 1] \in who(k) /\ path[i + 1] \in who(k + 1)
    <3> HIDE DEF from, until, last
    <3> QED
      BY <2>1, <2>2
  <2> QED
    BY <2>3
<1>5. \A k \in 1 .. len : w[k] = who(k)
  <2> HIDE DEF who, len
  <2> QED OBVIOUS
<1>6. Linked(w)
  <2>1. ASSUME NEW k \in 1 .. len - 1 PROVE w[k] \cap w[k + 1] # {}
    <3>1. k \in 1 .. len /\ k + 1 \in 1 .. len
      BY <1>2
    <3>2. w[k] = who(k) /\ w[k + 1] = who(k + 1)
      <4> HIDE DEF w, who, len
      <4> QED BY <3>1, <1>5
    <3> HIDE DEF w, who, len
    <3> QED
      BY <3>2, <1>4, <2>1
  <2> HIDE DEF w, len
  <2> QED
    BY <1>2, <1>3, <2>1 DEF Linked
<1> HIDE DEF w
<1> QED
  BY <1>1, <1>6

\* The cells before each hop are what the recursion says: it has a solution on
\* every interval that starts at 0.
LEMMA CellsAddUp ==
  ASSUME NEW n \in Nat, NEW etx \in [1 .. n -> Nat \ {0}], Len(etx) = n
  PROVE  /\ CellsUpTo(etx) \in [0 .. n -> Nat]
         /\ CellsUpTo(etx)[0] = 0
         /\ \A h \in 1 .. n : CellsUpTo(etx)[h] = CellsUpTo(etx)[h - 1] + etx[h]
<1> DEFINE Sums(m) == { f \in [0 .. m -> Nat] : f[0] = 0 /\ \A h \in 1 .. m : f[h] = f[h - 1] + etx[h] }
           T == { m \in 0 .. n : Sums(m) # {} }
<1>1. 0 \in T
  <2>1. [h \in 0 .. 0 |-> 0] \in Sums(0)
    OBVIOUS
  <2> HIDE DEF Sums
  <2>2. QED BY <2>1
<1>2. ASSUME NEW m \in 0 .. n - 1, m \in T PROVE m + 1 \in T
  <2>1. PICK f : f \in Sums(m)
    BY <1>2
  <2> DEFINE g == [h \in 0 .. m + 1 |-> IF h = m + 1 THEN f[m] + etx[m + 1] ELSE f[h]]
  <2>2. m \in Nat /\ m + 1 \in 1 .. n /\ m + 1 \in 0 .. n
    OBVIOUS
  <2>3. f \in [0 .. m -> Nat] /\ f[0] = 0 /\ \A h \in 1 .. m : f[h] = f[h - 1] + etx[h]
    BY <2>1
  <2>4. f[m] \in Nat /\ etx[m + 1] \in Nat
    BY <2>2, <2>3
  <2>5. g \in [0 .. m + 1 -> Nat]
    BY <2>2, <2>3, <2>4
  <2>6. g[0] = 0
    BY <2>2, <2>3
  <2>7. ASSUME NEW h \in 1 .. m + 1 PROVE g[h] = g[h - 1] + etx[h]
    BY <2>2, <2>3
  <2> HIDE DEF g
  <2>8. g \in Sums(m + 1)
    BY <2>5, <2>6, <2>7
  <2> HIDE DEF Sums
  <2>9. QED BY <2>2, <2>8
<1>3. n \in T
  <2> HIDE DEF T
  <2>1. \A m \in 0 .. n : m \in T
    BY <1>1, <1>2, UpTo
  <2>2. QED BY <2>1
<1>4. PICK f : f \in Sums(n)
  BY <1>3
<1> DEFINE step(u) == [h \in 0 .. n |-> IF h = 0 THEN 0 ELSE u[h - 1] + etx[h]]
<1>5. f = step(f)
  BY <1>4
<1>6. CellsUpTo(etx) = CHOOSE u : u = step(u)
  BY DEF CellsUpTo
<1> DEFINE v == CellsUpTo(etx)
<1>7. v = step(v)
  <2> HIDE DEF step
  <2>1. QED BY <1>5, <1>6
<1> HIDE DEF v
<1>8. /\ DOMAIN v = 0 .. n /\ v[0] = 0
      /\ \A h \in 1 .. n : v[h] = v[h - 1] + etx[h]
  BY <1>7
<1> DEFINE N == { h \in 0 .. n : v[h] \in Nat }
<1>9. 0 \in N
  BY <1>8
<1>10. \A m \in 0 .. n - 1 : m \in N => m + 1 \in N
  <2>1. ASSUME NEW m \in 0 .. n - 1, m \in N PROVE m + 1 \in N
    <3>1. m + 1 \in 1 .. n /\ (m + 1) - 1 = m
      OBVIOUS
    <3>2. v[m + 1] = v[m] + etx[m + 1] /\ v[m] \in Nat /\ etx[m + 1] \in Nat
      BY <1>8, <2>1, <3>1
    <3>3. QED BY <3>1, <3>2
  <2>2. QED BY <2>1
<1>11. \A h \in 0 .. n : h \in N
  <2> HIDE DEF N
  <2>1. QED BY <1>9, <1>10, UpTo
<1>12. v = [h \in 0 .. n |-> v[h]]
  BY <1>7
<1>13. v \in [0 .. n -> Nat]
  BY <1>11, <1>12
<1>14. QED BY <1>8, <1>13 DEF v

LEMMA PerLinkIsLinked ==
  ASSUME NEW path \in Seq(Nat), Len(path) >= 2, NEW etx \in [1 .. (Len(path) - 1) -> Nat \ {0}]
  PROVE  Linked(PerLink(path, etx))
<1> DEFINE n == Len(path) - 1
           upTo == CellsUpTo(etx)
           len == upTo[n]
           covers(k) == { h \in 1 .. n : k <= upTo[h] }
           hop(k) == Min(covers(k))
           who(k) == {path[hop(k)], path[hop(k) + 1]}
           w == [k \in 1 .. len |-> who(k)]
<1>0. n \in Nat \ {0} /\ Len(etx) = n
  OBVIOUS
<1>1. w = PerLink(path, etx)
  BY <1>0 DEF PerLink
<1>u. /\ upTo \in [0 .. n -> Nat] /\ upTo[0] = 0
      /\ \A h \in 1 .. n : upTo[h] = upTo[h - 1] + etx[h]
  <2> HIDE DEF n
  <2>1. etx \in [1 .. n -> Nat \ {0}]
    BY DEF n
  <2>2. QED BY <1>0, <2>1, CellsAddUp
<1> HIDE DEF upTo
<1>2. len \in Nat
  <2> HIDE DEF n
  <2>1. QED BY <1>0, <1>u
<1>3. Len(w) = len /\ DOMAIN w = 1 .. len
  <2> HIDE DEF len, who
  <2> QED
    BY <1>2
<1>h. ASSUME NEW k \in 1 .. len
      PROVE  hop(k) \in covers(k) /\ \A h \in covers(k) : hop(k) <= h
  <2>1. n \in covers(k)
    <3> HIDE DEF n
    <3>1. QED BY <1>0
  <2>2. covers(k) \subseteq Nat /\ covers(k) # {}
    <3>1. covers(k) \subseteq Nat
      OBVIOUS
    <3> HIDE DEF covers
    <3>2. QED BY <2>1, <3>1
  <2> HIDE DEF covers
  <2>3. \E x \in covers(k) : \A y \in covers(k) : x <= y
    BY <2>2, LeastNat
  <2>4. QED BY <2>3 DEF Min
<1>4. ASSUME NEW k \in 1 .. len - 1
      PROVE  hop(k + 1) \in {hop(k), hop(k) + 1}
  <2> DEFINE h == hop(k)
             g == hop(k + 1)
  <2>0. k \in 1 .. len /\ k + 1 \in 1 .. len /\ k \in Nat /\ n \in Nat
    BY <1>0, <1>2
  <2>1. h \in covers(k) /\ \A x \in covers(k) : h <= x
    BY <1>h, <2>0
  <2>2. g \in covers(k + 1) /\ \A x \in covers(k + 1) : g <= x
    BY <1>h, <2>0
  <2> HIDE DEF h, g, hop, n
  <2>3. h \in 1 .. n /\ k <= upTo[h] /\ g \in 1 .. n /\ k + 1 <= upTo[g] /\ upTo[g] \in Nat /\ upTo[h] \in Nat
    BY <2>1, <2>2, <1>u, <2>0
  <2>4. h <= g
    <3>1. g \in covers(k)
      BY <2>0, <2>3
    <3>2. QED BY <2>1, <3>1
  <2>5. CASE k + 1 <= upTo[h]
    <3>1. h \in covers(k + 1)
      BY <2>3, <2>5
    <3>2. g <= h
      BY <2>2, <3>1
    <3>3. QED BY <2>3, <2>4, <3>2 DEF h, g
  <2>6. CASE ~(k + 1 <= upTo[h])
    <3>1. upTo[h] = k
      BY <2>0, <2>3, <2>6
    <3>2. h # n
      BY <2>0, <3>1
    <3>3. h + 1 \in 1 .. n /\ (h + 1) - 1 = h
      BY <2>0, <2>3, <3>2
    <3>4. upTo[h + 1] = k + etx[h + 1] /\ etx[h + 1] \in Nat \ {0}
      BY <1>u, <3>1, <3>3 DEF n
    <3>5. h + 1 \in covers(k + 1)
      BY <2>0, <3>3, <3>4
    <3>6. g <= h + 1
      BY <2>2, <3>5
    <3>7. QED BY <2>3, <2>4, <3>6 DEF h, g
  <2> QED
    BY <2>5, <2>6
<1>5. \A k \in 1 .. len : w[k] = who(k)
  <2> HIDE DEF who, len
  <2> QED OBVIOUS
<1>6. Linked(w)
  <2>1. ASSUME NEW k \in 1 .. len - 1 PROVE w[k] \cap w[k + 1] # {}
    <3>1. k \in 1 .. len /\ k + 1 \in 1 .. len
      BY <1>2
    <3>2. w[k] = {path[hop(k)], path[hop(k) + 1]} /\ w[k + 1] = {path[hop(k + 1)], path[hop(k + 1) + 1]}
      <4> HIDE DEF w, hop, len
      <4> QED BY <3>1, <1>5
    <3> HIDE DEF w, hop, len
    <3> QED
      BY <3>2, <1>4, <2>1
  <2> HIDE DEF w, len
  <2> QED
    BY <1>2, <1>3, <2>1 DEF Linked
<1> HIDE DEF w
<1> QED
  BY <1>1, <1>6

\* Two sequences of one element in a row.
LEMMA OneAndOne ==
  ASSUME NEW a, NEW b
  PROVE  <<a>> \o <<b>> = <<a, b>>
<1> DEFINE S == {a, b}
           s == <<a>> \o <<b>>
<1>1. /\ <<a>> \in Seq(S) /\ <<b>> \in Seq(S) /\ <<a, b>> \in Seq(S)
      /\ Len(<<a>>) = 1 /\ Len(<<b>>) = 1 /\ Len(<<a, b>>) = 2
  OBVIOUS
<1>2. s \in Seq(S) /\ Len(s) = 2 /\ s[1] = a /\ s[2] = b
  <2>1. /\ s \in Seq(S) /\ Len(s) = Len(<<a>>) + Len(<<b>>)
        /\ \A i \in 1 .. Len(<<a>>) + Len(<<b>>) : s[i] = IF i <= Len(<<a>>) THEN <<a>>[i] ELSE <<b>>[i - Len(<<a>>)]
    BY <1>1, ConcatProperties
  <2> QED BY <1>1, <2>1
<1> HIDE DEF s
<1>3. \A i \in 1 .. Len(s) : s[i] = <<a, b>>[i]
  BY <1>2
<1>4. s = <<a, b>>
  BY <1>1, <1>2, <1>3, SeqEqual
<1> QED
  BY <1>4 DEF s

\* A sequence of sequences of members of S, one after the other.
LEMMA FlattenSeqType ==
  ASSUME NEW S, NEW ss, NEW n \in Nat \ {0}, Len(ss) = n,
         \A i \in 1 .. n : ss[i] \in Seq(S)
  PROVE  FlattenSeq(ss) \in Seq(S)
<1> DEFINE Step(f, i) == IF i = 1 THEN ss[i] ELSE f[i - 1] \o ss[i]
           Flattens(m, f) == f = [i \in 1 .. m |-> Step(f, i)]
           T == {m \in 0 .. n : \E f : Flattens(m, f)}
<1>1. 0 \in T
  <2> DEFINE f == [i \in 1 .. 0 |-> i]
  <2>1. Flattens(0, f)
    OBVIOUS
  <2> HIDE DEF f, Flattens
  <2> QED
    BY <2>1
<1>2. ASSUME NEW m \in 0 .. n - 1, m \in T
      PROVE  m + 1 \in T
  <2>1. PICK g : Flattens(m, g)
    BY <1>2
  <2> DEFINE f == [i \in 1 .. m + 1 |-> IF i <= m THEN g[i] ELSE Step(g, i)]
  <2>2. ASSUME NEW i \in 1 .. m + 1
        PROVE  f[i] = Step(f, i)
    <3>1. CASE i <= m
      <4>1. i \in 1 .. m
        BY <3>1
      <4>2. g[i] = Step(g, i)
        BY <4>1, <2>1
      <4>3. i # 1 => f[i - 1] = g[i - 1]
        BY <4>1
      <4> QED
        BY <4>2, <4>3, <3>1
    <3>2. CASE i = m + 1
      <4>1. f[i] = Step(g, i)
        BY <3>2
      <4>2. i # 1 => f[i - 1] = g[i - 1]
        BY <3>2
      <4> QED
        BY <4>1, <4>2
    <3> QED
      BY <3>1, <3>2
  <2>3. Flattens(m + 1, f)
    BY <2>2
  <2>4. m + 1 \in 0 .. n
    OBVIOUS
  <2> HIDE DEF f, Flattens
  <2> QED
    BY <2>3, <2>4
<1>3. \A m \in 0 .. n : m \in T
  <2> HIDE DEF T
  <2> QED
    BY <1>1, <1>2, UpTo
<1>4. \E f : Flattens(n, f)
  <2>1. n \in 0 .. n
    OBVIOUS
  <2> HIDE DEF Flattens
  <2> QED
    BY <1>3, <2>1
<1> DEFINE all == CHOOSE f : Flattens(n, f)
<1>5. FlattenSeq(ss) = all[n]
  BY DEF FlattenSeq
<1>6. Flattens(n, all)
  BY <1>4
<1> HIDE DEF all
<1>7. \A i \in 1 .. n : all[i] = Step(all, i)
  BY <1>6
<1> DEFINE U == {m \in 0 .. n : m # 0 => all[m] \in Seq(S)}
<1>8. 0 \in U
  OBVIOUS
<1>9. ASSUME NEW m \in 0 .. n - 1, m \in U
      PROVE  m + 1 \in U
  <2>1. m + 1 \in 1 .. n /\ (m + 1) - 1 = m
    OBVIOUS
  <2>2. CASE m = 0
    BY <2>1, <2>2, <1>7
  <2>3. CASE m # 0
    <3>1. all[m + 1] = all[m] \o ss[m + 1]
      <4>1. all[m + 1] = Step(all, m + 1)
        BY <2>1, <1>7
      <4>2. m + 1 # 1
        BY <2>3
      <4> QED
        BY <2>1, <4>1, <4>2
    <3>2. all[m] \in Seq(S) /\ ss[m + 1] \in Seq(S)
      BY <1>9, <2>1, <2>3
    <3>3. all[m + 1] \in Seq(S)
      BY <3>1, <3>2
    <3> QED
      BY <3>3, <2>1
  <2> QED
    BY <2>2, <2>3
<1>10. \A m \in 0 .. n : m \in U
  <2> HIDE DEF U
  <2> QED
    BY <1>8, <1>9, UpTo
<1> QED
  BY <1>5, <1>10

\* The members of I that come before i in the order B.
Below(B, I, i) == {j \in I : <<j, i>> \in B}

Orders(I, B) ==
  /\ \A i \in I : <<i, i>> \notin B
  /\ \A i, j \in I : i # j => <<i, j>> \in B \/ <<j, i>> \in B
  /\ \A i, j, k \in I : <<i, j>> \in B /\ <<j, k>> \in B => <<i, k>> \in B

\* In a finite set under a strict total order every rank is that of an element.
LEMMA RanksAreAllTaken ==
  ASSUME NEW I, IsFiniteSet(I), NEW B, Orders(I, B)
  PROVE  \A r \in 1 .. Cardinality(I) : \E i \in I : 1 + Cardinality(Below(B, I, i)) = r
<1> DEFINE n == Cardinality(I)
           before(i) == Below(B, I, i)
           rank == [i \in I |-> 1 + Cardinality(before(i))]
<1> USE DEF Orders
<1>1. n \in Nat /\ IsFiniteSet(1 .. n) /\ Cardinality(1 .. n) = n
  BY FS_CardinalityType, FS_Interval
<1>2. ASSUME NEW i \in I
      PROVE  IsFiniteSet(before(i)) /\ Cardinality(before(i)) \in 0 .. n - 1
  <2>1. before(i) \subseteq I \ {i} /\ IsFiniteSet(I \ {i}) /\ Cardinality(I \ {i}) = n - 1
    BY <1>1, FS_RemoveElement DEF Below
  <2> HIDE DEF before
  <2>2. IsFiniteSet(before(i)) /\ Cardinality(before(i)) <= n - 1
    BY <2>1, FS_Subset
  <2>3. Cardinality(before(i)) \in Nat
    BY <2>2, FS_CardinalityType
  <2> QED
    BY <2>2, <2>3, <1>1
<1>3. ASSUME NEW i \in I, NEW k \in I, <<i, k>> \in B
      PROVE  Cardinality(before(i)) < Cardinality(before(k))
  <2>1. before(i) \cup {i} \subseteq before(k) /\ i \notin before(i)
    BY <1>3 DEF Below
  <2> HIDE DEF before
  <2>2. /\ IsFiniteSet(before(i) \cup {i})
        /\ Cardinality(before(i) \cup {i}) = Cardinality(before(i)) + 1
    BY <2>1, <1>2, FS_AddElement
  <2>3. Cardinality(before(i) \cup {i}) <= Cardinality(before(k))
    BY <2>1, <1>2, FS_Subset
  <2> QED
    BY <2>2, <2>3, <1>2
<1>4. rank \in Injection(I, 1 .. n)
  <2> HIDE DEF before, n
  <2>1. rank \in [I -> 1 .. n]
    BY <1>1, <1>2
  <2>2. ASSUME NEW i \in I, NEW k \in I, rank[i] = rank[k]
        PROVE  i = k
    <3>1. 1 + Cardinality(before(i)) = 1 + Cardinality(before(k))
      BY <2>2
    <3>2. Cardinality(before(i)) = Cardinality(before(k))
      BY <3>1, <1>2
    <3>3. ~(<<i, k>> \in B) /\ ~(<<k, i>> \in B)
      BY <3>2, <1>2, <1>3
    <3> QED
      BY <3>3
  <2> HIDE DEF rank
  <2> QED
    BY <2>1, <2>2 DEF Injection, IsInjective
<1>5. rank \in Surjection(I, 1 .. n)
  <2> HIDE DEF rank
  <2> QED
    BY <1>1, <1>4, FS_Injection
<1> SUFFICES ASSUME NEW r \in 1 .. n
             PROVE  \E i \in I : 1 + Cardinality(before(i)) = r
  OBVIOUS
<1>6. PICK i \in I : rank[i] = r
  <2> HIDE DEF rank, n
  <2> QED
    BY <1>5 DEF Surjection
<1>7. rank[i] = 1 + Cardinality(before(i))
  <2> HIDE DEF before
  <2> QED
    OBVIOUS
<1> QED
  BY <1>6, <1>7

UpToIn(S, t) == {u \in S : u <= t}
OfNaturals(S) == S \subseteq Nat

\* In a finite set of naturals, for every number up to its size, there is one with
\* that many up to it.
LEMMA EachHasItsPlace ==
  ASSUME NEW S, OfNaturals(S), IsFiniteSet(S)
  PROVE  \A k \in 1 .. Cardinality(S) : \E t \in S : Cardinality(UpToIn(S, t)) = k
<1> DEFINE B == {p \in S \X S : p[1] < p[2]}
<1>1. \A i, j \in S : <<i, j>> \in B <=> i < j
  OBVIOUS
<1>2. Orders(S, B)
  <2> HIDE DEF B
  <2>1. \A i \in S : i \in Nat
    BY DEF OfNaturals
  <2> QED
    BY <1>1, <2>1 DEF Orders
<1> HIDE DEF B
<1> SUFFICES ASSUME NEW k \in 1 .. Cardinality(S)
             PROVE  \E t \in S : Cardinality(UpToIn(S, t)) = k
  OBVIOUS
<1>3. PICK t \in S : 1 + Cardinality(Below(B, S, t)) = k
  <2>1. \A r \in 1 .. Cardinality(S) : \E i \in S : 1 + Cardinality(Below(B, S, i)) = r
    BY <1>2, RanksAreAllTaken
  <2> QED
    BY <2>1
<1>4. UpToIn(S, t) = Below(B, S, t) \cup {t} /\ t \notin Below(B, S, t)
  <2>1. \A u \in S : (u <= t <=> u < t \/ u = t) /\ ~(t < t)
    BY DEF OfNaturals
  <2> QED
    BY <2>1, <1>1 DEF Below, UpToIn
<1>5. IsFiniteSet(Below(B, S, t))
  <2>1. Below(B, S, t) \subseteq S
    BY DEF Below
  <2> QED
    BY <2>1, FS_Subset
<1>6. Cardinality(UpToIn(S, t)) = Cardinality(Below(B, S, t)) + 1
  BY <1>4, <1>5, FS_AddElement
<1>7. Cardinality(Below(B, S, t)) \in Nat
  BY <1>5, FS_CardinalityType
<1> QED
  BY <1>3, <1>6, <1>7

-----------------------------------------------------------------------------
(***************************************************************************)
(* The flows.                                                              *)
(***************************************************************************)
\* What the scheduler relies on in a flow.
IsFlow(f, in) ==
  /\ Linked(f.cells)
  /\ f.release \in Nat /\ f.period \in Nat \ {0}
  /\ in.algorithm # "R_LPF" => f.deadline \in Nat

LEMMA AllFlowsAreFlows ==
  ASSUME NEW in \in Inputs, cycle \in Nat \ {0}
  PROVE  \E S : AllFlows(in) \in Seq(S) /\ \A f \in S : IsFlow(f, in)
<1> DEFINE n == Len(in.communications)
           of(f) == FlowsOf(f, in.communications[f], in.strategy)
           S == UNION { {of(f)[k] : k \in DOMAIN of(f)} : f \in 1 .. n }
<1>1. n \in Nat \ {0} /\ \A f \in 1 .. n : IsCommunication(in.communications[f], in)
  BY SchedulerAssumption
<1>2. ASSUME NEW f \in 1 .. n
      PROVE  /\ of(f) \in Seq(S)
             /\ \A k \in DOMAIN of(f) : IsFlow(of(f)[k], in)
  <2> DEFINE c == in.communications[f]
             release(k) == c.release + (k - 1) * c.period
             flow(k) == [ number   |-> f,
                          path     |-> c.path,
                          cells    |-> CellsOf(in.strategy, c),
                          period   |-> c.period,
                          release  |-> IF cycle # 1 /\ release(k) >= cycle THEN release(k) % cycle ELSE release(k),
                          deadline |-> c.deadline ]
             m == cycle \div c.period
  <2>1. IsCommunication(c, in)
    BY <1>1
  <2>2. of(f) = [k \in 1 .. m |-> flow(k)]
    BY DEF FlowsOf
  <2>3. m \in Nat
    <3>1. c.period \in Nat \ {0}
      BY <2>1 DEF IsCommunication
    <3> HIDE DEF c
    <3> QED
      BY <3>1
  <2>4. of(f) \in Seq(S)
    <3> HIDE DEF flow, m
    <3>1. \A k \in 1 .. m : of(f)[k] \in S
      <4>1. DOMAIN of(f) = 1 .. m
        BY <2>2
      <4> HIDE DEF of, n, m
      <4> DEFINE these(g) == {of(g)[k] : k \in DOMAIN of(g)}
      <4>2. \A k \in 1 .. m : of(f)[k] \in these(f)
        BY <4>1
      <4>3. these(f) \in {these(g) : g \in 1 .. n}
        OBVIOUS
      <4> HIDE DEF these
      <4> QED
        BY <4>2, <4>3 DEF these
    <3> HIDE DEF S, of
    <3> QED
      BY <2>2, <2>3, <3>1
  <2>5. Linked(CellsOf(in.strategy, c))
    <3> HIDE DEF c
    <3>1. CASE in.strategy = "sliding_window"
      BY <2>1, <3>1, WindowIsLinked DEF CellsOf, IsCommunication
    <3>2. CASE in.strategy # "sliding_window"
      BY <2>1, <3>2, PerLinkIsLinked DEF CellsOf, IsCommunication
    <3> QED
      BY <3>1, <3>2
  <2>6. ASSUME NEW k \in 1 .. m
        PROVE  IsFlow(flow(k), in)
    <3>1. release(k) \in Nat
      <4>1. c.release \in Nat /\ c.period \in Nat /\ k - 1 \in Nat
        BY <2>1, <2>3 DEF IsCommunication
      <4> HIDE DEF c
      <4> QED
        BY <4>1
    <3>2. release(k) % cycle \in Nat
      <4> HIDE DEF release
      <4> QED
        BY <3>1
    <3>3. flow(k).release \in Nat
      <4> HIDE DEF release, c
      <4> QED
        BY <3>1, <3>2
    <3> HIDE DEF release
    <3>4. /\ flow(k).cells = CellsOf(in.strategy, c) /\ flow(k).period = c.period
          /\ flow(k).deadline = c.deadline
      OBVIOUS
    <3> HIDE DEF flow, c
    <3> QED
      BY <2>1, <2>5, <3>3, <3>4 DEF IsFlow, IsCommunication
  <2>7. \A k \in DOMAIN of(f) : IsFlow(of(f)[k], in)
    <3> HIDE DEF flow, m, of
    <3> QED
      BY <2>2, <2>6
  <2> QED
    BY <2>4, <2>7
<1>3. ASSUME NEW g \in S
      PROVE  IsFlow(g, in)
  <2> HIDE DEF of, n
  <2>1. PICK f \in 1 .. n : g \in {of(f)[k] : k \in DOMAIN of(f)}
    OBVIOUS
  <2>2. PICK k \in DOMAIN of(f) : g = of(f)[k]
    BY <2>1
  <2> QED
    BY <2>2, <1>2
<1> DEFINE ss == [f \in 1 .. n |-> of(f)]
<1>4. AllFlows(in) = FlattenSeq(ss)
  BY DEF AllFlows
<1>5. Len(ss) = n /\ \A f \in 1 .. n : ss[f] \in Seq(S)
  <2> HIDE DEF of, n, S
  <2> QED
    BY <1>1, <1>2
<1>6. FlattenSeq(ss) \in Seq(S)
  <2> HIDE DEF ss, n, S
  <2> QED
    BY <1>1, <1>5, FlattenSeqType
<1> HIDE DEF S, ss
<1> QED
  BY <1>3, <1>4, <1>6

\* A sorted sequence has as many elements as before, and none that is new.
LEMMA SortedFlows ==
  ASSUME NEW in \in Inputs, NEW S, NEW s \in Seq(S), \A f \in S : IsFlow(f, in)
  PROVE  StableSort(in.algorithm, s) \in [1 .. Len(s) -> S]
<1> DEFINE n == Len(s)
           Less(j, i) == Precedes(in.algorithm, s[j], s[i])
           Before(j, i) == Less(j, i) \/ (~Less(i, j) /\ j < i)
           B == {p \in (1 .. n) \X (1 .. n) : Before(p[1], p[2])}
           rank(i) == 1 + Cardinality({j \in 1 .. n : Before(j, i)})
           t == [r \in 1 .. n |-> s[CHOOSE i \in 1 .. n : rank(i) = r]]
           cells(i) == Len(s[i].cells)
           period(i) == s[i].period
           deadline(i) == s[i].deadline
<1>1. n \in Nat /\ \A i \in 1 .. n : s[i] \in S /\ IsFlow(s[i], in)
  OBVIOUS
<1>2. \A i, j \in 1 .. n : <<j, i>> \in B <=> Before(j, i)
  OBVIOUS
<1>3. in.algorithm \in {"R_LPF", "EDF", "RMS"}
  BY SchedulerAssumption
<1>4. \A i \in 1 .. n : cells(i) \in Nat /\ period(i) \in Nat
                         /\ (in.algorithm # "R_LPF" => deadline(i) \in Nat)
  BY <1>1 DEF IsFlow, Linked
<1>5. /\ \A i \in 1 .. n : ~Before(i, i)
      /\ \A i, j \in 1 .. n : i # j => Before(i, j) \/ Before(j, i)
      /\ \A i, j, k \in 1 .. n : Before(i, j) /\ Before(j, k) => Before(i, k)
  <2>1. CASE in.algorithm = "R_LPF"
    <3>1. \A i, j \in 1 .. n : Less(i, j) <=> cells(i) > cells(j)
      BY <2>1 DEF Precedes
    <3> HIDE DEF Less, n, cells, deadline, period
    <3> QED
      BY <1>4, <3>1
  <2>2. CASE in.algorithm = "EDF"
    <3>1. \A i, j \in 1 .. n : Less(i, j) <=> deadline(i) < deadline(j)
      BY <2>2 DEF Precedes
    <3>2. \A i \in 1 .. n : deadline(i) \in Nat
      BY <1>4, <2>2
    <3> HIDE DEF Less, n, deadline
    <3> QED
      BY <3>1, <3>2
  <2>3. CASE in.algorithm = "RMS"
    <3>1. ASSUME NEW i \in 1 .. n, NEW j \in 1 .. n
          PROVE  Less(i, j) <=> \/ period(i) < period(j)
                                \/ period(i) = period(j) /\ deadline(i) < deadline(j)
      BY <2>3 DEF Precedes
    <3>2. \A i \in 1 .. n : period(i) \in Nat /\ deadline(i) \in Nat
      BY <1>4, <2>3
    <3> HIDE DEF Less, n, period, deadline
    <3> QED
      BY <3>1, <3>2
  <2> QED
    BY <1>3, <2>1, <2>2, <2>3
<1>6. \A r \in 1 .. n : \E i \in 1 .. n : 1 + Cardinality(Below(B, 1 .. n, i)) = r
  <2>1. PICK I : I = 1 .. n
    OBVIOUS
  <2>2. Orders(I, B)
    <3> HIDE DEF B, Before, n
    <3> QED
      BY <1>2, <1>5, <2>1 DEF Orders
  <2>3. IsFiniteSet(I) /\ Cardinality(I) = n
    <3>1. n \in Nat
      BY <1>1
    <3> HIDE DEF n
    <3> QED
      BY <2>1, <3>1, FS_Interval
  <2> HIDE DEF B, n
  <2>4. \A r \in 1 .. Cardinality(I) : \E i \in I : 1 + Cardinality(Below(B, I, i)) = r
    BY <2>2, <2>3, RanksAreAllTaken
  <2> QED
    BY <2>1, <2>3, <2>4
<1>7. ASSUME NEW r \in 1 .. n
      PROVE  \E i \in 1 .. n : rank(i) = r
  <2>1. PICK i \in 1 .. n : 1 + Cardinality(Below(B, 1 .. n, i)) = r
    BY <1>6
  <2>2. Below(B, 1 .. n, i) = {j \in 1 .. n : Before(j, i)}
    <3> HIDE DEF B, Before, n
    <3> QED
      BY <1>2 DEF Below
  <2> QED
    BY <2>1, <2>2
<1>8. t \in [1 .. n -> S]
  <2> HIDE DEF rank, n
  <2> QED
    BY <1>1, <1>7
<1>9. StableSort(in.algorithm, s) = t
  BY DEF StableSort
<1> HIDE DEF t
<1> QED
  BY <1>8, <1>9

-----------------------------------------------------------------------------
(***************************************************************************)
(* The slots left for discovery.                                           *)
(***************************************************************************)
FreeSlots(grid, last) == (1..last) \ { e.slot : e \in { e \in grid : e.channel = 0 } }

\* Row n holds the n-th free slot from the front and the n-th from the back, as
\* long as the two do not meet: no slot is in two rows or twice in one.
LEMMA RowsAreFree ==
  ASSUME NEW grid, NEW last \in Nat, input \in Inputs, NEW rows,
         rows = AvailableRows(grid, last)
  PROVE  /\ DOMAIN rows = 1..input.nodes
         /\ \A n \in 1..input.nodes : \A i \in DOMAIN rows[n] :
              /\ rows[n][i] \in FreeSlots(grid, last)
              /\ \A m \in 1..input.nodes : \A j \in DOMAIN rows[m] :
                   rows[m][j] = rows[n][i] => <<m, j>> = <<n, i>>
         /\ Cardinality(FreeSlots(grid, last)) >= 2 * input.nodes =>
              \A n \in 1..input.nodes : Len(rows[n]) = 2
<1> DEFINE free == FreeSlots(grid, last)
           count == Cardinality(free)
           nth(k) == CHOOSE t \in free : Cardinality({ u \in free : u <= t }) = k
           row(n) == (IF 2 * n - 1 <= count THEN <<nth(n)>> ELSE << >>) \o
                     (IF 2 * n <= count THEN <<nth(count - n + 1)>> ELSE << >>)
           place(n, i) == IF i = 1 THEN n ELSE count - n + 1
<1>1. rows = [n \in 1..input.nodes |-> row(n)]
  BY DEF AvailableRows, FreeSlots
<1>2. input.nodes \in Nat
  BY SchedulerAssumption
<1>3. OfNaturals(free) /\ IsFiniteSet(free) /\ count \in Nat
  <2>1. free \subseteq 1..last
    BY DEF FreeSlots
  <2>2. IsFiniteSet(1..last)
    BY FS_Interval
  <2>3. OfNaturals(free)
    <3> HIDE DEF free
    <3> QED
      BY <2>1 DEF OfNaturals
  <2>4. IsFiniteSet(free)
    <3> HIDE DEF free
    <3> QED
      BY <2>1, <2>2, FS_Subset
  <2>5. count \in Nat
    <3> HIDE DEF free
    <3> QED
      BY <2>4, FS_CardinalityType
  <2> QED
    BY <2>3, <2>4, <2>5
<1>4. ASSUME NEW k \in 1..count
      PROVE  nth(k) \in free /\ Cardinality(UpToIn(free, nth(k))) = k
  <2>1. \E t \in free : Cardinality(UpToIn(free, t)) = k
    <3> HIDE DEF free
    <3>1. \A r \in 1 .. Cardinality(free) : \E t \in free : Cardinality(UpToIn(free, t)) = r
      BY <1>3, EachHasItsPlace
    <3> QED
      BY <3>1
  <2>2. nth(k) = CHOOSE t \in free : Cardinality(UpToIn(free, t)) = k
    BY DEF UpToIn
  <2> HIDE DEF nth, free
  <2> QED
    BY <2>1, <2>2
<1>5. ASSUME NEW k \in 1..count, NEW l \in 1..count, nth(k) = nth(l)
      PROVE  k = l
  <2> HIDE DEF nth, free
  <2> QED
    BY <1>4, <1>5
<1>6. ASSUME NEW n \in 1..input.nodes
      PROVE  /\ \A i \in DOMAIN row(n) :
                  /\ i \in {1, 2}
                  /\ (i = 1 => 2 * n - 1 <= count) /\ (i = 2 => 2 * n <= count)
                  /\ row(n)[i] = nth(place(n, i))
             /\ 2 * n <= count => Len(row(n)) = 2
  <2>1. n \in Nat \ {0}
    BY <1>2
  <2> HIDE DEF nth, free
  <2>2. CASE 2 * n <= count
    <3>1. 2 * n - 1 <= count
      BY <2>1, <2>2, <1>3
    <3>2. row(n) = <<nth(n)>> \o <<nth(count - n + 1)>>
      BY <2>2, <3>1
    <3>3. row(n) = <<nth(n), nth(count - n + 1)>>
      <4> HIDE DEF count, row
      <4> QED
        BY <3>2, OneAndOne
    <3> QED
      BY <3>1, <3>3, <2>2
  <2>3. CASE ~(2 * n <= count) /\ 2 * n - 1 <= count
    <3>1. row(n) = <<nth(n)>>
      BY <2>3
    <3> QED
      BY <3>1, <2>3
  <2>4. CASE ~(2 * n - 1 <= count)
    <3>1. ~(2 * n <= count)
      BY <2>1, <2>4, <1>3
    <3>2. row(n) = << >>
      BY <2>4, <3>1
    <3> QED
      BY <3>1, <3>2
  <2> QED
    BY <2>2, <2>3, <2>4
<1>7. ASSUME NEW n \in 1..input.nodes, NEW i \in DOMAIN row(n)
      PROVE  place(n, i) \in 1..count
  <2> HIDE DEF row, free
  <2>1. i \in {1, 2} /\ (i = 1 => 2 * n - 1 <= count) /\ (i = 2 => 2 * n <= count)
    BY <1>6
  <2>2. n \in Nat \ {0}
    BY <1>2
  <2> QED
    BY <1>3, <2>1, <2>2
<1>8. ASSUME NEW n \in 1..input.nodes, NEW i \in DOMAIN row(n),
             NEW m \in 1..input.nodes, NEW j \in DOMAIN row(m),
             place(n, i) = place(m, j)
      PROVE  n = m /\ i = j
  <2> HIDE DEF row, free
  <2>1. /\ i \in {1, 2} /\ (i = 1 => 2 * n - 1 <= count) /\ (i = 2 => 2 * n <= count)
        /\ j \in {1, 2} /\ (j = 1 => 2 * m - 1 <= count) /\ (j = 2 => 2 * m <= count)
    BY <1>6
  <2>2. n \in Nat /\ m \in Nat
    BY <1>2
  <2> QED
    BY <1>3, <1>8, <2>1, <2>2
<1>9. \A n \in 1..input.nodes : rows[n] = row(n)
  <2> HIDE DEF row
  <2> QED
    BY <1>1
<1>10. DOMAIN rows = 1..input.nodes
  BY <1>1
<1>11. ASSUME NEW n \in 1..input.nodes, NEW i \in DOMAIN row(n)
       PROVE  /\ row(n)[i] \in free
              /\ \A m \in 1..input.nodes : \A j \in DOMAIN row(m) :
                   row(m)[j] = row(n)[i] => <<m, j>> = <<n, i>>
  <2> HIDE DEF row, nth, free, place
  <2> QED
    BY <1>4, <1>5, <1>6, <1>7, <1>8
<1>12. ASSUME count >= 2 * input.nodes, NEW n \in 1..input.nodes
       PROVE  Len(row(n)) = 2
  <2>1. 2 * n <= count
    <3> HIDE DEF free
    <3> QED
      BY <1>2, <1>3, <1>12
  <2> HIDE DEF row
  <2> QED
    BY <2>1, <1>6
<1> HIDE DEF row, free
<1>13. \A n \in 1..input.nodes : \A i \in DOMAIN rows[n] :
         /\ rows[n][i] \in free
         /\ \A m \in 1..input.nodes : \A j \in DOMAIN rows[m] :
              rows[m][j] = rows[n][i] => <<m, j>> = <<n, i>>
  BY <1>9, <1>11
<1> QED
  BY <1>9, <1>10, <1>12, <1>13 DEF free

-----------------------------------------------------------------------------
(***************************************************************************)
(* The grid.                                                               *)
(***************************************************************************)
\* An entry of the grid is a record with a whole number for slot and channel.
IsEntry(e) ==
  /\ e = [flow |-> e.flow, cell |-> e.cell, slot |-> e.slot, channel |-> e.channel]
  /\ e.slot \in Int /\ e.channel \in Channels

\* The inductive invariant: what the grid needs to be cut and turned round without
\* two slots becoming one.
IInv ==
  /\ input \in Inputs
  /\ cycle \in Int
  /\ \A e \in placed : IsEntry(e)
  /\ ConflictFree

\* A cell put where FreeFor allows it, on the least free channel, conflicts with none.
LEMMA PlacingKeepsInv == IInv /\ PlaceCell => IInv'
<1> SUFFICES ASSUME IInv, PlaceCell PROVE IInv'
  OBVIOUS
<1> USE DEF IInv
<1>1. PICK t \in Least(Candidates) : \E c \in Least(Channels \ Taken(t)) :
        placed' = placed \cup
          { [flow |-> at[1], cell |-> CurrentCell, slot |-> t, channel |-> c] }
  BY DEF PlaceCell
<1>2. PICK c \in Least(Channels \ Taken(t)) :
        placed' = placed \cup
          { [flow |-> at[1], cell |-> CurrentCell, slot |-> t, channel |-> c] }
  BY <1>1
<1> DEFINE new == [flow |-> at[1], cell |-> CurrentCell, slot |-> t, channel |-> c]
<1>3. /\ t \in Int
      /\ FreeFor(t, Current.cells[CurrentCell])
  BY DEF Least, Candidates
<1>4. /\ c \in Channels /\ c \notin Taken(t)
      /\ \A d \in Channels \ Taken(t) : c <= d
  BY DEF Least
<1>5. UNCHANGED <<input, cycle, flows>>
  BY DEF PlaceCell
<1>6. \A e : Participants(e)' = Participants(e)
  BY <1>5 DEF Participants
<1>7. Channels' = Channels
  BY <1>5 DEF Channels
<1>8. Participants(new) = Current.cells[CurrentCell]
  BY DEF Participants, Current
<1>9. IsEntry(new)
  BY <1>3, <1>4 DEF IsEntry
<1>10. \A e \in placed : e.slot = t =>
         e.channel # c /\ Participants(e) \cap Participants(new) = {}
  BY <1>3, <1>4, <1>8 DEF FreeFor, Busy, Taken, InSlot
<1>11. 0..c \subseteq Taken(t) \cup {c}
  <2>1. input.channels \in Nat
    BY SchedulerAssumption
  <2>2. SUFFICES ASSUME NEW d \in 0..c, d # c PROVE d \in Taken(t)
    OBVIOUS
  <2>3. d \in Channels /\ ~(c <= d)
    BY <1>4, <2>1, <2>2 DEF Channels
  <2> QED
    BY <1>4, <2>3
<1>12. /\ \A s : Taken(s) \subseteq Taken(s)'
       /\ c \in Taken(t)'
  <2>1. placed \subseteq placed' /\ new \in placed'
    BY <1>2
  <2>2. ASSUME NEW s PROVE Taken(s) \subseteq Taken(s)'
    BY <2>1 DEF Taken, InSlot
  <2>3. new.slot = t /\ new.channel = c
    OBVIOUS
  <2>4. c \in Taken(t)'
    BY <2>1, <2>3 DEF Taken, InSlot
  <2> QED
    BY <2>2, <2>4
<1>13. ConflictFree'
  <2> SUFFICES ASSUME NEW e \in placed'
               PROVE  /\ \A d \in placed' \ {e} : d.slot = e.slot =>
                           d.channel # e.channel /\ Participants(d) \cap Participants(e) = {}
                      /\ 0..e.channel \subseteq Taken(e.slot)'
    BY <1>6 DEF ConflictFree
  <2>1. CASE e \in placed
    <3>1. 0..e.channel \subseteq Taken(e.slot)'
      BY <1>12, <2>1 DEF ConflictFree
    <3>2. ASSUME NEW d \in placed' \ {e}, d.slot = e.slot
          PROVE  d.channel # e.channel /\ Participants(d) \cap Participants(e) = {}
      <4>1. CASE d \in placed
        BY <2>1, <3>2, <4>1 DEF ConflictFree
      <4>2. CASE d = new
        BY <1>10, <2>1, <3>2, <4>2
      <4> QED
        BY <1>2, <3>2, <4>1, <4>2
    <3> QED
      BY <3>1, <3>2
  <2>2. CASE e = new
    BY <1>2, <1>10, <1>11, <1>12, <2>2
  <2> QED
    BY <1>2, <2>1, <2>2
<1>14. \A e \in placed' : IsEntry(e)'
  BY <1>2, <1>7, <1>9 DEF IsEntry
<1> QED
  BY <1>5, <1>13, <1>14

\* Cutting the grid and turning it round maps different slots to different slots.
LEMMA FinishingKeepsInv == IInv /\ Finish => IInv'
<1> SUFFICES ASSUME IInv, Finish PROVE IInv'
  OBVIOUS
<1> USE DEF IInv
<1>1. PICK last \in LastSlot : placed' = Turned(last)
  BY DEF Finish
<1>2. last \in Int
  <2>1. CASE cycle > 1
    BY <2>1, <1>1 DEF LastSlot
  <2>2. CASE ~(cycle > 1)
    BY <2>2, <1>1 DEF LastSlot, Greatest, IsEntry
  <2> QED
    BY <2>1, <2>2
<1>3. UNCHANGED <<input, cycle, flows>>
  BY DEF Finish
<1>4. /\ Channels' = Channels
      /\ \A e : Participants(e)' = Participants(e)
  BY <1>3 DEF Participants, Channels
<1> DEFINE turned(e) == IF input.algorithm = "R_LPF" THEN [e EXCEPT !.slot = last - @] ELSE e
<1>5. placed' = { turned(e) : e \in { e \in placed : e.slot <= last } }
  BY <1>1 DEF Turned
<1>6. ASSUME NEW e \in placed
      PROVE  /\ IsEntry(turned(e))
             /\ turned(e).slot = IF input.algorithm = "R_LPF" THEN last - e.slot ELSE e.slot
             /\ turned(e).channel = e.channel
             /\ Participants(turned(e)) = Participants(e)
  BY <1>2, <1>6 DEF IsEntry, Participants
<1>7. ASSUME NEW d \in placed, NEW e \in placed, turned(d).slot = turned(e).slot
      PROVE  d.slot = e.slot
  BY <1>2, <1>6, <1>7 DEF IsEntry
<1>8. ASSUME NEW e \in placed, e.slot <= last, NEW s, s = turned(e).slot
      PROVE  0..e.channel \subseteq Taken(s)'
  <2> SUFFICES ASSUME NEW k \in 0..e.channel PROVE k \in Taken(s)'
    OBVIOUS
  <2>1. PICK d \in placed : d.slot = e.slot /\ d.channel = k
    BY DEF ConflictFree, Taken, InSlot
  <2>2. PICK f \in placed' : f.slot = s /\ f.channel = k
    BY <1>5, <1>6, <1>8, <2>1
  <2>3. f \in InSlot(s)'
    BY <2>2 DEF InSlot
  <2> QED
    BY <2>2, <2>3 DEF Taken
<1>9. ConflictFree'
  <2> SUFFICES ASSUME NEW f \in placed'
               PROVE  /\ \A g \in placed' \ {f} : g.slot = f.slot =>
                           g.channel # f.channel /\ Participants(g) \cap Participants(f) = {}
                      /\ 0..f.channel \subseteq Taken(f.slot)'
    BY <1>4 DEF ConflictFree
  <2>1. PICK e \in placed : e.slot <= last /\ f = turned(e)
    BY <1>5
  <2>2. ASSUME NEW g \in placed' \ {f}, g.slot = f.slot
        PROVE  g.channel # f.channel /\ Participants(g) \cap Participants(f) = {}
    <3>1. PICK d \in placed : g = turned(d)
      BY <1>5
    <3>2. d # e /\ d.slot = e.slot
      BY <1>7, <2>1, <2>2, <3>1
    <3>3. d.channel # e.channel /\ Participants(d) \cap Participants(e) = {}
      BY <3>2 DEF ConflictFree
    <3> QED
      BY <1>6, <2>1, <3>1, <3>3
  <2>3. 0..f.channel \subseteq Taken(f.slot)'
    BY <1>6, <1>8, <2>1
  <2> QED
    BY <2>2, <2>3
<1>10. \A e \in placed' : IsEntry(e)'
  BY <1>4, <1>5, <1>6 DEF IsEntry
<1> QED
  BY <1>3, <1>9, <1>10

-----------------------------------------------------------------------------
(***************************************************************************)
(* Which cells are placed, and in which order.                             *)
(***************************************************************************)
FlowsFixed ==
  /\ input \in Inputs /\ cycle \in Nat \ {0}
  /\ Len(flows) \in Nat
  /\ \A f \in 1..Len(flows) : IsFlow(flows[f], input)

AtACell ==
  /\ at = <<at[1], at[2]>> /\ at[1] \in 1..(Len(flows) + 1) /\ at[2] \in Nat
  /\ at[1] <= Len(flows) => at[2] <= Len(Current.cells)

\* Cell c of flow f has had its turn.
Done(f, c) ==
  \/ f < at[1]
  \/ f = at[1] /\ IF input.algorithm = "R_LPF" THEN c > Len(flows[f].cells) - at[2]
                  ELSE c <= at[2]

\* What is placed are the cells that have had their turn.
PlacedSoFar ==
  /\ IsFiniteSet(placed)
  /\ \A e \in placed : /\ e.flow \in 1..Len(flows) /\ e.cell \in 1..Len(flows[e.flow].cells)
                       /\ e.slot \in Nat
                       /\ Done(e.flow, e.cell)
  /\ \A f \in 1..Len(flows) : \A c \in 1..Len(flows[f].cells) :
       Done(f, c) => \E e \in placed : e.flow = f /\ e.cell = c

Once == \A d, e \in placed : d.flow = e.flow /\ d.cell = e.cell => d = e

\* With deadlines nothing is placed behind the cycle.
OnTime ==
  ChecksDeadlines /\ input.ignoreNSF = "infeasible" /\ cycle > 1 =>
    \A e \in placed : e.slot < cycle

Ordered ==
  \A d, e \in placed : d.flow = e.flow /\ d.cell < e.cell =>
    IF input.algorithm = "R_LPF" THEN e.slot < d.slot ELSE d.slot < e.slot

\* The next cell of a flow is looked for from behind those placed: R_LPF starts at
\* the slot of the last one, which shares a node with the next.
Frontier ==
  at[1] <= Len(flows) =>
    /\ index \in Nat /\ floor \in Nat
    /\ \A e \in placed : e.flow = at[1] =>
         IF input.algorithm = "R_LPF" THEN e.slot <= index ELSE e.slot < index
    /\ input.algorithm = "R_LPF" /\ at[2] > 0 =>
         \E e \in placed : /\ e.flow = at[1] /\ e.cell = Len(Current.cells) - at[2] + 1
                           /\ e.slot = index

Placing == AtACell /\ PlacedSoFar /\ OnTime /\ Ordered /\ Frontier /\ matrix = << >>

\* The inductive invariant.
ScheduleInv ==
  /\ FlowsFixed /\ IInv /\ Once
  /\ status = "placing" => Placing
  /\ RouteInOrder /\ NothingDropped /\ AvailableAreFree

\* A cell is placed behind those of its flow that are.
LEMMA PlacingKeepsOrder == ScheduleInv /\ PlaceCell => Once' /\ Placing'
<1> SUFFICES ASSUME ScheduleInv, PlaceCell PROVE Once' /\ Placing'
  OBVIOUS
<1>1. /\ status = "placing" /\ at[1] <= Len(flows) /\ at[2] < Len(Current.cells)
      /\ at' = <<at[1], at[2] + 1>>
      /\ UNCHANGED <<input, cycle, flows, floor, matrix>>
  BY DEF PlaceCell
<1>2. PICK t \in Least(Candidates) : \E c \in Least(Channels \ Taken(t)) :
        /\ TooLate(t) => input.ignoreNSF = "disabled"
        /\ placed' = placed \cup
             { [flow |-> at[1], cell |-> CurrentCell, slot |-> t, channel |-> c] }
        /\ index' = IF input.algorithm = "R_LPF" THEN t ELSE t + 1
  BY DEF PlaceCell
<1>3. PICK c :
        placed' = placed \cup
          { [flow |-> at[1], cell |-> CurrentCell, slot |-> t, channel |-> c] }
  BY <1>2
<1> DEFINE k == CurrentCell
           f0 == at[1]
           cells == flows[f0].cells
           new == [flow |-> at[1], cell |-> CurrentCell, slot |-> t, channel |-> c]
<1>4. /\ FlowsFixed /\ Placing
      /\ f0 \in 1..Len(flows) /\ IsFlow(flows[f0], input) /\ Current = flows[f0]
  BY <1>1 DEF ScheduleInv, FlowsFixed, Placing, AtACell, Current
<1>5. /\ Len(cells) \in Nat /\ at[2] \in Nat /\ at[2] < Len(cells)
      /\ \A i \in 1 .. Len(cells) - 1 : cells[i] \cap cells[i + 1] # {}
  BY <1>1, <1>4 DEF IsFlow, Linked, Placing, AtACell
<1>6. /\ k = IF input.algorithm = "R_LPF" THEN Len(cells) - at[2] ELSE at[2] + 1
      /\ k \in 1..Len(cells)
  <2>1. k = IF input.algorithm = "R_LPF" THEN Len(cells) - at[2] ELSE at[2] + 1
    BY <1>4 DEF CurrentCell
  <2> HIDE DEF cells, k
  <2> QED
    BY <2>1, <1>5
<1>7. t \in Nat /\ t >= index /\ index \in Nat /\ FreeFor(t, cells[k])
  <2>1. t \in Earliest..(length - 1) /\ FreeFor(t, cells[k])
    BY <1>4 DEF Least, Candidates
  <2>2. index \in Nat /\ floor \in Nat
    BY <1>1, <1>4 DEF Placing, Frontier
  <2>3. Earliest \in Nat /\ Earliest >= index
    BY <2>2 DEF Earliest
  <2> QED
    BY <2>1, <2>2, <2>3
<1>8. /\ new.flow = f0 /\ new.cell = k /\ new.slot = t
      /\ \A e : e \in placed' <=> e \in placed \/ e = new
  BY <1>3
<1>9. /\ \A f \in 1..Len(flows) : \A i \in 1..Len(flows[f].cells) :
           Done(f, i)' <=> Done(f, i) \/ (f = f0 /\ i = k)
      /\ ~Done(f0, k)
  <2>1. at'[1] = at[1] /\ at'[2] = at[2] + 1
    BY <1>1
  <2>2. ASSUME NEW f \in 1..Len(flows), NEW i \in 1..Len(flows[f].cells)
        PROVE  Done(f, i)' <=> Done(f, i) \/ (f = f0 /\ i = k)
    <3>1. CASE f = f0
      <4>1. i \in 1..Len(cells)
        BY <3>1
      <4>2. Done(f, i) <=> IF input.algorithm = "R_LPF" THEN i > Len(cells) - at[2] ELSE i <= at[2]
        BY <3>1, <1>4 DEF Done
      <4>3. Done(f, i)' <=> IF input.algorithm = "R_LPF" THEN i > Len(cells) - (at[2] + 1) ELSE i <= at[2] + 1
        BY <3>1, <1>1, <1>4, <2>1 DEF Done
      <4> HIDE DEF cells, k
      <4> QED
        BY <3>1, <4>1, <4>2, <4>3, <1>5, <1>6
    <3>2. CASE f # f0
      BY <3>2, <2>1, <1>1 DEF Done
    <3> QED
      BY <3>1, <3>2
  <2>3. ~Done(f0, k)
    <3>1. Done(f0, k) <=> IF input.algorithm = "R_LPF" THEN k > Len(cells) - at[2] ELSE k <= at[2]
      BY <1>4 DEF Done
    <3> HIDE DEF cells, k
    <3> QED
      BY <3>1, <1>5, <1>6
  <2> QED
    BY <2>2, <2>3
<1>10. \A e \in placed : ~(e.flow = f0 /\ e.cell = k)
  BY <1>4, <1>9 DEF Placing, PlacedSoFar
<1>11. ASSUME NEW e \in placed, e.flow = f0
       PROVE  IF input.algorithm = "R_LPF" THEN k < e.cell /\ e.slot < t
              ELSE e.cell < k /\ e.slot < t
  <2>1. e.slot \in Nat /\ e.cell \in 1..Len(cells) /\ Done(f0, e.cell)
    BY <1>4, <1>11 DEF Placing, PlacedSoFar
  <2>2. CASE input.algorithm = "R_LPF"
    <3>1. e.cell > Len(cells) - at[2] /\ k = Len(cells) - at[2] /\ e.slot <= index
      BY <1>1, <1>4, <1>6, <1>11, <2>1, <2>2 DEF Done, Placing, Frontier
    <3>2. at[2] > 0
      <4> HIDE DEF cells, k
      <4> QED
        BY <3>1, <2>1, <1>5
    <3>3. PICK d \in placed : d.flow = f0 /\ d.cell = Len(cells) - at[2] + 1 /\ d.slot = index
      BY <1>1, <1>4, <2>2, <3>2 DEF Placing, Frontier
    <3>4. d.cell = k + 1 /\ k \in 1..Len(cells) - 1
      <4>1. d.cell \in 1..Len(cells)
        BY <3>3, <1>4 DEF Placing, PlacedSoFar
      <4> HIDE DEF cells, k
      <4> QED
        BY <4>1, <3>1, <3>3, <1>5, <1>6
    <3>5. t # index
      <4>1. SUFFICES ASSUME t = index PROVE FALSE
        OBVIOUS
      <4>2. Participants(d) \subseteq Busy(t)
        BY <3>3, <4>1 DEF Busy, InSlot
      <4>3. Participants(d) = cells[k + 1]
        BY <3>3, <3>4 DEF Participants
      <4>4. Busy(t) \cap cells[k] = {}
        BY <1>7 DEF FreeFor
      <4> HIDE DEF cells, k
      <4> QED
        BY <4>2, <4>3, <4>4, <3>4, <1>5
    <3> HIDE DEF cells, k
    <3> QED
      BY <3>1, <3>5, <1>7, <2>1, <2>2, <1>5
  <2>3. CASE input.algorithm # "R_LPF"
    <3>1. e.cell <= at[2] /\ k = at[2] + 1 /\ e.slot < index
      BY <1>1, <1>4, <1>6, <1>11, <2>1, <2>3 DEF Done, Placing, Frontier
    <3> HIDE DEF cells, k
    <3> QED
      BY <3>1, <1>7, <2>1, <2>3, <1>5
  <2> QED
    BY <2>2, <2>3
<1>12. Once'
  <2> SUFFICES ASSUME NEW d \in placed', NEW e \in placed', d.flow = e.flow, d.cell = e.cell
               PROVE  d = e
    BY DEF Once
  <2>1. CASE d \in placed /\ e \in placed
    BY <2>1 DEF ScheduleInv, Once
  <2> HIDE DEF new, k, f0
  <2> QED
    BY <2>1, <1>8, <1>10
<1>13. AtACell'
  <2>1. Current'.cells = cells
    BY <1>1 DEF Current
  <2> HIDE DEF cells
  <2> QED
    BY <1>1, <1>4, <1>5, <2>1 DEF AtACell, Placing
<1>14. PlacedSoFar'
  <2>1. IsFiniteSet(placed')
    BY <1>3, <1>4, FS_AddElement DEF Placing, PlacedSoFar
  <2> HIDE DEF new
  <2>2. ASSUME NEW e \in placed'
        PROVE  /\ e.flow \in 1..Len(flows) /\ e.cell \in 1..Len(flows[e.flow].cells)
               /\ e.slot \in Nat
               /\ Done(e.flow, e.cell)'
    <3>1. CASE e \in placed
      BY <3>1, <1>4, <1>9 DEF Placing, PlacedSoFar
    <3>2. CASE e = new
      <4>1. f0 \in 1..Len(flows) /\ k \in 1..Len(flows[f0].cells) /\ t \in Nat
        BY <1>4, <1>6, <1>7
      <4> HIDE DEF k, f0
      <4> QED
        BY <3>2, <4>1, <1>8, <1>9
    <3> QED
      BY <3>1, <3>2, <1>8
  <2>3. ASSUME NEW f \in 1..Len(flows), NEW i \in 1..Len(flows[f].cells), Done(f, i)'
        PROVE  \E e \in placed' : e.flow = f /\ e.cell = i
    <3>1. CASE Done(f, i)
      <4>1. PICK e \in placed : e.flow = f /\ e.cell = i
        BY <3>1, <1>4 DEF Placing, PlacedSoFar
      <4> QED
        BY <4>1, <1>8
    <3>2. CASE f = f0 /\ i = k
      BY <3>2, <1>8
    <3> QED
      BY <3>1, <3>2, <2>3, <1>9
  <2> QED
    BY <1>1, <2>1, <2>2, <2>3 DEF PlacedSoFar
<1>15. OnTime'
  <2> SUFFICES ASSUME ChecksDeadlines', input.ignoreNSF = "infeasible", cycle > 1,
                      NEW e \in placed'
               PROVE  e.slot < cycle
    BY <1>1 DEF OnTime
  <2>1. ChecksDeadlines
    BY <1>1 DEF ChecksDeadlines
  <2>2. CASE e \in placed
    BY <1>4, <2>1, <2>2 DEF Placing, OnTime
  <2>3. CASE e = new
    <3>1. ~TooLate(t)
      BY <1>2
    <3>2. ~(cycle # 1 /\ t + 1 > cycle)
      BY <3>1, <2>1 DEF TooLate
    <3>3. cycle \in Nat
      BY <1>4 DEF FlowsFixed
    <3>4. t < cycle
      BY <3>2, <3>3, <1>7
    <3> QED
      BY <2>3, <3>4, <1>8
  <2> QED
    BY <2>2, <2>3, <1>8
<1>16. Ordered'
  <2> SUFFICES ASSUME NEW d \in placed', NEW e \in placed', d.flow = e.flow, d.cell < e.cell
               PROVE  IF input.algorithm = "R_LPF" THEN e.slot < d.slot ELSE d.slot < e.slot
    BY <1>1 DEF Ordered
  <2>1. CASE d \in placed /\ e \in placed
    BY <2>1, <1>4 DEF Placing, Ordered
  <2>2. k \in Int /\ \A g \in placed : g.cell \in Int
    BY <1>4, <1>6 DEF Placing, PlacedSoFar
  <2> HIDE DEF new, k, f0
  <2>3. CASE d \in placed /\ e = new
    BY <2>2, <2>3, <1>8, <1>11
  <2>4. CASE d = new /\ e \in placed
    BY <2>2, <2>4, <1>8, <1>11
  <2>5. CASE d = new /\ e = new
    BY <2>2, <2>5, <1>8
  <2> QED
    BY <2>1, <2>3, <2>4, <2>5, <1>8
<1>17. Frontier'
  <2>1. at'[1] = f0 /\ at'[2] = at[2] + 1 /\ Current'.cells = cells
    BY <1>1 DEF Current
  <2>2. index' = (IF input.algorithm = "R_LPF" THEN t ELSE t + 1) /\ index' \in Nat
    BY <1>2, <1>7
  <2>3. floor' \in Nat
    BY <1>1, <1>4 DEF Placing, Frontier
  <2>4. ASSUME NEW e \in placed', e.flow = f0
        PROVE  IF input.algorithm = "R_LPF" THEN e.slot <= index' ELSE e.slot < index'
    <3>1. CASE e \in placed
      <4>1. e.slot \in Nat
        BY <3>1, <1>4 DEF Placing, PlacedSoFar
      <4> HIDE DEF k, f0
      <4> QED
        BY <3>1, <4>1, <2>2, <2>4, <1>7, <1>11
    <3>2. CASE e = new
      BY <3>2, <2>2, <1>7, <1>8
    <3> QED
      BY <3>1, <3>2, <1>8
  <2>5. ASSUME input.algorithm = "R_LPF"
        PROVE  \E e \in placed' : /\ e.flow = f0 /\ e.cell = Len(cells) - (at[2] + 1) + 1
                                  /\ e.slot = index'
    <3>1. k = Len(cells) - (at[2] + 1) + 1
      <4> HIDE DEF cells, k
      <4> QED
        BY <2>5, <1>5, <1>6
    <3> HIDE DEF cells, k, f0, new
    <3> QED
      BY <3>1, <2>2, <2>5, <1>8
  <2> HIDE DEF cells, k
  <2> QED
    BY <1>1, <2>1, <2>2, <2>3, <2>4, <2>5 DEF Frontier
<1> QED
  BY <1>1, <1>4, <1>12, <1>13, <1>14, <1>15, <1>16, <1>17 DEF Placing

\* The next flow has no cell yet, and this one all of them.
LEMMA NextFlowKeepsOrder == ScheduleInv /\ NextFlow => Placing'
<1> SUFFICES ASSUME ScheduleInv, NextFlow PROVE Placing'
  OBVIOUS
<1>1. /\ status = "placing" /\ at[1] <= Len(flows) /\ at[2] = Len(Current.cells)
      /\ at' = <<at[1] + 1, 0>>
      /\ UNCHANGED <<input, cycle, flows, placed, matrix>>
  BY DEF NextFlow
<1>2. FlowsFixed /\ Placing
  BY <1>1 DEF ScheduleInv
<1>3. /\ Len(flows) \in Nat /\ at[1] \in 1..Len(flows) /\ Current = flows[at[1]]
      /\ \A f \in 1..Len(flows) : Len(flows[f].cells) \in Nat /\ flows[f].release \in Nat
                                  /\ flows[f].period \in Nat
  BY <1>1, <1>2 DEF FlowsFixed, IsFlow, Linked, Placing, AtACell, Current
<1>4. at'[1] = at[1] + 1 /\ at'[2] = 0
  BY <1>1
<1>5. AtACell'
  <2>1. ASSUME at[1] + 1 <= Len(flows)
        PROVE  0 <= Len(Current'.cells)
    <3>1. Current' = flows[at[1] + 1]
      BY <1>1, <1>4 DEF Current
    <3>2. at[1] + 1 \in 1..Len(flows)
      BY <1>3, <2>1
    <3> QED
      BY <3>1, <3>2, <1>3
  <2> QED
    BY <1>1, <1>3, <1>4, <2>1 DEF AtACell
<1>6. \A f \in 1..Len(flows) : \A c \in 1..Len(flows[f].cells) : Done(f, c)' <=> Done(f, c)
  <2> SUFFICES ASSUME NEW f \in 1..Len(flows), NEW c \in 1..Len(flows[f].cells)
               PROVE  Done(f, c)' <=> Done(f, c)
    OBVIOUS
  <2>1. CASE f = at[1]
    <3>1. Done(f, c)'
      BY <2>1, <1>1, <1>3, <1>4 DEF Done
    <3>2. Done(f, c)
      BY <2>1, <1>1, <1>3 DEF Done
    <3> QED
      BY <3>1, <3>2
  <2>2. CASE f = at[1] + 1
    <3>1. ~Done(f, c)
      BY <2>2, <1>3 DEF Done
    <3>2. ~Done(f, c)'
      BY <2>2, <1>1, <1>3, <1>4 DEF Done
    <3> QED
      BY <3>1, <3>2
  <2>3. CASE f # at[1] /\ f # at[1] + 1
    <3>1. f < at[1] + 1 <=> f < at[1]
      BY <2>3, <1>3
    <3> QED
      BY <3>1, <2>3, <1>4 DEF Done
  <2> QED
    BY <2>1, <2>2, <2>3
<1>7. PlacedSoFar'
  BY <1>1, <1>2, <1>6 DEF Placing, PlacedSoFar
<1>8. OnTime' /\ Ordered'
  BY <1>1, <1>2 DEF Placing, OnTime, Ordered, ChecksDeadlines
<1>9. Frontier'
  <2> SUFFICES ASSUME at[1] + 1 <= Len(flows)
               PROVE  /\ index' \in Nat /\ floor' \in Nat
                      /\ \A e \in placed : e.flow # at[1] + 1
    BY <1>1, <1>4 DEF Frontier
  <2>1. at[1] + 1 \in 1..Len(flows) /\ at[1] < Len(flows)
    BY <1>3
  <2>2. floor \in Nat
    BY <1>1, <1>2 DEF Placing, Frontier
  <2>3. index' \in {0, flows[at[1] + 1].release} /\ floor' \in {0, floor + Current.period}
    BY DEF NextFlow
  <2>4. index' \in Nat /\ floor' \in Nat
    BY <2>1, <2>2, <2>3, <1>3
  <2>5. ASSUME NEW e \in placed
        PROVE  e.flow # at[1] + 1
    <3>1. Done(e.flow, e.cell)
      BY <1>2 DEF Placing, PlacedSoFar
    <3> QED
      BY <3>1, <1>3 DEF Done
  <2> QED
    BY <2>4, <2>5
<1> QED
  BY <1>1, <1>2, <1>5, <1>7, <1>8, <1>9 DEF Placing

-----------------------------------------------------------------------------
(***************************************************************************)
(* The end.                                                                *)
(***************************************************************************)
\* What is left of a cell when the grid is cut and turned round.
LEMMA FinishFacts ==
  ASSUME ScheduleInv, Finish
  PROVE  \E last \in Nat :
           /\ length' = last + 1 /\ last \in LastSlot
           /\ matrix' = AvailableRows(placed', last)
           /\ UNCHANGED <<input, cycle, flows>> /\ at[1] = Len(flows) + 1 /\ Placing
           /\ \A g : g \in placed' <=>
                \E e \in placed :
                  /\ e.slot <= last
                  /\ g = IF input.algorithm = "R_LPF" THEN [e EXCEPT !.slot = last - @] ELSE e
           /\ \A e \in placed :
                LET g == IF input.algorithm = "R_LPF" THEN [e EXCEPT !.slot = last - @] ELSE e
                IN  /\ g.flow = e.flow /\ g.cell = e.cell /\ g.channel = e.channel
                    /\ g.slot = IF input.algorithm = "R_LPF" THEN last - e.slot ELSE e.slot
<1>1. PICK last \in LastSlot : /\ length' = last + 1 /\ placed' = Turned(last)
                               /\ matrix' = AvailableRows(placed', last)
  BY DEF Finish
<1>2. /\ status = "placing" /\ at[1] > Len(flows) /\ UNCHANGED <<input, cycle, flows>>
  BY DEF Finish
<1>3. FlowsFixed /\ Placing
  BY <1>2 DEF ScheduleInv
<1>4. at[1] = Len(flows) + 1
  BY <1>2, <1>3 DEF FlowsFixed, Placing, AtACell
<1>5. last \in Nat
  <2>1. CASE cycle > 1
    BY <2>1, <1>1, <1>3 DEF LastSlot, FlowsFixed
  <2>2. CASE ~(cycle > 1)
    BY <2>2, <1>1, <1>3 DEF LastSlot, Greatest, Placing, PlacedSoFar
  <2> QED
    BY <2>1, <2>2
<1>6. \A g : g \in placed' <=>
        \E e \in placed :
          /\ e.slot <= last
          /\ g = IF input.algorithm = "R_LPF" THEN [e EXCEPT !.slot = last - @] ELSE e
  BY <1>1 DEF Turned
<1>7. ASSUME NEW e \in placed
      PROVE  LET g == IF input.algorithm = "R_LPF" THEN [e EXCEPT !.slot = last - @] ELSE e
             IN  /\ g.flow = e.flow /\ g.cell = e.cell /\ g.channel = e.channel
                 /\ g.slot = IF input.algorithm = "R_LPF" THEN last - e.slot ELSE e.slot
  BY DEF ScheduleInv, IInv, IsEntry
<1> QED
  BY <1>1, <1>2, <1>3, <1>4, <1>5, <1>6, <1>7

LEMMA FinishKeepsOrder == ScheduleInv /\ Finish => Once' /\ RouteInOrder' /\ NothingDropped'
<1> SUFFICES ASSUME ScheduleInv, Finish PROVE Once' /\ RouteInOrder' /\ NothingDropped'
  OBVIOUS
<1> DEFINE turned(e, last) == IF input.algorithm = "R_LPF" THEN [e EXCEPT !.slot = last - @] ELSE e
<1>1. PICK last \in Nat :
        /\ length' = last + 1 /\ last \in LastSlot
        /\ matrix' = AvailableRows(placed', last)
        /\ UNCHANGED <<input, cycle, flows>> /\ at[1] = Len(flows) + 1 /\ Placing
        /\ \A g : g \in placed' <=> \E e \in placed : e.slot <= last /\ g = turned(e, last)
        /\ \A e \in placed :
             /\ turned(e, last).flow = e.flow /\ turned(e, last).cell = e.cell
             /\ turned(e, last).channel = e.channel
             /\ turned(e, last).slot = IF input.algorithm = "R_LPF" THEN last - e.slot ELSE e.slot
  BY FinishFacts
<1>2. \A e \in placed : e.slot \in Nat
  BY <1>1 DEF Placing, PlacedSoFar
<1> HIDE DEF turned
<1>3. Once'
  BY <1>1 DEF ScheduleInv, Once
<1>4. RouteInOrder'
  <2>1. matrix' # << >>
    <3>1. input \in Inputs
      BY DEF ScheduleInv, FlowsFixed
    <3>2. input.nodes \in Nat \ {0}
      BY <3>1, SchedulerAssumption
    <3>3. DOMAIN matrix' = 1..input.nodes
      BY <1>1 DEF AvailableRows
    <3>4. 1 \in 1..input.nodes /\ ~(1 \in DOMAIN << >>)
      BY <3>2
    <3> QED
      BY <3>3, <3>4
  <2> SUFFICES ASSUME NEW d \in placed', NEW e \in placed', d.flow = e.flow, d.cell < e.cell
               PROVE  d.slot < e.slot
    BY <2>1 DEF RouteInOrder
  <2>2. PICK d0 \in placed : d = turned(d0, last)
    BY <1>1
  <2>3. PICK e0 \in placed : e = turned(e0, last)
    BY <1>1
  <2>4. d0.flow = e0.flow /\ d0.cell < e0.cell
    BY <1>1, <2>2, <2>3
  <2>5. IF input.algorithm = "R_LPF" THEN e0.slot < d0.slot ELSE d0.slot < e0.slot
    BY <1>1, <2>4 DEF Placing, Ordered
  <2> QED
    BY <1>1, <1>2, <2>2, <2>3, <2>5
<1>5. NothingDropped'
  <2>1. ASSUME ChecksDeadlines', input.ignoreNSF = "infeasible",
               NEW f \in 1..Len(flows), NEW c \in 1..Len(flows[f].cells)
        PROVE  \E e \in placed' : e.flow = f /\ e.cell = c
    <3>1. Done(f, c)
      <4>1. Len(flows) \in Nat
        BY DEF ScheduleInv, FlowsFixed
      <4> QED
        BY <4>1, <1>1 DEF Done
    <3>2. PICK e \in placed : e.flow = f /\ e.cell = c
      BY <1>1, <3>1 DEF Placing, PlacedSoFar
    <3>3. e.slot <= last
      <4>1. CASE cycle > 1
        <5>1. ChecksDeadlines
          BY <1>1, <2>1 DEF ChecksDeadlines
        <5>2. e.slot < cycle
          BY <1>1, <2>1, <4>1, <5>1 DEF Placing, OnTime
        <5>3. last = cycle - 1 /\ cycle \in Nat
          BY <1>1, <4>1 DEF LastSlot, ScheduleInv, FlowsFixed
        <5> QED
          BY <5>2, <5>3, <1>2
      <4>2. CASE ~(cycle > 1)
        BY <1>1, <4>2 DEF LastSlot, Greatest
      <4> QED
        BY <4>1, <4>2
    <3> QED
      BY <1>1, <3>2, <3>3
  <2> QED
    BY <1>1, <1>3, <2>1 DEF NothingDropped, Once
<1> QED
  BY <1>3, <1>4, <1>5

\* The slots without a cell on channel 0 are the slots without a cell.
LEMMA FinishLeavesFree == ScheduleInv /\ Finish => AvailableAreFree'
<1> SUFFICES ASSUME ScheduleInv, Finish PROVE AvailableAreFree'
  OBVIOUS
<1>1. PICK last \in Nat :
        /\ length' = last + 1
        /\ matrix' = AvailableRows(placed', last)
        /\ UNCHANGED input /\ placed' = Turned(last) /\ IsFiniteSet(placed)
  <2>1. PICK last \in Nat : length' = last + 1 /\ matrix' = AvailableRows(placed', last)
                            /\ UNCHANGED input /\ Placing
    BY FinishFacts
  <2>2. PICK l \in LastSlot : length' = l + 1 /\ placed' = Turned(l)
    BY DEF Finish
  <2>3. \E n \in Nat : n \in LastSlot /\ length' = n + 1
    BY FinishFacts
  <2> QED
    BY <2>1, <2>2, <2>3 DEF Placing, PlacedSoFar
<1>2. input \in Inputs /\ IInv'
  BY FinishingKeepsInv DEF ScheduleInv, FlowsFixed
<1>3. PICK grid : grid = placed'
  OBVIOUS
<1>4. PICK rows : rows = matrix'
  OBVIOUS
<1> DEFINE free == FreeSlots(grid, last)
           slots == { e.slot : e \in grid }
<1>5. /\ DOMAIN rows = 1..input.nodes
      /\ \A n \in 1..input.nodes : \A i \in DOMAIN rows[n] :
           /\ rows[n][i] \in free
           /\ \A m \in 1..input.nodes : \A j \in DOMAIN rows[m] :
                rows[m][j] = rows[n][i] => <<m, j>> = <<n, i>>
      /\ Cardinality(free) >= 2 * input.nodes => \A n \in 1..input.nodes : Len(rows[n]) = 2
  <2>1. rows = AvailableRows(grid, last)
    BY <1>1, <1>3, <1>4
  <2> HIDE DEF free
  <2> QED
    BY <2>1, <1>2, RowsAreFree DEF free
<1>6. \A t \in free : t \in 1..last /\ 0 \notin Taken(t)'
  <2> SUFFICES ASSUME NEW t \in free PROVE t \in 1..last /\ 0 \notin Taken(t)'
    OBVIOUS
  <2>1. t \in 1..last /\ \A e \in grid : e.channel = 0 => e.slot # t
    BY DEF FreeSlots
  <2> QED
    BY <2>1, <1>3 DEF Taken, InSlot
<1>7. free = (1..last) \ slots
  <2>1. ASSUME NEW e \in grid
        PROVE  \E d \in grid : d.channel = 0 /\ d.slot = e.slot
    <3>1. 0..e.channel \subseteq Taken(e.slot)' /\ e.channel \in Channels'
      BY <1>2, <1>3, <2>1 DEF IInv, ConflictFree, IsEntry
    <3>2. e.channel \in Nat
      BY <3>1 DEF Channels
    <3>3. 0 \in Taken(e.slot)'
      BY <3>1, <3>2
    <3> QED
      BY <3>3, <1>3 DEF Taken, InSlot
  <2>2. slots = { e.slot : e \in { e \in grid : e.channel = 0 } }
    BY <2>1
  <2> QED
    BY <2>2 DEF FreeSlots
<1>8. IsFiniteSet(slots)
  <2> DEFINE kept == { e \in placed : e.slot <= last }
             turned(e) == IF input.algorithm = "R_LPF" THEN [e EXCEPT !.slot = last - @] ELSE e
             f == [e \in kept |-> turned(e).slot]
  <2>1. grid = { turned(e) : e \in kept }
    BY <1>1, <1>3 DEF Turned
  <2>2. f \in Surjection(kept, slots)
    <3> HIDE DEF turned, kept
    <3>1. f \in [kept -> slots] /\ \A s \in slots : \E e \in kept : f[e] = s
      BY <2>1
    <3> HIDE DEF f, slots
    <3> QED
      BY <3>1 DEF Surjection
  <2>3. IsFiniteSet(kept)
    <3>1. kept \subseteq placed
      OBVIOUS
    <3> HIDE DEF kept
    <3> QED
      BY <3>1, <1>1, FS_Subset
  <2> HIDE DEF f, kept, slots
  <2> QED
    BY <2>2, <2>3, FS_Surjection
<1>9. /\ Cardinality(slots) \in Nat
      /\ Cardinality(free) \in Nat /\ Cardinality(free) >= last - Cardinality(slots)
  <2> HIDE DEF free, slots
  <2>1. IsFiniteSet(1..last) /\ Cardinality(1..last) = last
    BY FS_Interval
  <2>2. /\ IsFiniteSet((1..last) \ slots)
        /\ Cardinality((1..last) \ slots) = last - Cardinality((1..last) \cap slots)
    BY <2>1, FS_Difference
  <2>3. IsFiniteSet((1..last) \cap slots) /\ Cardinality((1..last) \cap slots) <= Cardinality(slots)
    BY <1>8, FS_Intersection
  <2>4. Cardinality(slots) \in Nat /\ Cardinality((1..last) \cap slots) \in Nat /\ Cardinality(free) \in Nat
    BY <1>7, <1>8, <2>2, <2>3, FS_CardinalityType
  <2> QED
    BY <1>7, <2>2, <2>3, <2>4
<1>10. (AvailableSlots(placed, length - 1) > 2 * input.nodes)' => Cardinality(free) >= 2 * input.nodes
  <2>1. AvailableSlots(placed, length - 1)' = (last + 1) - 1 + 1 - Cardinality(slots)
    BY <1>1, <1>3 DEF AvailableSlots
  <2>2. input.nodes \in Nat
    BY <1>2, SchedulerAssumption
  <2> HIDE DEF free, slots
  <2> QED
    BY <1>1, <1>9, <2>1, <2>2
<1> HIDE DEF free
<1> QED
  BY <1>1, <1>4, <1>5, <1>6, <1>10 DEF AvailableAreFree

-----------------------------------------------------------------------------
(***************************************************************************)
(* The theorems.                                                           *)
(***************************************************************************)
LEMMA InitialFlows == Init => FlowsFixed
<1> SUFFICES ASSUME Init PROVE FlowsFixed
  OBVIOUS
<1>1. input \in Inputs
  BY DEF Init
<1>2. cycle \in Nat \ {0}
  <2>1. cycle \in Least(Multiples(input.communications))
    BY Zenon DEF Init
  <2> QED
    BY <2>1 DEF Least, Multiples
<1>3. PICK in : in = input
  OBVIOUS
<1>4. PICK S : AllFlows(in) \in Seq(S) /\ \A f \in S : IsFlow(f, in)
  BY <1>1, <1>2, <1>3, AllFlowsAreFlows
<1>5. PICK s : s = AllFlows(in)
  OBVIOUS
<1>6. StableSort(in.algorithm, s) \in [1 .. Len(s) -> S]
  BY <1>1, <1>3, <1>4, <1>5, SortedFlows
<1>7. flows = StableSort(in.algorithm, s)
  BY <1>3, <1>5, Zenon DEF Init
<1>8. flows \in [1 .. Len(s) -> S] /\ Len(s) \in Nat
  BY <1>4, <1>5, <1>6, <1>7
<1>9. Len(flows) = Len(s)
  BY <1>8
<1> QED
  BY <1>1, <1>2, <1>3, <1>4, <1>8, <1>9 DEF FlowsFixed

LEMMA Initially == Init => ScheduleInv
<1> SUFFICES ASSUME Init PROVE ScheduleInv
  OBVIOUS
<1>1. FlowsFixed
  BY InitialFlows
<1>2. placed = {} /\ matrix = << >> /\ at = <<1, 0>> /\ status = "placing"
  BY DEF Init
<1>3. IInv
  BY <1>1, <1>2 DEF IInv, FlowsFixed, ConflictFree
<1>4. at[1] = 1 /\ at[2] = 0
  BY <1>2
<1>5. /\ Len(flows) \in Nat
      /\ \A f \in 1..Len(flows) : flows[f].release \in Nat /\ Len(flows[f].cells) \in Nat
  BY <1>1 DEF FlowsFixed, IsFlow, Linked
<1>6. AtACell
  BY <1>2, <1>4, <1>5 DEF AtACell, Current
<1>7. PlacedSoFar
  <2>1. \A f \in 1..Len(flows) : \A c \in 1..Len(flows[f].cells) : ~Done(f, c)
    BY <1>4, <1>5 DEF Done
  <2> QED
    BY <1>2, <2>1, FS_EmptySet DEF PlacedSoFar
<1>8. Frontier
  <2>1. index = (IF input.algorithm = "R_LPF" THEN 0 ELSE flows[1].release) /\ floor = 0
    BY DEF Init
  <2> QED
    BY <2>1, <1>2, <1>4, <1>5 DEF Frontier
<1>9. Placing
  BY <1>2, <1>6, <1>7, <1>8 DEF Placing, OnTime, Ordered
<1> QED
  BY <1>1, <1>2, <1>3, <1>9
     DEF ScheduleInv, Once, RouteInOrder, NothingDropped, AvailableAreFree

LEMMA IInvKept == IInv /\ [Next]_vars => IInv'
<1> SUFFICES ASSUME IInv, [Next]_vars PROVE IInv'
  OBVIOUS
<1>1. CASE PlaceCell
  BY <1>1, PlacingKeepsInv
<1>2. CASE Finish
  BY <1>2, FinishingKeepsInv
<1>3. CASE UNCHANGED <<input, cycle, flows, placed>>
  BY <1>3 DEF IInv, IsEntry, ConflictFree, Participants, Taken, InSlot, Channels
<1> QED
  BY <1>1, <1>2, <1>3 DEF Next, NoPlace, Infeasible, Fail, NextFlow, vars

\* While cells are placed the order of the route is that of Ordered, and no
\* schedule is issued.
LEMMA WhilePlacing ==
  Once /\ Placing /\ status # "scheduled" => RouteInOrder /\ NothingDropped /\ AvailableAreFree
BY DEF Once, Placing, Ordered, RouteInOrder, NothingDropped, AvailableAreFree

LEMMA ScheduleInvKept == ScheduleInv /\ [Next]_vars => ScheduleInv'
<1> SUFFICES ASSUME ScheduleInv, [Next]_vars PROVE ScheduleInv'
  OBVIOUS
<1>1. IInv'
  BY IInvKept DEF ScheduleInv
<1>2. UNCHANGED <<input, cycle, flows>>
  BY DEF Next, NoPlace, Infeasible, Fail, PlaceCell, NextFlow, Finish, vars
<1>3. FlowsFixed'
  BY <1>2 DEF ScheduleInv, FlowsFixed, IsFlow, Linked
<1>4. (Once /\ Placing /\ status # "scheduled" => RouteInOrder /\ NothingDropped /\ AvailableAreFree)'
  BY WhilePlacing, PTL
<1>5. CASE PlaceCell
  <2>1. Once' /\ Placing'
    BY <1>5, PlacingKeepsOrder
  <2>2. status' = "placing"
    BY <1>5 DEF PlaceCell
  <2> QED
    BY <1>1, <1>3, <1>4, <2>1, <2>2 DEF ScheduleInv
<1>6. CASE NextFlow
  <2>1. Placing'
    BY <1>6, NextFlowKeepsOrder
  <2>2. status' = "placing" /\ Once'
    BY <1>6 DEF NextFlow, ScheduleInv, Once
  <2> QED
    BY <1>1, <1>3, <1>4, <2>1, <2>2 DEF ScheduleInv
<1>7. CASE Finish
  <2>1. status' # "placing"
    BY <1>7 DEF Finish
  <2> QED
    BY <1>1, <1>3, <1>7, <2>1, FinishKeepsOrder, FinishLeavesFree DEF ScheduleInv
<1>8. CASE NoPlace \/ Infeasible
  <2>1. Placing /\ Fail
    BY <1>8 DEF NoPlace, Infeasible, ScheduleInv
  <2>2. Once' /\ Placing' /\ status' = "failed"
    BY <2>1 DEF Fail, ScheduleInv, Once, Placing, AtACell, Current, PlacedSoFar, Done,
                OnTime, ChecksDeadlines, Ordered, Frontier
  <2> QED
    BY <1>1, <1>3, <1>4, <2>2 DEF ScheduleInv
<1>9. CASE UNCHANGED vars
  <2>1. (status = "placing" => Placing)'
    BY <1>9 DEF vars, ScheduleInv, Placing, AtACell, Current, PlacedSoFar, Done,
                OnTime, ChecksDeadlines, Ordered, Frontier
  <2>2. Once' /\ RouteInOrder' /\ NothingDropped' /\ AvailableAreFree'
    BY <1>9 DEF vars, ScheduleInv, Once, RouteInOrder, NothingDropped, ChecksDeadlines,
                AvailableAreFree, AvailableSlots, Taken, InSlot
  <2> QED
    BY <1>1, <1>3, <2>1, <2>2 DEF ScheduleInv
<1> QED
  BY <1>5, <1>6, <1>7, <1>8, <1>9 DEF Next

THEOREM ScheduleInvAlways == Spec => []ScheduleInv
BY Initially, ScheduleInvKept, PTL DEF Spec

\* No node takes part in two cells of a slot and no two cells share a slot and a
\* channel, for every request, algorithm and number of channels: neither while the
\* grid is filled (schedulable_in_slot, find_schedulable_slot) nor when
\* Schedule.create has cut it and turned it round.
THEOREM GridIsConflictFree == Spec => []ConflictFree
<1>1. ScheduleInv => ConflictFree
  BY DEF ScheduleInv, IInv
<1> QED
  BY <1>1, ScheduleInvAlways, PTL

\* The cells of every flow come in the order of its route, for every request and all
\* three algorithms: also those R_LPF places from the last to the first, starting
\* each search at the slot of the one before (scheduling.py:113).
THEOREM RoutesAreInOrder == Spec => []RouteInOrder
<1>1. ScheduleInv => RouteInOrder
  BY DEF ScheduleInv
<1> QED
  BY <1>1, ScheduleInvAlways, PTL

\* A schedule that Schedule.create issues with deadlines checked has every cell of
\* every flow, and no cell twice.
THEOREM ScheduleIsComplete == Spec => []NothingDropped
<1>1. ScheduleInv => NothingDropped
  BY DEF ScheduleInv
<1> QED
  BY <1>1, ScheduleInvAlways, PTL

\* The slots of available_slot_matrix are no slot of a cell on channel 0, not slot 0
\* and not given twice, and each node has two when enough are left.
THEOREM DiscoverySlotsAreFree == Spec => []AvailableAreFree
<1>1. ScheduleInv => AvailableAreFree
  BY DEF ScheduleInv
<1> QED
  BY <1>1, ScheduleInvAlways, PTL
=============================================================================
