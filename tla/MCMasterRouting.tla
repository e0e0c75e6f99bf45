--------------------------- MODULE MCMasterRouting ---------------------------
(***************************************************************************)
(* Instances of MasterRouting for TLC: small radio topologies around the   *)
(* coordinator, node 1.                                                    *)
(***************************************************************************)
EXTENDS MasterRouting

\* 1 reaches 2 and 3, which reach each other; 1 hears 2 only.
Triangle == [n \in Node |-> CASE n = 1 -> {2, 3} [] n = 2 -> {1, 3} [] n = 3 -> {2}]

\* The same, with a coordinator that is heard but hears nobody.
DeafRoot == [n \in Node |-> Node \ {n, Coordinator}]

\* 1 reaches 2 and 3, which reach each other; 1 hears 2 only, and only 3 reaches 4.
Kite == [n \in Node |-> CASE n = 1 -> {2, 3}
                          [] n = 2 -> {1, 3}
                          [] n = 3 -> {2, 4}
                          [] n = 4 -> {3}]

NothingMeasured == { [n \in Node |-> [m \in Node |-> 0]] }

\* Symmetric links, every one of them heard.
SymmetricHeard ==
  LET link == { {n, m} : n \in Node, m \in Node }
      used == { l \in link : \E n, m \in l : n \in InRange[m] }
  IN { [n \in Node |-> [m \in Node |-> IF {n, m} \in used THEN w[{n, m}] ELSE 0]] :
         w \in [used -> Strengths \ {0}] }

\* Those of the kite with the weakest link from 1 to 3 and the strongest from 3 to
\* 4.  Where the detour over 2 is strong, the first advertisement 3 hears is not the
\* best; where it is weak too, 2 and 3 are as strong as each other.
WeakDirect ==
  { v \in SymmetricHeard : v[3][1] = 1 /\ v[3][4] = 2 /\ v[2][1] = v[2][3] }

(***************************************************************************)
(* IsWidest against a definition by paths: the strength of the widest path *)
(* from the coordinator to n over the links in v, by relaxation over at    *)
(* most k links.  No instance has more than 4 nodes.                       *)
(***************************************************************************)
MaxOf(S) == CHOOSE x \in S : \A y \in S : y <= x

WidestPath(v) ==
  LET Width[k \in Nat] ==
        IF k = 0 THEN [n \in Node |-> IF n = Coordinator THEN MasterStrength ELSE 0]
        ELSE LET w == Width[k - 1]
             IN [n \in Node |-> MaxOf({w[n]} \cup { Weaker(w[m], v[n][m]) : m \in Node })]
  IN Width[3]

ASSUME CutsMeasurePaths ==
  \A v \in InitStrengths : \A n \in Node \ {Coordinator} : \A w \in Strengths :
    IsWidest(w, v, n) <=> w = WidestPath(v)[n]
=============================================================================
