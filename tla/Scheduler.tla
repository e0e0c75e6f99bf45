------------------------------ MODULE Scheduler ------------------------------
(***************************************************************************)
(* The central scheduler (Master/Python: scheduling.py, flow.py,           *)
(* master_scheduler.py): the communications asked for become one flow per  *)
(* period of the hyper-period, each flow a sequence of cells along its     *)
(* route, and the cells are placed one by one on a grid of timeslots and   *)
(* channels. What is left of the grid gives every node two slots for       *)
(* neighbour discovery. Longest path first (R_LPF), earliest deadline      *)
(* (EDF) and rate monotonic (RMS) placement; C-LLF, the removal of         *)
(* infeasible flows (ignore_NSF "enabled") and sub-flows of routes over    *)
(* ten nodes are left out.                                                 *)
(***************************************************************************)
EXTENDS Integers, FiniteSetsExt, SequencesExt

CONSTANTS
  Inputs,      \* the requests the scheduler is started with
  NoDeadline

\* What the scheduler checks before it starts (master_scheduler.py:240-275,
\* flow.py:65): a route has at least one hop, a window at least two cells; EDF and
\* RMS want deadlines (scheduling.py:134). A hop takes etx tries, rounded up.
IsCommunication(c, in) ==
  /\ c.path \in Seq(Nat) /\ Len(c.path) >= 2
  /\ IF in.strategy = "sliding_window" THEN c.window \in Nat /\ c.window >= 2
                                       ELSE c.etx \in [1..(Len(c.path) - 1) -> Nat \ {0}]
  /\ c.period \in Nat \ {0} /\ c.release \in Nat
  /\ in.algorithm # "R_LPF" => c.deadline \in Nat

\* Refused are periods above 1 that are prime to all those before them, unless
\* these are 1 (master_scheduler.py:292).
PeriodsRelated(communications) ==
  \A f \in 2..Len(communications) :
    LET period(g) == communications[g].period
    IN \/ period(f) = 1
       \/ \A g \in 1..(f - 1) : period(g) = 1
       \/ \E g \in 1..(f - 1) : \E d \in 2..period(f) : period(f) % d = 0 /\ period(g) % d = 0

ASSUME SchedulerAssumption ==
  \A in \in Inputs :
    /\ in.channels \in Nat \ {0} /\ in.nodes \in Nat \ {0}
    /\ in.algorithm \in {"R_LPF", "EDF", "RMS"}
    /\ DOMAIN in.communications = 1..Len(in.communications)
    /\ Len(in.communications) \in Nat \ {0}
    /\ \A f \in 1..Len(in.communications) : IsCommunication(in.communications[f], in)
    /\ PeriodsRelated(in.communications)

VARIABLES
  input,    \* the request being scheduled
  cycle,    \* shortest_repeating_cycle, the least common multiple of the periods
  length,   \* len(self.schedule[0])
  flows,    \* self.flows, in the order they are scheduled
  at,       \* the next cell: index of its flow, cells of it that are placed
  index,    \* insert_at_index of R_LPF, release_time of EDF and RMS
  floor,    \* current_idx of R_LPF
  placed,   \* self.schedule: where which cell of which flow is
  status,   \* placing, failed with an exception, or scheduled
  matrix    \* available_slot_matrix

vars == <<input, cycle, length, flows, at, index, floor, placed, status, matrix>>

\* The least, the greatest element of a set of numbers, when it has one.
Least(S)    == { t \in S : \A u \in S : t <= u }
Greatest(S) == { t \in S : \A u \in S : u <= t }

Channels == 0..(input.channels - 1)

(***************************************************************************)
(* The flows of a request.                                                 *)
(***************************************************************************)
\* Faulty variant of the next: those between the ends stop one slot early.
ShortWindow(path, size) ==
  LET from(p) == IF p = 0 THEN 0 ELSE p - 1
  IN [k \in 1..(Len(path) + size - 3) |->
       { path[p + 1] : p \in { p \in 0..(Len(path) - 1) :
                               from(p) <= k - 1 /\ k - 1 <= from(p) + size - 2 } }]

\* Flow.create_cells: who takes part in each cell of a route. A window slides along
\* the route, or each link has its cells.
Window(path, size) ==
  LET last == Len(path) - 1
      from(p)  == IF p = 0 THEN 0 ELSE p - 1
      until(p) == IF p = 0 \/ p = last THEN from(p) + size - 2 ELSE from(p) + size - 1
  IN [k \in 1..(last + size - 2) |->
       { path[p + 1] : p \in { p \in 0..last : from(p) <= k - 1 /\ k - 1 <= until(p) } }]

\* CellsUpTo(etx)[h]: the cells of the first h hops.
CellsUpTo(etx) ==
  LET upTo[h \in 0..Len(etx)] == IF h = 0 THEN 0 ELSE upTo[h - 1] + etx[h] IN upTo

PerLink(path, etx) ==
  LET upTo == CellsUpTo(etx)
      hop(k) == Min({ h \in 1..Len(etx) : k <= upTo[h] })
  IN [k \in 1..upTo[Len(etx)] |-> {path[hop(k)], path[hop(k) + 1]}]

CellsOf(strategy, c) ==
  IF strategy = "sliding_window" THEN Window(c.path, c.window) ELSE PerLink(c.path, c.etx)

Product(S) == FoldSet(LAMBDA p, q : p * q, 1, S)

Multiples(communications) ==
  LET periods == { c.period : c \in ToSet(communications) }
  IN { k \in 1..Product(periods) : \A p \in periods : k % p = 0 }

\* The flows of communication f, one per period, with the release time of each
\* brought into the cycle.
FlowsOf(f, c, strategy) ==
  [k \in 1..(cycle \div c.period) |->
    LET release == c.release + (k - 1) * c.period IN
    [ number   |-> f,
      path     |-> c.path,
      cells    |-> CellsOf(strategy, c),
      period   |-> c.period,
      release  |-> IF cycle # 1 /\ release >= cycle THEN release % cycle ELSE release,
      deadline |-> c.deadline ]]

AllFlows(in) ==
  FlattenSeq([f \in 1..Len(in.communications) |->
                FlowsOf(f, in.communications[f], in.strategy)])

\* Longest first, earliest deadline first, or shortest period then deadline first;
\* Python's sort keeps the order of equals.
Precedes(algorithm, f, g) ==
  CASE algorithm = "R_LPF" -> Len(f.cells) > Len(g.cells)
    [] algorithm = "EDF"   -> f.deadline < g.deadline
    [] algorithm = "RMS"   -> \/ f.period < g.period
                              \/ f.period = g.period /\ f.deadline < g.deadline

StableSort(algorithm, s) ==
  LET before(j, i) == \/ Precedes(algorithm, s[j], s[i])
                      \/ ~Precedes(algorithm, s[i], s[j]) /\ j < i
      rank(i) == 1 + Cardinality({ j \in 1..Len(s) : before(j, i) })
  IN [r \in 1..Len(s) |-> s[CHOOSE i \in 1..Len(s) : rank(i) = r]]

\* Length of the grid: the nodes of all routes per cycle, and the latest release.
GridLength(in) ==
  LET latest == Max({ c.release + cycle - c.period : c \in ToSet(in.communications) })
  IN FoldLeft(LAMBDA n, f : n + Len(f.path), 0, AllFlows(in)) * cycle + latest

(***************************************************************************)
(* Placing a cell.                                                         *)
(***************************************************************************)
Participants(e) == flows[e.flow].cells[e.cell]
InSlot(t)       == { e \in placed : e.slot = t }
Taken(t)        == { e.channel : e \in InSlot(t) }
Busy(t)         == UNION { Participants(e) : e \in InSlot(t) }

Current == flows[at[1]]

\* Faulty variant of the next: always from the first.
FirstCell == at[2] + 1

\* R_LPF takes the cells of a flow from the last to the first.
CurrentCell ==
  IF input.algorithm = "R_LPF" THEN Len(Current.cells) - at[2] ELSE at[2] + 1

\* Faulty variant of the next: only the channel has to be free.
FreeChannel(t, nodes) == Channels \ Taken(t) # {}

\* schedulable_in_slot; in find_schedulable_slot the channels up to a free one are
\* compared, which are all that are taken (ConflictFree).
FreeFor(t, nodes) == Channels \ Taken(t) # {} /\ Busy(t) \cap nodes = {}

Earliest == IF input.algorithm = "R_LPF" /\ index < floor THEN floor ELSE index

Candidates ==
  { t \in Earliest..(length - 1) : FreeFor(t, Current.cells[CurrentCell]) }

\* R_LPF asks for deadlines only when every flow has one.
ChecksDeadlines ==
  input.algorithm # "R_LPF" \/ \A f \in ToSet(flows) : f.deadline # NoDeadline

\* Faulty variant of the next: the end of the cycle is no deadline.
TooLateForDeadline(t) == ChecksDeadlines /\ t >= Current.release + Current.deadline

\* The schedulability analysis.
TooLate(t) ==
  ChecksDeadlines /\ \/ t >= Current.release + Current.deadline
                     \/ cycle # 1 /\ t + 1 > cycle

Init ==
  /\ input \in Inputs
  /\ cycle \in Least(Multiples(input.communications))
  /\ length = GridLength(input)
  /\ flows = StableSort(input.algorithm, AllFlows(input))
  /\ at = <<1, 0>>
  /\ index = IF input.algorithm = "R_LPF" THEN 0 ELSE flows[1].release
  /\ floor = 0
  /\ placed = {}
  /\ status = "placing"
  /\ matrix = << >>

Fail == status' = "failed" /\ UNCHANGED <<input, cycle, length, flows, at, index, floor, placed, matrix>>

\* The next cell has no place: an index out of range, or the ValueError of EDF and RMS.
NoPlace ==
  /\ status = "placing" /\ at[1] <= Len(flows) /\ at[2] < Len(Current.cells)
  /\ Candidates = {}
  /\ Fail

\* A deadline is missed, and the scheduler gives up (ignore_NSF "infeasible").
Infeasible ==
  /\ status = "placing" /\ at[1] <= Len(flows) /\ at[2] < Len(Current.cells)
  /\ \E t \in Least(Candidates) : TooLate(t)
  /\ input.ignoreNSF = "infeasible"
  /\ Fail

PlaceCell ==
  /\ status = "placing" /\ at[1] <= Len(flows) /\ at[2] < Len(Current.cells)
  /\ \E t \in Least(Candidates) : \E c \in Least(Channels \ Taken(t)) :
       /\ TooLate(t) => input.ignoreNSF = "disabled"
       /\ placed' = placed \cup
            { [flow |-> at[1], cell |-> CurrentCell, slot |-> t, channel |-> c] }
       /\ index' = IF input.algorithm = "R_LPF" THEN t ELSE t + 1
  /\ at' = <<at[1], at[2] + 1>>
  /\ UNCHANGED <<input, cycle, length, flows, floor, status, matrix>>

\* Every cell of a flow is placed: R_LPF starts the next period of the same
\* communication one period later, and the next communication at 0.
NextFlow ==
  /\ status = "placing" /\ at[1] <= Len(flows) /\ at[2] = Len(Current.cells)
  /\ at' = <<at[1] + 1, 0>>
  /\ LET more == at[1] < Len(flows)
         same == more /\ flows[at[1] + 1].number = Current.number IN
     /\ index' = IF input.algorithm = "R_LPF" \/ ~more THEN 0 ELSE flows[at[1] + 1].release
     /\ floor' = IF same THEN floor + Current.period ELSE 0
  /\ UNCHANGED <<input, cycle, length, flows, placed, status, matrix>>

(***************************************************************************)
(* The end of Schedule.create: the grid is cut to the cycle, R_LPF turns   *)
(* it round, and the slots without a cell on channel 0, but for slot 0,    *)
(* are given to the nodes: from the front to transmit, from the back to    *)
(* receive, until none is left.                                            *)
(***************************************************************************)
LastSlot ==
  IF cycle > 1 THEN {cycle - 1} ELSE Greatest({0} \cup { e.slot : e \in placed })

Turned(last) ==
  { IF input.algorithm = "R_LPF" THEN [e EXCEPT !.slot = last - @] ELSE e :
      e \in { e \in placed : e.slot <= last } }

\* Faulty variant of the next: slot 0 is given away as well.
RowsFromZero(grid, last) ==
  LET free  == (0..last) \ { e.slot : e \in { e \in grid : e.channel = 0 } }
      nth(k) == CHOOSE t \in free : Cardinality({ u \in free : u <= t }) = k
  IN [n \in 1..input.nodes |-> IF n <= Cardinality(free) THEN <<nth(n)>> ELSE << >>]

AvailableRows(grid, last) ==
  LET free  == (1..last) \ { e.slot : e \in { e \in grid : e.channel = 0 } }
      count == Cardinality(free)
      nth(k) == CHOOSE t \in free : Cardinality({ u \in free : u <= t }) = k
  IN [n \in 1..input.nodes |->
       (IF 2 * n - 1 <= count THEN <<nth(n)>> ELSE << >>) \o
       (IF 2 * n <= count THEN <<nth(count - n + 1)>> ELSE << >>)]

\* available_slots: the slots without a cell on any channel.
AvailableSlots(grid, last) == last + 1 - Cardinality({ e.slot : e \in grid })

Finish ==
  /\ status = "placing" /\ at[1] > Len(flows)
  /\ \E last \in LastSlot :
       /\ length' = last + 1
       /\ placed' = Turned(last)
       /\ matrix' = AvailableRows(placed', last)
       /\ status' = IF input.nodes * 2 - 1 > AvailableSlots(placed', last)
                     THEN "failed" ELSE "scheduled"
  /\ UNCHANGED <<input, cycle, flows, at, index, floor>>

Next == NoPlace \/ Infeasible \/ PlaceCell \/ NextFlow \/ Finish

Spec == Init /\ [][Next]_vars

---------------------------------------------------------------------------
(* Properties.                                                             *)

\* No node takes part in two cells of a slot, no two cells share a slot and a
\* channel, and the channels of a slot are filled from 0 on, without which
\* find_schedulable_slot (scheduling.py:45) would return a free channel before it
\* has seen a conflict on the next.
ConflictFree ==
  \A e \in placed :
    /\ \A d \in placed \ {e} : d.slot = e.slot =>
         d.channel # e.channel /\ Participants(d) \cap Participants(e) = {}
    /\ 0..e.channel \subseteq Taken(e.slot)

\* A packet can cross its route within one period of the schedule: the cells of a
\* flow come one after the other, in the order of the route, also for R_LPF, which
\* places them backwards and never moves insert_at_index past a placed cell
\* (scheduling.py:113): only the nodes that cells in a row share keep them apart.
RouteInOrder ==
  \A d, e \in placed : d.flow = e.flow /\ d.cell < e.cell =>
    IF matrix = << >> /\ input.algorithm = "R_LPF" THEN e.slot < d.slot
    ELSE d.slot < e.slot

\* A schedule that is issued has every cell of every flow, once, unless deadlines
\* were not checked: then the cut to the cycle (scheduling.py:255) may drop cells.
NothingDropped ==
  /\ \A d, e \in placed : d.flow = e.flow /\ d.cell = e.cell => d = e
  /\ status = "scheduled" /\ ChecksDeadlines /\ input.ignoreNSF = "infeasible" =>
       \A f \in 1..Len(flows) : \A c \in 1..Len(flows[f].cells) :
         \E e \in placed : e.flow = f /\ e.cell = c

\* The slots handed out for discovery are used by nothing else: no cell is on
\* channel 0 there, none is given twice or is slot 0, which beacons use, and every
\* node has both when the schedule leaves two slots per node besides slot 0.
AvailableAreFree ==
  status = "scheduled" =>
    /\ \A n \in 1..input.nodes : \A i \in DOMAIN matrix[n] :
         /\ matrix[n][i] \in 1..(length - 1)
         /\ 0 \notin Taken(matrix[n][i])
         /\ \A m \in 1..input.nodes : \A j \in DOMAIN matrix[m] :
              matrix[m][j] = matrix[n][i] => <<m, j>> = <<n, i>>
    /\ AvailableSlots(placed, length - 1) > 2 * input.nodes =>
         \A n \in 1..input.nodes : Len(matrix[n]) = 2
=============================================================================
