----------------------------- MODULE MCScheduler -----------------------------
(***************************************************************************)
(* Requests of two communications for TLC, and the request behind the      *)
(* schedule shipped with the repository.                                   *)
(***************************************************************************)
EXTENDS Scheduler

Routes == { <<4, 3, 2>>, <<3, 2>>, <<1, 2, 3>>, <<2, 1>> }

Pairs(S) == { <<c, d>> : c, d \in S }

Timed(S) == { c \in S : c.release = 6 => c.period = 8 }

Windows(sizes, deadlines) ==
  Timed([ path : Routes, window : sizes, period : {4, 8}, release : {0, 6}, deadline : deadlines ])

\* The first hop of a route takes two tries, the second one or three.
Links ==
  Timed(UNION { [ path : {r}, etx : { SubSeq(e, 1, Len(r) - 1) : e \in {<<2, 1>>, <<2, 3>>} },
                  period : {4, 8}, release : {0, 6}, deadline : {6} ] : r \in Routes })

Small(communications, strategy, algorithms) ==
  [ communications : communications, strategy : {strategy}, algorithm : algorithms,
    channels : {1, 2}, ignoreNSF : {"infeasible", "disabled"}, nodes : {2} ]

Sliding(sizes, algorithms, deadlines) ==
  Small(UNION { Pairs(Windows({w}, deadlines)) : w \in sizes }, "sliding_window", algorithms)

\* Every slot its own cycle: more cells than the grid has timeslots.
Crowded ==
  [ communications : Pairs([ path : {<<2, 1>>, <<3, 2>>}, etx : {<<1>>, <<3>>}, period : {1},
                             release : {0}, deadline : {6} ]),
    strategy : {"per_link"}, algorithm : {"R_LPF", "EDF"}, channels : {1},
    ignoreNSF : {"infeasible", "disabled"}, nodes : {2} ]

\* Routes 5-3-2 and 4-3 with windows of four and three slots, one period of 40.
ShippedRequest ==
  [ communications |->
      << [path |-> <<5, 3, 2>>, window |-> 4, period |-> 40, release |-> 0, deadline |-> NoDeadline],
         [path |-> <<4, 3>>,    window |-> 3, period |-> 40, release |-> 0, deadline |-> NoDeadline] >>,
    strategy |-> "sliding_window", algorithm |-> "R_LPF", channels |-> 1,
    ignoreNSF |-> "infeasible", nodes |-> 5 ]

Requests ==
  Sliding({2, 3}, {"R_LPF"}, {NoDeadline})
  \cup Sliding({2, 3}, {"EDF"}, {4, 6})
  \cup Sliding({3}, {"R_LPF", "RMS"}, {6})
  \cup Small(Pairs(Links), "per_link", {"R_LPF", "EDF"})
  \cup Crowded \cup {ShippedRequest}

\* From that request the scheduler makes the schedule of Schedules/
\* loglistener_21.03.2021.c, which module MCTschSchedule takes as given: the cells
\* of both flows with who takes part in them, and the slots left for discovery.
ShippedScheduleIsGenerated ==
  input = ShippedRequest /\ status = "scheduled" =>
    /\ { <<flows[e.flow].number, e.slot, flows[e.flow].cells[e.cell]>> : e \in placed } =
         { <<1, 36, {5, 3}>>, <<1, 37, {5, 3, 2}>>, <<1, 38, {5, 3, 2}>>, <<1, 39, {3, 2}>>,
           <<2, 34, {4, 3}>>, <<2, 35, {4, 3}>> }
    /\ matrix = [n \in 1..5 |-> <<n, 34 - n>>]
=============================================================================
