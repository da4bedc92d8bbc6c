-------------------------- MODULE ResidualNetwork --------------------------
(* The residual network that every flow algorithm of                       *)
(* src/mcf/mcf/algorithm.c works on: the graph, seen through the           *)
(* operations of graph.h, and the arrays of capacities, costs and          *)
(* potentials that the caller hands over.                                  *)
(*                                                                         *)
(* The module Graph shows that a loop over the adjacency list of a node    *)
(* visits exactly the arcs whose tail is that node, and that arcs and      *)
(* duals come in pairs; here the arcs that exit a node are therefore a     *)
(* set.  Problem arcs are numbered from 0, the dual of arc i is arc        *)
(* i + num_arcs; the slots that hold no arc are left out.  Constants of    *)
(* the code keep their names, a flow is encoded as in the code: the flow   *)
(* on an arc is the residual capacity of its dual.                         *)
EXTENDS Integers, FiniteSets, FiniteSetsExt

CONSTANTS max_num_nodes,   \* number of nodes
          num_arcs         \* number of arcs of the problem, duals not counted

ASSUME SizesAssumption == max_num_nodes \in Nat \ {0} /\ num_arcs \in Nat

Node == 0 .. max_num_nodes - 1
ProblemArc == 0 .. num_arcs - 1
Arc == 0 .. 2 * num_arcs - 1

(* What an index outside of the arrays stands for: INVALID_INDEX.          *)
NO_NODE == max_num_nodes
NO_ARC == 2 * num_arcs

MIN(x, y) == IF x < y THEN x ELSE y

VARIABLES
  graph,       \* [from, to]: tail and head of every problem arc
  capacity,    \* residual capacity of every arc
  cost,        \* cost per unit of flow of every arc
  potential    \* of every node

networkVars == <<graph, capacity, cost, potential>>

arc_dual(arc) == IF arc < num_arcs THEN arc + num_arcs ELSE arc - num_arcs

arc_is_dual(arc) == arc >= num_arcs

arc_tail(arc) ==
  IF arc_is_dual(arc) THEN graph.to[arc_dual(arc)] ELSE graph.from[arc]

arc_head(arc) == arc_tail(arc_dual(arc))

node_adjacency(node) == {arc \in Arc : arc_tail(arc) = node}

reduced_cost(arc) ==
  cost[arc] - potential[arc_tail(arc)] + potential[arc_head(arc)]

(* The flow out of a node minus the flow into it, with the sign of the     *)
(* code: a dual arc that leaves the node carries the flow that enters it.  *)
node_balance(node) ==
  MapThenSumSet(LAMBDA arc : IF arc_is_dual(arc)
                             THEN capacity[arc]
                             ELSE - capacity[arc_dual(arc)],
                node_adjacency(node))

flow_cost ==
  MapThenSumSet(LAMBDA arc : capacity[arc_dual(arc)] * cost[arc], ProblemArc)

(* Costs as every caller prepares them: the cost of a dual arc is the      *)
(* opposite of the cost of the arc.                                        *)
antisymmetric(c) ==
  [arc \in Arc |-> IF arc_is_dual(arc) THEN - c[arc_dual(arc)] ELSE c[arc]]

(* Capacities of a network that carries no flow.                           *)
unused(u) == [arc \in Arc |-> IF arc_is_dual(arc) THEN 0 ELSE u[arc]]

NetworkTypeOK ==
  /\ graph \in [from : [ProblemArc -> Node], to : [ProblemArc -> Node]]
  /\ capacity \in [Arc -> Nat]
  /\ cost \in [Arc -> Int]
  /\ \A arc \in Arc : cost[arc_dual(arc)] = - cost[arc]
  /\ potential \in [Node -> Int]
=============================================================================
