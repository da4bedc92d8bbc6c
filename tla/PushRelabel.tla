---------------------------- MODULE PushRelabel ----------------------------
(* goldberg_tarjan_feasible of src/mcf/mcf/algorithm.c: a flow that meets  *)
(* every supply and demand, whatever it costs, by the push/relabel method. *)
(*                                                                         *)
(* The array potential of struct goldberg_tarjan_network holds the labels  *)
(* of the nodes.  A node of positive excess is active: it waits in a queue *)
(* for gt_discharge, which pushes its excess to neighbours of lower label  *)
(* and raises its label when that is not enough.  A node is given up when  *)
(* its label reaches max_label.  pc is the place in the code:              *)
(*   idle       no call runs                                               *)
(*   enqueue    the loop that finds the sources                            *)
(*   main       the loop over the queue                                    *)
(*   discharge  the test of the outer loop of gt_discharge                 *)
(*   scan       its loop over the arcs that exit the node, in any order    *)
EXTENDS ResidualNetwork, Sequences

CONSTANTS Graphs, Capacities, Supplies,
          INFINITE            \* INT64_MAX, above every label

ASSUME NetworksAssumption ==
  /\ Graphs \subseteq [from : [ProblemArc -> Node], to : [ProblemArc -> Node]]
  /\ Capacities \subseteq [Arc -> Nat]
  /\ Supplies \subseteq [Node -> Int]

ASSUME InfiniteAssumption == INFINITE \in Nat /\ INFINITE > 2 * max_num_nodes

VARIABLES
  excess,       \* of every node
  pc,
  node_id,      \* counter of the loop over the nodes
  active,       \* the queue of nodes to discharge
  node,         \* the node that is discharged
  todo,         \* its arcs that the loop has still to visit
  min_label,    \* least label met in the loop
  result        \* "none" before the call has returned

solverVars == <<excess, pc, node_id, active, node, todo, min_label, result>>
vars == <<networkVars, solverVars>>

max_label == max_num_nodes

TypeOK ==
  /\ NetworkTypeOK
  /\ potential \in [Node -> Nat]
  /\ excess \in [Node -> Int]
  /\ pc \in {"idle", "enqueue", "main", "discharge", "scan"}
  /\ node_id \in 0 .. max_num_nodes
  /\ active \in Seq(Node) /\ node \in Node /\ todo \subseteq Arc
  /\ min_label \in 0 .. INFINITE
  /\ result \in {"none", "feasible", "infeasible"}
-----------------------------------------------------------------------------
Init ==
  /\ graph \in Graphs /\ capacity \in Capacities
  /\ cost = [arc \in Arc |-> 0] /\ potential = [n \in Node |-> 0]
  /\ excess = [n \in Node |-> 0]
  /\ pc = "idle" /\ node_id = 0
  /\ active = << >> /\ node = 0 /\ todo = {} /\ min_label = INFINITE
  /\ result = "none"

goldberg_tarjan_feasible(supply) ==
  /\ pc = "idle" /\ result = "none"
  /\ excess' = supply
  /\ potential' = [n \in Node |-> 0]
  /\ active' = << >>
  /\ pc' = "enqueue" /\ node_id' = 0
  /\ UNCHANGED <<graph, capacity, cost, node, todo, min_label, result>>

(* One round of the loop over the nodes: a source gets label 1.            *)
Enqueue ==
  /\ pc = "enqueue" /\ node_id \in Node
  /\ node_id' = node_id + 1
  /\ IF excess[node_id] > 0
     THEN /\ potential' = [potential EXCEPT ![node_id] = 1]
          /\ active' = Append(active, node_id)
     ELSE UNCHANGED <<potential, active>>
  /\ UNCHANGED <<graph, capacity, cost, excess, pc, node, todo, min_label,
                 result>>

AllEnqueued ==
  /\ pc = "enqueue" /\ node_id = max_num_nodes
  /\ pc' = "main"
  /\ UNCHANGED <<networkVars, excess, node_id, active, node, todo, min_label,
                 result>>

Pop ==
  /\ pc = "main" /\ active # << >>
  /\ node' = Head(active) /\ active' = Tail(active)
  /\ pc' = "discharge"
  /\ UNCHANGED <<networkVars, excess, node_id, todo, min_label, result>>

Discharging == potential[node] < max_label /\ excess[node] > 0

BeginScan ==
  /\ pc = "discharge" /\ Discharging
  /\ todo' = node_adjacency(node) /\ min_label' = INFINITE
  /\ pc' = "scan"
  /\ UNCHANGED <<networkVars, excess, node_id, active, node, result>>

Discharged ==
  /\ pc = "discharge" /\ ~ Discharging
  /\ pc' = "main"
  /\ UNCHANGED <<networkVars, excess, node_id, active, node, todo, min_label,
                 result>>

gt_push(arc, flow) ==
  /\ capacity' = [capacity EXCEPT ![arc] = @ - flow, ![arc_dual(arc)] = @ + flow]
  /\ excess' = [excess EXCEPT ![arc_tail(arc)] = @ - flow,
                              ![arc_head(arc)] = @ + flow]

(* Mutant of awakes: a sink that has more than it needs is forgotten.      *)
awakes_unless_sink(arc) ==
  /\ excess[arc_head(arc)] = 0 /\ potential[arc_head(arc)] < max_label

(* What is pushed along an arc, and whether the node at its head becomes   *)
(* active, given that its excess becomes positive.                         *)
amount(arc) == MIN(excess[node], capacity[arc])
awakes(arc) == excess[arc_head(arc)] <= 0 /\ potential[arc_head(arc)] < max_label

(* Mutant of label_met: the label of the last arc is kept, not the least.  *)
label_met_last(arc) == potential[arc_head(arc)]

label_met(arc) == MIN(min_label, potential[arc_head(arc)])

(* One round of the loop over the arcs: an arc that is not saturated is    *)
(* pushed, if it leads to a lower label, or its label is remembered.       *)
Scan(arc) ==
  LET next == arc_head(arc)
  IN  /\ pc = "scan" /\ arc \in todo /\ excess[node] > 0
      /\ todo' = todo \ {arc}
      /\ IF capacity[arc] > 0 /\ potential[node] > potential[next]
         THEN /\ gt_push(arc, amount(arc))
              /\ active' = IF excess'[next] > 0 /\ awakes(arc)
                           THEN Append(active, next) ELSE active
              /\ UNCHANGED min_label
         ELSE /\ min_label' = IF capacity[arc] > 0
                              THEN label_met(arc) ELSE min_label
              /\ UNCHANGED <<capacity, excess, active>>
      /\ UNCHANGED <<graph, cost, potential, pc, node_id, node, result>>

(* Mutant of new_label: the node is not raised above its neighbour.        *)
new_label_level ==
  IF min_label < INFINITE /\ min_label >= potential[node]
  THEN min_label ELSE potential[node] + 1

new_label ==
  IF min_label < INFINITE /\ min_label >= potential[node]
  THEN min_label + 1 ELSE potential[node] + 1

(* The loop over the arcs is over, and a node that still has excess is     *)
(* relabeled.                                                              *)
Relabel ==
  /\ pc = "scan" /\ (todo = {} \/ excess[node] <= 0)
  /\ potential' = IF excess[node] > 0
                  THEN [potential EXCEPT ![node] = new_label] ELSE potential
  /\ pc' = "discharge"
  /\ UNCHANGED <<graph, capacity, cost, excess, node_id, active, node, todo,
                 min_label, result>>

(* No active node is left: the supplies are met if no excess is.           *)
Return ==
  /\ pc = "main" /\ active = << >>
  /\ result' = IF \A n \in Node : excess[n] = 0 THEN "feasible" ELSE "infeasible"
  /\ pc' = "idle"
  /\ UNCHANGED <<networkVars, excess, node_id, active, node, todo, min_label>>

Running ==
  \/ Enqueue \/ AllEnqueued
  \/ Pop \/ BeginScan \/ Discharged
  \/ \E arc \in todo : Scan(arc)
  \/ Relabel \/ Return

Next ==
  \/ \E supply \in Supplies : goldberg_tarjan_feasible(supply)
  \/ Running

Spec == Init /\ [][Next]_vars /\ WF_vars(Running)
-----------------------------------------------------------------------------
(* What gt_discharge relies on when it raises a label: along an arc that   *)
(* is not saturated the label falls by at most one, and a sink keeps label *)
(* 0 for as long as it is one.                                             *)
LabelsValid ==
  /\ \A a \in Arc :
       capacity[a] > 0 => potential[arc_tail(a)] <= potential[arc_head(a)] + 1
  /\ \A n \in Node : excess[n] < 0 => potential[n] = 0

(* No arc that leaves S has capacity left: nothing gets out of S.          *)
Saturated(S) ==
  \A a \in Arc : arc_tail(a) \in S /\ arc_head(a) \notin S => capacity[a] = 0

(* "if a node reaches this label number, then it cannot possibly reach any *)
(* sink": it is in a set of nodes without a sink that nothing leaves.      *)
MaxLabelMeansCutOff ==
  \A n \in Node : potential[n] >= max_label =>
    \E S \in SUBSET Node :
      n \in S /\ Saturated(S) /\ \A m \in S : excess[m] >= 0

(* goldberg_tarjan_feasible finds a flow that meets all supplies and       *)
(* demands whenever there is one, without creating or losing any flow:     *)
(* it solves the minimum cost flow problem for costs 0.                    *)
Abstract == INSTANCE MinCostFlow WITH
  cost <- [arc \in Arc |-> 0],
  status <- IF pc # "idle" THEN "working"
            ELSE IF result = "none" THEN "idle"
            ELSE IF result = "feasible" THEN "solved" ELSE "failed"

Implements == Abstract!Init /\ [][Abstract!Next]_(Abstract!vars)

EveryCallReturns == Abstract!EveryCallReturns
=============================================================================
