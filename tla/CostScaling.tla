---------------------------- MODULE CostScaling ----------------------------
(* goldberg_tarjan_mcf of src/mcf/mcf/algorithm.c: the minimum cost flow   *)
(* by cost scaling, with the heuristics that the code switches on: price   *)
(* updates (gt_set_relabel), a queue of active nodes, division of epsilon  *)
(* by 8, relabeling to the maximum extent and lookahead.                   *)
(*                                                                         *)
(* A call first finds any feasible flow, with goldberg_tarjan_feasible:    *)
(* module PushRelabel shows what that call does, and here it is one step.  *)
(* Then gt_refine turns the flow into one that is epsilon-optimal, for     *)
(* smaller and smaller epsilon.  pc is the place in the code:              *)
(*   idle       no call runs                                               *)
(*   feasible   inside goldberg_tarjan_feasible                            *)
(*   fail       the end of the call if there is no such flow               *)
(*   scale      the loop of goldberg_tarjan_circulation over epsilon       *)
(*   saturate   gt_refine: the loop over the arcs of negative cost         *)
(*   enqueue    gt_refine: the loop over the nodes                         *)
(*   main       gt_refine: the loop over the queue of active nodes         *)
(*   flood      gt_set_relabel: the loop over its priority queue           *)
(*   raise      gt_set_relabel: the loop over the nodes at its end         *)
(*   discharge  gt_mcf_discharge: the test of excess                       *)
(*   scan       gt_mcf_discharge: the loop over the arcs that exit a node  *)
EXTENDS ResidualNetwork, Sequences

CONSTANTS Graphs, Capacities, Costs, Supplies,
          Orders,     \* the order of the arcs in the lists of the nodes
          INFINITE    \* INT64_MAX

ASSUME NetworksAssumption ==
  /\ Graphs \subseteq [from : [ProblemArc -> Node], to : [ProblemArc -> Node]]
  /\ Capacities \subseteq [Arc -> Nat]
  /\ Costs \subseteq [ProblemArc -> Int]
  /\ Supplies \subseteq [Node -> Int]
  /\ Orders \subseteq [Arc -> Nat]
  /\ \A o \in Orders : \A a, b \in Arc : o[a] = o[b] => a = b

ASSUME InfiniteAssumption == INFINITE \in Nat

VARIABLES
  order,            \* place of every arc in the list of its tail
  excess,
  pc,
  epsilon,
  arc_id, node_id,  \* counters of the loops of gt_refine over arcs and nodes
  current_arc,      \* of every node: where its next scan begins
  active,           \* the queue of active nodes
  num_relabels,     \* since the last price update, up to max_num_nodes
  node, arc,        \* the node and the arc that the innermost loop is at
  pending, distance, maximum_distance, set_excess,   \* gt_set_relabel
  result            \* "none" before the call has returned

problem == <<graph, cost, order>>
flows == <<capacity, excess>>
loops == <<epsilon, arc_id, node_id>>
queue == <<active, num_relabels>>
cursor == <<node, arc>>
flood == <<pending, distance, maximum_distance, set_excess>>
vars == <<problem, flows, potential, current_arc, pc, loops, queue, cursor,
          flood, result>>

GOLDBERG_PRICE_REFINEMENT == 8

(* Mutant of scale_factor: the costs are not scaled.                       *)
scale_factor_none == 1
scale_factor == max_num_nodes

(* The cost of struct goldberg_tarjan_network, scaled such that            *)
(* 1-optimal is optimal, and its reduced costs.                            *)
gt_cost(a) == cost[a] * scale_factor

gt_reduced_cost(a) ==
  gt_cost(a) + potential[arc_head(a)] - potential[arc_tail(a)]

residual(a) == capacity[a] > 0
admissible(a) == residual(a) /\ gt_reduced_cost(a) < 0

(* The list of a node: its arcs, in the order of their places.             *)
first(S) ==
  IF S = {} THEN NO_ARC ELSE CHOOSE a \in S : \A b \in S : order[a] <= order[b]

node_adjacency_begin(n) == first(node_adjacency(n))

node_adjacency_next(a) ==
  first({b \in node_adjacency(arc_tail(a)) : order[b] > order[a]})

(* The arcs of n that a loop from arc a on visits.                         *)
arcs_from(n, a) ==
  {b \in node_adjacency(n) : a # NO_ARC /\ order[b] >= order[a]}

TypeOK ==
  /\ NetworkTypeOK
  /\ order \in Orders
  /\ excess \in [Node -> Int]
  /\ pc \in {"idle", "feasible", "fail", "scale", "saturate", "enqueue", "main",
             "flood", "raise", "discharge", "scan"}
  /\ epsilon \in Nat
  /\ arc_id \in 0 .. 2 * num_arcs /\ node_id \in 0 .. max_num_nodes
  /\ current_arc \in [Node -> Arc \union {NO_ARC}]
  /\ \A n \in Node : current_arc[n] \in node_adjacency(n) \union {NO_ARC}
  /\ active \in Seq(Node) /\ num_relabels \in 0 .. max_num_nodes
  /\ node \in Node /\ arc \in Arc \union {NO_ARC}
  /\ pending \subseteq Node /\ distance \in [Node -> Nat]
  /\ maximum_distance \in Nat /\ set_excess \in Int
  /\ result \in {"none", "solved", "failed"}
-----------------------------------------------------------------------------
Init ==
  /\ graph \in Graphs /\ capacity \in Capacities /\ order \in Orders
  /\ cost = [a \in Arc |-> 0] /\ potential = [n \in Node |-> 0]
  /\ excess = [n \in Node |-> 0]
  /\ pc = "idle" /\ epsilon = 0 /\ arc_id = 0 /\ node_id = 0
  /\ current_arc = [n \in Node |-> NO_ARC]
  /\ active = << >> /\ num_relabels = 0 /\ node = 0 /\ arc = NO_ARC
  /\ pending = {} /\ distance = [n \in Node |-> INFINITE]
  /\ maximum_distance = 0 /\ set_excess = 0
  /\ result = "none"

goldberg_tarjan_mcf(supply, c) ==
  /\ pc = "idle" /\ result = "none"
  /\ excess' = supply /\ cost' = antisymmetric(c)
  /\ pc' = "feasible"
  /\ UNCHANGED <<graph, order, capacity, potential, current_arc, loops, queue,
                 cursor, flood, result>>

(* The specification of the solvers, at the level of this module.          *)
Abstract == INSTANCE MinCostFlow WITH
  status <- IF pc # "idle" THEN "working"
            ELSE IF result = "none" THEN "idle" ELSE result

(* goldberg_tarjan_feasible: a flow that meets all supplies and demands if *)
(* there is one, any flow and the end of the call if there is none.  The   *)
(* first epsilon is the greatest cost.                                     *)
goldberg_tarjan_feasible ==
  LET met == Abstract!FeasibleFlows # {}
  IN  /\ pc = "feasible"
      /\ \E f \in IF met THEN Abstract!FeasibleFlows ELSE Abstract!Flows :
           /\ capacity' = [a \in Arc |-> IF arc_is_dual(a) THEN f[arc_dual(a)]
                                         ELSE Abstract!total(a) - f[a]]
           /\ excess' = [n \in Node |-> Abstract!Excess(f, n)]
      /\ IF met
         THEN /\ pc' = "scale"
              /\ epsilon' = scale_factor * Max({0} \union {cost[a] : a \in Arc})
         ELSE pc' = "fail" /\ UNCHANGED epsilon
      /\ potential' = [n \in Node |-> 0]
      /\ UNCHANGED <<problem, current_arc, arc_id, node_id, queue, cursor, flood,
                     result>>

Fail ==
  /\ pc = "fail"
  /\ pc' = "idle" /\ result' = "failed"
  /\ UNCHANGED <<problem, flows, potential, current_arc, loops, queue, cursor,
                 flood>>
-----------------------------------------------------------------------------
(* One round of goldberg_tarjan_circulation, up to the loops of gt_refine. *)
Refine ==
  /\ pc = "scale" /\ epsilon > 1
  /\ epsilon' = Max({1, epsilon \div GOLDBERG_PRICE_REFINEMENT})
  /\ current_arc' = [n \in Node |-> node_adjacency_begin(n)]
  /\ pc' = "saturate" /\ arc_id' = 0
  /\ UNCHANGED <<problem, flows, potential, node_id, queue, cursor, flood, result>>

Return ==
  /\ pc = "scale" /\ epsilon <= 1
  /\ pc' = "idle" /\ result' = "solved"
  /\ UNCHANGED <<problem, flows, potential, current_arc, loops, queue, cursor,
                 flood>>

gt_push(a, flow) ==
  /\ capacity' = [capacity EXCEPT ![a] = @ - flow, ![arc_dual(a)] = @ + flow]
  /\ excess' = [excess EXCEPT ![arc_tail(a)] = @ - flow,
                              ![arc_head(a)] = @ + flow]

(* Mutant of saturates: dual arcs are left out.                            *)
saturates_forward_only(a) == ~ arc_is_dual(a) /\ admissible(a)
saturates(a) == admissible(a)

(* One round of the loop over the arcs: admissible arcs are saturated.     *)
Saturate ==
  /\ pc = "saturate" /\ arc_id \in Arc
  /\ arc_id' = arc_id + 1
  /\ IF saturates(arc_id)
     THEN gt_push(arc_id, capacity[arc_id]) ELSE UNCHANGED flows
  /\ UNCHANGED <<problem, potential, current_arc, pc, epsilon, node_id, queue,
                 cursor, flood, result>>

Saturated ==
  /\ pc = "saturate" /\ arc_id = 2 * num_arcs
  /\ pc' = "enqueue" /\ node_id' = 0
  /\ UNCHANGED <<problem, flows, potential, current_arc, epsilon, arc_id, queue,
                 cursor, flood, result>>

(* One round of the loop over the nodes: active nodes enter the queue.     *)
Enqueue ==
  /\ pc = "enqueue" /\ node_id \in Node
  /\ node_id' = node_id + 1
  /\ active' = IF excess[node_id] > 0 THEN Append(active, node_id) ELSE active
  /\ UNCHANGED <<problem, flows, potential, current_arc, pc, epsilon, arc_id,
                 num_relabels, cursor, flood, result>>

Enqueued ==
  /\ pc = "enqueue" /\ node_id = max_num_nodes
  /\ pc' = "main" /\ num_relabels' = 0
  /\ UNCHANGED <<problem, flows, potential, current_arc, loops, active, cursor,
                 flood, result>>

(* The loop over the queue: a node is discharged, unless there have been   *)
(* so many relabelings that the prices are to be updated first.            *)
Pop ==
  /\ pc = "main" /\ active # << >> /\ num_relabels < max_num_nodes
  /\ node' = Head(active) /\ active' = Tail(active)
  /\ pc' = "discharge"
  /\ UNCHANGED <<problem, flows, potential, current_arc, loops, num_relabels, arc,
                 flood, result>>

Refined ==
  /\ pc = "main" /\ active = << >>
  /\ pc' = "scale"
  /\ UNCHANGED <<problem, flows, potential, current_arc, loops, queue, cursor,
                 flood, result>>
-----------------------------------------------------------------------------
(* gt_set_relabel: a flood starts at the sinks.                            *)
UpdatePrices ==
  /\ pc = "main" /\ active # << >> /\ num_relabels >= max_num_nodes
  /\ num_relabels' = 0
  /\ pc' = "flood" /\ arc' = NO_ARC
  /\ LET sinks == {n \in Node : excess[n] < 0}
     IN  /\ pending' = sinks
         /\ distance' = [n \in Node |-> IF n \in sinks THEN 0 ELSE INFINITE]
         /\ set_excess' = MapThenSumSet(LAMBDA n : excess[n], sinks)
  /\ maximum_distance' = 0
  /\ UNCHANGED <<problem, flows, potential, current_arc, loops, active, node,
                 result>>

(* The excess of a node that the flood reaches; that of the sinks is in    *)
(* the sum since it started.                                               *)
counted(n) == IF excess[n] > 0 THEN excess[n] ELSE 0

(* It reaches the nearest of the nodes that are pending, and stops when it *)
(* has reached all active nodes.  The loop would also end with nothing     *)
(* pending; here the call would then get stuck, and EveryCallReturns shows *)
(* that it never does.                                                     *)
FloodNode ==
  /\ pc = "flood" /\ arc = NO_ARC
  /\ \E n \in pending :
       /\ \A m \in pending : distance[n] <= distance[m]
       /\ pending' = pending \ {n} /\ node' = n
       /\ set_excess' = set_excess + counted(n)
       /\ maximum_distance' = distance[n]
       /\ IF set_excess' = 0
          THEN pc' = "raise" /\ UNCHANGED arc
          ELSE arc' = node_adjacency_begin(n) /\ UNCHANGED pc
  /\ UNCHANGED <<problem, flows, potential, current_arc, loops, queue, distance,
                 result>>

(* Mutant of levels: rounded down.                                         *)
levels_short(a) ==
  IF gt_reduced_cost(a) < 0 THEN 0 ELSE gt_reduced_cost(a) \div epsilon

(* By how many epsilon the tail of a has to rise more than its head for    *)
(* the arc to become admissible.                                           *)
levels(a) ==
  IF gt_reduced_cost(a) < 0 THEN 0 ELSE 1 + gt_reduced_cost(a) \div epsilon

(* One arc into the node that was reached: the dual of one out of it.      *)
FloodArc ==
  /\ pc = "flood" /\ arc # NO_ARC
  /\ arc' = node_adjacency_next(arc)
  /\ LET next == arc_head(arc)
         d == distance[node] + levels(arc_dual(arc))
     IN  IF residual(arc_dual(arc)) /\ distance[next] > d
         THEN /\ distance' = [distance EXCEPT ![next] = d]
              /\ pending' = pending \union {next}
         ELSE UNCHANGED <<distance, pending>>
  /\ UNCHANGED <<problem, flows, potential, current_arc, pc, loops, queue, node,
                 maximum_distance, set_excess, result>>

(* Mutant of rise: nodes that the flood did not reach rise with the rest.  *)
rise_uncapped(n) == distance[n]
rise(n) == MIN(distance[n], maximum_distance)

(* The potentials rise by the distances.                                   *)
RaisePrices ==
  /\ pc = "raise"
  /\ potential' = [n \in Node |-> potential[n] + epsilon * rise(n)]
  /\ current_arc' = [n \in Node |-> IF rise(n) > 0 THEN node_adjacency_begin(n)
                                     ELSE current_arc[n]]
  /\ pc' = "main"
  /\ UNCHANGED <<problem, flows, loops, queue, cursor, flood, result>>
-----------------------------------------------------------------------------
(* What gt_mcf_relabel(n) makes of the potential and the current arc of a  *)
(* node: the potential rises by epsilon, or by as much as it can while     *)
(* staying epsilon-optimal.                                                *)
residual_arcs(n) == {a \in node_adjacency(n) : residual(a)}

raised(n) == potential[n] + epsilon

(* The cost of going through arc a, with the potential of n raised.        *)
through(n, a) ==
  gt_cost(a) + IF arc_head(a) = n THEN raised(n) ELSE potential[arc_head(a)]

lowered(n) == {a \in residual_arcs(n) : through(n, a) < raised(n)}

(* Mutant of relabeled_arc: the scan goes on where it ended.               *)
relabeled_arc_kept(n) == current_arc[n]

relabeled_arc(n) ==
  IF lowered(n) # {} THEN first(lowered(n))
  ELSE IF residual_arcs(n) # {} THEN first(residual_arcs(n))
  ELSE node_adjacency_begin(n)

(* Mutant of relabeled: by one epsilon more than epsilon-optimality allows.*)
relabeled_more(n) ==
  IF lowered(n) # {} \/ residual_arcs(n) = {} THEN raised(n) + epsilon
  ELSE Min({through(n, a) : a \in residual_arcs(n)}) + 2 * epsilon

(* Mutant of relabeled: the conservative rise is forgotten.                *)
relabeled_only_max(n) ==
  IF lowered(n) # {} \/ residual_arcs(n) = {} THEN potential[n]
  ELSE Min({through(n, a) : a \in residual_arcs(n)}) + epsilon

relabeled(n) ==
  IF lowered(n) # {} \/ residual_arcs(n) = {} THEN raised(n)
  ELSE Min({through(n, a) : a \in residual_arcs(n)}) + epsilon

(* gt_mcf_discharge: the loop over the arcs begins at the current arc.     *)
BeginScan ==
  /\ pc = "discharge" /\ excess[node] > 0
  /\ arc' = current_arc[node]
  /\ pc' = "scan"
  /\ UNCHANGED <<problem, flows, potential, current_arc, loops, queue, node, flood,
                 result>>

Discharged ==
  /\ pc = "discharge" /\ ~ (excess[node] > 0)
  /\ pc' = "main"
  /\ UNCHANGED <<problem, flows, potential, current_arc, loops, queue, cursor,
                 flood, result>>

(* The code only asks whether there were max_num_nodes relabelings, so the *)
(* count goes no further.                                                  *)
one_more_relabel == MIN(num_relabels + 1, max_num_nodes)

Scanning == pc = "scan" /\ arc # NO_ARC /\ excess[node] > 0

(* An arc that is saturated or does not lead down is passed.               *)
PassArc ==
  /\ Scanning /\ ~ admissible(arc)
  /\ arc' = node_adjacency_next(arc)
  /\ UNCHANGED <<problem, flows, potential, current_arc, pc, loops, queue, node,
                 flood, result>>

(* A node becomes active when it gets excess and had none.                 *)
awakes(a) == excess[arc_head(a)] <= 0

amount(a) == MIN(excess[node], capacity[a])

(* Flow is pushed along the arc; the loop stays at it if nothing is left.  *)
push_along ==
  /\ gt_push(arc, amount(arc))
  /\ active' = IF excess'[arc_head(arc)] > 0 /\ awakes(arc)
               THEN Append(active, arc_head(arc)) ELSE active
  /\ arc' = IF excess'[node] = 0 THEN arc ELSE node_adjacency_next(arc)

(* gt_has_admissible_arcs: the arcs of n from the current one on.          *)
admissible_from_current(n) ==
  {a \in arcs_from(n, current_arc[n]) : admissible(a)}

(* Lookahead: the head is a sink, or can pass on what it gets.             *)
Push ==
  /\ Scanning /\ admissible(arc)
  /\ LET next == arc_head(arc)
     IN  IF excess[next] >= 0
         THEN /\ admissible_from_current(next) # {}
              /\ current_arc' = [current_arc EXCEPT
                                   ![next] = first(admissible_from_current(next))]
         ELSE UNCHANGED current_arc
  /\ push_along
  /\ UNCHANGED <<problem, potential, pc, loops, num_relabels, node, flood, result>>

(* Lookahead: the head is stuck and is relabeled first, after which the    *)
(* arc may not lead down any more.                                         *)
RelabelHead ==
  /\ Scanning /\ admissible(arc)
  /\ LET next == arc_head(arc)
         rcost == gt_cost(arc) + relabeled(next) - potential[node]
     IN  /\ excess[next] >= 0 /\ admissible_from_current(next) = {}
         /\ potential' = [potential EXCEPT ![next] = relabeled(next)]
         /\ current_arc' = [current_arc EXCEPT ![next] = relabeled_arc(next)]
         /\ IF rcost < 0
            THEN push_along
            ELSE /\ arc' = node_adjacency_next(arc)
                 /\ UNCHANGED <<flows, active>>
  /\ num_relabels' = one_more_relabel
  /\ UNCHANGED <<problem, pc, loops, node, flood, result>>

(* The loop is over; a node that still has excess is relabeled.            *)
EndScan ==
  /\ pc = "scan" /\ ~ Scanning
  /\ IF excess[node] > 0
     THEN /\ potential' = [potential EXCEPT ![node] = relabeled(node)]
          /\ current_arc' = [current_arc EXCEPT ![node] = relabeled_arc(node)]
          /\ num_relabels' = one_more_relabel
     ELSE /\ current_arc' = [current_arc EXCEPT ![node] = arc]
          /\ UNCHANGED <<potential, num_relabels>>
  /\ pc' = "discharge"
  /\ UNCHANGED <<problem, flows, loops, active, cursor, flood, result>>
-----------------------------------------------------------------------------
Running ==
  \/ goldberg_tarjan_feasible \/ Fail
  \/ Refine \/ Return
  \/ Saturate \/ Saturated \/ Enqueue \/ Enqueued \/ Pop \/ Refined
  \/ UpdatePrices \/ FloodNode \/ FloodArc \/ RaisePrices
  \/ BeginScan \/ Discharged \/ PassArc \/ Push \/ RelabelHead \/ EndScan

Next ==
  \/ \E supply \in Supplies, c \in Costs : goldberg_tarjan_mcf(supply, c)
  \/ Running

Spec == Init /\ [][Next]_vars /\ WF_vars(Running)
-----------------------------------------------------------------------------
Refining == pc \in {"main", "flood", "raise", "discharge", "scan"}

(* gt_check_optimality, which the build leaves out: arcs of the residual   *)
(* network have reduced costs of at least - epsilon, through every relabel *)
(* and price update of gt_refine and when it returned.                     *)
EpsilonOptimal ==
  (Refining \/ pc = "scale") =>
    \A a \in Arc : residual(a) => gt_reduced_cost(a) >= - epsilon

(* The assertion at the head of gt_mcf_relabel, in every state: what lies  *)
(* before the current arc of a node, or before the arc that is scanned,    *)
(* cannot be pushed.                                                       *)
CurrentArcSkipsNothing ==
  Refining =>
    \A n \in Node :
      LET at == IF pc = "scan" /\ n = node THEN arc ELSE current_arc[n]
      IN  \A a \in node_adjacency(n) \ arcs_from(n, at) : ~ admissible(a)

(* There is no cycle of admissible arcs: every set of nodes has one from   *)
(* which no admissible arc leads to another of the set.  That makes the    *)
(* pushing end, and 1-optimal costs scaled by the number of nodes optimal. *)
AdmissibleAcyclic ==
  Refining =>
    \A S \in (SUBSET Node) \ {{}} : \E n \in S :
      \A a \in node_adjacency(n) : admissible(a) => arc_head(a) \notin S

(* gt_check_setlabel, left out too: after a price update every active node *)
(* has an admissible path to a sink; so every set of nodes without a sink  *)
(* and with an active node is left by an admissible arc.                   *)
PriceUpdateOpensPaths ==
  [][pc = "raise" =>
       \A S \in SUBSET Node :
         ((\E n \in S : excess[n] > 0) /\ (\A n \in S : excess[n] >= 0)) =>
           \E a \in Arc : /\ arc_tail(a) \in S /\ arc_head(a) \notin S
                          /\ admissible(a)']_vars

(* The first epsilon, which check_overflow keeps below INT64_MAX.          *)
first_epsilon == scale_factor * Max({0} \union {cost[a] : a \in Arc})

(* The number of refinements from epsilon e on.                            *)
refinements[e \in Nat] ==
  IF e <= 1 THEN 0
  ELSE 1 + refinements[Max({1, e \div GOLDBERG_PRICE_REFINEMENT})]

(* What one refinement may add to the highest price.  A node with excess   *)
(* rises by at most (max_num_nodes - 1) * 2 * first_epsilon; but a node    *)
(* without may be relabeled to first_epsilon above the highest, or rise    *)
(* with every price update, each of which brings another node with excess  *)
(* nearer to that limit.                                                   *)
refinement_rise == 2 * max_num_nodes * (max_num_nodes + 1) * first_epsilon

(* Prices never become negative, and grow no higher than a multiple of the *)
(* first epsilon that depends on the number of nodes and of refinements    *)
(* alone.  The sums of gt_reduced_cost fit in an s64 if that multiple      *)
(* does; the assertion of check_overflow asks for less.                    *)
PricesBounded ==
  \A n \in Node :
    /\ potential[n] >= 0
    /\ potential[n] <= refinements[first_epsilon] * refinement_rise

(* goldberg_tarjan_mcf solves the minimum cost flow problem, as simple_mcf *)
(* and mcf_refinement do, and returns.                                     *)
Implements == Abstract!Init /\ [][Abstract!Next]_(Abstract!vars)

EveryCallReturns == Abstract!EveryCallReturns

(* "Minimum-Cost Flow": no flow that meets the supplies and demands costs  *)
(* less than the one that is returned.  In a network of a single node the  *)
(* scaled costs are the costs, and a loop of cost -1 is 1-optimal.         *)
SolvedIsOptimal == result = "solved" => Abstract!Optimal
=============================================================================
