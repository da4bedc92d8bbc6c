--------------------------- MODULE McfRefinement ---------------------------
(* The successive shortest path solver: simple_mcf and mcf_refinement of   *)
(* src/mcf/mcf/algorithm.c, with the search dijkstra_nearest_sink          *)
(* (module Dijkstra) step by step inside it.                               *)
(*                                                                         *)
(* A call saturates the arcs of negative reduced cost, then takes the      *)
(* nodes in order and sends the excess of each to its nearest sink until   *)
(* none is left, adjusting the potentials after every path.  pc is the     *)
(* place in mcf_refinement:                                                *)
(*   idle     no call runs                                                 *)
(*   enforce  the loop over the arcs that enforces complementary slackness *)
(*   scan     the loop over the nodes, at the test of excess[src] > 0      *)
(*   search   inside dijkstra_nearest_sink                                 *)
(*   measure  inside get_augmenting_flow                                   *)
(*   commit   before augment_flow                                          *)
EXTENDS Dijkstra

CONSTANTS Graphs, Capacities, Costs, Potentials, Supplies, Amounts, MaxCalls

ASSUME NetworksAssumption ==
  /\ Graphs \subseteq [from : [ProblemArc -> Node], to : [ProblemArc -> Node]]
  /\ Capacities \subseteq [Arc -> Nat]
  /\ \A u \in Capacities : \A a \in Arc : u[a] + u[arc_dual(a)] < INFINITE
  /\ Costs \subseteq [ProblemArc -> Int]
  /\ Potentials \subseteq [Node -> Int]
  /\ Supplies \subseteq [Node -> Int]
  /\ Amounts \subseteq Nat \ {0}
  /\ MaxCalls \in Nat

(* mcf_refinement searches with threshold 1.                               *)
ASSUME ThresholdAssumption == cap_threshold = 1

VARIABLES
  excess,             \* of every node
  pc,
  arc_id, node_id,    \* the counters of the two loops
  walk, path, flow,   \* get_augmenting_flow: node, arcs so far, least capacity
  solved,             \* answer of the last call
  calls               \* number of calls

solverVars == <<excess, pc, arc_id, node_id, walk, path, flow, solved, calls>>
vars == <<networkVars, searchVars, solverVars>>

TypeOK ==
  /\ NetworkTypeOK /\ DijkstraTypeOK
  /\ excess \in [Node -> Int]
  /\ pc \in {"idle", "enforce", "scan", "search", "measure", "commit"}
  /\ arc_id \in 0 .. 2 * num_arcs /\ node_id \in 0 .. max_num_nodes
  /\ walk \in Node /\ path \subseteq Arc /\ flow \in 1 .. INFINITE
  /\ solved \in BOOLEAN /\ calls \in 0 .. MaxCalls
-----------------------------------------------------------------------------
Init ==
  /\ graph \in Graphs /\ capacity \in Capacities
  /\ cost = [arc \in Arc |-> 0] /\ potential = [n \in Node |-> 0]
  /\ NoSearch
  /\ excess = [n \in Node |-> 0]
  /\ pc = "idle" /\ arc_id = 0 /\ node_id = 0
  /\ walk = 0 /\ path = {} /\ flow = INFINITE
  /\ solved = FALSE /\ calls = 0

total_excess(e) == MapThenSumSet(LAMBDA n : e[n], Node)

Return(answer) == pc' = "idle" /\ solved' = answer

(* The entry of mcf_refinement: supply that does not match demand is       *)
(* refused at once.                                                        *)
mcf_refinement(e, c, p) ==
  /\ pc = "idle" /\ calls < MaxCalls
  /\ calls' = calls + 1
  /\ excess' = e /\ potential' = p /\ cost' = antisymmetric(c)
  /\ IF total_excess(e) # 0
     THEN Return(FALSE) /\ UNCHANGED arc_id
     ELSE pc' = "enforce" /\ solved' = FALSE /\ arc_id' = 0
  /\ UNCHANGED <<graph, capacity, searchVars, node_id, walk, path, flow>>

(* Called by the user, with any excess and any potentials.                 *)
FirstCall ==
  /\ calls = 0
  /\ \E e \in Supplies, c \in Costs, p \in Potentials : mcf_refinement(e, c, p)

(* Called by solve_fcnfp, again and again after a success: the costs are   *)
(* others, the flow, its excess and the potentials are those of before.    *)
NextCall ==
  /\ calls > 0 /\ solved
  /\ \E c \in Costs : mcf_refinement(excess, c, potential)

(* simple_mcf.  The excess of the source is assigned first: when source    *)
(* and destination are the same node only the demand is left.              *)
simple_mcf(s, d, amount) ==
  /\ calls = 0
  /\ \E c \in Costs :
       mcf_refinement([n \in Node |-> IF n = d THEN - amount
                                      ELSE IF n = s THEN amount ELSE 0],
                      c, [n \in Node |-> 0])

sendflow(arc, x) ==
  /\ capacity' = [capacity EXCEPT ![arc] = @ - x, ![arc_dual(arc)] = @ + x]
  /\ excess' = [excess EXCEPT ![arc_tail(arc)] = @ - x,
                              ![arc_head(arc)] = @ + x]

(* Mutant of EnforceSlackness: dual arcs are left out, so that flow of an  *)
(* earlier call stays where it is too expensive now.                       *)
enforce_forward_only ==
  /\ pc = "enforce" /\ arc_id \in Arc
  /\ arc_id' = arc_id + 1
  /\ IF /\ reduced_cost(arc_id) < 0 /\ capacity[arc_id] > 0
        /\ ~ arc_is_dual(arc_id)
     THEN sendflow(arc_id, capacity[arc_id])
     ELSE UNCHANGED <<capacity, excess>>
  /\ UNCHANGED <<graph, cost, potential, searchVars, pc, node_id, walk, path,
                 flow, solved, calls>>

(* One round of the loop over the arcs: an arc of negative reduced cost is *)
(* saturated, which moves excess from its tail to its head.                *)
EnforceSlackness ==
  /\ pc = "enforce" /\ arc_id \in Arc
  /\ arc_id' = arc_id + 1
  /\ IF reduced_cost(arc_id) < 0 /\ capacity[arc_id] > 0
     THEN sendflow(arc_id, capacity[arc_id])
     ELSE UNCHANGED <<capacity, excess>>
  /\ UNCHANGED <<graph, cost, potential, searchVars, pc, node_id, walk, path,
                 flow, solved, calls>>

SlacknessEnforced ==
  /\ pc = "enforce" /\ arc_id = 2 * num_arcs
  /\ pc' = "scan" /\ node_id' = 0
  /\ UNCHANGED <<networkVars, searchVars, excess, arc_id, walk, path, flow,
                 solved, calls>>

IsSink(n) == excess[n] < 0

(* The loop over the nodes: a node that is no source is passed.            *)
NextNode ==
  /\ pc = "scan" /\ node_id \in Node
  /\ ~ (excess[node_id] > 0)
  /\ node_id' = node_id + 1
  /\ UNCHANGED <<networkVars, searchVars, excess, pc, arc_id, walk, path, flow,
                 solved, calls>>

(* A source looks for its nearest sink.  dijkstra_nearest_sink gives up at *)
(* once if the network has a negative arc, and that ends the call.         *)
FindSink ==
  /\ pc = "scan" /\ node_id \in Node
  /\ excess[node_id] > 0
  /\ IF NegativeArc
     THEN GiveUp /\ Return(FALSE)
     ELSE /\ StartNearestSink(node_id, {n \in Node : IsSink(n)})
          /\ pc' = "search" /\ UNCHANGED solved
  /\ UNCHANGED <<networkVars, excess, arc_id, node_id, walk, path, flow, calls>>

AllNodesDone ==
  /\ pc = "scan" /\ node_id = max_num_nodes
  /\ Return(TRUE)
  /\ UNCHANGED <<networkVars, searchVars, excess, arc_id, node_id, walk, path,
                 flow, calls>>

Search ==
  /\ pc = "search" /\ SearchStep
  /\ UNCHANGED <<networkVars, solverVars>>

(* The search is over: no sink can be reached, or get_augmenting_flow      *)
(* starts to walk back from the one that was found.                        *)
SearchFailed ==
  /\ pc = "search" /\ ~ searching
  /\ target = NO_NODE
  /\ Return(FALSE)
  /\ UNCHANGED <<networkVars, searchVars, excess, arc_id, node_id, walk, path,
                 flow, calls>>

SearchSucceeded ==
  /\ pc = "search" /\ ~ searching
  /\ target # NO_NODE
  /\ pc' = "measure" /\ walk' = target /\ path' = {} /\ flow' = INFINITE
  /\ UNCHANGED <<networkVars, searchVars, excess, arc_id, node_id, solved,
                 calls>>

(* get_augmenting_flow: one arc of the path, against its direction.  The   *)
(* code also stops after max_num_nodes arcs; a walk that met a node twice  *)
(* would not arrive here, and EveryCallReturns shows that it does.         *)
Measure ==
  /\ pc = "measure" /\ walk # source
  /\ flow' = MIN(flow, capacity[prev[walk]])
  /\ path' = path \union {prev[walk]}
  /\ walk' = arc_tail(prev[walk])
  /\ UNCHANGED <<networkVars, searchVars, excess, pc, arc_id, node_id, solved,
                 calls>>

Measured ==
  /\ pc = "measure" /\ walk = source
  /\ pc' = "commit"
  /\ UNCHANGED <<networkVars, searchVars, excess, arc_id, node_id, walk, path,
                 flow, solved, calls>>

(* Mutants of delta: the capacity of the path, or the demand of the sink,  *)
(* is forgotten.                                                           *)
delta_without_capacity == MIN(- excess[target], excess[source])
delta_without_demand == MIN(excess[source], flow)

(* What can be sent: no more than the source has, the sink lacks, or the   *)
(* path carries.                                                           *)
delta == MIN(- excess[target], MIN(excess[source], flow))

(* augment_flow: sendflow on every arc of the path.                        *)
augment_flow(x) ==
  /\ capacity' = [a \in Arc |->
       capacity[a] - (IF a \in path THEN x ELSE 0)
                   + (IF arc_dual(a) \in path THEN x ELSE 0)]
  /\ excess' = [n \in Node |->
       excess[n] - x * Cardinality({a \in path : arc_tail(a) = n})
                 + x * Cardinality({a \in path : arc_head(a) = n})]

(* Mutant of new_potential: by the whole distance.                         *)
new_potential_uncapped == [n \in Node |-> potential[n] - value[n]]

(* The capped distances are subtracted from the potentials.                *)
new_potential == [n \in Node |-> potential[n] - MIN(value[target], value[n])]

(* The flow is committed and the potentials follow the distances; then the *)
(* same node is tested again.                                              *)
Commit ==
  /\ pc = "commit"
  /\ augment_flow(delta)
  /\ potential' = new_potential
  /\ pc' = "scan"
  /\ UNCHANGED <<graph, cost, searchVars, arc_id, node_id, walk, path, flow,
                 solved, calls>>

Running ==
  \/ EnforceSlackness \/ SlacknessEnforced
  \/ NextNode \/ FindSink \/ AllNodesDone
  \/ Search \/ SearchFailed \/ SearchSucceeded
  \/ Measure \/ Measured \/ Commit

Next ==
  \/ FirstCall \/ NextCall
  \/ \E s, d \in Node, amount \in Amounts : simple_mcf(s, d, amount)
  \/ Running

Spec == Init /\ [][Next]_vars /\ WF_vars(Running)
-----------------------------------------------------------------------------
Routing == pc \in {"scan", "search", "measure", "commit"}

(* "cost_reduced[i,j] < 0 then capacity[i,j] = 0": complementary slackness *)
(* holds for the arcs that the first loop has passed, through the whole    *)
(* second loop, and proves the answer optimal when the call has returned.  *)
(* It is also why dijkstra_nearest_sink never gives up.                    *)
ComplementarySlackness ==
  \A a \in Arc :
    (/\ capacity[a] > 0
     /\ Routing \/ (pc = "enforce" /\ a < arc_id) \/ (pc = "idle" /\ solved))
      => reduced_cost(a) >= 0

(* The assertions before and after augment_flow: the amount to send is     *)
(* positive and finite, and every arc of the path carries it.              *)
AugmentationFits ==
  pc = "commit" =>
    /\ delta > 0 /\ flow < INFINITE
    /\ \A a \in path : delta <= capacity[a]

(* While paths are augmented no excess grows and none changes sign: a node *)
(* that the loop has passed never becomes a source again.  The potentials  *)
(* only fall, no more than that of the sink that was found, which ends     *)
(* below that of the source by at most the cost of a path: the caps on the *)
(* distances keep one search from moving them further.                     *)
RoutingMonotone ==
  [][Routing =>
       LET fall(n) == potential[n] - potential'[n]
       IN  /\ \A n \in Node :
                \/ 0 <= excess'[n] /\ excess'[n] <= excess[n]
                \/ excess[n] <= excess'[n] /\ excess'[n] <= 0
           /\ potential' # potential =>
                /\ fall(node_id) = 0
                /\ \A n \in Node : fall(n) \in 0 .. fall(target)
                /\ potential[node_id] - potential'[target]
                     <= (max_num_nodes - 1) * Max({cost[a] : a \in Arc})]_vars

(* mcf_refinement solves the minimum cost flow problem: flow is conserved  *)
(* in every step, true is answered with an optimal flow that meets all     *)
(* demands, false only if no flow meets them, and every call returns.      *)
Abstract == INSTANCE MinCostFlow WITH
  status <- IF pc # "idle" THEN "working"
            ELSE IF calls = 0 THEN "idle"
            ELSE IF solved THEN "solved" ELSE "failed"

Implements == Abstract!Init /\ [][Abstract!Next]_(Abstract!vars)

EveryCallReturns == Abstract!EveryCallReturns
=============================================================================
