------------------------ MODULE McfRefinementProofs ------------------------
(* Theorems about mcf_refinement, for every network, every costs,          *)
(* potentials and supplies, and any number of calls: the residual          *)
(* capacities stay in range, the amounts that are sent fit, and            *)
(* complementary slackness, which proves the answer optimal, is kept by    *)
(* every step.                                                             *)
EXTENDS McfRefinement, ResidualNetworkProofs

(* What is proved about dijkstra_nearest_sink on its own.  The solver has  *)
(* the same search inside, so its lemmas hold of it; no call is counted.   *)
Path == INSTANCE ShortestPathProofs WITH returned <- FALSE, Sources <- Node

SearchOK == Path!SearchOK

LEMMA PathAssumptions ==
  Path!SizesAssumption /\ Path!InfiniteAssumption /\ Path!NetworksAssumption
BY SizesAssumption, InfiniteAssumption, NetworksAssumption
   DEF Path!SizesAssumption, Path!InfiniteAssumption, Path!NetworksAssumption,
       Path!ProblemArc, Path!Arc, Path!Node, Path!arc_dual,
       ProblemArc, Arc, Node, arc_dual

(* The instance speaks of the same network,                                *)
LEMMA PathNetwork ==
  /\ Path!Node = Node /\ Path!Arc = Arc /\ Path!ProblemArc = ProblemArc
  /\ Path!NO_ARC = NO_ARC /\ Path!NO_NODE = NO_NODE
  /\ Path!networkVars = networkVars
  /\ \A a : /\ Path!arc_dual(a) = arc_dual(a)
            /\ Path!arc_tail(a) = arc_tail(a) /\ Path!arc_head(a) = arc_head(a)
            /\ Path!reduced_cost(a) = reduced_cost(a)
            /\ Path!traversable(a) = traversable(a)
BY DEF Path!Node, Path!Arc, Path!ProblemArc, Path!NO_ARC, Path!NO_NODE,
       Path!networkVars, Path!arc_dual, Path!arc_is_dual, Path!arc_tail,
       Path!arc_head, Path!reduced_cost, Path!traversable,
       Node, Arc, ProblemArc, NO_ARC, NO_NODE, networkVars, arc_dual,
       arc_is_dual, arc_tail, arc_head, reduced_cost, traversable

(* the same search                                                         *)
LEMMA PathTypes ==
  /\ Path!NetworkTypeOK <=> NetworkTypeOK
  /\ Path!DijkstraTypeOK <=> DijkstraTypeOK
  /\ Path!NegativeArc <=> NegativeArc
BY PathNetwork
   DEF Path!NetworkTypeOK, NetworkTypeOK, Path!DijkstraTypeOK, DijkstraTypeOK,
       Path!NegativeArc, NegativeArc

(* and the same steps.                                                     *)
LEMMA PathSteps ==
  /\ Path!SearchStep <=> SearchStep
  /\ \A s, T, p, test : Path!Start(s, T, p, test) <=> Start(s, T, p, test)
<1>1. \A s, T, p, test : Path!Start(s, T, p, test) <=> Start(s, T, p, test)
  BY PathNetwork DEF Path!Start, Start
<1>2. \A n : {a \in Path!node_adjacency(n) : Path!traversable(a)}
                = {a \in node_adjacency(n) : traversable(a)}
  BY PathNetwork DEF Path!node_adjacency, node_adjacency
<1>3. Path!Pop <=> Pop
  BY <1>2 DEF Path!Pop, Pop, Path!arguments, arguments
<1>4. \A arc : Path!Relax(arc) <=> Relax(arc)
  BY PathNetwork DEF Path!Relax, Relax, Path!arguments, arguments
<1>5. Path!Exhausted <=> Exhausted
  BY DEF Path!Exhausted, Exhausted, Path!arguments, arguments
<1> QED  BY <1>1, <1>3, <1>4, <1>5 DEF Path!SearchStep, SearchStep

(* What the solver needs to know of its searches.                          *)
LEMMA StartOK ==
  ASSUME NetworkTypeOK, NEW s \in Node, NEW T, T \subseteq Node,
         NEW p \in BOOLEAN, NEW test \in BOOLEAN,
         Start(s, T, p, test), UNCHANGED networkVars
  PROVE  DijkstraTypeOK' /\ SearchOK'
<1>1. DijkstraTypeOK' <=> Path!DijkstraTypeOK'
  BY PathTypes, PTL
<1>2. UNCHANGED Path!networkVars
  BY DEF networkVars, Path!networkVars
<1>3. /\ Path!NetworkTypeOK /\ s \in Path!Node /\ T \subseteq Path!Node
      /\ Path!Start(s, T, p, test)
  BY PathNetwork, PathTypes, PathSteps
<1>4. Path!DijkstraTypeOK' /\ Path!SearchOK'
  BY <1>2, <1>3, PathAssumptions, Path!StartOK
<1> QED  BY <1>1, <1>4 DEF SearchOK

LEMMA SearchStepOK ==
  ASSUME NetworkTypeOK, DijkstraTypeOK, SearchOK, ~ NegativeArc,
         SearchStep, UNCHANGED networkVars
  PROVE  DijkstraTypeOK' /\ SearchOK'
<1>1. DijkstraTypeOK' <=> Path!DijkstraTypeOK'
  BY PathTypes, PTL
<1>2. UNCHANGED Path!networkVars
  BY DEF networkVars, Path!networkVars
<1>3. Path!DijkstraTypeOK' /\ Path!SearchOK'
  BY <1>2, PathTypes, PathSteps, PathAssumptions, Path!SearchStepOK DEF SearchOK
<1> QED  BY <1>1, <1>3 DEF SearchOK

capped(n) == MIN(value[target], value[n])

(* The capped distances keep the reduced costs, as in the instance.        *)
LEMMA CappedFeasible ==
  ASSUME NetworkTypeOK, DijkstraTypeOK, SearchOK, ~ NegativeArc,
         target # NO_NODE
  PROVE  /\ \A a \in Arc : traversable(a) =>
              reduced_cost(a) + capped(arc_tail(a)) - capped(arc_head(a)) >= 0
         /\ \A n \in Node \ {source} : value[n] <= value[target] =>
              /\ prev[n] \in Arc /\ traversable(prev[n])
              /\ arc_head(prev[n]) = n
              /\ value[arc_tail(prev[n])] <= value[target]
              /\ reduced_cost(prev[n]) + capped(arc_tail(prev[n])) - capped(n) = 0
<1>1. /\ Path!NetworkTypeOK /\ Path!DijkstraTypeOK /\ Path!SearchOK
      /\ ~ Path!NegativeArc /\ target # Path!NO_NODE
  BY PathNetwork, PathTypes DEF SearchOK
<1>2. \A n : Path!capped(n) = capped(n)
  BY DEF Path!capped, capped, Path!MIN, MIN
<1>3. /\ \A a \in Path!Arc : Path!traversable(a) =>
           Path!reduced_cost(a) + Path!capped(Path!arc_tail(a))
             - Path!capped(Path!arc_head(a)) >= 0
      /\ \A n \in Path!Node \ {source} : value[n] <= value[target] =>
           /\ prev[n] \in Path!Arc /\ Path!traversable(prev[n])
           /\ Path!arc_head(prev[n]) = n
           /\ value[Path!arc_tail(prev[n])] <= value[target]
           /\ Path!reduced_cost(prev[n]) + Path!capped(Path!arc_tail(prev[n]))
                - Path!capped(n) = 0
  BY <1>1, PathAssumptions, Path!CappedFeasible
<1> QED  BY <1>2, <1>3, PathNetwork

LEMMA TargetIsSink ==
  ASSUME SearchOK, target # NO_NODE
  PROVE  target \in sinks
BY PathNetwork DEF SearchOK, Path!SearchOK, Path!TargetOK

(* A step that leaves the network alone leaves its operators alone.        *)
LEMMA NetworkUnchanged ==
  ASSUME UNCHANGED networkVars
  PROVE  /\ \A a : /\ arc_tail(a)' = arc_tail(a)
                   /\ arc_head(a)' = arc_head(a)
                   /\ reduced_cost(a)' = reduced_cost(a)
                   /\ traversable(a)' = traversable(a)
         /\ NetworkTypeOK <=> NetworkTypeOK'
BY DEF networkVars, arc_tail, arc_head, reduced_cost, traversable, NetworkTypeOK
-----------------------------------------------------------------------------

(* No arc and its dual together can carry INFINITE.                        *)
PairsOK == \A a \in Arc : capacity[a] + capacity[arc_dual(a)] < INFINITE

(* Where a search may be running, and for whom.                            *)
CallOK ==
  /\ pc \in {"idle", "enforce", "scan", "measure", "commit"} => ~ searching
  /\ pc \in {"search", "measure", "commit"} =>
       /\ SearchOK
       /\ excess[source] > 0 /\ \A n \in sinks : excess[n] < 0
  /\ pc \in {"measure", "commit"} => target # NO_NODE

(* The part of the path that has been walked: its arcs carry the flow      *)
(* found so far and have reduced cost 0 under the next potentials, and the *)
(* walk has come no farther from the source than the target is.            *)
MeasureOK ==
  pc \in {"measure", "commit"} =>
    /\ value[walk] <= value[target]
    /\ path = {} => walk = target
    /\ path # {} => flow < INFINITE
    /\ \A a \in path :
         /\ flow <= capacity[a]
         /\ reduced_cost(a) + capped(arc_tail(a)) - capped(arc_head(a)) = 0
    /\ pc = "commit" => walk = source

(* The inductive invariant.                                                *)
IInv ==
  TypeOK /\ PairsOK /\ ComplementarySlackness /\ CallOK /\ MeasureOK

(* Complementary slackness in the words of the search.                     *)
LEMMA NoNegativeArc ==
  ASSUME TypeOK, ComplementarySlackness, Routing
  PROVE  ~ NegativeArc
  BY ArcFacts, ThresholdAssumption
     DEF TypeOK, NetworkTypeOK, ComplementarySlackness, NegativeArc,
         traversable

(* The steps that leave the network and the excess alone: only the parts   *)
(* of the invariant that speak of the places in the code remain to be      *)
(* shown.                                                                  *)
LEMMA SameNetwork ==
  ASSUME IInv, UNCHANGED <<networkVars, excess>>
  PROVE  /\ NetworkTypeOK' /\ PairsOK'
         /\ \A a : /\ reduced_cost(a)' = reduced_cost(a)
                   /\ traversable(a)' = traversable(a)
                   /\ arc_tail(a)' = arc_tail(a)
                   /\ arc_head(a)' = arc_head(a)
         /\ capacity' = capacity /\ excess' = excess
  BY NetworkUnchanged DEF IInv, TypeOK, PairsOK, networkVars

LEMMA SameSearch ==
  ASSUME UNCHANGED <<networkVars, searchVars>>
  PROVE  /\ SearchOK' <=> SearchOK
         /\ DijkstraTypeOK' <=> DijkstraTypeOK
         /\ \A n : capped(n)' = capped(n)
         /\ UNCHANGED <<source, sinks, prune, tests_visited, queue, value, prev,
                        visited, cur, todo, target, searching>>
<1>1. UNCHANGED <<source, sinks, prune, tests_visited, queue, value, prev,
                  visited, cur, todo, target, searching, graph, capacity, cost,
                  potential>>
  BY DEF networkVars, searchVars, arguments
<1> QED
  BY <1>1
  DEF SearchOK, Path!SearchOK, Path!ValuesOK, Path!FrontierOK, Path!TodoOK,
      Path!RelaxedOK, Path!PrevOK, Path!TreeOK, Path!TargetOK,
      Path!traversable, Path!reduced_cost, Path!arc_tail, Path!arc_head,
      DijkstraTypeOK, capped
-----------------------------------------------------------------------------
LEMMA InitInvariant == Init => IInv
<1> SUFFICES ASSUME Init PROVE IInv
  OBVIOUS
<1>1. /\ 0 \in Node /\ INFINITE \in Int /\ INFINITE \in 1 .. INFINITE
      /\ 0 \in 0 .. MaxCalls
      /\ 0 \in 0 .. 2 * num_arcs /\ 0 \in 0 .. max_num_nodes
  BY SizesAssumption, InfiniteAssumption, NetworksAssumption DEF Node
<1>2. NetworkTypeOK
  <2>1. \A a \in Arc : arc_dual(a) \in Arc
    BY SizesAssumption DEF Arc, arc_dual
  <2>2. cost \in [Arc -> Int] /\ potential \in [Node -> Int]
    BY DEF Init
  <2>3. \A a \in Arc : cost[a] = 0 /\ cost[arc_dual(a)] = 0
    BY <2>1 DEF Init
  <2>4. \A a \in Arc : cost[arc_dual(a)] = - cost[a]
    BY <2>3
  <2> QED
    BY <2>2, <2>4, NetworksAssumption DEF Init, NetworkTypeOK
<1>3. DijkstraTypeOK
  BY <1>1 DEF Init, NoSearch, DijkstraTypeOK
<1>4. TypeOK
  <2>1. excess \in [Node -> Int] /\ path \subseteq Arc
    BY DEF Init
  <2> QED
    BY <1>1, <1>2, <1>3, <2>1 DEF Init, TypeOK
<1>5. PairsOK
  BY NetworksAssumption DEF Init, PairsOK
<1> QED
  BY <1>4, <1>5 DEF Init, NoSearch, IInv, ComplementarySlackness, CallOK,
     MeasureOK, Routing

(* A call brings new costs and potentials; nothing is claimed of them      *)
(* before the loop over the arcs.                                          *)
LEMMA CallInvariant ==
  ASSUME IInv, NEW e \in [Node -> Int], NEW c \in Costs,
         NEW p \in [Node -> Int], mcf_refinement(e, c, p)
  PROVE  IInv'
<1>1. /\ pc = "idle" /\ calls < MaxCalls /\ calls' = calls + 1
      /\ excess' = e /\ potential' = p /\ cost' = antisymmetric(c)
      /\ pc' \in {"idle", "enforce"} /\ solved' = FALSE
      /\ pc' = "enforce" => arc_id' = 0
      /\ arc_id' \in {0, arc_id}
      /\ UNCHANGED <<graph, capacity, searchVars, node_id, walk, path, flow>>
  BY DEF mcf_refinement, Return
<1>2. NetworkTypeOK'
  <2>1. c \in [ProblemArc -> Int]
    BY NetworksAssumption
  <2>2. /\ antisymmetric(c) \in [Arc -> Int]
        /\ \A a \in Arc : antisymmetric(c)[arc_dual(a)] = - antisymmetric(c)[a]
    BY <2>1, SizesAssumption
       DEF antisymmetric, Arc, ProblemArc, arc_dual, arc_is_dual
  <2> QED
    BY <1>1, <2>2 DEF IInv, TypeOK, NetworkTypeOK
<1>3. DijkstraTypeOK' /\ searching' = searching
  BY <1>1 DEF IInv, TypeOK, DijkstraTypeOK, searchVars, arguments
<1>4. TypeOK'
  <2>1. 0 \in 0 .. 2 * num_arcs /\ calls' \in 0 .. MaxCalls
    BY <1>1, SizesAssumption, NetworksAssumption DEF IInv, TypeOK
  <2> QED
    BY <1>1, <1>2, <1>3, <2>1 DEF IInv, TypeOK
<1>5. PairsOK'
  BY <1>1 DEF IInv, PairsOK
<1>6. ComplementarySlackness'
  <2>1. \A a \in Arc : ~ (a < 0)
    BY DEF Arc
  <2> QED
    BY <1>1, <2>1 DEF ComplementarySlackness, Routing
<1>7. CallOK' /\ MeasureOK'
  BY <1>1, <1>3 DEF IInv, CallOK, MeasureOK
<1> QED
  BY <1>4, <1>5, <1>6, <1>7 DEF IInv

(* Saturating an arc of negative reduced cost: its dual, which now has     *)
(* capacity, has a positive one.                                           *)
LEMMA EnforceInvariant ==
  ASSUME IInv, EnforceSlackness
  PROVE  IInv'
<1>1. /\ pc = "enforce" /\ arc_id \in Arc /\ arc_id' = arc_id + 1
      /\ UNCHANGED <<graph, cost, potential, searchVars, pc, node_id, walk,
                     path, flow, solved, calls>>
  BY DEF EnforceSlackness
<1>2. \A a \in Arc :
        /\ arc_dual(a) \in Arc /\ arc_dual(a) # a /\ arc_dual(arc_dual(a)) = a
        /\ arc_tail(a) \in Node /\ arc_head(a) \in Node
        /\ reduced_cost(a) \in Int
        /\ reduced_cost(arc_dual(a)) = - reduced_cost(a)
        /\ capacity[a] \in Nat
  BY ArcFacts DEF IInv, TypeOK, NetworkTypeOK
<1>3. \A a : /\ reduced_cost(a)' = reduced_cost(a)
             /\ arc_tail(a)' = arc_tail(a)
  BY <1>1 DEF reduced_cost, arc_tail, arc_head
<1>4. /\ capacity' \in [Arc -> Nat] /\ excess' \in [Node -> Int] /\ PairsOK'
      /\ \A a \in Arc : (capacity'[a] > 0 /\ a < arc_id + 1)
           => reduced_cost(a) >= 0
  <2>0. capacity \in [Arc -> Nat] /\ excess \in [Node -> Int]
        /\ arc_id \in Nat /\ Arc \subseteq Nat
    BY <1>1 DEF IInv, TypeOK, NetworkTypeOK, Arc
  <2>1. \A a \in Arc : (capacity[a] > 0 /\ a < arc_id) => reduced_cost(a) >= 0
    BY <1>1 DEF IInv, ComplementarySlackness
  <2>2. CASE reduced_cost(arc_id) < 0 /\ capacity[arc_id] > 0
    <3> DEFINE dual == arc_dual(arc_id)
               x == capacity[arc_id]
    <3>1. /\ capacity' = [capacity EXCEPT ![arc_id] = @ - x, ![dual] = @ + x]
          /\ excess' = [excess EXCEPT ![arc_tail(arc_id)] = @ - x,
                                      ![arc_head(arc_id)] = @ + x]
      BY <2>2 DEF EnforceSlackness, sendflow
    <3>2. excess' \in [Node -> Int]
      BY <1>1, <1>2, <2>0, <3>1
    <3> HIDE DEF dual
    <3>3. /\ dual \in Arc /\ dual # arc_id /\ arc_id \in Arc /\ x \in Nat
          /\ capacity[arc_id] - x = 0 /\ capacity[dual] + x \in Nat
      BY <1>1, <1>2 DEF dual
    <3>4. capacity' = [[capacity EXCEPT ![arc_id] = capacity[arc_id] - x]
                         EXCEPT ![dual] = capacity[dual] + x]
      BY <2>0, <3>1, <3>3
    <3> HIDE DEF x
    <3>5. /\ capacity'[arc_id] = 0 /\ capacity'[dual] = capacity[dual] + x
          /\ \A a \in Arc \ {arc_id, dual} : capacity'[a] = capacity[a]
          /\ capacity' \in [Arc -> Nat]
      BY <2>0, <3>3, <3>4
    <3> USE DEF dual, x
    <3>6. PairsOK'
      <4> SUFFICES ASSUME NEW a \in Arc
                   PROVE  capacity'[a] + capacity'[arc_dual(a)] < INFINITE
        BY DEF PairsOK
      <4>1. capacity[a] + capacity[arc_dual(a)] < INFINITE
        BY DEF IInv, PairsOK
      <4>2. CASE a \in {arc_id, dual}
        BY <1>1, <1>2, <3>5, <4>1, <4>2
      <4>3. CASE a \notin {arc_id, dual}
        <5>1. arc_dual(a) \in Arc \ {arc_id, dual}
          BY <1>1, <1>2, <4>3
        <5> QED
          BY <3>5, <4>1, <4>3, <5>1
      <4> QED
        BY <4>2, <4>3
    <3>7. ASSUME NEW a \in Arc, capacity'[a] > 0, a < arc_id + 1
          PROVE  reduced_cost(a) >= 0
      <4>1. a # arc_id
        BY <3>5, <3>7
      <4>2. CASE a = dual
        BY <1>1, <1>2, <2>2, <4>2
      <4>3. CASE a # dual
        <5>1. capacity[a] > 0 /\ a < arc_id
          BY <2>0, <3>5, <3>7, <4>1, <4>3
        <5> QED
          BY <2>1, <5>1
      <4> QED
        BY <4>2, <4>3
    <3> QED
      BY <3>2, <3>5, <3>6, <3>7
  <2>3. CASE ~ (reduced_cost(arc_id) < 0 /\ capacity[arc_id] > 0)
    <3>1. UNCHANGED <<capacity, excess>>
      BY <2>3 DEF EnforceSlackness
    <3>2. PairsOK'
      BY <3>1 DEF IInv, PairsOK
    <3>3. ASSUME NEW a \in Arc, capacity'[a] > 0, a < arc_id + 1
          PROVE  reduced_cost(a) >= 0
      <4>1. CASE a = arc_id
        BY <1>2, <2>3, <3>1, <3>3, <4>1
      <4>2. CASE a # arc_id
        BY <2>0, <2>1, <3>1, <3>3, <4>2
      <4> QED
        BY <4>1, <4>2
    <3> QED
      BY <2>0, <3>1, <3>2, <3>3
  <2> QED
    BY <2>2, <2>3
<1>5. NetworkTypeOK'
  BY <1>1, <1>4 DEF IInv, TypeOK, NetworkTypeOK
<1>6. DijkstraTypeOK' /\ searching' = searching
  BY <1>1 DEF IInv, TypeOK, DijkstraTypeOK, searchVars, arguments
<1>7. TypeOK'
  <2>1. arc_id + 1 \in 0 .. 2 * num_arcs
    BY <1>1, SizesAssumption DEF Arc
  <2> QED
    BY <1>1, <1>4, <1>5, <1>6, <2>1 DEF IInv, TypeOK
<1>8. ComplementarySlackness'
  BY <1>1, <1>3, <1>4 DEF ComplementarySlackness, Routing
<1>9. CallOK' /\ MeasureOK'
  BY <1>1, <1>6 DEF IInv, CallOK, MeasureOK
<1> QED
  BY <1>4, <1>7, <1>8, <1>9 DEF IInv
-----------------------------------------------------------------------------
(* The steps between the loops and of get_augmenting_flow: none of them    *)
(* touches the network.                                                    *)
LEMMA ControlInvariant ==
  ASSUME IInv,
         \/ SlacknessEnforced \/ NextNode \/ AllNodesDone
         \/ SearchFailed \/ SearchSucceeded \/ Measured
  PROVE  IInv'
<1>1. UNCHANGED <<networkVars, excess, searchVars, arc_id, calls>>
  BY DEF SlacknessEnforced, NextNode, AllNodesDone, SearchFailed,
         SearchSucceeded, Measured
<1>2. /\ NetworkTypeOK' /\ PairsOK'
      /\ \A a : reduced_cost(a)' = reduced_cost(a)
      /\ \A a : arc_tail(a)' = arc_tail(a) /\ arc_head(a)' = arc_head(a)
      /\ capacity' = capacity /\ excess' = excess
      /\ (SearchOK' <=> SearchOK) /\ DijkstraTypeOK'
      /\ \A n : capped(n)' = capped(n)
      /\ UNCHANGED <<source, sinks, value, target, searching>>
  BY <1>1, SameNetwork, SameSearch DEF IInv, TypeOK
<1>3. CASE SlacknessEnforced
  <2>1. /\ pc = "enforce" /\ pc' = "scan" /\ node_id' = 0
        /\ arc_id = 2 * num_arcs
        /\ UNCHANGED <<walk, path, flow, solved>>
    BY <1>3 DEF SlacknessEnforced
  <2>2. TypeOK'
    BY <1>1, <1>2, <2>1, SizesAssumption DEF IInv, TypeOK
  <2>3. \A a \in Arc : a < arc_id
    BY <2>1, SizesAssumption DEF Arc
  <2>4. ComplementarySlackness'
    BY <1>2, <2>1, <2>3 DEF IInv, ComplementarySlackness
  <2> QED
    BY <1>2, <2>1, <2>2, <2>4 DEF IInv, CallOK, MeasureOK
<1>4. CASE NextNode
  <2>1. /\ pc = "scan" /\ pc' = "scan" /\ node_id' = node_id + 1
        /\ node_id \in Node /\ UNCHANGED <<walk, path, flow, solved>>
    BY <1>4 DEF NextNode
  <2>2. node_id' \in 0 .. max_num_nodes
    BY <2>1, SizesAssumption DEF Node
  <2>3. TypeOK'
    BY <1>1, <1>2, <2>1, <2>2 DEF IInv, TypeOK
  <2>4. ComplementarySlackness'
    BY <1>2, <2>1 DEF IInv, ComplementarySlackness, Routing
  <2> QED
    BY <1>2, <2>1, <2>3, <2>4 DEF IInv, CallOK, MeasureOK
<1>5. CASE AllNodesDone \/ SearchFailed
  <2>1. /\ pc \in {"scan", "search"} /\ pc' = "idle" /\ solved' \in BOOLEAN
        /\ UNCHANGED <<node_id, walk, path, flow>>
        /\ ~ searching
    BY <1>5 DEF AllNodesDone, SearchFailed, Return, IInv, CallOK
  <2>2. TypeOK'
    BY <1>1, <1>2, <2>1 DEF IInv, TypeOK
  <2>3. ComplementarySlackness'
    BY <1>2, <2>1 DEF IInv, ComplementarySlackness, Routing
  <2> QED
    BY <1>2, <2>1, <2>2, <2>3 DEF IInv, CallOK, MeasureOK
<1>6. CASE SearchSucceeded
  <2>1. /\ pc = "search" /\ pc' = "measure" /\ ~ searching
        /\ target # NO_NODE /\ walk' = target /\ path' = {}
        /\ flow' = INFINITE /\ UNCHANGED <<node_id, solved>>
    BY <1>6 DEF SearchSucceeded
  <2>2. target \in Node /\ value[target] \in Int /\ INFINITE \in 1 .. INFINITE
    BY <2>1, InfiniteAssumption DEF IInv, TypeOK, DijkstraTypeOK
  <2>3. TypeOK'
    BY <1>1, <1>2, <2>1, <2>2 DEF IInv, TypeOK
  <2>4. ComplementarySlackness'
    BY <1>2, <2>1 DEF IInv, ComplementarySlackness, Routing
  <2>5. CallOK'
    BY <1>2, <2>1 DEF IInv, CallOK
  <2>6. MeasureOK'
    BY <1>2, <2>1, <2>2 DEF MeasureOK
  <2> QED
    BY <1>2, <2>3, <2>4, <2>5, <2>6 DEF IInv
<1>7. CASE Measured
  <2>1. /\ pc = "measure" /\ pc' = "commit" /\ walk = source
        /\ UNCHANGED <<node_id, walk, path, flow, solved>>
    BY <1>7 DEF Measured
  <2>2. TypeOK'
    BY <1>1, <1>2, <2>1 DEF IInv, TypeOK
  <2>3. ComplementarySlackness'
    BY <1>2, <2>1 DEF IInv, ComplementarySlackness, Routing
  <2>4. CallOK'
    BY <1>2, <2>1 DEF IInv, CallOK
  <2>5. MeasureOK'
    BY <1>2, <2>1 DEF IInv, MeasureOK
  <2> QED
    BY <1>2, <2>2, <2>3, <2>4, <2>5 DEF IInv
<1> QED
  BY <1>3, <1>4, <1>5, <1>6, <1>7

(* A source starts a search.  Complementary slackness is why the search    *)
(* does not give up.                                                       *)
LEMMA FindSinkInvariant ==
  ASSUME IInv, FindSink
  PROVE  IInv'
<1>1. /\ pc = "scan" /\ node_id \in Node /\ excess[node_id] > 0
      /\ UNCHANGED <<networkVars, excess, arc_id, node_id, walk, path, flow,
                     calls>>
  BY DEF FindSink
<1>2. ~ NegativeArc
  BY <1>1, NoNegativeArc DEF IInv, Routing
<1>3. /\ Start(node_id, {n \in Node : IsSink(n)}, TRUE, FALSE)
      /\ pc' = "search" /\ solved' = solved
  BY <1>2 DEF FindSink, StartNearestSink
<1>4. /\ NetworkTypeOK' /\ PairsOK'
      /\ \A a : reduced_cost(a)' = reduced_cost(a)
      /\ capacity' = capacity /\ excess' = excess
  BY <1>1, SameNetwork
<1>5. DijkstraTypeOK' /\ SearchOK'
  BY <1>1, <1>3, StartOK DEF IInv, TypeOK
<1>6. source' = node_id /\ sinks' = {n \in Node : IsSink(n)}
  BY <1>3 DEF Start
<1>7. TypeOK'
  BY <1>1, <1>3, <1>4, <1>5 DEF IInv, TypeOK
<1>8. ComplementarySlackness'
  BY <1>1, <1>3, <1>4 DEF IInv, ComplementarySlackness, Routing
<1>9. CallOK'
  BY <1>1, <1>3, <1>4, <1>5, <1>6 DEF CallOK, IsSink
<1> QED
  BY <1>3, <1>4, <1>7, <1>8, <1>9 DEF IInv, MeasureOK

LEMMA SearchInvariant ==
  ASSUME IInv, Search
  PROVE  IInv'
<1>1. /\ pc = "search" /\ SearchStep /\ UNCHANGED <<networkVars, solverVars>>
      /\ UNCHANGED <<excess, pc, arc_id, node_id, walk, path, flow, solved,
                     calls>>
  BY DEF Search, solverVars
<1>2. ~ NegativeArc
  BY <1>1, NoNegativeArc DEF IInv, Routing
<1>3. /\ NetworkTypeOK' /\ PairsOK'
      /\ \A a : reduced_cost(a)' = reduced_cost(a)
      /\ capacity' = capacity /\ excess' = excess
  BY <1>1, SameNetwork
<1>4. DijkstraTypeOK' /\ SearchOK'
  BY <1>1, <1>2, SearchStepOK DEF IInv, TypeOK, CallOK
<1>5. source' = source /\ sinks' = sinks
  BY <1>1 DEF SearchStep, Pop, Relax, Exhausted, arguments
<1>6. TypeOK'
  BY <1>1, <1>3, <1>4 DEF IInv, TypeOK
<1>7. ComplementarySlackness'
  BY <1>1, <1>3 DEF IInv, ComplementarySlackness, Routing
<1>8. CallOK'
  BY <1>1, <1>4, <1>5 DEF IInv, CallOK
<1> QED
  BY <1>1, <1>3, <1>6, <1>7, <1>8 DEF IInv, MeasureOK

(* One arc of the path: it has capacity because the search went through    *)
(* it.                                                                     *)
LEMMA MeasureInvariant ==
  ASSUME IInv, Measure
  PROVE  IInv'
<1> DEFINE arc == prev[walk]
<1>1. /\ pc = "measure" /\ walk # source
      /\ flow' = MIN(flow, capacity[arc]) /\ path' = path \union {arc}
      /\ walk' = arc_tail(arc)
      /\ UNCHANGED <<networkVars, searchVars, excess, pc, arc_id, node_id,
                     solved, calls>>
  BY DEF Measure
<1>2. /\ NetworkTypeOK' /\ PairsOK'
      /\ \A a : reduced_cost(a)' = reduced_cost(a)
      /\ \A a : arc_tail(a)' = arc_tail(a) /\ arc_head(a)' = arc_head(a)
      /\ capacity' = capacity /\ excess' = excess
      /\ (SearchOK' <=> SearchOK) /\ DijkstraTypeOK'
      /\ \A n : capped(n)' = capped(n)
      /\ UNCHANGED <<source, sinks, value, target, searching>>
  BY <1>1, SameNetwork, SameSearch DEF IInv, TypeOK
<1>3. ~ NegativeArc
  BY <1>1, NoNegativeArc DEF IInv, Routing
<1>4. /\ SearchOK /\ target # NO_NODE /\ walk \in Node \ {source}
      /\ value[walk] <= value[target]
      /\ NetworkTypeOK /\ DijkstraTypeOK
  BY <1>1 DEF IInv, CallOK, MeasureOK, TypeOK
<1>5. /\ arc \in Arc /\ traversable(arc) /\ arc_head(arc) = walk
      /\ value[arc_tail(arc)] <= value[target]
      /\ reduced_cost(arc) + capped(arc_tail(arc)) - capped(arc_head(arc)) = 0
  BY <1>3, <1>4, CappedFeasible DEF capped
<1>6. /\ capacity[arc] \in Nat /\ capacity[arc] >= 1
      /\ capacity[arc] < INFINITE /\ arc_tail(arc) \in Node
  <2>1. arc_dual(arc) \in Arc /\ arc_tail(arc) \in Node
    BY <1>4, <1>5, ArcFacts
  <2> QED
    BY <1>4, <1>5, <2>1, ThresholdAssumption, InfiniteAssumption
       DEF IInv, PairsOK, NetworkTypeOK, traversable
<1>7. /\ flow' \in 1 .. INFINITE /\ flow' <= capacity[arc]
      /\ flow' <= flow /\ flow' < INFINITE
  BY <1>1, <1>6, InfiniteAssumption DEF IInv, TypeOK, MIN
<1> HIDE DEF arc
<1>8. TypeOK'
  BY <1>1, <1>2, <1>5, <1>6, <1>7 DEF IInv, TypeOK
<1>9. ComplementarySlackness'
  BY <1>1, <1>2 DEF IInv, ComplementarySlackness, Routing
<1>10. CallOK'
  BY <1>1, <1>2 DEF IInv, CallOK
<1>11. MeasureOK'
  <2>1. ASSUME NEW a \in path'
        PROVE  /\ flow' <= capacity[a]
               /\ reduced_cost(a) + capped(arc_tail(a)) - capped(arc_head(a))
                    = 0
    <3>1. CASE a = arc
      BY <1>5, <1>7, <3>1
    <3>2. CASE a # arc
      <4>1. a \in path /\ a \in Arc
        BY <1>1, <2>1, <3>2 DEF IInv, TypeOK
      <4>2. /\ flow <= capacity[a]
            /\ reduced_cost(a) + capped(arc_tail(a)) - capped(arc_head(a)) = 0
        BY <1>1, <4>1 DEF IInv, MeasureOK
      <4>3. capacity[a] \in Nat /\ flow \in Nat
        BY <4>1, <1>4 DEF NetworkTypeOK, IInv, TypeOK
      <4> QED
        BY <1>7, <4>2, <4>3
    <3> QED
      BY <3>1, <3>2
  <2> QED
    BY <1>1, <1>2, <1>5, <1>7, <2>1 DEF MeasureOK
<1> QED
  BY <1>2, <1>8, <1>9, <1>10, <1>11 DEF IInv

(* What is sent fits.                                                      *)
LEMMA DeltaFits ==
  ASSUME IInv, pc = "commit"
  PROVE  /\ delta \in Nat \ {0} /\ delta <= flow /\ flow < INFINITE
         /\ \A a \in path : delta <= capacity[a]
<1>1. /\ SearchOK /\ target # NO_NODE /\ excess[source] > 0
      /\ \A n \in sinks : excess[n] < 0
      /\ walk = source /\ (path = {} => walk = target)
      /\ path # {} => flow < INFINITE
      /\ \A a \in path : flow <= capacity[a]
  BY DEF IInv, CallOK, MeasureOK
<1>2. excess[target] < 0 /\ target \in Node
  BY <1>1, TargetIsSink DEF IInv, TypeOK, DijkstraTypeOK
<1>3. target # source
  BY <1>1, <1>2 DEF IInv, TypeOK, DijkstraTypeOK
<1>4. /\ excess[target] \in Int /\ excess[source] \in Int
      /\ flow \in 1 .. INFINITE
  BY <1>2 DEF IInv, TypeOK, DijkstraTypeOK
<1>5. delta \in Nat \ {0} /\ delta <= flow
  BY <1>1, <1>2, <1>4, InfiniteAssumption DEF delta, MIN
<1>6. \A a \in path : capacity[a] \in Nat
  BY DEF IInv, TypeOK, NetworkTypeOK
<1> QED
  BY <1>1, <1>3, <1>4, <1>5, <1>6, InfiniteAssumption

(* The step that matters: with the capped distances subtracted from the    *)
(* potentials, arcs that had capacity keep a non-negative reduced cost,    *)
(* and arcs that get some are duals of arcs of the path, of reduced        *)
(* cost 0.                                                                 *)
LEMMA CommitInvariant ==
  ASSUME IInv, Commit
  PROVE  IInv'
<1>1. /\ pc = "commit" /\ pc' = "scan"
      /\ capacity' = [a \in Arc |->
           capacity[a] - (IF a \in path THEN delta ELSE 0)
                       + (IF arc_dual(a) \in path THEN delta ELSE 0)]
      /\ excess' = [n \in Node |->
           excess[n] - delta * Cardinality({a \in path : arc_tail(a) = n})
                     + delta * Cardinality({a \in path : arc_head(a) = n})]
      /\ potential' = [n \in Node |-> potential[n] - capped(n)]
      /\ UNCHANGED <<graph, cost, searchVars, arc_id, node_id, walk, path,
                     flow, solved, calls>>
  BY DEF Commit, augment_flow, new_potential, capped
<1>2. /\ delta \in Nat \ {0} /\ \A a \in path : delta <= capacity[a]
  BY <1>1, DeltaFits
<1> HIDE DEF delta
<1>3. /\ NetworkTypeOK /\ DijkstraTypeOK /\ SearchOK /\ ~ NegativeArc
      /\ target # NO_NODE /\ path \subseteq Arc
      /\ \A a \in path :
           reduced_cost(a) + capped(arc_tail(a)) - capped(arc_head(a)) = 0
  BY <1>1, NoNegativeArc DEF IInv, TypeOK, CallOK, MeasureOK, Routing
<1>4. \A a \in Arc :
        /\ arc_dual(a) \in Arc /\ arc_dual(a) # a /\ arc_dual(arc_dual(a)) = a
        /\ arc_tail(a) \in Node /\ arc_head(a) \in Node
        /\ arc_tail(arc_dual(a)) = arc_head(a)
        /\ arc_head(arc_dual(a)) = arc_tail(a)
        /\ reduced_cost(a) \in Int
        /\ reduced_cost(arc_dual(a)) = - reduced_cost(a)
        /\ capacity[a] \in Nat
  BY <1>3, ArcFacts DEF NetworkTypeOK
<1>5. \A n \in Node : capped(n) \in Int
  <2>1. target \in Node
    BY <1>3 DEF DijkstraTypeOK
  <2> QED
    BY <1>3, <2>1 DEF capped, MIN, DijkstraTypeOK
<1>6. \A a \in Arc : traversable(a) =>
        reduced_cost(a) + capped(arc_tail(a)) - capped(arc_head(a)) >= 0
  BY <1>3, CappedFeasible DEF capped
<1>7. \A a \in Arc : reduced_cost(a)' =
        reduced_cost(a) + capped(arc_tail(a)) - capped(arc_head(a))
  <2>1. \A a : arc_tail(a)' = arc_tail(a) /\ arc_head(a)' = arc_head(a)
    BY <1>1 DEF arc_tail, arc_head
  <2>2. \A n \in Node : /\ potential[n] \in Int
                        /\ potential'[n] = potential[n] - capped(n)
    BY <1>1, <1>3 DEF NetworkTypeOK
  <2>3. \A a \in Arc : cost[a] \in Int /\ cost' = cost
    BY <1>1, <1>3 DEF NetworkTypeOK
  <2> QED
    BY <1>4, <1>5, <2>1, <2>2, <2>3 DEF reduced_cost
<1>8. capacity' \in [Arc -> Nat] /\ PairsOK'
  <2>1. \A a \in Arc :
          /\ capacity'[a] = capacity[a] - (IF a \in path THEN delta ELSE 0)
                              + (IF arc_dual(a) \in path THEN delta ELSE 0)
          /\ capacity'[a] \in Nat
    BY <1>1, <1>2, <1>4
  <2>2. capacity' \in [Arc -> Nat]
    BY <1>1, <2>1
  <2>3. ASSUME NEW a \in Arc
        PROVE  capacity'[a] + capacity'[arc_dual(a)] < INFINITE
    <3>1. capacity[a] + capacity[arc_dual(a)] < INFINITE
      BY DEF IInv, PairsOK
    <3>2. capacity'[a] + capacity'[arc_dual(a)]
            = capacity[a] + capacity[arc_dual(a)]
      BY <1>2, <1>4, <2>1
    <3> QED
      BY <3>1, <3>2
  <2> QED
    BY <2>2, <2>3 DEF PairsOK
<1>9. excess' \in [Node -> Int]
  <2>1. IsFiniteSet(path)
    <3>1. IsFiniteSet(Arc)
      BY FS_Interval, SizesAssumption DEF Arc
    <3> QED
      BY <1>3, <3>1, FS_Subset
  <2>2. ASSUME NEW n \in Node
        PROVE  /\ Cardinality({a \in path : arc_tail(a) = n}) \in Nat
               /\ Cardinality({a \in path : arc_head(a) = n}) \in Nat
    <3>1. /\ IsFiniteSet({a \in path : arc_tail(a) = n})
          /\ IsFiniteSet({a \in path : arc_head(a) = n})
      BY <2>1, FS_Subset
    <3> QED
      BY <3>1, FS_CardinalityType
  <2>3. \A n \in Node : excess[n] \in Int
    BY DEF IInv, TypeOK
  <2>4. \A n \in Node : excess'[n] \in Int
    BY <1>1, <1>2, <2>2, <2>3
  <2> QED
    BY <1>1, <2>4
<1>10. potential' \in [Node -> Int]
  BY <1>1, <1>3, <1>5 DEF NetworkTypeOK
<1>11. NetworkTypeOK'
  BY <1>1, <1>3, <1>8, <1>10 DEF NetworkTypeOK
<1>12. DijkstraTypeOK' /\ searching' = searching
  BY <1>1, <1>3 DEF DijkstraTypeOK, searchVars, arguments
<1>13. TypeOK'
  BY <1>1, <1>9, <1>11, <1>12 DEF IInv, TypeOK
<1>14. ComplementarySlackness'
  <2> SUFFICES ASSUME NEW a \in Arc, capacity'[a] > 0
               PROVE  reduced_cost(a)' >= 0
    BY DEF ComplementarySlackness
  <2>1. CASE capacity[a] > 0
    <3>1. traversable(a)
      BY <1>4, <2>1, ThresholdAssumption DEF traversable
    <3> QED
      BY <1>6, <1>7, <3>1
  <2>2. CASE ~ (capacity[a] > 0)
    <3>1. arc_dual(a) \in path
      BY <1>1, <1>2, <1>4, <2>2
    <3>2. reduced_cost(arc_dual(a)) + capped(arc_head(a)) - capped(arc_tail(a))
            = 0
      BY <1>3, <1>4, <3>1
    <3>3. reduced_cost(arc_dual(a)) = - reduced_cost(a)
          /\ reduced_cost(a) \in Int
          /\ capped(arc_head(a)) \in Int /\ capped(arc_tail(a)) \in Int
      BY <1>4, <1>5
    <3> QED
      BY <1>7, <3>2, <3>3
  <2> QED
    BY <2>1, <2>2
<1>15. CallOK' /\ MeasureOK'
  BY <1>1, <1>12 DEF IInv, CallOK, MeasureOK
<1> QED
  BY <1>8, <1>13, <1>14, <1>15 DEF IInv
-----------------------------------------------------------------------------
LEMMA StepInvariant == IInv /\ [Next]_vars => IInv'
<1> SUFFICES ASSUME IInv, [Next]_vars PROVE IInv'
  OBVIOUS
<1>1. CASE FirstCall
  BY <1>1, CallInvariant, NetworksAssumption DEF FirstCall
<1>2. CASE NextCall
  BY <1>2, CallInvariant DEF NextCall, IInv, TypeOK, NetworkTypeOK
<1>3. CASE \E s, d \in Node, amount \in Amounts : simple_mcf(s, d, amount)
  <2>1. PICK s \in Node, d \in Node, amount \in Amounts, c \in Costs :
               mcf_refinement([n \in Node |-> IF n = d THEN - amount
                                 ELSE IF n = s THEN amount ELSE 0],
                              c, [n \in Node |-> 0])
    BY <1>3 DEF simple_mcf
  <2>2. amount \in Nat
    BY NetworksAssumption
  <2>3. /\ [n \in Node |-> IF n = d THEN - amount
                           ELSE IF n = s THEN amount ELSE 0] \in [Node -> Int]
        /\ [n \in Node |-> 0] \in [Node -> Int]
    BY <2>2
  <2> QED
    BY <2>1, <2>3, CallInvariant
<1>4. CASE Running
  BY <1>4, EnforceInvariant, ControlInvariant, FindSinkInvariant,
     SearchInvariant, MeasureInvariant, CommitInvariant DEF Running
<1>5. CASE UNCHANGED vars
  <2>1. /\ UNCHANGED <<networkVars, searchVars, excess, pc, arc_id, node_id,
                       walk, path, flow, solved, calls>>
    BY <1>5 DEF vars, solverVars
  <2>2. /\ NetworkTypeOK' /\ PairsOK'
        /\ \A a : reduced_cost(a)' = reduced_cost(a)
        /\ \A a : arc_tail(a)' = arc_tail(a) /\ arc_head(a)' = arc_head(a)
        /\ capacity' = capacity
        /\ (SearchOK' <=> SearchOK) /\ DijkstraTypeOK'
        /\ \A n : capped(n)' = capped(n)
        /\ UNCHANGED <<source, sinks, value, target, searching>>
    BY <2>1, SameNetwork, SameSearch DEF IInv, TypeOK
  <2>3. TypeOK'
    BY <2>1, <2>2 DEF IInv, TypeOK
  <2>4. ComplementarySlackness'
    BY <2>1, <2>2 DEF IInv, ComplementarySlackness, Routing
  <2>5. CallOK'
    BY <2>1, <2>2 DEF IInv, CallOK
  <2>6. MeasureOK'
    BY <2>1, <2>2 DEF IInv, MeasureOK
  <2> QED
    BY <2>2, <2>3, <2>4, <2>5, <2>6 DEF IInv
<1> QED
  BY <1>1, <1>2, <1>3, <1>4, <1>5 DEF Next

LEMMA Invariant == Spec => []IInv
  BY InitInvariant, StepInvariant, PTL DEF Spec

(* No capacity becomes negative, no counter leaves its range.              *)
THEOREM TypeCorrect == Spec => []TypeOK
<1>1. IInv => TypeOK
  BY DEF IInv
<1> QED
  BY Invariant, <1>1, PTL

(* The optimality of mcf_refinement's answer: whenever it returned true,   *)
(* and all through its second loop, no arc with residual capacity has a    *)
(* negative reduced cost.                                                  *)
THEOREM SlacknessKept == Spec => []ComplementarySlackness
<1>1. IInv => ComplementarySlackness
  BY DEF IInv
<1> QED
  BY Invariant, <1>1, PTL

(* The assertions around augment_flow cannot fail.                         *)
THEOREM AugmentationsFit == Spec => []AugmentationFits
<1>1. IInv => AugmentationFits
  BY DeltaFits DEF AugmentationFits
<1> QED
  BY Invariant, <1>1, PTL

-----------------------------------------------------------------------------
(* What the solver keeps account of beyond its arithmetic.                 *)

(* While a call runs the nodes have no excess all together, and after a    *)
(* call that succeeded none of them has any.                               *)
BooksOK ==
  /\ pc # "idle" => calls > 0 /\ SumOver(excess, Node) = 0
  /\ pc = "idle" /\ solved => \A n \in Node : excess[n] = 0

(* The nodes that the loop has passed are no sources any more.             *)
PassedOK == Routing => \A n \in Node : n < node_id => excess[n] <= 0

(* A search runs for the node the loop stands at, knows all sinks, and     *)
(* ends without one only when nothing is left to be looked at.             *)
ServedOK ==
  pc \in {"search", "measure", "commit"} =>
    /\ source = node_id
    /\ \A n \in Node : excess[n] < 0 => n \in sinks
    /\ ~ searching /\ target = NO_NODE => queue = {} /\ todo = {}

(* The walk back: the arcs of the path are those that led to their heads,  *)
(* and end or are continued where the walk stands; none is taken twice,    *)
(* and all together they lead from there to the target.                    *)
RouteOK ==
  pc \in {"measure", "commit"} =>
    /\ walk \in visited
    /\ \A a \in path :
         /\ arc_head(a) \in visited \ {source, walk}
         /\ a = prev[arc_head(a)]
         /\ arc_tail(a) = walk \/ \E b \in path : arc_head(b) = arc_tail(a)
    /\ Leads(path, walk, target)

AccountOK == BooksOK /\ PassedOK /\ ServedOK /\ RouteOK

(* What is known of a search, in the words of the solver.                  *)
LEMMA SearchFacts ==
  ASSUME SearchOK
  PROVE  /\ value[source] = 0
         /\ \A n \in Node : 0 <= value[n] /\ value[n] <= INFINITE
         /\ \A n \in Node : value[n] < INFINITE <=> n \in queue \union visited
         /\ \A a \in Arc :
              (/\ traversable(a) /\ arc_tail(a) \in visited
               /\ (prune => arc_tail(a) # target) /\ a \notin todo)
                => value[arc_head(a)] <= value[arc_tail(a)] + reduced_cost(a)
         /\ \A n \in Node \ {source} : value[n] < INFINITE =>
              /\ prev[n] \in Arc /\ traversable(prev[n]) /\ arc_head(prev[n]) = n
              /\ arc_tail(prev[n]) \in visited
              /\ value[n] = value[arc_tail(prev[n])] + reduced_cost(prev[n])
         /\ \A S \in SUBSET (visited \ {source}) :
              S # {} => \E n \in S : arc_tail(prev[n]) \notin S
         /\ target # NO_NODE => target \in sinks \intersect visited
         /\ sinks \intersect visited # {} => target # NO_NODE
<1>1. /\ Path!ValuesOK /\ Path!RelaxedOK /\ Path!PrevOK /\ Path!TreeOK /\ Path!TargetOK
  BY DEF SearchOK, Path!SearchOK
<1>2. /\ value[source] = 0
      /\ \A n \in Node : 0 <= value[n] /\ value[n] <= INFINITE
      /\ \A n \in Node : value[n] < INFINITE <=> n \in queue \union visited
  BY <1>1, PathNetwork DEF Path!ValuesOK
<1>3. \A a \in Arc :
        (/\ traversable(a) /\ arc_tail(a) \in visited
         /\ (prune => arc_tail(a) # target) /\ a \notin todo)
          => value[arc_head(a)] <= value[arc_tail(a)] + reduced_cost(a)
  BY <1>1, PathNetwork DEF Path!RelaxedOK
<1>4. \A n \in Node \ {source} : value[n] < INFINITE =>
        /\ prev[n] \in Arc /\ traversable(prev[n]) /\ arc_head(prev[n]) = n
        /\ arc_tail(prev[n]) \in visited
        /\ value[n] = value[arc_tail(prev[n])] + reduced_cost(prev[n])
  BY <1>1, PathNetwork DEF Path!PrevOK
<1>5. \A S \in SUBSET (visited \ {source}) :
        S # {} => \E n \in S : arc_tail(prev[n]) \notin S
  BY <1>1, PathNetwork DEF Path!TreeOK
<1>6. /\ target # NO_NODE => target \in sinks \intersect visited
      /\ sinks \intersect visited # {} => target # NO_NODE
  BY <1>1, PathNetwork DEF Path!TargetOK
<1> QED  BY <1>2, <1>3, <1>4, <1>5, <1>6

(* An arc that is saturated moves flow.                                    *)
LEMMA EnforceMoves ==
  ASSUME IInv, IInv', EnforceSlackness
  PROVE  Moved(capacity, excess, capacity', excess')
<1>1. CASE reduced_cost(arc_id) < 0 /\ capacity[arc_id] > 0
  <2> DEFINE c == capacity
             d == capacity'
             e == excess
             g == excess'
             x == capacity[arc_id]
  <2>1. /\ d = [c EXCEPT ![arc_id] = @ - x, ![arc_dual(arc_id)] = @ + x]
        /\ g = [e EXCEPT ![arc_tail(arc_id)] = @ - x, ![arc_head(arc_id)] = @ + x]
        /\ arc_id \in Arc
    BY <1>1 DEF EnforceSlackness, sendflow
  <2>2. TypeOK /\ TypeOK'
    BY DEF IInv
  <2>3. NetworkTypeOK /\ c \in [Arc -> Nat] /\ e \in [Node -> Int]
    BY <2>2 DEF TypeOK, NetworkTypeOK
  <2>4. d \in [Arc -> Nat] /\ g \in [Node -> Int]
    BY <2>2 DEF TypeOK, NetworkTypeOK
  <2>5. x \in Nat
    BY <2>1, <2>3
  <2> HIDE DEF c, d, e, g, x
  <2>6. Moved(c, e, d, g)
    BY <2>1, <2>3, <2>4, <2>5, PushMoves
  <2> QED  BY <2>6 DEF c, d, e, g
<1>2. CASE ~ (reduced_cost(arc_id) < 0 /\ capacity[arc_id] > 0)
  <2>1. capacity' = capacity /\ excess' = excess
    BY <1>2 DEF EnforceSlackness
  <2> QED  BY <2>1 DEF Moved
<1> QED  BY <1>1, <1>2

(* A path changes the excess of its ends, by as much as it carries.        *)
LEMMA CommitExcess ==
  ASSUME IInv, RouteOK, Commit
  PROVE  \A n \in Node : excess'[n] = excess[n] + (IF n = target THEN delta ELSE 0)
                                                - (IF n = source THEN delta ELSE 0)
<1> DEFINE x == delta
<1>1. /\ pc = "commit" /\ walk = source /\ x \in Nat
      /\ Leads(path, source, target)
  <2>1. pc = "commit"
    BY DEF Commit
  <2>2. delta \in Nat /\ walk = source
    BY <2>1, DeltaFits DEF IInv, MeasureOK
  <2> QED  BY <2>1, <2>2 DEF RouteOK
<1>2. path \in SUBSET Arc /\ \A n \in Node : excess[n] \in Int
  BY DEF IInv, TypeOK
<1> SUFFICES ASSUME NEW n \in Node
             PROVE  excess'[n] = excess[n] + (IF n = target THEN delta ELSE 0)
                                           - (IF n = source THEN delta ELSE 0)
  OBVIOUS
<1> DEFINE in == entering(path, n)
           out == leaving(path, n)
           was == excess[n]
           is == excess'[n]
<1>3. is = was - x * out + x * in
  BY DEF Commit, augment_flow, entering, leaving
<1>4. in \in Nat /\ out \in Nat /\ was \in Int
  BY <1>2, CountsType
<1>5. in - out = (IF n = target THEN 1 ELSE 0) - (IF n = source THEN 1 ELSE 0)
  BY <1>1 DEF Leads
<1> HIDE DEF x, in, out, was, is
<1>6. x * in - x * out = (IF n = target THEN x ELSE 0) - (IF n = source THEN x ELSE 0)
  <2>1. x * in - x * out = x * (in - out)
    BY <1>1, <1>4
  <2> QED  BY <1>1, <1>4, <1>5, <2>1
<1>7. x * in \in Int /\ x * out \in Int
  BY <1>1, <1>4
<1>8. is = was + (IF n = target THEN x ELSE 0) - (IF n = source THEN x ELSE 0)
  BY <1>1, <1>3, <1>4, <1>6, <1>7
<1> QED  BY <1>8 DEF x, was, is

(* What is sent along the path arrives at its end.                         *)
LEMMA CommitMoves ==
  ASSUME IInv, IInv', RouteOK, Commit
  PROVE  Moved(capacity, excess, capacity', excess')
<1> DEFINE c == capacity
           d == capacity'
           x == delta
           e == excess
           g == excess'
<1>1. /\ pc = "commit" /\ d = along(c, path, x)
  BY DEF Commit, augment_flow, along
<1>2. /\ NetworkTypeOK /\ c \in [Arc -> Nat] /\ d \in [Arc -> Nat]
      /\ path \in SUBSET Arc /\ x \in Nat
      /\ \A n \in Node : e[n] \in Int /\ g[n] \in Int
  <2>1. TypeOK /\ TypeOK'
    BY DEF IInv
  <2>2. NetworkTypeOK /\ c \in [Arc -> Nat]
    BY <2>1 DEF TypeOK, NetworkTypeOK
  <2>3. d \in [Arc -> Nat]
    BY <2>1 DEF TypeOK, NetworkTypeOK
  <2>4. path \in SUBSET Arc /\ \A n \in Node : e[n] \in Int
    BY <2>1 DEF TypeOK
  <2>5. \A n \in Node : g[n] \in Int
    BY <2>1 DEF TypeOK
  <2>6. x \in Nat
    BY <1>1, DeltaFits
  <2> QED  BY <2>2, <2>3, <2>4, <2>5, <2>6
<1>3. \A n \in Node : g[n] = e[n] - x * leaving(path, n) + x * entering(path, n)
  BY DEF Commit, augment_flow, entering, leaving
<1> HIDE DEF c, d, x, e, g
<1>4. ASSUME NEW a \in Arc
      PROVE  d[a] + d[arc_dual(a)] = c[a] + c[arc_dual(a)]
  <2>1. arc_dual(a) \in Arc /\ arc_dual(arc_dual(a)) = a
    BY <1>2, ArcFacts
  <2>2. c[a] \in Nat /\ c[arc_dual(a)] \in Nat
    BY <1>2, <2>1
  <2>3. /\ d[a] = c[a] - (IF a \in path THEN x ELSE 0)
                       + (IF arc_dual(a) \in path THEN x ELSE 0)
        /\ d[arc_dual(a)] = c[arc_dual(a)] - (IF arc_dual(a) \in path THEN x ELSE 0)
                                           + (IF a \in path THEN x ELSE 0)
    BY <1>1, <2>1 DEF along
  <2> QED  BY <1>2, <2>2, <2>3
<1>5. ASSUME NEW n \in Node
      PROVE  g[n] - balance(d, n) = e[n] - balance(c, n)
  <2> DEFINE in == entering(path, n)
             out == leaving(path, n)
             before == balance(c, n)
             after == balance(d, n)
  <2>1. after = before + x * in - x * out
    BY <1>1, <1>2, BalanceAlong
  <2>2. in \in Nat /\ out \in Nat
    BY <1>2, CountsType
  <2>3. before \in Int
    BY <1>2, CarriedType
  <2>4. g[n] = e[n] - x * out + x * in /\ g[n] \in Int /\ e[n] \in Int
    BY <1>2, <1>3
  <2> HIDE DEF in, out, before, after
  <2>5. x * in \in Int /\ x * out \in Int
    BY <1>2, <2>2
  <2>6. g[n] - after = e[n] - before
    BY <2>1, <2>3, <2>4, <2>5
  <2> QED  BY <2>6 DEF before, after
<1> QED  BY <1>4, <1>5 DEF Moved, c, d, e, g

(* No step of a running call creates or loses flow.                        *)
LEMMA RunningMoves ==
  ASSUME IInv, IInv', RouteOK, Running
  PROVE  /\ graph' = graph /\ cost' = cost
         /\ Moved(capacity, excess, capacity', excess')
<1>1. CASE EnforceSlackness
  BY <1>1, EnforceMoves DEF EnforceSlackness
<1>2. CASE Commit
  BY <1>2, CommitMoves DEF Commit
<1>3. CASE \/ SlacknessEnforced \/ NextNode \/ FindSink \/ AllNodesDone \/ Search
           \/ SearchFailed \/ SearchSucceeded \/ Measure \/ Measured
  <2>1. UNCHANGED networkVars /\ excess' = excess
    BY <1>3 DEF SlacknessEnforced, NextNode, FindSink, AllNodesDone, Search, solverVars,
       SearchFailed, SearchSucceeded, Measure, Measured
  <2>2. UNCHANGED <<graph, cost, capacity, excess>>
    BY <2>1 DEF networkVars
  <2> QED  BY <2>2 DEF Moved
<1> QED  BY <1>1, <1>2, <1>3 DEF Running

-----------------------------------------------------------------------------
LEMMA InitAccount == Init => AccountOK
BY DEF Init, AccountOK, BooksOK, PassedOK, ServedOK, RouteOK, Routing

(* A call begins with nothing in the books but what it was handed.         *)
LEMMA CallBooks ==
  ASSUME calls \in Nat, NEW e, NEW c, NEW p, mcf_refinement(e, c, p)
  PROVE  /\ pc = "idle" /\ calls' = calls + 1 /\ calls' > 0
         /\ excess' = e /\ UNCHANGED <<graph, capacity>>
         /\ pc' = IF SumOver(e, Node) = 0 THEN "enforce" ELSE "idle"
         /\ solved' = FALSE
<1>1. total_excess(e) = SumOver(e, Node)
  BY DEF total_excess, SumOver
<1> QED  BY <1>1 DEF mcf_refinement, Return

LEMMA AnyCall ==
  ASSUME IInv,
         \/ FirstCall \/ NextCall
         \/ \E s, d \in Node, amount \in Amounts : simple_mcf(s, d, amount)
  PROVE  \E e, c, p : /\ mcf_refinement(e, c, p)
                      /\ calls > 0 => solved /\ e = excess
<1>1. calls \in Nat
  BY NetworksAssumption DEF IInv, TypeOK
<1>2. CASE FirstCall
  BY <1>2 DEF FirstCall
<1>3. CASE NextCall
  BY <1>3 DEF NextCall
<1>4. CASE \E s, d \in Node, amount \in Amounts : simple_mcf(s, d, amount)
  BY <1>4 DEF simple_mcf
<1> QED  BY <1>2, <1>3, <1>4

(* The steps of a running call that are not its last.                      *)
LEMMA RunningBooks ==
  ASSUME IInv, Running
  PROVE  /\ pc # "idle" /\ calls' = calls
         /\ pc' = "idle" /\ solved' => AllNodesDone
<1>1. CASE FindSink
  <2>1. pc = "scan"
    BY <1>1 DEF FindSink
  <2>2. ~ NegativeArc
    BY <2>1, NoNegativeArc DEF IInv, Routing
  <2> QED  BY <1>1, <2>2 DEF FindSink
<1>2. CASE \/ EnforceSlackness \/ SlacknessEnforced \/ NextNode \/ AllNodesDone
           \/ SearchFailed \/ SearchSucceeded \/ Measure \/ Measured \/ Commit
  BY <1>2 DEF EnforceSlackness, SlacknessEnforced, NextNode, AllNodesDone,
     SearchFailed, SearchSucceeded, Measure, Measured, Commit, Return
<1>3. CASE Search
  BY <1>3 DEF Search, solverVars
<1> QED  BY <1>1, <1>2, <1>3 DEF Running

(* When the loop has passed all nodes, the sinks have what they need.      *)
LEMMA AllServed ==
  ASSUME IInv, BooksOK, PassedOK, AllNodesDone
  PROVE  \A n \in Node : excess[n] = 0
<1>1. pc = "scan" /\ node_id = max_num_nodes
  BY DEF AllNodesDone
<1>2. excess \in [Node -> Int] /\ SumOver(excess, Node) = 0
  BY <1>1 DEF IInv, TypeOK, BooksOK
<1>3. \A n \in Node : excess[n] <= 0
  BY <1>1, SizesAssumption DEF PassedOK, Routing, Node
<1> QED  BY <1>2, <1>3, NoneLeft

LEMMA BooksStep ==
  ASSUME IInv, IInv', AccountOK, [Next]_vars
  PROVE  BooksOK'
<1>0. BooksOK /\ PassedOK /\ RouteOK
  BY DEF AccountOK
<1>1. CASE \/ FirstCall \/ NextCall
           \/ \E s, d \in Node, amount \in Amounts : simple_mcf(s, d, amount)
  <2>1. PICK e, c, p : mcf_refinement(e, c, p)
    BY <1>1, AnyCall
  <2>2. calls \in Nat
    BY NetworksAssumption DEF IInv, TypeOK
  <2>3. /\ calls' > 0 /\ excess' = e /\ solved' = FALSE
        /\ pc' = IF SumOver(e, Node) = 0 THEN "enforce" ELSE "idle"
    BY <2>1, <2>2, CallBooks
  <2> QED  BY <2>3 DEF BooksOK
<1>2. CASE Running
  <2>1. /\ pc # "idle" /\ calls' = calls
        /\ pc' = "idle" /\ solved' => AllNodesDone
    BY <1>2, RunningBooks
  <2>2. SumOver(excess', Node) = 0
    <3> DEFINE c == capacity
               d == capacity'
               e == excess
               g == excess'
    <3>1. Moved(c, e, d, g)
      BY <1>0, <1>2, RunningMoves
    <3>2. TypeOK /\ TypeOK'
      BY DEF IInv
    <3>3. NetworkTypeOK /\ c \in [Arc -> Nat] /\ e \in [Node -> Int]
      BY <3>2 DEF TypeOK, NetworkTypeOK
    <3>4. d \in [Arc -> Nat] /\ g \in [Node -> Int]
      BY <3>2 DEF TypeOK, NetworkTypeOK
    <3>5. SumOver(e, Node) = 0
      BY <1>0, <2>1 DEF BooksOK
    <3> HIDE DEF c, d, e, g
    <3>6. SumOver(g, Node) = 0
      BY <3>1, <3>3, <3>4, <3>5, MovedTotal
    <3> QED  BY <3>6 DEF g
  <2>3. calls' > 0
    BY <1>0, <2>1 DEF BooksOK
  <2>4. ASSUME pc' = "idle", solved' PROVE \A n \in Node : excess'[n] = 0
    <3>1. AllNodesDone
      BY <2>1, <2>4
    <3>2. excess' = excess
      BY <3>1 DEF AllNodesDone
    <3> QED  BY <1>0, <3>1, <3>2, AllServed
  <2> QED  BY <2>2, <2>3, <2>4 DEF BooksOK
<1>3. CASE UNCHANGED vars
  BY <1>0, <1>3 DEF BooksOK, vars, solverVars
<1> QED  BY <1>1, <1>2, <1>3 DEF Next

LEMMA PassedStep ==
  ASSUME IInv, AccountOK, [Next]_vars
  PROVE  PassedOK'
<1>0. PassedOK /\ RouteOK /\ ServedOK
  BY DEF AccountOK
<1>1. node_id \in Nat /\ \A n \in Node : excess[n] \in Int /\ n \in Nat
  BY SizesAssumption DEF IInv, TypeOK, Node
<1>2. CASE \/ FirstCall \/ NextCall
           \/ \E s, d \in Node, amount \in Amounts : simple_mcf(s, d, amount)
  <2>1. PICK e, c, p : mcf_refinement(e, c, p)
    BY <1>2, AnyCall
  <2>2. calls \in Nat
    BY NetworksAssumption DEF IInv, TypeOK
  <2>3. pc' \in {"enforce", "idle"}
    BY <2>1, <2>2, CallBooks
  <2> QED  BY <2>3 DEF PassedOK, Routing
<1>3. CASE EnforceSlackness \/ AllNodesDone \/ SearchFailed
  BY <1>3 DEF EnforceSlackness, AllNodesDone, SearchFailed, Return, PassedOK, Routing
<1>4. CASE SlacknessEnforced
  BY <1>1, <1>4 DEF SlacknessEnforced, PassedOK, Routing
<1>5. CASE NextNode
  <2>1. pc = "scan" /\ ~ (excess[node_id] > 0) /\ node_id' = node_id + 1 /\ excess' = excess
    BY <1>5 DEF NextNode
  <2>2. ASSUME NEW n \in Node, n < node_id + 1 PROVE excess[n] <= 0
    <3>1. CASE n = node_id
      BY <1>1, <2>1, <3>1
    <3>2. CASE n < node_id
      BY <1>0, <2>1, <3>2 DEF PassedOK, Routing
    <3> QED  BY <1>1, <2>2, <3>1, <3>2
  <2> QED  BY <2>1, <2>2 DEF PassedOK
<1>6. CASE \/ FindSink \/ Search \/ SearchSucceeded \/ Measure \/ Measured
           \/ UNCHANGED vars
  <2>1. excess' = excess /\ node_id' = node_id /\ (pc' # "idle" => pc' = pc \/ Routing)
    BY <1>6 DEF FindSink, Search, SearchSucceeded, Measure, Measured, vars, solverVars, Routing
  <2> QED  BY <1>0, <2>1 DEF PassedOK, Routing
<1>7. CASE Commit
  <2>1. pc = "commit" /\ node_id' = node_id
    BY <1>7 DEF Commit
  <2>2. /\ source = node_id /\ target \in Node /\ excess[target] < 0
        /\ \A n \in Node : n < node_id => excess[n] <= 0
    <3>1. SearchOK /\ target # NO_NODE /\ \A n \in sinks : excess[n] < 0
      BY <2>1 DEF IInv, CallOK
    <3>2. target \in sinks /\ target \in Node
      BY <3>1, TargetIsSink DEF IInv, TypeOK, DijkstraTypeOK
    <3> QED  BY <1>0, <2>1, <3>1, <3>2 DEF ServedOK, PassedOK, Routing
  <2>3. delta \in Nat /\ delta <= - excess[target]
    <3>1. delta \in Nat
      BY <2>1, DeltaFits
    <3>2. excess[source] \in Int /\ excess[target] \in Int /\ flow \in Int
      BY <1>1, <2>2, InfiniteAssumption DEF IInv, TypeOK, DijkstraTypeOK
    <3> QED  BY <3>1, <3>2 DEF delta, MIN
  <2> HIDE DEF delta
  <2>4. ASSUME NEW n \in Node, n < node_id PROVE excess'[n] <= 0
    <3>1. excess'[n] = excess[n] + (IF n = target THEN delta ELSE 0)
                                 - (IF n = source THEN delta ELSE 0)
      BY <1>0, <1>7, CommitExcess
    <3>2. n # source /\ excess[n] <= 0 /\ excess[n] \in Int
      BY <1>1, <2>2, <2>4
    <3> QED  BY <2>2, <2>3, <3>1, <3>2
  <2> QED  BY <2>1, <2>4 DEF PassedOK
<1> QED  BY <1>2, <1>3, <1>4, <1>5, <1>6, <1>7 DEF Next, Running

LEMMA ServedStep ==
  ASSUME IInv, AccountOK, [Next]_vars
  PROVE  ServedOK'
<1>0. ServedOK
  BY DEF AccountOK
<1>1. CASE \/ FirstCall \/ NextCall
           \/ \E s, d \in Node, amount \in Amounts : simple_mcf(s, d, amount)
  <2>1. PICK e, c, p : mcf_refinement(e, c, p)
    BY <1>1, AnyCall
  <2>2. calls \in Nat
    BY NetworksAssumption DEF IInv, TypeOK
  <2>3. pc' \in {"enforce", "idle"}
    BY <2>1, <2>2, CallBooks
  <2> QED  BY <2>3 DEF ServedOK
<1>2. CASE \/ EnforceSlackness \/ SlacknessEnforced \/ NextNode \/ AllNodesDone
           \/ SearchFailed \/ Commit
  BY <1>2 DEF EnforceSlackness, SlacknessEnforced, NextNode, AllNodesDone,
     SearchFailed, Commit, Return, ServedOK
<1>3. CASE FindSink
  <2>1. pc = "scan" /\ UNCHANGED excess /\ UNCHANGED node_id
    BY <1>3 DEF FindSink
  <2>2. ~ NegativeArc
    BY <2>1, NoNegativeArc DEF IInv, Routing
  <2>3. Start(node_id, {n \in Node : IsSink(n)}, TRUE, FALSE)
    BY <1>3, <2>2 DEF FindSink, StartNearestSink
  <2>4. source' = node_id /\ sinks' = {n \in Node : excess[n] < 0} /\ searching' = TRUE
    BY <2>3 DEF Start, IsSink
  <2> QED  BY <2>1, <2>4 DEF ServedOK
<1>4. CASE Search
  <2>1. /\ pc = "search" /\ SearchStep /\ UNCHANGED <<excess, pc, node_id>>
    BY <1>4 DEF Search, solverVars
  <2>2. source' = source /\ sinks' = sinks
    BY <2>1 DEF SearchStep, Pop, Relax, Exhausted, arguments
  <2>3. ASSUME ~ searching', target' = NO_NODE PROVE queue' = {} /\ todo' = {}
    <3>1. CASE Pop
      <4>1. PICK n \in queue :
              /\ searching
              /\ IF tests_visited /\ n \in visited
                 THEN UNCHANGED <<visited, target, searching, todo>>
                 ELSE /\ target' = IF n \in sinks THEN n ELSE target
                      /\ searching' = (n \notin sinks \/ ~ prune)
        BY <3>1 DEF Pop
      <4>2. n \in Node
        BY DEF IInv, TypeOK, DijkstraTypeOK
      <4> QED  BY <2>3, <4>1, <4>2, NetworkSizes
    <3>2. CASE \E arc \in todo : Relax(arc)
      BY <2>3, <3>2 DEF Relax
    <3>3. CASE Exhausted
      BY <3>3 DEF Exhausted
    <3> QED  BY <2>1, <3>1, <3>2, <3>3 DEF SearchStep
  <2> QED  BY <1>0, <2>1, <2>2, <2>3 DEF ServedOK
<1>5. CASE SearchSucceeded \/ Measure \/ Measured \/ UNCHANGED vars
  <2>1. /\ UNCHANGED <<excess, node_id>> /\ UNCHANGED searchVars
        /\ pc' \in {"search", "measure", "commit"} => pc \in {"search", "measure", "commit"}
    BY <1>5 DEF SearchSucceeded, Measure, Measured, vars, solverVars
  <2>2. UNCHANGED <<source, sinks, searching, target, queue, todo>>
    BY <2>1 DEF searchVars, arguments
  <2> QED  BY <1>0, <2>1, <2>2 DEF ServedOK
<1> QED  BY <1>1, <1>2, <1>3, <1>4, <1>5 DEF Next, Running

(* The walk begins at the target,                                          *)
LEMMA SucceededRoute ==
  ASSUME IInv, SearchSucceeded
  PROVE  RouteOK'
<1>1. /\ pc = "search" /\ target # NO_NODE /\ walk' = target /\ path' = {}
      /\ UNCHANGED <<networkVars, searchVars>>
  BY DEF SearchSucceeded
<1>2. visited' = visited /\ target' = target
  BY <1>1 DEF searchVars
<1>3. target \in visited
  BY <1>1, SearchFacts DEF IInv, CallOK
<1>4. Leads(path, walk, target)'
  <2>1. \A n : {a \in {} : arc_head(a)' = n} = {} /\ {a \in {} : arc_tail(a)' = n} = {}
    OBVIOUS
  <2>2. \A n : entering(path, n)' = 0 /\ leaving(path, n)' = 0
    BY <1>1, <2>1, FS_EmptySet DEF entering, leaving
  <2> QED  BY <1>1, <1>2, <2>2 DEF Leads
<1> QED  BY <1>1, <1>2, <1>3, <1>4 DEF RouteOK

(* and goes back through nodes it has not met: the tree that prev forms    *)
(* closes no cycle.                                                        *)
LEMMA MeasureRoute ==
  ASSUME IInv, RouteOK, Measure
  PROVE  RouteOK'
<1> DEFINE arc == prev[walk]
           next == arc_tail(arc)
<1>1. /\ pc = "measure" /\ walk # source
      /\ path' = path \union {arc} /\ walk' = next
      /\ UNCHANGED <<networkVars, searchVars, excess>>
  BY DEF Measure
<1>2. /\ \A a : arc_tail(a)' = arc_tail(a) /\ arc_head(a)' = arc_head(a)
      /\ UNCHANGED <<source, prev, visited, target>>
  BY <1>1, SameNetwork, SameSearch
<1>3. /\ SearchOK /\ NetworkTypeOK /\ path \in SUBSET Arc /\ walk \in Node
      /\ walk \in visited /\ Leads(path, walk, target) /\ visited \subseteq Node
      /\ \A a \in path :
           /\ arc_head(a) \in visited \ {source, walk}
           /\ a = prev[arc_head(a)]
           /\ arc_tail(a) = walk \/ \E b \in path : arc_head(b) = arc_tail(a)
  BY <1>1 DEF IInv, CallOK, TypeOK, DijkstraTypeOK, RouteOK
<1>4. /\ arc \in Arc /\ arc_head(arc) = walk /\ next \in visited
  BY <1>1, <1>3, SearchFacts
<1>5. \A S \in SUBSET (visited \ {source}) :
        S # {} => \E n \in S : arc_tail(prev[n]) \notin S
  BY <1>3, SearchFacts
<1>6. next # walk /\ \A a \in path : arc_head(a) # next
  <2> DEFINE S == {walk} \union {arc_head(a) : a \in path}
  <2> SUFFICES ASSUME next \in S PROVE FALSE
    OBVIOUS
  <2>1. S \in SUBSET (visited \ {source}) /\ S # {}
    BY <1>1, <1>3
  <2>2. PICK n \in S : arc_tail(prev[n]) \notin S
    BY <1>5, <2>1
  <2>3. CASE n = walk
    BY <2>2, <2>3
  <2>4. CASE n # walk
    <3>1. PICK a \in path : n = arc_head(a)
      BY <2>4
    <3>2. arc_tail(a) \in S
      BY <1>3, <3>1
    <3> QED  BY <1>3, <2>2, <3>1, <3>2
  <2> QED  BY <2>3, <2>4
<1>7. arc \notin path
  BY <1>3, <1>4
<1>8. arc = prev[arc_head(arc)]
  BY <1>4
<1> HIDE DEF arc, next
<1>9. next = arc_tail(arc)
  BY DEF next
<1>10. ASSUME NEW n \in Node
       PROVE  entering(path \union {arc}, n) - leaving(path \union {arc}, n)
                = (IF n = target THEN 1 ELSE 0) - (IF n = next THEN 1 ELSE 0)
  <2>1. /\ entering(path \union {arc}, n)
             = entering(path, n) + (IF n = walk THEN 1 ELSE 0)
        /\ leaving(path \union {arc}, n)
             = leaving(path, n) + (IF n = next THEN 1 ELSE 0)
    BY <1>3, <1>4, <1>7, <1>9, OneArcMore
  <2>2. entering(path, n) \in Nat /\ leaving(path, n) \in Nat
    BY <1>3, CountsType
  <2>3. entering(path, n) - leaving(path, n)
          = (IF n = target THEN 1 ELSE 0) - (IF n = walk THEN 1 ELSE 0)
    BY <1>3 DEF Leads
  <2> QED  BY <2>1, <2>2, <2>3
<1>11. Leads(path, walk, target)'
  BY <1>1, <1>2, <1>10 DEF Leads, entering, leaving
<1>12. ASSUME NEW a \in path \union {arc}
       PROVE  /\ arc_head(a) \in visited \ {source, next}
              /\ a = prev[arc_head(a)]
              /\ arc_tail(a) = next \/ \E b \in path \union {arc} : arc_head(b) = arc_tail(a)
  <2>1. CASE a = arc
    BY <1>1, <1>3, <1>4, <1>6, <1>8, <1>9, <2>1
  <2>2. CASE a \in path
    BY <1>3, <1>4, <1>6, <2>2
  <2> QED  BY <2>1, <2>2
<1> QED  BY <1>1, <1>2, <1>4, <1>11, <1>12 DEF RouteOK

LEMMA RouteStep ==
  ASSUME IInv, AccountOK, [Next]_vars
  PROVE  RouteOK'
<1>0. RouteOK
  BY DEF AccountOK
<1>1. CASE \/ FirstCall \/ NextCall
           \/ \E s, d \in Node, amount \in Amounts : simple_mcf(s, d, amount)
  <2>1. PICK e, c, p : mcf_refinement(e, c, p)
    BY <1>1, AnyCall
  <2>2. calls \in Nat
    BY NetworksAssumption DEF IInv, TypeOK
  <2>3. pc' \in {"enforce", "idle"}
    BY <2>1, <2>2, CallBooks
  <2> QED  BY <2>3 DEF RouteOK
<1>2. CASE \/ EnforceSlackness \/ SlacknessEnforced \/ NextNode \/ FindSink \/ AllNodesDone
           \/ Search \/ SearchFailed \/ Commit
  BY <1>2 DEF EnforceSlackness, SlacknessEnforced, NextNode, FindSink, AllNodesDone, Search,
     SearchFailed, Commit, Return, solverVars, RouteOK
<1>3. CASE SearchSucceeded
  BY <1>3, SucceededRoute
<1>4. CASE Measure
  BY <1>0, <1>4, MeasureRoute
<1>5. CASE Measured \/ UNCHANGED vars
  <2>1. /\ UNCHANGED <<networkVars, searchVars, excess>> /\ UNCHANGED <<walk, path>>
        /\ pc' \in {"measure", "commit"} => pc \in {"measure", "commit"}
    BY <1>5 DEF Measured, vars, solverVars
  <2>2. /\ \A a : arc_tail(a)' = arc_tail(a) /\ arc_head(a)' = arc_head(a)
        /\ UNCHANGED <<source, prev, visited, target>>
    BY <2>1, SameNetwork, SameSearch
  <2>3. Leads(path, walk, target)' <=> Leads(path, walk, target)
    BY <2>1, <2>2 DEF Leads, entering, leaving
  <2> QED  BY <1>0, <2>1, <2>2, <2>3 DEF RouteOK
<1> QED  BY <1>1, <1>2, <1>3, <1>4, <1>5 DEF Next, Running

LEMMA AccountInvariant == Spec => []AccountOK
<1>1. IInv /\ IInv' /\ AccountOK /\ [Next]_vars => AccountOK'
  BY BooksStep, PassedStep, ServedStep, RouteStep DEF AccountOK
<1> QED  BY Invariant, InitAccount, <1>1, PTL DEF Spec
-----------------------------------------------------------------------------
(* The code adds distances in s64 and takes INT64_MAX for a node that was  *)
(* not reached.  What is proved of a search that found no sink supposes    *)
(* that the distances it adds stay below: with greater ones a node that    *)
(* can be reached is taken for one that cannot, and the call fails.        *)
DistancesFit ==
  pc = "search" =>
    \A a \in Arc : traversable(a) /\ arc_tail(a) \in visited =>
      value[arc_tail(a)] + reduced_cost(a) < INFINITE

(* The specification of the solvers sees the same network.                 *)
LEMMA AbstractFacts ==
  /\ Abstract!Node = Node /\ Abstract!ProblemArc = ProblemArc /\ Abstract!Arc = Arc
  /\ \A a : Abstract!total(a) = capacity[a] + capacity[arc_dual(a)]
  /\ \A n : Abstract!node_balance(n) = node_balance(n)
  /\ \A f, n : Abstract!Inflow(f, n) = SumOver(f, {a \in ProblemArc : graph.to[a] = n})
  /\ \A f, n : Abstract!Outflow(f, n) = SumOver(f, {a \in ProblemArc : graph.from[a] = n})
  /\ Abstract!flow_cost = spent(capacity, cost)
  /\ \A f : Abstract!FlowCost(f) = paid(f, cost)
<1>1. Abstract!Node = Node /\ Abstract!ProblemArc = ProblemArc /\ Abstract!Arc = Arc
  BY DEF Abstract!Node, Node, Abstract!ProblemArc, ProblemArc, Abstract!Arc, Arc
<1>2. \A a : Abstract!arc_dual(a) = arc_dual(a)
  BY DEF Abstract!arc_dual, arc_dual
<1>3. \A a : Abstract!total(a) = capacity[a] + capacity[arc_dual(a)]
  BY <1>2 DEF Abstract!total
<1>4. ASSUME NEW n PROVE Abstract!node_balance(n) = node_balance(n)
  BY ZenonT(30) DEF Abstract!node_balance, node_balance, Abstract!MapThenSumSet, MapThenSumSet,
     Abstract!MapThenFoldSet, MapThenFoldSet, Abstract!node_adjacency, node_adjacency,
     Abstract!arc_tail, arc_tail, Abstract!arc_is_dual, arc_is_dual, Abstract!arc_dual, arc_dual,
     Abstract!Arc, Arc
<1>5. ASSUME NEW f, NEW n
      PROVE  Abstract!Inflow(f, n) = SumOver(f, {a \in ProblemArc : graph.to[a] = n})
  BY ZenonT(30) DEF Abstract!Inflow, SumOver, Abstract!MapThenSumSet, MapThenSumSet,
     Abstract!MapThenFoldSet, MapThenFoldSet, Abstract!ProblemArc, ProblemArc
<1>6. ASSUME NEW f, NEW n
      PROVE  Abstract!Outflow(f, n) = SumOver(f, {a \in ProblemArc : graph.from[a] = n})
  BY ZenonT(30) DEF Abstract!Outflow, SumOver, Abstract!MapThenSumSet, MapThenSumSet,
     Abstract!MapThenFoldSet, MapThenFoldSet, Abstract!ProblemArc, ProblemArc
<1>7. Abstract!flow_cost = spent(capacity, cost)
  BY ZenonT(30) DEF Abstract!flow_cost, spent, Abstract!MapThenSumSet, MapThenSumSet,
     Abstract!MapThenFoldSet, MapThenFoldSet, Abstract!ProblemArc, ProblemArc,
     Abstract!arc_dual, arc_dual
<1>8. ASSUME NEW f PROVE Abstract!FlowCost(f) = paid(f, cost)
  BY ZenonT(30) DEF Abstract!FlowCost, paid, Abstract!MapThenSumSet, MapThenSumSet,
     Abstract!MapThenFoldSet, MapThenFoldSet, Abstract!ProblemArc, ProblemArc
<1> QED  BY <1>1, <1>3, <1>4, <1>5, <1>6, <1>7, <1>8

LEMMA SupplyValue ==
  \A n \in Node : Abstract!supply(n) = excess[n] - balance(capacity, n)
<1> SUFFICES ASSUME NEW n \in Node
             PROVE  Abstract!supply(n) = excess[n] - balance(capacity, n)
  OBVIOUS
<1>1. Abstract!node_balance(n) = balance(capacity, n)
  BY AbstractFacts, BalanceValue
<1> QED  BY <1>1 DEF Abstract!supply

LEMMA TotalValue ==
  \A a : Abstract!total(a) = capacity[a] + capacity[arc_dual(a)]
BY AbstractFacts

(* A step of the call that moves flow is one of the specification.         *)
LEMMA WorkFacts ==
  ASSUME pc # "idle", pc' # "idle", graph' = graph, cost' = cost,
         capacity' \in [Arc -> Nat], Moved(capacity, excess, capacity', excess')
  PROVE  Abstract!Work
<1>1. \A a \in Arc : Abstract!total(a)' = Abstract!total(a)
  <2>1. (\A a : Abstract!total(a) = capacity[a] + capacity[arc_dual(a)])'
    BY TotalValue, PTL
  <2>2. \A a : arc_dual(a)' = arc_dual(a)
    BY DEF arc_dual
  <2>3. \A a : Abstract!total(a)' = capacity'[a] + capacity'[arc_dual(a)]
    BY <2>1, <2>2
  <2> QED  BY <2>3, TotalValue DEF Moved
<1>2. \A n \in Node : Abstract!supply(n)' = Abstract!supply(n)
  <2>1. (\A n \in Node : Abstract!supply(n) = excess[n] - balance(capacity, n))'
    BY SupplyValue, PTL
  <2>2. \A n \in Node : Abstract!supply(n)' = excess'[n] - balance(capacity', n)
    BY <2>1, BalanceNext
  <2> QED  BY <2>2, SupplyValue DEF Moved
<1>3. \A a \in Arc : capacity'[a] >= 0
  OBVIOUS
<1>4. Abstract!Arc = Arc /\ Abstract!Node = Node
  BY AbstractFacts
<1> QED  BY <1>1, <1>2, <1>3, <1>4 DEF Abstract!Work

(* The flows of the specification meet the supplies of the network.        *)
LEMMA FlowsMeet ==
  ASSUME NEW f \in Abstract!FeasibleFlows
  PROVE  Meets(f, capacity, excess)
<1>1. f \in Abstract!Flows /\ \A n \in Node : Abstract!Excess(f, n) = 0
  BY AbstractFacts DEF Abstract!FeasibleFlows
<1>2. ASSUME NEW a \in ProblemArc
      PROVE  f[a] \in Nat /\ f[a] <= capacity[a] + capacity[arc_dual(a)]
  <2> DEFINE m == Abstract!Max({Abstract!total(b) : b \in Abstract!ProblemArc})
  <2>1. f[a] \in 0 .. m /\ f[a] <= Abstract!total(a)
    BY <1>1, AbstractFacts DEF Abstract!Flows
  <2> HIDE DEF m
  <2>2. f[a] \in Nat
    BY <2>1, IntervalNat
  <2> QED  BY <2>1, <2>2, TotalValue
<1>3. ASSUME NEW n \in Node
      PROVE  excess[n] - balance(capacity, n)
               + SumOver(f, {a \in ProblemArc : graph.to[a] = n})
               - SumOver(f, {a \in ProblemArc : graph.from[a] = n}) = 0
  <2>1. Abstract!supply(n) + Abstract!Inflow(f, n) - Abstract!Outflow(f, n) = 0
    BY <1>1 DEF Abstract!Excess
  <2> QED  BY <2>1, SupplyValue, AbstractFacts
<1> QED  BY <1>2, <1>3 DEF Meets

(* Supply that does not match demand is rightly refused,                   *)
LEMMA Unbalanced ==
  TypeOK /\ SumOver(excess, Node) # 0 => Abstract!FeasibleFlows = {}
<1> SUFFICES ASSUME TypeOK, SumOver(excess, Node) # 0, NEW f \in Abstract!FeasibleFlows
             PROVE  FALSE
  OBVIOUS
<1>1. /\ NetworkTypeOK /\ capacity \in [Arc -> Nat] /\ excess \in [Node -> Int]
      /\ Meets(f, capacity, excess)
  BY FlowsMeet DEF TypeOK, NetworkTypeOK
<1> QED  BY <1>1, TotalExcess

(* and a search that finds no sink has found a cut: what is left at its    *)
(* source cannot get out of the nodes it has visited.                      *)
LEMMA NothingFeasible ==
  ASSUME IInv, ServedOK, DistancesFit, SearchFailed
  PROVE  Abstract!FeasibleFlows = {}
<1> SUFFICES ASSUME NEW f \in Abstract!FeasibleFlows PROVE FALSE
  OBVIOUS
<1>1. /\ NetworkTypeOK /\ capacity \in [Arc -> Nat] /\ excess \in [Node -> Int]
      /\ Meets(f, capacity, excess) /\ visited \in SUBSET Node /\ source \in Node
  BY FlowsMeet DEF IInv, TypeOK, NetworkTypeOK, DijkstraTypeOK
<1>2. pc = "search" /\ ~ searching /\ target = NO_NODE
  BY DEF SearchFailed
<1>3. /\ queue = {} /\ todo = {} /\ \A n \in Node : excess[n] < 0 => n \in sinks
  BY <1>2 DEF ServedOK
<1>4. SearchOK /\ excess[source] > 0
  BY <1>2 DEF IInv, CallOK
<1>5. /\ value[source] = 0
      /\ \A n \in Node : value[n] < INFINITE <=> n \in queue \union visited
      /\ \A a \in Arc :
           (/\ traversable(a) /\ arc_tail(a) \in visited
            /\ (prune => arc_tail(a) # target) /\ a \notin todo)
             => value[arc_head(a)] <= value[arc_tail(a)] + reduced_cost(a)
      /\ sinks \intersect visited # {} => target # NO_NODE
  BY <1>4, SearchFacts
<1>6. source \in visited
  BY <1>1, <1>3, <1>5, InfiniteAssumption
<1>7. ASSUME NEW a \in Arc, arc_tail(a) \in visited, arc_head(a) \notin visited
      PROVE  capacity[a] = 0
  <2>1. /\ capacity[a] \in Nat /\ arc_head(a) \in Node /\ arc_tail(a) \in Node
        /\ reduced_cost(a) \in Int
    BY <1>1, ArcFacts
  <2>2. SUFFICES ASSUME traversable(a) PROVE FALSE
    BY <2>1, ThresholdAssumption DEF traversable
  <2>3. value[arc_head(a)] <= value[arc_tail(a)] + reduced_cost(a)
    BY <1>2, <1>3, <1>5, <1>7, <2>1, <2>2, NetworkSizes
  <2>4. value[arc_tail(a)] + reduced_cost(a) < INFINITE
    BY <1>2, <1>7, <2>2 DEF DistancesFit
  <2>5. value[arc_head(a)] \in Int /\ value[arc_tail(a)] \in Int /\ INFINITE \in Int
    BY <2>1, InfiniteAssumption DEF IInv, TypeOK, DijkstraTypeOK
  <2>6. value[arc_head(a)] < INFINITE
    BY <2>1, <2>3, <2>4, <2>5
  <2> QED  BY <1>3, <1>5, <1>7, <2>1, <2>6
<1>8. SumOver(excess, visited) <= 0
  BY <1>1, <1>7, CutExcess
<1>9. IsFiniteSet(visited) /\ Integral(excess, visited)
  BY <1>1, NetworkSizes, FS_Subset DEF Integral
<1>10. \A n \in visited : excess[n] >= 0
  BY <1>1, <1>2, <1>3, <1>5
<1>11. SumOver(excess, visited) > 0
  BY <1>4, <1>6, <1>9, <1>10, SumPositive
<1>12. SumOver(excess, visited) \in Int
  BY <1>9, SumType
<1> QED  BY <1>8, <1>11, <1>12

(* The potentials prove the answer optimal.                                *)
LEMMA AnswerOptimal ==
  ASSUME IInv, BooksOK, PassedOK, AllNodesDone
  PROVE  Abstract!Balanced /\ Abstract!Optimal
<1>1. \A n \in Node : excess[n] = 0
  BY AllServed
<1>2. Abstract!Balanced
  BY <1>1, AbstractFacts DEF Abstract!Balanced
<1>3. ASSUME NEW f \in Abstract!FeasibleFlows
      PROVE  spent(capacity, cost) <= paid(f, cost)
  <2>1. TypeOK
    BY DEF IInv
  <2>2. /\ NetworkTypeOK /\ capacity \in [Arc -> Nat] /\ excess \in [Node -> Int]
        /\ potential \in [Node -> Int] /\ Meets(f, capacity, excess)
    BY <2>1, FlowsMeet DEF TypeOK, NetworkTypeOK
  <2>3. ASSUME NEW a \in Arc, capacity[a] > 0
        PROVE  cost[a] + potential[arc_head(a)] - potential[arc_tail(a)] >= 0
    <3>1. reduced_cost(a) >= 0
      BY <2>3 DEF AllNodesDone, IInv, ComplementarySlackness, Routing
    <3>2. /\ cost[a] \in Int /\ potential[arc_head(a)] \in Int
          /\ potential[arc_tail(a)] \in Int
      BY <2>2, ArcFacts DEF NetworkTypeOK
    <3> QED  BY <3>1, <3>2 DEF reduced_cost
  <2> QED  BY <1>1, <2>2, <2>3, CheapestFlow
<1>4. Abstract!Optimal
  BY <1>3, AbstractFacts DEF Abstract!Optimal
<1> QED  BY <1>2, <1>4

(* The entry of mcf_refinement is the call of the specification.           *)
LEMMA CallIsCall ==
  ASSUME IInv, IInv', BooksOK,
         \/ FirstCall \/ NextCall
         \/ \E s, d \in Node, amount \in Amounts : simple_mcf(s, d, amount)
  PROVE  Abstract!Call
<1>1. PICK e, c, p : mcf_refinement(e, c, p) /\ (calls > 0 => solved /\ e = excess)
  BY AnyCall
<1>2. calls \in Nat
  BY NetworksAssumption DEF IInv, TypeOK
<1>3. /\ pc = "idle" /\ calls' > 0 /\ excess' = e /\ UNCHANGED <<graph, capacity>>
      /\ pc' = IF SumOver(e, Node) = 0 THEN "enforce" ELSE "idle"
      /\ solved' = FALSE
  BY <1>1, <1>2, CallBooks
<1>4. ASSUME calls > 0 PROVE SumOver(e, Node) = 0
  <2>1. e = excess /\ \A n \in Node : excess[n] = 0
    BY <1>1, <1>3, <1>4 DEF BooksOK
  <2> QED  BY <2>1, NetworkSizes, SumZero
<1>5. ASSUME pc' = "idle" PROVE (Abstract!FeasibleFlows = {})'
  <2>1. (TypeOK /\ SumOver(excess, Node) # 0 => Abstract!FeasibleFlows = {})'
    BY Unbalanced, PTL
  <2>2. TypeOK' /\ SumOver(excess', Node) # 0
    BY <1>3, <1>5 DEF IInv
  <2> QED  BY <2>1, <2>2
<1>6. CASE calls > 0
  BY <1>1, <1>2, <1>3, <1>4, <1>6 DEF Abstract!Call
<1>7. CASE calls = 0
  BY <1>2, <1>3, <1>5, <1>7 DEF Abstract!Call
<1> QED  BY <1>2, <1>6, <1>7

(* mcf_refinement solves the minimum cost flow problem: flow is conserved  *)
(* in every step, true is answered with an optimal flow that meets all     *)
(* demands, false only if no flow meets them, as long as the distances     *)
(* that its searches add up are smaller than INFINITE.                     *)
THEOREM ImplementsMinCostFlow == Spec /\ []DistancesFit => Implements
<1>1. Init => Abstract!Init
  BY DEF Init, Abstract!Init
<1>2. IInv /\ IInv' /\ AccountOK /\ DistancesFit /\ [Next]_vars
        => [Abstract!Next]_(Abstract!vars)
  <2> SUFFICES ASSUME IInv, IInv', AccountOK, DistancesFit, [Next]_vars
               PROVE  [Abstract!Next]_(Abstract!vars)
    OBVIOUS
  <2>0. BooksOK /\ PassedOK /\ ServedOK /\ RouteOK
    BY DEF AccountOK
  <2>1. CASE UNCHANGED vars
    BY <2>1 DEF vars, networkVars, solverVars, Abstract!vars, Abstract!networkVars
  <2>2. CASE \/ FirstCall \/ NextCall
             \/ \E s, d \in Node, amount \in Amounts : simple_mcf(s, d, amount)
    BY <2>0, <2>2, CallIsCall DEF Abstract!Next
  <2>3. CASE AllNodesDone
    <3>1. /\ pc = "scan" /\ pc' = "idle" /\ solved' = TRUE /\ calls' = calls
          /\ UNCHANGED <<graph, capacity, cost, potential, excess>>
      BY <2>3 DEF AllNodesDone, Return, networkVars
    <3>2. calls > 0
      BY <2>0, <3>1 DEF BooksOK
    <3>3. Abstract!Balanced /\ Abstract!Optimal
      BY <2>0, <2>3, AnswerOptimal
    <3>4. Abstract!Succeed
      BY <3>1, <3>2, <3>3 DEF Abstract!Succeed, Abstract!networkVars
    <3> QED  BY <3>4 DEF Abstract!Next
  <2>4. CASE SearchFailed
    <3>1. /\ pc = "search" /\ pc' = "idle" /\ solved' = FALSE /\ calls' = calls
          /\ UNCHANGED <<graph, capacity, cost, potential, excess>>
      BY <2>4 DEF SearchFailed, Return, networkVars
    <3>2. calls > 0
      BY <2>0, <3>1 DEF BooksOK
    <3>3. Abstract!FeasibleFlows = {}
      BY <2>0, <2>4, NothingFeasible
    <3>4. Abstract!Fail
      BY <3>1, <3>2, <3>3 DEF Abstract!Fail, Abstract!networkVars
    <3> QED  BY <3>4 DEF Abstract!Next
  <2>5. CASE \/ EnforceSlackness \/ SlacknessEnforced \/ NextNode \/ FindSink \/ Search
             \/ SearchSucceeded \/ Measure \/ Measured \/ Commit
    <3>1. Running
      BY <2>5 DEF Running
    <3>2. graph' = graph /\ cost' = cost /\ Moved(capacity, excess, capacity', excess')
      BY <2>0, <3>1, RunningMoves
    <3>3. pc # "idle" /\ pc' # "idle"
      <4>1. CASE FindSink
        <5>1. pc = "scan"
          BY <4>1 DEF FindSink
        <5>2. ~ NegativeArc
          BY <5>1, NoNegativeArc DEF IInv, Routing
        <5> QED  BY <4>1, <5>2 DEF FindSink
      <4>2. CASE \/ EnforceSlackness \/ SlacknessEnforced \/ NextNode \/ Search
                 \/ SearchSucceeded \/ Measure \/ Measured \/ Commit
        BY <4>2 DEF EnforceSlackness, SlacknessEnforced, NextNode, Search, solverVars,
           SearchSucceeded, Measure, Measured, Commit
      <4> QED  BY <2>5, <4>1, <4>2
    <3>4. capacity' \in [Arc -> Nat]
      BY DEF IInv, TypeOK, NetworkTypeOK
    <3>5. Abstract!Work
      BY <3>2, <3>3, <3>4, WorkFacts
    <3> QED  BY <3>5 DEF Abstract!Next
  <2> QED  BY <2>1, <2>2, <2>3, <2>4, <2>5 DEF Next, Running
<1> QED
  BY <1>1, <1>2, Invariant, AccountInvariant, PTL DEF Spec, Implements
-----------------------------------------------------------------------------
highest == Max({cost[a] : a \in Arc})

(* What the path has cost so far: from the node where the walk stands to   *)
(* the target, distances subtracted from the potentials fall by no more    *)
(* than the highest cost with every arc.                                   *)
ChargeOK ==
  pc \in {"measure", "commit"} =>
    (potential[walk] - value[walk]) - (potential[target] - value[target])
      <= highest * Cardinality(path)

LEMMA HighestCost ==
  ASSUME NetworkTypeOK
  PROVE  \A arc \in Arc : highest \in Int /\ cost[arc] <= highest /\ highest >= 0
<1> SUFFICES ASSUME NEW arc \in Arc
             PROVE  highest \in Int /\ cost[arc] <= highest /\ highest >= 0
  OBVIOUS
<1> DEFINE S == {cost[a] : a \in Arc}
           dual == arc_dual(arc)
<1>1. /\ S \subseteq Int /\ cost[arc] \in S /\ cost[arc] \in Int
  BY DEF NetworkTypeOK
<1>2. dual \in Arc
  BY ArcFacts
<1>3. cost[dual] \in S /\ cost[dual] = - cost[arc]
  BY <1>2 DEF NetworkTypeOK
<1>4. IsFiniteSet(S)
  BY NetworkSizes, ImageFinite
<1>5. highest = Max(S)
  BY DEF highest
<1> HIDE DEF S, dual
<1>6. Max(S) \in S /\ \A x \in S : x <= Max(S)
  BY <1>1, <1>4, MinMaxFacts
<1>7. highest \in Int /\ cost[arc] <= highest /\ cost[dual] <= highest
  BY <1>1, <1>3, <1>5, <1>6
<1> QED  BY <1>1, <1>3, <1>7

(* A path takes no more arcs than there are other nodes.                   *)
LEMMA PathShort ==
  ASSUME IInv, RouteOK, pc \in {"measure", "commit"}
  PROVE  /\ IsFiniteSet(path) /\ Cardinality(path) \in Nat
         /\ Cardinality(path) <= max_num_nodes - 1
<1> DEFINE T == Node \ {source}
           f == [a \in path |-> arc_head(a)]
<1>1. path \in SUBSET Arc /\ source \in Node /\ visited \subseteq Node
  BY DEF IInv, TypeOK, DijkstraTypeOK
<1>2. IsFiniteSet(path) /\ Cardinality(path) \in Nat
  BY <1>1, NetworkSizes, FS_Subset, FS_CardinalityType
<1>3. IsFiniteSet(T) /\ Cardinality(T) = max_num_nodes - 1
  BY <1>1, NetworkSizes, FS_RemoveElement
<1>4. \A a \in path : arc_head(a) \in T /\ a = prev[arc_head(a)]
  BY <1>1 DEF RouteOK
<1>5. f \in Injection(path, T)
  BY <1>4 DEF Injection, IsInjective
<1> HIDE DEF T, f
<1>6. Cardinality(path) <= Cardinality(T)
  BY <1>3, <1>5, FS_Injection
<1> QED  BY <1>2, <1>3, <1>6

LEMMA MeasureCharge ==
  ASSUME IInv, RouteOK, ChargeOK, Measure
  PROVE  ChargeOK'
<1> DEFINE arc == prev[walk]
           next == arc_tail(arc)
           here == potential[walk] - value[walk]
           there == potential[next] - value[next]
           end == potential[target] - value[target]
           k == Cardinality(path)
           m == highest
<1>1. /\ pc = "measure" /\ walk # source
      /\ path' = path \union {arc} /\ walk' = next
      /\ UNCHANGED <<networkVars, searchVars>>
  BY DEF Measure
<1>2. UNCHANGED <<graph, capacity, cost, potential, value, target>>
  BY <1>1 DEF networkVars, searchVars
<1>3. /\ SearchOK /\ NetworkTypeOK /\ walk \in Node /\ walk \in visited
      /\ target \in Node /\ visited \subseteq Node
      /\ \A a \in path : arc_head(a) # walk
      /\ \A n \in Node : value[n] \in Int /\ potential[n] \in Int
  BY <1>1 DEF IInv, CallOK, TypeOK, DijkstraTypeOK, NetworkTypeOK, RouteOK
<1>4. /\ arc \in Arc /\ arc_head(arc) = walk
      /\ value[walk] = value[next] + reduced_cost(arc)
  BY <1>1, <1>3, SearchFacts
<1>5. next \in Node /\ cost[arc] \in Int
  BY <1>3, <1>4, ArcFacts DEF NetworkTypeOK
<1>6. there - here = cost[arc]
  BY <1>3, <1>4, <1>5 DEF reduced_cost
<1>7. m \in Int /\ cost[arc] <= m
  BY <1>3, <1>4, HighestCost
<1>8. here \in Int /\ there \in Int /\ end \in Int
  BY <1>3, <1>5
<1>9. k \in Nat /\ Cardinality(path \union {arc}) = k + 1
  <2>1. arc \notin path
    BY <1>3, <1>4
  <2>2. IsFiniteSet(path) /\ k \in Nat
    BY <1>1, PathShort
  <2> QED  BY <2>1, <2>2, FS_AddElement
<1>10. here - end <= m * k
  BY <1>1 DEF ChargeOK
<1>11. highest' = m
  BY <1>2 DEF highest
<1>12. /\ (potential[walk] - value[walk])' = there
       /\ (potential[target] - value[target])' = end
       /\ Cardinality(path)' = Cardinality(path \union {arc})
  BY <1>1, <1>2
<1> HIDE DEF here, there, end, k, m, next
<1>13. m * (k + 1) = m * k + m /\ m * k \in Int
  BY <1>7, <1>9
<1>14. there - end <= m * (k + 1)
  BY <1>5, <1>6, <1>7, <1>8, <1>10, <1>13
<1> QED  BY <1>9, <1>11, <1>12, <1>14 DEF ChargeOK

LEMMA ChargeInvariant == Spec => []ChargeOK
<1>1. Init => ChargeOK
  BY DEF Init, ChargeOK
<1>2. IInv /\ AccountOK /\ ChargeOK /\ [Next]_vars => ChargeOK'
  <2> SUFFICES ASSUME IInv, AccountOK, ChargeOK, [Next]_vars PROVE ChargeOK'
    OBVIOUS
  <2>0. RouteOK
    BY DEF AccountOK
  <2>1. CASE \/ FirstCall \/ NextCall
             \/ \E s, d \in Node, amount \in Amounts : simple_mcf(s, d, amount)
    <3>1. PICK e, c, p : mcf_refinement(e, c, p)
      BY <2>1, AnyCall
    <3>2. calls \in Nat
      BY NetworksAssumption DEF IInv, TypeOK
    <3>3. pc' \in {"enforce", "idle"}
      BY <3>1, <3>2, CallBooks
    <3> QED  BY <3>3 DEF ChargeOK
  <2>2. CASE \/ EnforceSlackness \/ SlacknessEnforced \/ NextNode \/ FindSink \/ AllNodesDone
             \/ Search \/ SearchFailed \/ Commit
    BY <2>2 DEF EnforceSlackness, SlacknessEnforced, NextNode, FindSink, AllNodesDone, Search,
       SearchFailed, Commit, Return, solverVars, ChargeOK
  <2>3. CASE SearchSucceeded
    <3>1. /\ pc = "search" /\ target # NO_NODE /\ walk' = target /\ path' = {}
          /\ UNCHANGED <<networkVars, searchVars>>
      BY <2>3 DEF SearchSucceeded
    <3>2. UNCHANGED <<cost, potential, value, target>>
      BY <3>1 DEF networkVars, searchVars
    <3>3. /\ NetworkTypeOK /\ target \in Node
          /\ potential[target] \in Int /\ value[target] \in Int
      BY <3>1 DEF IInv, TypeOK, DijkstraTypeOK, NetworkTypeOK
    <3>4. Cardinality(path)' = 0
      BY <3>1, FS_EmptySet
    <3>5. highest' = highest
      BY <3>2 DEF highest
    <3>6. highest \in Int
      <4>1. target # source
        BY <3>1, TargetIsSink DEF IInv, CallOK, TypeOK, DijkstraTypeOK
      <4>2. value[target] < INFINITE
        BY <3>1, <3>3, SearchFacts DEF IInv, CallOK
      <4>3. prev[target] \in Arc
        BY <3>1, <3>3, <4>1, <4>2, SearchFacts DEF IInv, CallOK
      <4> QED  BY <3>3, <4>3, HighestCost
    <3> QED  BY <3>1, <3>2, <3>3, <3>4, <3>5, <3>6 DEF ChargeOK
  <2>4. CASE Measure
    BY <2>0, <2>4, MeasureCharge
  <2>5. CASE Measured \/ UNCHANGED vars
    <3>1. /\ UNCHANGED <<networkVars, searchVars>> /\ UNCHANGED <<walk, path>>
          /\ pc' \in {"measure", "commit"} => pc \in {"measure", "commit"}
      BY <2>5 DEF Measured, vars, solverVars
    <3>2. UNCHANGED <<cost, potential, value, target, walk, path>>
      BY <3>1 DEF networkVars, searchVars
    <3>3. highest' = highest
      BY <3>2 DEF highest
    <3> QED  BY <3>1, <3>2, <3>3 DEF ChargeOK
  <2> QED  BY <2>1, <2>2, <2>3, <2>4, <2>5 DEF Next, Running
<1> QED  BY Invariant, AccountInvariant, <1>1, <1>2, PTL DEF Spec

(* What an augmentation does to the excess of the two ends, and the capped *)
(* distances to the potentials.                                            *)
LEMMA CommitMonotone ==
  ASSUME IInv, AccountOK, ChargeOK, Commit
  PROVE  /\ \A n \in Node :
              \/ 0 <= excess'[n] /\ excess'[n] <= excess[n]
              \/ excess[n] <= excess'[n] /\ excess'[n] <= 0
         /\ potential[node_id] - potential'[node_id] = 0
         /\ \A n \in Node : potential[n] - potential'[n]
                              \in 0 .. potential[target] - potential'[target]
         /\ potential[node_id] - potential'[target] <= (max_num_nodes - 1) * highest
<1>1. pc = "commit" /\ RouteOK /\ ServedOK
  BY DEF Commit, AccountOK
<1>2. /\ SearchOK /\ target # NO_NODE /\ walk = source /\ source = node_id
      /\ excess[source] > 0 /\ \A n \in sinks : excess[n] < 0
      /\ NetworkTypeOK /\ source \in Node
      /\ \A n \in Node : /\ excess[n] \in Int /\ value[n] \in Int
                         /\ potential[n] \in Int
  BY <1>1 DEF IInv, CallOK, MeasureOK, TypeOK, DijkstraTypeOK, NetworkTypeOK, ServedOK
<1>3. target \in Node /\ excess[target] < 0
  BY <1>2, TargetIsSink DEF IInv, TypeOK, DijkstraTypeOK
<1>4. target # source /\ target \in visited
  BY <1>2, <1>3, SearchFacts
<1>5. value[source] = 0 /\ \A n \in Node : 0 <= value[n]
  BY <1>2, SearchFacts
<1>6. ASSUME NEW n \in Node
      PROVE  \/ 0 <= excess'[n] /\ excess'[n] <= excess[n]
             \/ excess[n] <= excess'[n] /\ excess'[n] <= 0
  <2>1. delta \in Nat /\ delta <= - excess[target] /\ delta <= excess[source]
    <3>1. delta \in Nat
      BY <1>1, DeltaFits
    <3>2. excess[source] \in Int /\ excess[target] \in Int /\ flow \in Int
      BY <1>2, <1>3, InfiniteAssumption DEF IInv, TypeOK
    <3> QED  BY <3>1, <3>2 DEF delta, MIN
  <2> HIDE DEF delta
  <2>2. excess'[n] = excess[n] + (IF n = target THEN delta ELSE 0)
                               - (IF n = source THEN delta ELSE 0)
    BY <1>1, CommitExcess
  <2>3. CASE n = target
    BY <1>2, <1>4, <2>1, <2>2, <2>3
  <2>4. CASE n = source
    BY <1>2, <1>4, <2>1, <2>2, <2>4
  <2>5. CASE n # target /\ n # source
    BY <1>2, <2>2, <2>5
  <2> QED  BY <2>3, <2>4, <2>5
<1>7. \A n \in Node : potential[n] - potential'[n] = MIN(value[target], value[n])
  <2> SUFFICES ASSUME NEW n \in Node
               PROVE  potential[n] - potential'[n] = MIN(value[target], value[n])
    OBVIOUS
  <2>1. potential'[n] = potential[n] - MIN(value[target], value[n])
    BY DEF Commit, new_potential
  <2> QED  BY <1>2, <1>3, <2>1 DEF MIN
<1>8. potential[node_id] - potential'[node_id] = 0
  BY <1>2, <1>3, <1>5, <1>7 DEF MIN
<1>9. potential[target] - potential'[target] = value[target]
  BY <1>2, <1>3, <1>7 DEF MIN
<1>10. \A n \in Node : potential[n] - potential'[n]
                         \in 0 .. potential[target] - potential'[target]
  BY <1>2, <1>3, <1>5, <1>7, <1>9 DEF MIN
<1>11. potential[node_id] - potential'[target] <= (max_num_nodes - 1) * highest
  <2> DEFINE k == Cardinality(path)
             m == highest
             N == max_num_nodes - 1
  <2>1. (potential[source] - value[source]) - (potential[target] - value[target]) <= m * k
    BY <1>1, <1>2 DEF ChargeOK
  <2>2. k \in Nat /\ k <= N /\ N \in Int
    BY <1>1, PathShort, SizesAssumption
  <2>3. m \in Int /\ m >= 0
    <3>1. value[target] < INFINITE
      BY <1>2, <1>3, <1>4, SearchFacts
    <3>2. prev[target] \in Arc
      BY <1>2, <1>3, <1>4, <3>1, SearchFacts
    <3> QED  BY <1>2, <3>2, HighestCost
  <2>4. potential'[target] = potential[target] - value[target]
    <3>1. potential'[target] = potential[target] - MIN(value[target], value[target])
      BY <1>3 DEF Commit, new_potential
    <3> QED  BY <3>1 DEF MIN
  <2> DEFINE gap == potential[node_id] - potential'[target]
  <2>5. gap <= m * k /\ gap \in Int
    BY <1>2, <1>3, <1>5, <2>1, <2>4
  <2> HIDE DEF k, m, N, gap
  <2>6. m * k <= N * m /\ m * k \in Int /\ N * m \in Int
    BY <2>2, <2>3
  <2> QED  BY <2>5, <2>6 DEF gap, N, m
<1> QED  BY <1>6, <1>8, <1>10, <1>11

(* While paths are augmented, excess only goes down and deficits only up,  *)
(* potentials fall by no more than that of the target, and a search moves  *)
(* them no further apart than a path can cost.                             *)
THEOREM RoutingIsMonotone == Spec => RoutingMonotone
<1> DEFINE Monotone ==
      LET fall(n) == potential[n] - potential'[n]
      IN  /\ \A n \in Node :
               \/ 0 <= excess'[n] /\ excess'[n] <= excess[n]
               \/ excess[n] <= excess'[n] /\ excess'[n] <= 0
          /\ potential' # potential =>
               /\ fall(node_id) = 0
               /\ \A n \in Node : fall(n) \in 0 .. fall(target)
               /\ potential[node_id] - potential'[target]
                    <= (max_num_nodes - 1) * Max({cost[a] : a \in Arc})
<1>1. IInv /\ AccountOK /\ ChargeOK /\ [Next]_vars => [Routing => Monotone]_vars
  <2> SUFFICES ASSUME IInv, AccountOK, ChargeOK, Next, Routing PROVE Monotone
    OBVIOUS
  <2>1. \A n \in Node : excess[n] \in Int
    BY DEF IInv, TypeOK
  <2>2. CASE Commit
    <3>1. /\ \A n \in Node :
               \/ 0 <= excess'[n] /\ excess'[n] <= excess[n]
               \/ excess[n] <= excess'[n] /\ excess'[n] <= 0
          /\ potential[node_id] - potential'[node_id] = 0
          /\ \A n \in Node : potential[n] - potential'[n]
                               \in 0 .. potential[target] - potential'[target]
          /\ potential[node_id] - potential'[target] <= (max_num_nodes - 1) * highest
      BY <2>2, CommitMonotone
    <3> QED  BY <3>1, Zenon DEF highest
  <2>3. CASE ~ Commit
    <3>1. excess' = excess /\ potential' = potential
      <4>1. CASE Running
        <5>1. UNCHANGED networkVars /\ excess' = excess
          BY <2>3, <4>1 DEF Running, Routing, EnforceSlackness, SlacknessEnforced, NextNode,
             FindSink, AllNodesDone, Search, solverVars, SearchFailed, SearchSucceeded,
             Measure, Measured
        <5> QED  BY <5>1 DEF networkVars
      <4>2. CASE ~ Running
        <5>1. PICK e, c, p : mcf_refinement(e, c, p)
          BY <4>2, AnyCall DEF Next
        <5> QED  BY <5>1 DEF mcf_refinement, Routing
      <4> QED  BY <4>1, <4>2
    <3> QED  BY <2>1, <3>1
  <2> QED  BY <2>2, <2>3
<1> QED
  BY <1>1, Invariant, AccountInvariant, ChargeInvariant, PTL DEF Spec, RoutingMonotone
=============================================================================
