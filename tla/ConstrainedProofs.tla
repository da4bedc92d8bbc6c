-------------------------- MODULE ConstrainedProofs --------------------------
(* Theorems about Constrained and the FixedCharge it extends, for every    *)
(* network, every problem, all bounds of the loops and all decays of the   *)
(* multipliers.                                                            *)
EXTENDS Constrained, ResidualNetworkProofs

(* What a flow, the residual capacities of which are c, costs by unit      *)
(* costs u and charges s, and by cost function k of the problem.           *)
priced(c, u, s) ==
  SumOver([a \in ProblemArc |->
             c[arc_dual(a)] * u[a] + IF c[arc_dual(a)] > 0 THEN s[a] ELSE 0],
          ProblemArc)
featured(c, k) == priced(c, problem.cost[k], problem.charge[k])

Balanced == \A n \in Node : excess[n] = 0
Cheapest == \A f \in Mcf!FeasibleFlows : flow_cost <= Mcf!FlowCost(f)
nothing == [n \in Node |-> 0]

(* Where the call is, and what that says of its arguments.                 *)
PlaceOK ==
  /\ pc \in {"idle", "update"} <=> step = "idle"
  /\ pc \in {"first", "update", "round"} => result = "none"
  /\ pc \in {"alone", "first"} => ~ have_best_solution
  /\ pc \in {"update", "round"} => round > 0
  /\ pc = "round" => max_num_iterations > 0
  /\ pc = "alone" => max_num_iterations \in Iterations

(* Once a flow was found none is missing any more.                         *)
BalancedOK ==
  solved \/ result = "true" \/ pc \in {"update", "round"} => Balanced

(* A round after the first one starts from a flow; a call that started     *)
(* from one fails only if it makes no round.                               *)
RoundOK ==
  /\ step # "aborted"
  /\ step = "refine" => (solved <=> i > 0)
  /\ step = "compare" => solved /\ i < max_num_iterations
  /\ step = "done" /\ (result = "true" \/ pc = "round")
       => solved \/ max_num_iterations = 0

(* The costs of a round are the slopes of the flow of the round before.    *)
CostsOK ==
  /\ \A a \in ProblemArc : cost[a] \in Nat
  /\ step \in {"refine", "compare"} =>
       \A a \in ProblemArc : prev_capacity[arc_dual(a)] > 0 =>
         cost[a] = unit_cost[a] + charge[a] \div prev_capacity[arc_dual(a)]

CheapOK == step = "compare" => Cheapest

(* The best flow is one of the same problem, meets the constraints and     *)
(* costs what is remembered.                                               *)
BestIsSolution ==
  /\ Moved(capacity, excess, best_capacity, nothing)
  /\ Cardinality({k \in Constraint : featured(best_capacity, k) <= problem.bound[k]})
       = num_constraints
  /\ featured(best_capacity, 0) = best_solution

BestOK ==
  /\ have_best_solution => BestIsSolution
  /\ result = "true" /\ have_best_solution => capacity = best_capacity

IInv ==
  /\ TypeOK /\ PlaceOK /\ BalancedOK /\ RoundOK
  /\ CostsOK /\ CheapOK /\ StopsAtFixedPoint /\ BestOK
-----------------------------------------------------------------------------
(* The specification of the solvers sees the same network.                 *)
LEMMA AbstractFacts ==
  /\ Mcf!Node = Node /\ Mcf!ProblemArc = ProblemArc /\ Mcf!Arc = Arc
  /\ \A a : Mcf!arc_dual(a) = arc_dual(a)
  /\ \A a : Mcf!total(a) = capacity[a] + capacity[arc_dual(a)]
  /\ \A S : Mcf!Max(S) = Max(S)
  /\ \A n : Mcf!node_balance(n) = node_balance(n)
  /\ \A f, n : Mcf!Inflow(f, n) = SumOver(f, {a \in ProblemArc : graph.to[a] = n})
  /\ \A f, n : Mcf!Outflow(f, n) = SumOver(f, {a \in ProblemArc : graph.from[a] = n})
  /\ \A f : Mcf!FlowCost(f) = paid(f, cost)
<1>1. Mcf!Node = Node /\ Mcf!ProblemArc = ProblemArc /\ Mcf!Arc = Arc
  BY DEF Mcf!Node, Node, Mcf!ProblemArc, ProblemArc, Mcf!Arc, Arc
<1>2. \A a : Mcf!arc_dual(a) = arc_dual(a)
  BY DEF Mcf!arc_dual, arc_dual
<1>3. \A a : Mcf!total(a) = capacity[a] + capacity[arc_dual(a)]
  BY <1>2 DEF Mcf!total
<1>4. \A S : Mcf!Max(S) = Max(S)
  BY Zenon DEF Mcf!Max, Max
<1>5. ASSUME NEW n PROVE Mcf!node_balance(n) = node_balance(n)
  BY ZenonT(30) DEF Mcf!node_balance, node_balance,
     Mcf!MapThenSumSet, MapThenSumSet, Mcf!MapThenFoldSet, MapThenFoldSet,
     Mcf!node_adjacency, node_adjacency, Mcf!arc_tail, arc_tail,
     Mcf!arc_is_dual, arc_is_dual, Mcf!arc_dual, arc_dual, Mcf!Arc, Arc
<1>6. ASSUME NEW f, NEW n
      PROVE  Mcf!Inflow(f, n) = SumOver(f, {a \in ProblemArc : graph.to[a] = n})
  BY ZenonT(30) DEF Mcf!Inflow, SumOver, Mcf!MapThenSumSet, MapThenSumSet,
     Mcf!MapThenFoldSet, MapThenFoldSet, Mcf!ProblemArc, ProblemArc
<1>7. ASSUME NEW f, NEW n
      PROVE  Mcf!Outflow(f, n) = SumOver(f, {a \in ProblemArc : graph.from[a] = n})
  BY ZenonT(30) DEF Mcf!Outflow, SumOver, Mcf!MapThenSumSet, MapThenSumSet,
     Mcf!MapThenFoldSet, MapThenFoldSet, Mcf!ProblemArc, ProblemArc
<1>8. ASSUME NEW f PROVE Mcf!FlowCost(f) = paid(f, cost)
  BY ZenonT(30) DEF Mcf!FlowCost, paid, Mcf!MapThenSumSet, MapThenSumSet,
     Mcf!MapThenFoldSet, MapThenFoldSet, Mcf!ProblemArc, ProblemArc
<1> QED  BY <1>1, <1>2, <1>3, <1>4, <1>5, <1>6, <1>7, <1>8

LEMMA TotalValue ==
  \A a : Mcf!total(a) = capacity[a] + capacity[arc_dual(a)]
BY AbstractFacts

LEMMA SupplyValue ==
  \A n \in Node : Mcf!supply(n) = excess[n] - balance(capacity, n)
<1> SUFFICES ASSUME NEW n \in Node
             PROVE  Mcf!supply(n) = excess[n] - balance(capacity, n)
  OBVIOUS
<1>1. Mcf!node_balance(n) = balance(capacity, n)
  BY AbstractFacts, BalanceValue
<1> QED  BY <1>1 DEF Mcf!supply

LEMMA FlowSums ==
  \A f, n : /\ Mcf!Inflow(f, n) = SumOver(f, {a \in ProblemArc : graph.to[a] = n})
            /\ Mcf!Outflow(f, n) = SumOver(f, {a \in ProblemArc : graph.from[a] = n})
BY AbstractFacts

LEMMA CostValues ==
  flow_cost = spent(capacity, cost) /\ \A f : Mcf!FlowCost(f) = paid(f, cost)
<1>1. flow_cost = spent(capacity, cost)
  BY DEF flow_cost, spent
<1> QED  BY <1>1, AbstractFacts

(* The capacities of the problem arcs have a greatest.                     *)
LEMMA GreatestTotal ==
  ASSUME capacity \in [Arc -> Nat], NEW a \in ProblemArc
  PROVE  /\ Mcf!Max({Mcf!total(b) : b \in Mcf!ProblemArc}) \in Int
         /\ Mcf!total(a) <= Mcf!Max({Mcf!total(b) : b \in Mcf!ProblemArc})
         /\ Mcf!total(a) \in Nat /\ a \in Mcf!ProblemArc
<1> DEFINE h == [b \in ProblemArc |-> Mcf!total(b)]
           T == {Mcf!total(b) : b \in ProblemArc}
<1>1. \A b \in ProblemArc : Mcf!total(b) \in Nat
  BY DualFacts, TotalValue
<1>2. IsFiniteSet(T)
  <2>1. T = {h[b] : b \in ProblemArc}
    OBVIOUS
  <2> HIDE DEF h, T
  <2> QED  BY <2>1, NetworkSizes, ImageFinite
<1>3. T \subseteq Int /\ Mcf!total(a) \in T
  BY <1>1
<1>4. Max(T) \in Int /\ Mcf!total(a) <= Max(T)
  <2> HIDE DEF T
  <2>1. T # {}
    BY <1>3
  <2>2. Max(T) \in T /\ \A x \in T : x <= Max(T)
    BY <1>2, <1>3, <2>1, MinMaxFacts
  <2> QED  BY <1>3, <2>2
<1>5. {Mcf!total(b) : b \in Mcf!ProblemArc} = T /\ a \in Mcf!ProblemArc
  BY AbstractFacts
<1> HIDE DEF T
<1>6. Mcf!Max(T) = Max(T)
  BY AbstractFacts
<1> QED  BY <1>1, <1>4, <1>5, <1>6

(* A flow of the specification carries natural numbers, on no arc more     *)
(* than there is.                                                          *)
LEMMA FlowFacts ==
  ASSUME capacity \in [Arc -> Nat], NEW f \in Mcf!Flows, NEW a \in ProblemArc
  PROVE  f[a] \in Nat /\ f[a] <= Mcf!total(a) /\ Mcf!total(a) \in Nat
<1> DEFINE U == {Mcf!total(b) : b \in Mcf!ProblemArc}
<1>1. /\ Mcf!Max(U) \in Int /\ Mcf!total(a) \in Nat /\ a \in Mcf!ProblemArc
  BY GreatestTotal
<1>2. f \in [Mcf!ProblemArc -> 0 .. Mcf!Max(U)] /\ f[a] <= Mcf!total(a)
  BY <1>1 DEF Mcf!Flows
<1> HIDE DEF U
<1> QED  BY <1>1, <1>2

(* Sums over the arcs that enter and leave a node are integers.            *)
LEMMA FlowSumsType ==
  ASSUME NEW f, \A a \in ProblemArc : f[a] \in Int, NEW n
  PROVE  /\ SumOver(f, {a \in ProblemArc : graph.to[a] = n}) \in Int
         /\ SumOver(f, {a \in ProblemArc : graph.from[a] = n}) \in Int
<1> DEFINE In == {a \in ProblemArc : graph.to[a] = n}
           Out == {a \in ProblemArc : graph.from[a] = n}
<1>1. /\ IsFiniteSet(ProblemArc) /\ Integral(f, ProblemArc)
      /\ In \in SUBSET ProblemArc /\ Out \in SUBSET ProblemArc
  BY NetworkSizes DEF Integral
<1> HIDE DEF In, Out
<1>2. SumOver(f, In) \in Int /\ SumOver(f, Out) \in Int
  BY <1>1, SumType
<1> QED  BY <1>2 DEF In, Out

(* The flow in a network without excess is one of the feasible flows.      *)
LEMMA CurrentFlow ==
  ASSUME NetworkTypeOK, excess \in [Node -> Int], Balanced
  PROVE  Mcf!FeasibleFlows # {}
<1> DEFINE f == [a \in ProblemArc |-> capacity[arc_dual(a)]]
           U == {Mcf!total(b) : b \in Mcf!ProblemArc}
<1>1. /\ capacity \in [Arc -> Nat]
      /\ \A a \in ProblemArc : f[a] = capacity[arc_dual(a)] /\ f[a] \in Nat
  BY DualFacts DEF NetworkTypeOK
<1>2. ASSUME NEW a \in ProblemArc
      PROVE  f[a] \in 0 .. Mcf!Max(U) /\ f[a] <= Mcf!total(a)
  <2>1. /\ Mcf!Max(U) \in Int /\ Mcf!total(a) <= Mcf!Max(U) /\ Mcf!total(a) \in Nat
    BY <1>1, GreatestTotal
  <2>2. Mcf!total(a) = capacity[a] + f[a] /\ capacity[a] \in Nat
    BY <1>1, DualFacts, TotalValue
  <2> HIDE DEF U, f
  <2> QED  BY <1>1, <2>1, <2>2
<1>3. ASSUME NEW n \in Node PROVE Mcf!Excess(f, n) = 0
  <2> DEFINE In == SumOver(f, {a \in ProblemArc : graph.to[a] = n})
             Out == SumOver(f, {a \in ProblemArc : graph.from[a] = n})
             old == balance(capacity, n)
  <2>1. old = In - Out
    <3> HIDE DEF f
    <3> QED  BY <1>1, BalanceSplit
  <2>2. Mcf!Excess(f, n) = excess[n] - old + In - Out
    <3> HIDE DEF f
    <3> QED  BY SupplyValue, FlowSums DEF Mcf!Excess
  <2>3. excess[n] = 0
    BY DEF Balanced
  <2>4. In \in Int /\ Out \in Int
    <3> HIDE DEF f
    <3>1. \A a \in ProblemArc : f[a] \in Int
      BY <1>1
    <3> QED  BY <3>1, FlowSumsType
  <2> HIDE DEF In, Out, old, f
  <2> QED  BY <2>1, <2>2, <2>3, <2>4
<1>4. f \in [ProblemArc -> 0 .. Mcf!Max(U)]
  <2> HIDE DEF U
  <2> QED  BY <1>2
<1>5. f \in Mcf!Flows
  <2> HIDE DEF f
  <2> QED  BY <1>2, <1>4, AbstractFacts DEF Mcf!Flows
<1>6. f \in Mcf!FeasibleFlows
  <2> HIDE DEF f
  <2> QED  BY <1>3, <1>5, AbstractFacts DEF Mcf!FeasibleFlows
<1> QED  BY <1>6

(* Moving flow changes nothing in which flows are feasible.                *)
LEMMA FeasibleFlowsNext ==
  ASSUME graph' = graph,
         \A a \in ProblemArc : Mcf!total(a)' = Mcf!total(a),
         \A n \in Node : Mcf!supply(n)' = Mcf!supply(n)
  PROVE  Mcf!FeasibleFlows' = Mcf!FeasibleFlows
<1>1. Mcf!ProblemArc = ProblemArc /\ Mcf!Node = Node
  BY AbstractFacts
<1>2. Mcf!Flows' = Mcf!Flows
  <2> DEFINE T == {Mcf!total(a) : a \in Mcf!ProblemArc}
  <2>1. T' = T
    BY <1>1
  <2>2. Mcf!Max(T)' = Mcf!Max(T)
    <3> HIDE DEF T
    <3> QED  BY <2>1
  <2> HIDE DEF T
  <2>3. Mcf!Flows = {f \in [ProblemArc -> 0 .. Mcf!Max(T)] :
                       \A a \in ProblemArc : f[a] <= Mcf!total(a)}
    BY <1>1 DEF Mcf!Flows, T
  <2>4. Mcf!Flows' = {f \in [ProblemArc -> 0 .. Mcf!Max(T)'] :
                        \A a \in ProblemArc : f[a] <= Mcf!total(a)'}
    BY <1>1 DEF Mcf!Flows, T
  <2> QED  BY <2>2, <2>3, <2>4
<1>3. \A f : \A n \in Node : Mcf!Excess(f, n)' = Mcf!Excess(f, n)
  <2>1. (\A f, n : /\ Mcf!Inflow(f, n) = SumOver(f, {a \in ProblemArc : graph.to[a] = n})
                   /\ Mcf!Outflow(f, n) = SumOver(f, {a \in ProblemArc : graph.from[a] = n}))'
    BY FlowSums, PTL
  <2> SUFFICES ASSUME NEW f, NEW n \in Node
               PROVE  Mcf!Excess(f, n)' = Mcf!Excess(f, n)
    OBVIOUS
  <2>2. /\ Mcf!Inflow(f, n)' = SumOver(f, {a \in ProblemArc : graph'.to[a] = n})
        /\ Mcf!Outflow(f, n)' = SumOver(f, {a \in ProblemArc : graph'.from[a] = n})
    BY <2>1
  <2>3. /\ Mcf!Inflow(f, n)' = Mcf!Inflow(f, n)
        /\ Mcf!Outflow(f, n)' = Mcf!Outflow(f, n)
    BY <2>2, FlowSums
  <2> QED  BY <2>3 DEF Mcf!Excess
<1> QED  BY <1>1, <1>2, <1>3 DEF Mcf!FeasibleFlows

(* Flow that was moved, from there on or back.                             *)
LEMMA MovedOn ==
  ASSUME NetworkTypeOK, NEW c \in [Arc -> Nat], NEW d \in [Arc -> Nat],
         NEW b \in [Arc -> Nat], NEW e \in [Node -> Int], NEW g \in [Node -> Int],
         NEW h \in [Node -> Int], Moved(c, e, d, g), Moved(c, e, b, h)
  PROVE  Moved(d, g, b, h)
<1>1. \A a \in Arc : b[a] + b[arc_dual(a)] = d[a] + d[arc_dual(a)]
  BY DEF Moved
<1>2. \A n \in Node : h[n] - balance(b, n) = g[n] - balance(d, n)
  BY DEF Moved
<1> QED  BY <1>1, <1>2 DEF Moved

LEMMA MovedNowhere ==
  ASSUME NEW c, NEW e
  PROVE  Moved(c, e, c, e)
BY DEF Moved

(* What a call of mcf_refinement does to the flow: it carries f.           *)
LEMMA FlowMoves ==
  ASSUME NetworkTypeOK, excess \in [Node -> Int], NEW f \in Mcf!Flows,
         capacity' = carrying(f), excess' = remaining(f)
  PROVE  /\ capacity' \in [Arc -> Nat] /\ excess' \in [Node -> Int]
         /\ Moved(capacity, excess, capacity', excess')
         /\ \A a \in ProblemArc : capacity'[arc_dual(a)] = f[a] /\ f[a] \in Nat
<1>1. capacity \in [Arc -> Nat]
  BY DEF NetworkTypeOK
<1>2. ASSUME NEW a \in ProblemArc
      PROVE  /\ f[a] \in Nat /\ Mcf!total(a) - f[a] \in Nat
             /\ capacity[a] \in Nat /\ capacity[arc_dual(a)] \in Nat
             /\ Mcf!total(a) = capacity[a] + capacity[arc_dual(a)]
  <2>1. f[a] \in Nat /\ f[a] <= Mcf!total(a) /\ Mcf!total(a) \in Nat
    BY <1>1, FlowFacts
  <2>2. Mcf!total(a) - f[a] \in Nat
    BY <2>1
  <2> QED  BY <1>1, <2>1, <2>2, DualFacts, TotalValue
<1>3. capacity' \in [Arc -> Nat]
  <2>1. \A a \in Arc : IF arc_is_dual(a) THEN arc_dual(a) \in ProblemArc ELSE a \in ProblemArc
    BY DualFacts
  <2> QED  BY <1>2, <2>1 DEF carrying
<1>4. \A a \in ProblemArc : /\ capacity'[arc_dual(a)] = f[a]
                            /\ capacity'[a] = Mcf!total(a) - f[a]
  BY DualFacts DEF carrying
<1>5. ASSUME NEW a \in Arc
      PROVE  capacity'[a] + capacity'[arc_dual(a)] = capacity[a] + capacity[arc_dual(a)]
  <2>1. \A b \in ProblemArc :
          capacity'[b] + capacity'[arc_dual(b)] = capacity[b] + capacity[arc_dual(b)]
    <3> SUFFICES ASSUME NEW b \in ProblemArc
                 PROVE  capacity'[b] + capacity'[arc_dual(b)]
                          = capacity[b] + capacity[arc_dual(b)]
      OBVIOUS
    <3> QED  BY <1>2, <1>4
  <2>2. CASE arc_is_dual(a)
    <3>1. arc_dual(a) \in ProblemArc /\ arc_dual(arc_dual(a)) = a /\ arc_dual(a) \in Arc
      BY <2>2, DualFacts
    <3>2. capacity'[arc_dual(a)] + capacity'[a] = capacity[arc_dual(a)] + capacity[a]
      BY <2>1, <3>1
    <3>3. /\ capacity[a] \in Nat /\ capacity[arc_dual(a)] \in Nat
          /\ capacity'[a] \in Nat /\ capacity'[arc_dual(a)] \in Nat
      BY <1>1, <1>3, <3>1
    <3> QED  BY <3>2, <3>3
  <2> QED  BY <2>1, <2>2, DualFacts
<1>6. ASSUME NEW n \in Node
      PROVE  /\ excess'[n] \in Int
             /\ excess'[n] - balance(capacity', n) = excess[n] - balance(capacity, n)
  <2> DEFINE In == SumOver(f, {a \in ProblemArc : graph.to[a] = n})
             Out == SumOver(f, {a \in ProblemArc : graph.from[a] = n})
             new == balance(capacity', n)
             old == balance(capacity, n)
  <2>1. new = In - Out
    <3> DEFINE d == capacity'
    <3>1. d \in [Arc -> Nat] /\ \A a \in ProblemArc : f[a] = d[arc_dual(a)]
      BY <1>3, <1>4
    <3> HIDE DEF d
    <3>2. balance(d, n) = In - Out
      BY <3>1, BalanceSplit
    <3> QED  BY <3>2 DEF d
  <2>2. excess'[n] = excess[n] - old + In - Out
    <3>1. excess'[n] = Mcf!supply(n) + Mcf!Inflow(f, n) - Mcf!Outflow(f, n)
      BY DEF Mcf!Excess, remaining
    <3> QED  BY <3>1, SupplyValue, FlowSums
  <2>3. In \in Int /\ Out \in Int /\ old \in Int /\ excess[n] \in Int
    <3>1. \A a \in ProblemArc : f[a] \in Int
      BY <1>2
    <3>2. In \in Int /\ Out \in Int
      BY <3>1, FlowSumsType
    <3> QED  BY <1>1, <3>2, CarriedType
  <2> HIDE DEF In, Out, new, old
  <2>4. excess'[n] - new = excess[n] - old /\ excess'[n] \in Int
    BY <2>1, <2>2, <2>3
  <2> QED  BY <2>4 DEF new, old
<1>7. excess' \in [Node -> Int]
  BY <1>6 DEF remaining
<1>8. Moved(capacity, excess, capacity', excess')
  BY <1>5, <1>6 DEF Moved
<1> QED  BY <1>2, <1>3, <1>4, <1>7, <1>8

(* Capacities and supplies after a step.                                   *)
LEMMA TotalNext ==
  (\A a : Mcf!total(a) = capacity[a] + capacity[arc_dual(a)])'
BY TotalValue, PTL

LEMMA SupplyNext ==
  (\A n \in Node : Mcf!supply(n) = excess[n] - balance(capacity, n))'
BY SupplyValue, PTL

(* After flow was moved the same flows are feasible.                       *)
LEMMA FeasibleAfterMove ==
  ASSUME NetworkTypeOK, NetworkTypeOK', graph' = graph,
         excess \in [Node -> Int], excess' \in [Node -> Int],
         Moved(capacity, excess, capacity', excess')
  PROVE  Mcf!FeasibleFlows' = Mcf!FeasibleFlows
<1>1. ASSUME NEW a \in ProblemArc PROVE Mcf!total(a)' = Mcf!total(a)
  <2>1. arc_dual(a)' = arc_dual(a)
    BY DEF arc_dual
  <2>2. a \in Arc
    BY DualFacts
  <2> QED  BY <2>1, <2>2, TotalNext, TotalValue DEF Moved
<1>2. ASSUME NEW n \in Node PROVE Mcf!supply(n)' = Mcf!supply(n)
  <2>1. n \in Node'
    BY DEF Node
  <2>2. Mcf!supply(n)' = excess'[n] - balance(capacity, n)'
    BY <2>1, SupplyNext
  <2>3. balance(capacity, n)' = balance(capacity', n)
    BY BalanceNext
  <2>4. Mcf!supply(n) = excess[n] - balance(capacity, n)
    BY SupplyValue
  <2> QED  BY <2>2, <2>3, <2>4 DEF Moved
<1> QED  BY <1>1, <1>2, FeasibleFlowsNext

-----------------------------------------------------------------------------
(* A sum of natural numbers is one, and so is a quotient.                  *)
LEMMA SumNat ==
  ASSUME NEW S, IsFiniteSet(S), NEW f, \A x \in S : f[x] \in Nat
  PROVE  SumOver(f, S) \in Nat
<1> DEFINE zero == [x \in S |-> 0]
<1>1. Integral(f, S) /\ Integral(zero, S) /\ \A x \in S : zero[x] <= f[x]
  BY DEF Integral
<1>2. \A x \in S : zero[x] = 0
  OBVIOUS
<1> HIDE DEF zero
<1>3. SumOver(zero, S) <= SumOver(f, S)
  BY <1>1, SumMonotone
<1>4. SumOver(zero, S) = 0
  BY <1>2, SumZero
<1>5. SumOver(f, S) \in Int
  BY <1>1, SumType
<1> QED  BY <1>3, <1>4, <1>5

LEMMA DivNat ==
  ASSUME NEW x \in Nat, NEW y \in Nat \ {0}
  PROVE  x \div y \in Nat
OBVIOUS

LEMMA TimesNat ==
  ASSUME NEW x \in Nat, NEW y \in Nat
  PROVE  x * y \in Nat
OBVIOUS

LEMMA TimesPositive ==
  ASSUME NEW x \in Nat \ {0}, NEW y \in Nat \ {0}
  PROVE  x * y \in Nat \ {0}
OBVIOUS

(* The constraints are finitely many, the objective is one of them.        *)
LEMMA ConstraintFacts ==
  /\ 0 \in Constraint /\ IsFiniteSet(Constraint) /\ IsFiniteSet(Constraint \ {0})
  /\ Cardinality(Constraint) = num_constraints
<1>1. num_constraints \in Nat \ {0}
  BY ProblemsAssumption
<1>2. 0 \in Constraint /\ IsFiniteSet(Constraint)
  BY <1>1, FS_Interval DEF Constraint
<1>3. IsFiniteSet(Constraint \ {0})
  BY <1>2, FS_Subset
<1>4. Cardinality(Constraint) = num_constraints
  BY <1>1, FS_Interval DEF Constraint
<1> QED  BY <1>2, <1>3, <1>4

(* flow_cost_with_charge is the cost of the flow in the network.           *)
LEMMA PricedIsSum ==
  ASSUME NEW u, NEW v
  PROVE  flow_cost_with_charge(u, v) = priced(capacity, u, v)
<1> DEFINE S == ProblemArc
           e(x) == capacity[arc_dual(x)] * u[x]
                     + IF capacity[arc_dual(x)] > 0 THEN v[x] ELSE 0
           F == [x \in S |-> e(x)]
           next(g) == [s \in SUBSET S |-> IF s = {} THEN 0
                         ELSE e(CHOOSE x \in s : TRUE) + g[s \ {CHOOSE x \in s : TRUE}]]
           h == CHOOSE g : g = next(g)
<1>1. flow_cost_with_charge(u, v) = h[S]
  BY ZenonT(30) DEF flow_cost_with_charge, flow_on, MapThenSumSet, MapThenFoldSet
<1>2. \A s \in SUBSET S : s # {} => F[choice(s)] = e(choice(s))
  <2> HIDE DEF e
  <2> QED  BY ChoiceFacts
<1>3. \A g : next(g) = [s \in SUBSET S |-> IF s = {} THEN 0
                           ELSE F[choice(s)] + g[s \ {choice(s)}]]
  <2>1. \A g : next(g) = [s \in SUBSET S |-> IF s = {} THEN 0
                             ELSE e(choice(s)) + g[s \ {choice(s)}]]
    <3> HIDE DEF S, e
    <3> QED  BY Zenon DEF choice
  <2> HIDE DEF next, F, S, e
  <2> QED  BY <1>2, <2>1
<1>4. IsFiniteSet(S)
  BY NetworkSizes
<1>5. PICK g : Sums(F, g, S) /\ SumOver(F, S) = g[S]
  <2> HIDE DEF F
  <2> QED  BY <1>4, Unfold
<1>6. SumOver(F, S) = priced(capacity, u, v)
  BY DEF priced
<1> HIDE DEF F, S, next, e
<1>7. g = next(g)
  BY <1>3, <1>5 DEF Sums
<1>8. h = next(h)
  BY <1>7, Zenon
<1> HIDE DEF h
<1>9. Sums(F, h, S)
  BY <1>3, <1>8 DEF Sums
<1>10. h[S] = g[S]
  BY <1>4, <1>5, <1>9, SumsUnique
<1> QED  BY <1>1, <1>5, <1>6, <1>10

(* The terms that the multipliers add to a cost.                          *)
LEMMA CombinedIsSum ==
  ASSUME NEW c, NEW w, NEW a
  PROVE  MapThenSumSet(LAMBDA k : times_multiplier(c[k][a], w, k), Constraint \ {0})
           = SumOver([k \in Constraint \ {0} |-> times_multiplier(c[k][a], w, k)],
                     Constraint \ {0})
<1> DEFINE S == Constraint \ {0}
           e(x) == times_multiplier(c[x][a], w, x)
           F == [x \in S |-> e(x)]
           next(g) == [s \in SUBSET S |-> IF s = {} THEN 0
                         ELSE e(CHOOSE x \in s : TRUE) + g[s \ {CHOOSE x \in s : TRUE}]]
           h == CHOOSE g : g = next(g)
<1>1. MapThenSumSet(LAMBDA k : times_multiplier(c[k][a], w, k), Constraint \ {0}) = h[S]
  BY ZenonT(30) DEF MapThenSumSet, MapThenFoldSet
<1>2. \A s \in SUBSET S : s # {} => F[choice(s)] = e(choice(s))
  <2> HIDE DEF e
  <2> QED  BY ChoiceFacts
<1>3. \A g : next(g) = [s \in SUBSET S |-> IF s = {} THEN 0
                           ELSE F[choice(s)] + g[s \ {choice(s)}]]
  <2>1. \A g : next(g) = [s \in SUBSET S |-> IF s = {} THEN 0
                             ELSE e(choice(s)) + g[s \ {choice(s)}]]
    <3> HIDE DEF S, e
    <3> QED  BY Zenon DEF choice
  <2> HIDE DEF next, F, S, e
  <2> QED  BY <1>2, <2>1
<1>4. IsFiniteSet(S)
  BY ConstraintFacts
<1>5. PICK g : Sums(F, g, S) /\ SumOver(F, S) = g[S]
  <2> HIDE DEF F
  <2> QED  BY <1>4, Unfold
<1>6. SumOver(F, S) = SumOver([k \in Constraint \ {0} |-> times_multiplier(c[k][a], w, k)],
                             Constraint \ {0})
  OBVIOUS
<1> HIDE DEF F, S, next, e
<1>7. g = next(g)
  BY <1>3, <1>5 DEF Sums
<1>8. h = next(h)
  BY <1>7, Zenon
<1> HIDE DEF h
<1>9. Sums(F, h, S)
  BY <1>3, <1>8 DEF Sums
<1>10. h[S] = g[S]
  BY <1>4, <1>5, <1>9, SumsUnique
<1> QED  BY <1>1, <1>5, <1>6, <1>10

(* What they take off again.                                               *)
LEMMA RelaxedIsSum ==
  MapThenSumSet(LAMBDA k : relaxed(k), Constraint \ {0})
    = SumOver([k \in Constraint \ {0} |-> relaxed(k)], Constraint \ {0})
<1> DEFINE S == Constraint \ {0}
           e(x) == relaxed(x)
           F == [x \in S |-> e(x)]
           next(g) == [s \in SUBSET S |-> IF s = {} THEN 0
                         ELSE e(CHOOSE x \in s : TRUE) + g[s \ {CHOOSE x \in s : TRUE}]]
           h == CHOOSE g : g = next(g)
<1>1. MapThenSumSet(LAMBDA k : relaxed(k), Constraint \ {0}) = h[S]
  BY ZenonT(30) DEF MapThenSumSet, MapThenFoldSet
<1>2. \A s \in SUBSET S : s # {} => F[choice(s)] = e(choice(s))
  <2> HIDE DEF e
  <2> QED  BY ChoiceFacts
<1>3. \A g : next(g) = [s \in SUBSET S |-> IF s = {} THEN 0
                           ELSE F[choice(s)] + g[s \ {choice(s)}]]
  <2>1. \A g : next(g) = [s \in SUBSET S |-> IF s = {} THEN 0
                             ELSE e(choice(s)) + g[s \ {choice(s)}]]
    <3> HIDE DEF S, e
    <3> QED  BY Zenon DEF choice
  <2> HIDE DEF next, F, S, e
  <2> QED  BY <1>2, <2>1
<1>4. IsFiniteSet(S)
  BY ConstraintFacts
<1>5. PICK g : Sums(F, g, S) /\ SumOver(F, S) = g[S]
  <2> HIDE DEF F
  <2> QED  BY <1>4, Unfold
<1>6. SumOver(F, S) = SumOver([k \in Constraint \ {0} |-> relaxed(k)], Constraint \ {0})
  OBVIOUS
<1> HIDE DEF F, S, next, e
<1>7. g = next(g)
  BY <1>3, <1>5 DEF Sums
<1>8. h = next(h)
  BY <1>7, Zenon
<1> HIDE DEF h
<1>9. Sums(F, h, S)
  BY <1>3, <1>8 DEF Sums
<1>10. h[S] = g[S]
  BY <1>4, <1>5, <1>9, SumsUnique
<1> QED  BY <1>1, <1>5, <1>6, <1>10
-----------------------------------------------------------------------------
(* The cost of a flow is a natural number.                                 *)
LEMMA PricedNat ==
  ASSUME NEW c \in [Arc -> Nat], NEW u \in [ProblemArc -> Nat],
         NEW v \in [ProblemArc -> Nat]
  PROVE  priced(c, u, v) \in Nat
<1> DEFINE F == [a \in ProblemArc |->
                   c[arc_dual(a)] * u[a] + IF c[arc_dual(a)] > 0 THEN v[a] ELSE 0]
<1>1. ASSUME NEW a \in ProblemArc PROVE F[a] \in Nat
  <2>1. c[arc_dual(a)] \in Nat /\ u[a] \in Nat /\ v[a] \in Nat
    BY DualFacts
  <2>2. c[arc_dual(a)] * u[a] \in Nat
    BY <2>1, TimesNat
  <2>3. F[a] = c[arc_dual(a)] * u[a] + IF c[arc_dual(a)] > 0 THEN v[a] ELSE 0
    OBVIOUS
  <2> HIDE DEF F
  <2> QED  BY <2>1, <2>2, <2>3
<1>2. priced(c, u, v) = SumOver(F, ProblemArc)
  BY DEF priced
<1> HIDE DEF F
<1> QED  BY <1>1, <1>2, NetworkSizes, SumNat

LEMMA ProblemFacts ==
  ASSUME problem \in Problems, NEW k \in Constraint
  PROVE  /\ problem.cost[k] \in [ProblemArc -> Nat]
         /\ problem.charge[k] \in [ProblemArc -> Nat]
         /\ problem.bound[k] \in Nat \ {0}
BY ProblemsAssumption

LEMMA FeaturedNat ==
  ASSUME problem \in Problems, NEW c \in [Arc -> Nat], NEW k \in Constraint
  PROVE  featured(c, k) \in Nat
BY ProblemFacts, PricedNat DEF featured

LEMMA FeatureFacts ==
  \A k : feature_cost(k) = featured(capacity, k)
BY PricedIsSum DEF feature_cost, featured

LEMMA FeaturedNext ==
  ASSUME problem' = problem
  PROVE  \A k : featured(best_capacity, k)' = featured(best_capacity', k)
BY DEF featured, priced, arc_dual

(* How many cost functions a flow keeps within their bounds.               *)
LEMMA SatisfiedValue ==
  Satisfied <=> Cardinality({k \in Constraint : featured(capacity, k) <= problem.bound[k]})
                  = num_constraints
<1>1. {k \in Constraint : feature_cost(k) <= problem.bound[k]}
        = {k \in Constraint : featured(capacity, k) <= problem.bound[k]}
  BY FeatureFacts
<1> QED  BY <1>1 DEF Satisfied, flow_satisfy_constraints

(* The greater of two numbers.                                             *)
LEMMA MaxOfTwo ==
  ASSUME NEW x \in Int, NEW y \in Int
  PROVE  Max({x, y}) \in Int /\ x <= Max({x, y}) /\ y <= Max({x, y})
<1>1. IsFiniteSet({x, y}) /\ {x, y} \subseteq Int /\ {x, y} # {}
  <2>1. IsFiniteSet({x} \union {y})
    BY FS_Singleton, FS_AddElement
  <2>2. {x, y} = {x} \union {y}
    OBVIOUS
  <2> QED  BY <2>1, <2>2
<1> QED  BY <1>1, MinMaxFacts

(* Costs with which a call may begin.                                      *)
LEMMA GuessNat ==
  ASSUME capacity \in [Arc -> Nat], NEW u \in [ProblemArc -> Nat],
         NEW v \in [ProblemArc -> Nat]
  PROVE  initial_guess(u, v) \in [ProblemArc -> Nat]
<1> SUFFICES ASSUME NEW a \in ProblemArc
             PROVE  u[a] + v[a] \div (IF flow_on(a) > 0 THEN flow_on(a)
                                      ELSE Max({1, Mcf!total(a)})) \in Nat
  BY DEF initial_guess
<1> DEFINE y == IF flow_on(a) > 0 THEN flow_on(a) ELSE Max({1, Mcf!total(a)})
<1>1. flow_on(a) \in Nat /\ Mcf!total(a) \in Nat /\ u[a] \in Nat /\ v[a] \in Nat
  BY DualFacts, GreatestTotal DEF flow_on
<1>2. Max({1, Mcf!total(a)}) \in Int /\ 1 <= Max({1, Mcf!total(a)})
  BY <1>1, MaxOfTwo
<1>3. y \in Nat \ {0}
  BY <1>1, <1>2
<1> HIDE DEF y
<1>4. v[a] \div y \in Nat
  BY <1>1, <1>3, DivNat
<1>5. u[a] + v[a] \div y \in Nat
  BY <1>1, <1>4
<1> QED  BY <1>5 DEF y

(* The combined costs of a round.                                          *)
LEMMA CombinedNat ==
  ASSUME problem \in Problems, solution_lower_bound_0 \in Nat,
         NEW c \in [Constraint -> [ProblemArc -> Nat]], NEW w \in [Constraint -> Nat]
  PROVE  combined(c, w) \in [ProblemArc -> Nat]
<1> SUFFICES ASSUME NEW a \in ProblemArc
             PROVE  c[0][a] + MapThenSumSet(LAMBDA k : times_multiplier(c[k][a], w, k),
                                            Constraint \ {0}) \in Nat
  BY DEF combined
<1> DEFINE S == Constraint \ {0}
           F == [k \in S |-> times_multiplier(c[k][a], w, k)]
<1>1. ASSUME NEW k \in S PROVE F[k] \in Nat
  <2>1. c[k][a] \in Nat /\ w[k] \in Nat /\ problem.bound[k] \in Nat \ {0} /\ Unit \in Nat \ {0}
    BY ProblemFacts, ProblemsAssumption
  <2>2. c[k][a] * w[k] * solution_lower_bound_0 \in Nat
    BY <2>1, TimesNat
  <2>3. Unit * problem.bound[k] \in Nat \ {0}
    BY <2>1, TimesPositive
  <2>4. F[k] = (c[k][a] * w[k] * solution_lower_bound_0) \div (Unit * problem.bound[k])
    BY DEF times_multiplier
  <2> HIDE DEF F
  <2> QED  BY <2>2, <2>3, <2>4, DivNat
<1>2. MapThenSumSet(LAMBDA k : times_multiplier(c[k][a], w, k), Constraint \ {0})
        = SumOver(F, S)
  BY CombinedIsSum
<1>3. SumOver(F, S) \in Nat
  <2>1. IsFiniteSet(S)
    BY ConstraintFacts
  <2> HIDE DEF F, S
  <2> QED  BY <1>1, <2>1, SumNat
<1>4. c[0][a] \in Nat
  BY ConstraintFacts
<1> QED  BY <1>2, <1>3, <1>4

(* The bound that a round gives.                                           *)
LEMMA ModTotalInt ==
  ASSUME TypeOK
  PROVE  mod_total_cost \in Int
<1> DEFINE S == Constraint \ {0}
           F == [k \in S |-> relaxed(k)]
<1>1. ASSUME NEW k \in S PROVE F[k] \in Int
  <2>1. weight[k] \in Nat /\ solution_lower_bound_0 \in Nat /\ Unit \in Nat \ {0}
    BY ProblemsAssumption DEF TypeOK
  <2>2. - weight[k] * solution_lower_bound_0 \in Int
    BY <2>1
  <2>3. (- weight[k] * solution_lower_bound_0) \div Unit \in Int
    <3> DEFINE x == - weight[k] * solution_lower_bound_0
    <3> HIDE DEF x
    <3>1. x \in Int
      BY <2>2 DEF x
    <3>2. x \div Unit \in Int
      BY <2>1, <3>1
    <3> QED  BY <3>2 DEF x
  <2>4. relaxed(k) \in Int
    BY <2>3 DEF relaxed
  <2> QED  BY <2>4
<1>2. MapThenSumSet(LAMBDA k : relaxed(k), Constraint \ {0}) = SumOver(F, S)
  BY RelaxedIsSum
<1>3. SumOver(F, S) \in Int
  <2>1. IsFiniteSet(S) /\ Integral(F, S) /\ S \in SUBSET S
    BY <1>1, ConstraintFacts DEF Integral
  <2> HIDE DEF F, S
  <2> QED  BY <2>1, SumType
<1>4. flow_cost_with_charge(unit_cost, charge) \in Nat
  BY PricedIsSum, PricedNat DEF TypeOK, FixedChargeTypeOK, NetworkTypeOK
<1> HIDE DEF F, S
<1> QED  BY <1>2, <1>3, <1>4 DEF mod_total_cost

(* The slopes of a flow.                                                   *)
LEMMA SlopeNat ==
  ASSUME FixedChargeTypeOK
  PROVE  [a \in ProblemArc |-> slope(a)] \in [ProblemArc -> Nat]
<1> SUFFICES ASSUME NEW a \in ProblemArc PROVE slope(a) \in Nat
  OBVIOUS
<1>1. /\ flow_on(a) \in Nat /\ unit_cost[a] \in Nat /\ charge[a] \in Nat
      /\ last_nonzero_cost[a] \in Nat
  BY DualFacts DEF FixedChargeTypeOK, NetworkTypeOK, flow_on
<1>2. ASSUME flow_on(a) > 0 PROVE unit_cost[a] + charge[a] \div flow_on(a) \in Nat
  <2>1. charge[a] \div flow_on(a) \in Nat
    BY <1>1, <1>2, DivNat
  <2> QED  BY <1>1, <2>1
<1> QED  BY <1>1, <1>2 DEF slope

(* Antisymmetric costs of the residual network.                            *)
LEMMA AntisymmetricFacts ==
  ASSUME NEW c \in [ProblemArc -> Nat]
  PROVE  /\ antisymmetric(c) \in [Arc -> Int]
         /\ \A a \in Arc : antisymmetric(c)[arc_dual(a)] = - antisymmetric(c)[a]
         /\ \A a \in ProblemArc : antisymmetric(c)[a] = c[a]
<1>1. \A a \in Arc : antisymmetric(c)[a] = IF arc_is_dual(a) THEN - c[arc_dual(a)] ELSE c[a]
  BY DEF antisymmetric
<1>2. \A a \in ProblemArc :
        /\ antisymmetric(c)[a] = c[a] /\ antisymmetric(c)[arc_dual(a)] = - c[a]
        /\ c[a] \in Nat
  BY <1>1, DualFacts
<1>3. ASSUME NEW a \in Arc
      PROVE  /\ antisymmetric(c)[a] \in Int
             /\ antisymmetric(c)[arc_dual(a)] = - antisymmetric(c)[a]
  <2>1. CASE arc_is_dual(a)
    <3>1. arc_dual(a) \in ProblemArc /\ arc_dual(arc_dual(a)) = a
      BY <2>1, DualFacts
    <3> QED  BY <1>2, <3>1
  <2>2. CASE ~ arc_is_dual(a)
    <3>1. a \in ProblemArc
      BY <2>2, DualFacts
    <3> QED  BY <1>2, <3>1
  <2> QED  BY <2>1, <2>2
<1>4. antisymmetric(c) \in [Arc -> Int]
  BY <1>3 DEF antisymmetric
<1> QED  BY <1>2, <1>3, <1>4
-----------------------------------------------------------------------------
(* The cost of the network and of a flow as sums, before and after a step. *)
LEMMA CostSums ==
  /\ flow_cost = SumOver([a \in ProblemArc |-> capacity[arc_dual(a)] * cost[a]], ProblemArc)
  /\ \A f : Mcf!FlowCost(f) = SumOver([a \in ProblemArc |-> f[a] * cost[a]], ProblemArc)
BY CostValues, SpentIsSum, PaidIsSum

LEMMA CostSumsNext ==
  ( /\ flow_cost = SumOver([a \in ProblemArc |-> capacity[arc_dual(a)] * cost[a]], ProblemArc)
    /\ \A f : Mcf!FlowCost(f) = SumOver([a \in ProblemArc |-> f[a] * cost[a]], ProblemArc) )'
BY CostSums, PTL

LEMMA CostsAfter ==
  ASSUME cost' = cost
  PROVE  /\ \A f : Mcf!FlowCost(f)' = Mcf!FlowCost(f)
         /\ \A f : (\A a \in ProblemArc : capacity'[arc_dual(a)] = f[a])
                     => flow_cost' = Mcf!FlowCost(f)
         /\ capacity' = capacity => flow_cost' = flow_cost
<1>1. ProblemArc' = ProblemArc /\ \A a : arc_dual(a)' = arc_dual(a)
  BY DEF ProblemArc, arc_dual
<1>2. \A f : Mcf!FlowCost(f)' = Mcf!FlowCost(f)
  BY <1>1, CostSums, CostSumsNext
<1>3. flow_cost' = SumOver([a \in ProblemArc |-> capacity'[arc_dual(a)] * cost[a]], ProblemArc)
  BY <1>1, CostSumsNext
<1>4. ASSUME NEW f, \A a \in ProblemArc : capacity'[arc_dual(a)] = f[a]
      PROVE  flow_cost' = Mcf!FlowCost(f)
  <2>1. [a \in ProblemArc |-> capacity'[arc_dual(a)] * cost[a]]
          = [a \in ProblemArc |-> f[a] * cost[a]]
    BY <1>4
  <2> QED  BY <1>3, <2>1, CostSums
<1>5. capacity' = capacity => flow_cost' = flow_cost
  BY <1>3, CostSums
<1> QED  BY <1>2, <1>4, <1>5

(* A flow that is cheapest stays so while nothing changes.                 *)
LEMMA CheapestNext ==
  ASSUME NetworkTypeOK, NetworkTypeOK', graph' = graph, capacity' = capacity,
         cost' = cost, excess' = excess, excess \in [Node -> Int], Cheapest
  PROVE  Cheapest'
<1>1. Moved(capacity, excess, capacity', excess')
  BY MovedNowhere
<1>2. Mcf!FeasibleFlows' = Mcf!FeasibleFlows
  BY <1>1, FeasibleAfterMove
<1>3. flow_cost' = flow_cost /\ \A f : Mcf!FlowCost(f)' = Mcf!FlowCost(f)
  BY CostsAfter
<1> QED  BY <1>2, <1>3 DEF Cheapest

(* The feasible flows have a cheapest one.                                 *)
LEMMA FlowCostNat ==
  ASSUME capacity \in [Arc -> Nat], \A a \in ProblemArc : cost[a] \in Nat,
         NEW f \in Mcf!Flows
  PROVE  Mcf!FlowCost(f) \in Nat
<1> DEFINE F == [a \in ProblemArc |-> f[a] * cost[a]]
<1>1. ASSUME NEW a \in ProblemArc PROVE F[a] \in Nat
  <2>1. f[a] \in Nat /\ cost[a] \in Nat
    BY FlowFacts
  <2> QED  BY <2>1, TimesNat
<1>2. Mcf!FlowCost(f) = SumOver(F, ProblemArc)
  BY CostSums
<1> HIDE DEF F
<1> QED  BY <1>1, <1>2, NetworkSizes, SumNat

LEMMA LeastCost ==
  ASSUME NEW S, S \subseteq Nat, S # {}
  PROVE  Min(S) \in S /\ \A x \in S : Min(S) <= x
<1>1. PICK x \in S : TRUE
  OBVIOUS
<1> DEFINE T == {y \in S : y <= x}
<1>2. IsFiniteSet(T) /\ T \subseteq Int /\ T # {}
  <2>1. x \in Nat /\ \A y \in S : y \in Nat
    BY <1>1
  <2>2. \A y \in T : y \in 0 .. x /\ y \in Int
    BY <2>1
  <2>3. x \in T
    <3>1. x <= x
      BY <2>1
    <3> QED  BY <3>1
  <2>4. IsFiniteSet(0 .. x)
    BY <2>1, FS_Interval
  <2> HIDE DEF T
  <2> QED  BY <2>2, <2>3, <2>4, FS_Subset
<1>3. PICK m \in T : \A y \in T : m <= y
  <2> HIDE DEF T
  <2> QED  BY <1>2, LeastOfFinite
<1>4. m \in S /\ \A y \in S : m <= y
  <2>1. \A y \in S : y \in Nat /\ x \in Nat
    BY <1>1
  <2> QED  BY <1>3, <2>1
<1>5. \E y \in S : \A z \in S : y <= z
  BY <1>4
<1> QED  BY <1>5, Zenon DEF Min

LEMMA CheapestExists ==
  ASSUME capacity \in [Arc -> Nat], \A a \in ProblemArc : cost[a] \in Nat,
         NEW g \in Mcf!FeasibleFlows
  PROVE  Min({Mcf!FlowCost(f) : f \in Mcf!FeasibleFlows}) <= Mcf!FlowCost(g)
<1> DEFINE S == {Mcf!FlowCost(f) : f \in Mcf!FeasibleFlows}
<1>1. S \subseteq Nat
  BY FlowCostNat DEF Mcf!FeasibleFlows
<1>2. Mcf!FlowCost(g) \in S
  OBVIOUS
<1> HIDE DEF S
<1>3. Min(S) <= Mcf!FlowCost(g)
  BY <1>1, <1>2, LeastCost
<1> QED  BY <1>3 DEF S

(* The best flow of the call, after a step.                                *)
LEMMA BestBalanceNext ==
  ASSUME graph' = graph
  PROVE  \A n \in Node : balance(best_capacity, n)' = balance(best_capacity', n)
<1>1. \A a : arc_tail(a)' = arc_tail(a)
  BY DEF arc_tail, arc_is_dual, arc_dual
<1>2. \A a : carried(best_capacity, a)' = carried(best_capacity', a)
  BY DEF carried, arc_is_dual, arc_dual
<1> SUFFICES ASSUME NEW n \in Node
             PROVE  balance(best_capacity, n)' = balance(best_capacity', n)
  OBVIOUS
<1>3. node_adjacency(n)' = node_adjacency(n)
  BY <1>1 DEF node_adjacency, Arc
<1>4. [a \in Arc |-> carried(best_capacity, a)]' = [a \in Arc |-> carried(best_capacity', a)]
  BY <1>2 DEF Arc
<1> QED  BY <1>3, <1>4 DEF balance

LEMMA BestNext ==
  ASSUME graph' = graph, problem' = problem,
         Moved(capacity', excess', best_capacity', nothing),
         Cardinality({k \in Constraint : featured(best_capacity', k) <= problem.bound[k]})
           = num_constraints,
         featured(best_capacity', 0) = best_solution'
  PROVE  BestIsSolution'
<1>1. Moved(capacity, excess, best_capacity, nothing)'
  <2>1. \A a \in Arc : best_capacity'[a] + best_capacity'[arc_dual(a)]
                         = capacity'[a] + capacity'[arc_dual(a)]
    BY DEF Moved
  <2>2. \A n \in Node : nothing[n] - balance(best_capacity, n)'
                          = excess'[n] - balance(capacity, n)'
    BY BestBalanceNext, BalanceNext DEF Moved
  <2>3. Node' = Node /\ Arc' = Arc /\ nothing' = nothing /\ \A a : arc_dual(a)' = arc_dual(a)
    BY DEF Node, Arc, nothing, arc_dual
  <2> QED  BY <2>1, <2>2, <2>3 DEF Moved
<1>2. Constraint' = Constraint
  BY DEF Constraint
<1>3. {k \in Constraint : featured(best_capacity, k) <= problem.bound[k]}'
        = {k \in Constraint : featured(best_capacity', k) <= problem.bound[k]}
  BY <1>2, FeaturedNext
<1> QED  BY <1>1, <1>3, FeaturedNext DEF BestIsSolution
-----------------------------------------------------------------------------
(* The steps of solve_fcnfp leave its caller alone.                        *)
CallerWaits == UNCHANGED <<pc, arguments, round, weight, bounds, best, result>>

LEMMA CallerFacts ==
  ASSUME CallerWaits
  PROVE  /\ pc' = pc /\ problem' = problem /\ iterations' = iterations
         /\ tolerance' = tolerance /\ round' = round /\ weight' = weight
         /\ solution_lower_bound' = solution_lower_bound
         /\ solution_lower_bound_0' = solution_lower_bound_0
         /\ have_best_solution' = have_best_solution
         /\ best_solution' = best_solution /\ best_capacity' = best_capacity
         /\ result' = result
BY DEF CallerWaits, arguments, bounds, best

(* The best flow is still one while a call moves flow or does not.         *)
LEMMA BestKept ==
  ASSUME TypeOK, BestOK, CallerWaits, NetworkTypeOK', excess' \in [Node -> Int],
         graph' = graph, Moved(capacity, excess, capacity', excess')
  PROVE  have_best_solution' => BestIsSolution'
<1> SUFFICES ASSUME have_best_solution PROVE BestIsSolution'
  BY CallerFacts
<1>1. BestIsSolution
  BY DEF BestOK
<1>2. /\ NetworkTypeOK /\ capacity \in [Arc -> Nat] /\ capacity' \in [Arc -> Nat]
      /\ best_capacity \in [Arc -> Nat] /\ excess \in [Node -> Int]
      /\ nothing \in [Node -> Int]
  <2>1. Arc' = Arc
    BY DEF Arc
  <2> QED  BY <2>1 DEF TypeOK, FixedChargeTypeOK, NetworkTypeOK, nothing
<1>3. Moved(capacity', excess', best_capacity, nothing)
  <2> DEFINE d == capacity'
             g == excess'
  <2>1. d \in [Arc -> Nat] /\ g \in [Node -> Int] /\ Moved(capacity, excess, d, g)
    BY <1>2
  <2> HIDE DEF d, g
  <2>2. Moved(d, g, best_capacity, nothing)
    BY <1>1, <1>2, <2>1, MovedOn DEF BestIsSolution
  <2> QED  BY <2>2 DEF d, g
<1>4. best_capacity' = best_capacity /\ best_solution' = best_solution /\ problem' = problem
  BY CallerFacts
<1> QED  BY <1>1, <1>3, <1>4, BestNext DEF BestIsSolution

(* A call that runs has not returned: its caller waits for it.             *)
LEMMA RunningFacts ==
  ASSUME IInv, step # "idle"
  PROVE  /\ pc \in {"alone", "first", "round"}
         /\ result = "true" => pc = "alone" /\ ~ have_best_solution
BY DEF IInv, TypeOK, PlaceOK

LEMMA RefineKeeps ==
  ASSUME IInv, Refine, CallerWaits
  PROVE  IInv'
<1> DEFINE T == {Mcf!FlowCost(f) : f \in Mcf!FeasibleFlows}
<1>1. PICK f \in Mcf!FeasibleFlows :
        Mcf!FlowCost(f) = Min(T) /\ capacity' = carrying(f) /\ excess' = remaining(f)
  BY DEF Refine
<1>2. /\ step = "refine" /\ step' = "compare" /\ solved' = TRUE /\ i < max_num_iterations
      /\ graph' = graph /\ cost' = cost /\ potential' = potential
      /\ unit_cost' = unit_cost /\ charge' = charge /\ i' = i
      /\ max_num_iterations' = max_num_iterations
      /\ prev_capacity' = prev_capacity /\ last_nonzero_cost' = last_nonzero_cost
  BY DEF Refine
<1>3. /\ TypeOK /\ FixedChargeTypeOK /\ NetworkTypeOK /\ capacity \in [Arc -> Nat]
      /\ excess \in [Node -> Int] /\ \A a \in ProblemArc : cost[a] \in Nat
  BY DEF IInv, TypeOK, FixedChargeTypeOK, NetworkTypeOK, CostsOK
<1>4. f \in Mcf!Flows
  BY DEF Mcf!FeasibleFlows
<1>5. /\ capacity' \in [Arc -> Nat] /\ excess' \in [Node -> Int]
      /\ Moved(capacity, excess, capacity', excess')
      /\ \A a \in ProblemArc : capacity'[arc_dual(a)] = f[a]
  BY <1>1, <1>3, <1>4, FlowMoves
<1>6. NetworkTypeOK'
  BY <1>2, <1>3, <1>5 DEF NetworkTypeOK, ProblemArc, Node, Arc, arc_dual
<1>7. TypeOK'
  <2>1. FixedChargeTypeOK'
    BY <1>2, <1>3, <1>5, <1>6 DEF FixedChargeTypeOK, ProblemArc, Node, Arc
  <2> QED  BY <1>3, <2>1, CallerFacts DEF TypeOK, Constraint, Arc
<1>8. PlaceOK'
  BY <1>2, CallerFacts, RunningFacts DEF IInv, PlaceOK
<1>9. Balanced'
  <2>1. \A n \in Node : Mcf!Excess(f, n) = 0
    BY AbstractFacts DEF Mcf!FeasibleFlows
  <2> QED  BY <1>1, <2>1 DEF Balanced, remaining, Node
<1>10. RoundOK'
  BY <1>2 DEF RoundOK
<1>11. CostsOK'
  BY <1>2 DEF IInv, CostsOK, ProblemArc, arc_dual
<1>12. Cheapest'
  <2>1. Mcf!FeasibleFlows' = Mcf!FeasibleFlows
    BY <1>2, <1>3, <1>5, <1>6, FeasibleAfterMove
  <2>2. flow_cost' = Mcf!FlowCost(f) /\ \A g : Mcf!FlowCost(g)' = Mcf!FlowCost(g)
    BY <1>2, <1>5, CostsAfter
  <2>3. \A g \in Mcf!FeasibleFlows : Mcf!FlowCost(f) <= Mcf!FlowCost(g)
    BY <1>1, <1>3, CheapestExists
  <2> QED  BY <2>1, <2>2, <2>3 DEF Cheapest
<1>13. StopsAtFixedPoint'
  BY <1>2 DEF StopsAtFixedPoint
<1>14. BestOK'
  <2>1. have_best_solution' => BestIsSolution'
    BY <1>2, <1>3, <1>5, <1>6, BestKept DEF IInv
  <2>2. ~ (result' = "true" /\ have_best_solution')
    BY <1>2, CallerFacts, RunningFacts
  <2> QED  BY <2>1, <2>2 DEF BestOK
<1> QED  BY <1>7, <1>8, <1>9, <1>10, <1>11, <1>12, <1>13, <1>14
         DEF IInv, BalancedOK, CheapOK

(* mcf_refinement fails in the first round of a call only: before any      *)
(* other the network carries a flow that meets the supplies.               *)
LEMMA RefineFailsKeeps ==
  ASSUME IInv, RefineFails, CallerWaits
  PROVE  IInv'
<1>1. PICK f \in Mcf!Flows : capacity' = carrying(f) /\ excess' = remaining(f)
  BY DEF RefineFails
<1>2. /\ step = "refine" /\ i < max_num_iterations /\ Mcf!FeasibleFlows = {}
      /\ step' = IF i = 0 THEN "done" ELSE "aborted"
      /\ graph' = graph /\ cost' = cost /\ potential' = potential
      /\ unit_cost' = unit_cost /\ charge' = charge /\ i' = i /\ solved' = solved
      /\ max_num_iterations' = max_num_iterations
      /\ prev_capacity' = prev_capacity /\ last_nonzero_cost' = last_nonzero_cost
  BY DEF RefineFails
<1>3. /\ TypeOK /\ FixedChargeTypeOK /\ NetworkTypeOK /\ capacity \in [Arc -> Nat]
      /\ excess \in [Node -> Int]
  BY DEF IInv, TypeOK, FixedChargeTypeOK, NetworkTypeOK
<1>4. /\ capacity' \in [Arc -> Nat] /\ excess' \in [Node -> Int]
      /\ Moved(capacity, excess, capacity', excess')
  BY <1>1, <1>3, FlowMoves
<1>5. NetworkTypeOK'
  BY <1>2, <1>3, <1>4 DEF NetworkTypeOK, ProblemArc, Node, Arc, arc_dual
<1>6. ~ Balanced
  BY <1>2, <1>3, CurrentFlow
<1>7. ~ solved /\ result # "true" /\ pc # "round" /\ i = 0
  <2>1. ~ solved /\ result # "true" /\ pc # "round"
    BY <1>6 DEF IInv, BalancedOK
  <2>2. i \in Nat /\ ~ (i > 0)
    BY <1>2, <1>3, <2>1 DEF IInv, RoundOK, FixedChargeTypeOK
  <2> QED  BY <2>1, <2>2
<1>8. TypeOK'
  <2>1. FixedChargeTypeOK'
    BY <1>2, <1>3, <1>4, <1>5 DEF FixedChargeTypeOK, ProblemArc, Node, Arc
  <2> QED  BY <1>3, <2>1, CallerFacts DEF TypeOK, Constraint, Arc
<1>9. PlaceOK'
  BY <1>2, CallerFacts, RunningFacts DEF IInv, PlaceOK
<1>10. BalancedOK'
  BY <1>2, <1>7, CallerFacts, RunningFacts DEF BalancedOK
<1>11. RoundOK'
  BY <1>2, <1>7, CallerFacts DEF RoundOK
<1>12. CostsOK'
  BY <1>2, <1>7 DEF IInv, CostsOK, ProblemArc
<1>13. CheapOK' /\ StopsAtFixedPoint'
  BY <1>2, <1>7 DEF CheapOK, StopsAtFixedPoint
<1>14. BestOK'
  <2>1. have_best_solution' => BestIsSolution'
    BY <1>2, <1>3, <1>4, <1>5, BestKept DEF IInv
  <2> QED  BY <1>7, <2>1, CallerFacts DEF BestOK
<1> QED  BY <1>8, <1>9, <1>10, <1>11, <1>12, <1>13, <1>14 DEF IInv

(* The steps of solve_fcnfp between two calls of mcf_refinement.           *)
LEMMA SameFlow ==
  ASSUME TypeOK, BestOK, CallerWaits, NetworkTypeOK',
         graph' = graph, capacity' = capacity, excess' = excess
  PROVE  have_best_solution' => BestIsSolution'
<1>1. Moved(capacity, excess, capacity', excess')
  BY MovedNowhere
<1>2. excess' \in [Node -> Int]
  BY DEF TypeOK, FixedChargeTypeOK
<1> QED  BY <1>1, <1>2, BestKept

LEMMA StopKeeps ==
  ASSUME IInv, Stop, CallerWaits
  PROVE  IInv'
<1>1. /\ step = "compare" /\ prev_capacity = capacity /\ step' = "done"
      /\ graph' = graph /\ capacity' = capacity /\ cost' = cost /\ potential' = potential
      /\ excess' = excess /\ unit_cost' = unit_cost /\ charge' = charge /\ i' = i
      /\ max_num_iterations' = max_num_iterations /\ solved' = solved
      /\ prev_capacity' = prev_capacity /\ last_nonzero_cost' = last_nonzero_cost
  BY DEF Stop, networkVars
<1>2. /\ TypeOK /\ FixedChargeTypeOK /\ NetworkTypeOK /\ excess \in [Node -> Int]
  BY DEF IInv, TypeOK, FixedChargeTypeOK
<1>3. NetworkTypeOK'
  BY <1>1, <1>2 DEF NetworkTypeOK, ProblemArc, Node, Arc, arc_dual
<1>4. TypeOK'
  <2>1. FixedChargeTypeOK'
    BY <1>1, <1>2, <1>3 DEF FixedChargeTypeOK, ProblemArc, Node, Arc
  <2> QED  BY <1>2, <2>1, CallerFacts DEF TypeOK, Constraint, Arc
<1>5. PlaceOK'
  BY <1>1, CallerFacts, RunningFacts DEF IInv, PlaceOK
<1>6. BalancedOK'
  BY <1>1, CallerFacts DEF IInv, BalancedOK, Balanced, Node
<1>7. RoundOK'
  BY <1>1 DEF IInv, RoundOK
<1>8. CostsOK'
  BY <1>1 DEF IInv, CostsOK, ProblemArc
<1>9. StopsAtFixedPoint'
  <2>1. Cheapest'
    BY <1>1, <1>2, <1>3, CheapestNext DEF IInv, CheapOK
  <2>2. \A a \in ProblemArc :
          flow_on(a)' > 0 => cost'[a] = unit_cost'[a] + charge'[a] \div flow_on(a)'
    BY <1>1 DEF IInv, CostsOK, flow_on, arc_dual
  <2> QED  BY <2>1, <2>2 DEF StopsAtFixedPoint, Cheapest, ProblemArc
<1>10. BestOK'
  <2>1. have_best_solution' => BestIsSolution'
    BY <1>1, <1>2, <1>3, SameFlow DEF IInv
  <2>2. ~ (result' = "true" /\ have_best_solution')
    BY <1>1, CallerFacts, RunningFacts
  <2> QED  BY <2>1, <2>2 DEF BestOK
<1> QED  BY <1>1, <1>4, <1>5, <1>6, <1>7, <1>8, <1>9, <1>10 DEF IInv, CheapOK

LEMMA NextRoundKeeps ==
  ASSUME IInv, NextRound, CallerWaits
  PROVE  IInv'
<1> DEFINE slopes == [a \in ProblemArc |-> slope(a)]
<1>1. /\ step = "compare" /\ step' = "refine" /\ i' = i + 1
      /\ cost' = antisymmetric(slopes) /\ last_nonzero_cost' = slopes
      /\ prev_capacity' = capacity
      /\ graph' = graph /\ capacity' = capacity /\ potential' = potential
      /\ excess' = excess /\ unit_cost' = unit_cost /\ charge' = charge
      /\ max_num_iterations' = max_num_iterations /\ solved' = solved
  BY DEF NextRound
<1>2. /\ TypeOK /\ FixedChargeTypeOK /\ NetworkTypeOK /\ capacity \in [Arc -> Nat]
  BY DEF IInv, TypeOK, FixedChargeTypeOK, NetworkTypeOK
<1>3. slopes \in [ProblemArc -> Nat]
  BY <1>2, SlopeNat
<1>4. \A a \in ProblemArc : slopes[a] = slope(a)
  OBVIOUS
<1> HIDE DEF slopes
<1>5. /\ cost' \in [Arc -> Int] /\ \A a \in Arc : cost'[arc_dual(a)] = - cost'[a]
      /\ \A a \in ProblemArc : cost'[a] = slopes[a]
  BY <1>1, <1>3, AntisymmetricFacts
<1>6. NetworkTypeOK'
  BY <1>1, <1>2, <1>5 DEF NetworkTypeOK, ProblemArc, Node, Arc, arc_dual
<1>7. solved /\ i < max_num_iterations /\ i \in Nat /\ max_num_iterations \in Nat
  BY <1>1, <1>2 DEF IInv, RoundOK, FixedChargeTypeOK
<1>8. TypeOK'
  <2>1. i' \in 0 .. max_num_iterations
    BY <1>1, <1>7
  <2>2. FixedChargeTypeOK'
    BY <1>1, <1>2, <1>3, <1>6, <2>1 DEF FixedChargeTypeOK, ProblemArc, Node, Arc
  <2> QED  BY <1>2, <2>2, CallerFacts DEF TypeOK, Constraint, Arc
<1>9. PlaceOK'
  BY <1>1, CallerFacts, RunningFacts DEF IInv, PlaceOK
<1>10. BalancedOK'
  BY <1>1, CallerFacts DEF IInv, BalancedOK, Balanced, Node
<1>11. RoundOK'
  BY <1>1, <1>7 DEF RoundOK
<1>12. CostsOK'
  <2>1. \A a \in ProblemArc : cost'[a] \in Nat
    BY <1>3, <1>5
  <2>2. \A a \in ProblemArc : prev_capacity'[arc_dual(a)] > 0 =>
          cost'[a] = unit_cost'[a] + charge'[a] \div prev_capacity'[arc_dual(a)]
    BY <1>1, <1>4, <1>5 DEF slope, flow_on
  <2> QED  BY <2>1, <2>2 DEF CostsOK, ProblemArc, arc_dual
<1>13. CheapOK' /\ StopsAtFixedPoint'
  BY <1>1 DEF CheapOK, StopsAtFixedPoint
<1>14. BestOK'
  <2>1. have_best_solution' => BestIsSolution'
    BY <1>1, <1>2, <1>6, SameFlow DEF IInv
  <2>2. ~ (result' = "true" /\ have_best_solution')
    BY <1>1, CallerFacts, RunningFacts
  <2> QED  BY <2>1, <2>2 DEF BestOK
<1> QED  BY <1>8, <1>9, <1>10, <1>11, <1>12, <1>13, <1>14 DEF IInv

LEMMA NoRoundLeftKeeps ==
  ASSUME IInv, NoRoundLeft, CallerWaits
  PROVE  IInv'
<1>1. /\ step = "refine" /\ i = max_num_iterations /\ step' = "done"
      /\ graph' = graph /\ capacity' = capacity /\ cost' = cost /\ potential' = potential
      /\ excess' = excess /\ unit_cost' = unit_cost /\ charge' = charge /\ i' = i
      /\ max_num_iterations' = max_num_iterations /\ solved' = solved
      /\ prev_capacity' = prev_capacity /\ last_nonzero_cost' = last_nonzero_cost
  BY DEF NoRoundLeft, networkVars
<1>2. /\ TypeOK /\ FixedChargeTypeOK /\ NetworkTypeOK /\ max_num_iterations \in Nat
  BY DEF IInv, TypeOK, FixedChargeTypeOK
<1>3. NetworkTypeOK'
  BY <1>1, <1>2 DEF NetworkTypeOK, ProblemArc, Node, Arc, arc_dual
<1>4. TypeOK'
  <2>1. FixedChargeTypeOK'
    BY <1>1, <1>2, <1>3 DEF FixedChargeTypeOK, ProblemArc, Node, Arc
  <2> QED  BY <1>2, <2>1, CallerFacts DEF TypeOK, Constraint, Arc
<1>5. PlaceOK'
  BY <1>1, CallerFacts, RunningFacts DEF IInv, PlaceOK
<1>6. BalancedOK'
  BY <1>1, CallerFacts DEF IInv, BalancedOK, Balanced, Node
<1>7. RoundOK'
  BY <1>1, <1>2 DEF IInv, RoundOK
<1>8. CostsOK'
  BY <1>1 DEF IInv, CostsOK, ProblemArc
<1>9. CheapOK' /\ StopsAtFixedPoint'
  BY <1>1, <1>2 DEF CheapOK, StopsAtFixedPoint
<1>10. BestOK'
  <2>1. have_best_solution' => BestIsSolution'
    BY <1>1, <1>2, <1>3, SameFlow DEF IInv
  <2>2. ~ (result' = "true" /\ have_best_solution')
    BY <1>1, CallerFacts, RunningFacts
  <2> QED  BY <2>1, <2>2 DEF BestOK
<1> QED  BY <1>4, <1>5, <1>6, <1>7, <1>8, <1>9, <1>10 DEF IInv

LEMMA SolveKeeps ==
  ASSUME IInv, Solve
  PROVE  IInv'
<1>1. Round /\ CallerWaits
  BY DEF Solve, CallerWaits
<1> QED  BY <1>1, RefineKeeps, RefineFailsKeeps, StopKeeps, NextRoundKeeps,
            NoRoundLeftKeeps DEF Round
-----------------------------------------------------------------------------
(* A call of solve_fcnfp begins.                                           *)
LEMMA Begins ==
  ASSUME TypeOK, NEW c \in [ProblemArc -> Nat], NEW v \in [ProblemArc -> Nat],
         NEW n \in Nat, solve_fcnfp(c, v, n),
         graph' = graph, capacity' = capacity, potential' = potential, excess' = excess
  PROVE  /\ FixedChargeTypeOK' /\ CostsOK'
         /\ step' = "refine" /\ i' = 0 /\ solved' = FALSE /\ max_num_iterations' = n
<1>1. /\ step' = "refine" /\ i' = 0 /\ solved' = FALSE /\ max_num_iterations' = n
      /\ unit_cost' = c /\ charge' = v /\ last_nonzero_cost' = c
      /\ prev_capacity' = [a \in Arc |-> 0]
      /\ cost' = antisymmetric(initial_guess(c, v))
  BY DEF solve_fcnfp
<1>2. FixedChargeTypeOK /\ NetworkTypeOK /\ capacity \in [Arc -> Nat]
  BY DEF TypeOK, FixedChargeTypeOK, NetworkTypeOK
<1>3. initial_guess(c, v) \in [ProblemArc -> Nat]
  BY <1>2, GuessNat
<1>4. /\ cost' \in [Arc -> Int] /\ \A a \in Arc : cost'[arc_dual(a)] = - cost'[a]
      /\ \A a \in ProblemArc : cost'[a] \in Nat
  BY <1>1, <1>3, AntisymmetricFacts
<1>5. NetworkTypeOK'
  BY <1>2, <1>4 DEF NetworkTypeOK, ProblemArc, Node, Arc, arc_dual
<1>6. FixedChargeTypeOK'
  <2>1. prev_capacity' \in [Arc -> Nat] /\ i' \in 0 .. max_num_iterations'
    BY <1>1
  <2> QED  BY <1>1, <1>2, <1>5, <2>1 DEF FixedChargeTypeOK, ProblemArc, Node, Arc
<1>7. CostsOK'
  <2>1. \A a \in ProblemArc : ~ (prev_capacity'[arc_dual(a)] > 0)
    BY <1>1, DualFacts
  <2> QED  BY <1>4, <2>1 DEF CostsOK, ProblemArc, arc_dual
<1> QED  BY <1>1, <1>6, <1>7

(* A call of the user.                                                     *)
LEMMA CallKeeps ==
  ASSUME IInv, NEW place \in {"first", "alone"}, NEW n \in Nat, Call(place, n),
         place = "first" => result = "none", place = "alone" => n \in Iterations
  PROVE  IInv'
<1>1. /\ pc = "idle" /\ pc' = place /\ solve_fcnfp(problem.cost[0], problem.charge[0], n)
      /\ solution_lower_bound' = 0 /\ solution_lower_bound_0' = 0
      /\ have_best_solution' = FALSE /\ best_solution' = 0
      /\ best_capacity' = [a \in Arc |-> 0]
      /\ round' = 0 /\ weight' = [k \in Constraint |-> 0]
      /\ graph' = graph /\ capacity' = capacity /\ potential' = potential
      /\ excess' = excess /\ problem' = problem /\ iterations' = iterations
      /\ tolerance' = tolerance /\ result' = result
  BY DEF Call, NoBest, arguments
<1>2. TypeOK
  BY DEF IInv
<1>3. /\ problem.cost[0] \in [ProblemArc -> Nat] /\ problem.charge[0] \in [ProblemArc -> Nat]
  BY <1>2, ConstraintFacts, ProblemFacts DEF TypeOK
<1>4. /\ FixedChargeTypeOK' /\ CostsOK'
      /\ step' = "refine" /\ i' = 0 /\ solved' = FALSE /\ max_num_iterations' = n
  BY <1>1, <1>2, <1>3, Begins
<1>5. TypeOK'
  BY <1>1, <1>2, <1>4 DEF TypeOK, Constraint, Arc
<1>6. PlaceOK'
  BY <1>1, <1>4 DEF PlaceOK
<1>7. BalancedOK'
  BY <1>1, <1>4 DEF IInv, BalancedOK, Balanced, Node
<1>8. RoundOK' /\ CheapOK' /\ StopsAtFixedPoint' /\ BestOK'
  BY <1>1, <1>4 DEF RoundOK, CheapOK, StopsAtFixedPoint, BestOK
<1> QED  BY <1>4, <1>5, <1>6, <1>7, <1>8 DEF IInv

(* The end of a call leaves what solve_fcnfp worked with.                  *)
LEMMA Returned ==
  ASSUME NEW answer \in BOOLEAN, Return(answer)
  PROVE  /\ pc' = "idle" /\ step' = "idle" /\ result' = IF answer THEN "true" ELSE "false"
         /\ graph' = graph /\ cost' = cost /\ potential' = potential /\ excess' = excess
         /\ unit_cost' = unit_cost /\ charge' = charge /\ i' = i
         /\ max_num_iterations' = max_num_iterations /\ solved' = solved
         /\ prev_capacity' = prev_capacity /\ last_nonzero_cost' = last_nonzero_cost
         /\ problem' = problem /\ iterations' = iterations /\ tolerance' = tolerance
         /\ round' = round /\ weight' = weight
BY DEF Return, arguments

(* Types while solve_fcnfp does not run.                                   *)
LEMMA IdleTypes ==
  ASSUME TypeOK, capacity' \in [Arc -> Nat], step' = "idle",
         graph' = graph, cost' = cost, potential' = potential, excess' = excess,
         unit_cost' = unit_cost, charge' = charge, i' = i, solved' = solved,
         max_num_iterations' = max_num_iterations, prev_capacity' = prev_capacity,
         last_nonzero_cost' = last_nonzero_cost
  PROVE  FixedChargeTypeOK'
<1>1. FixedChargeTypeOK /\ NetworkTypeOK
  BY DEF TypeOK, FixedChargeTypeOK
<1>2. NetworkTypeOK'
  BY <1>1 DEF NetworkTypeOK, ProblemArc, Node, Arc, arc_dual
<1> QED  BY <1>1, <1>2 DEF FixedChargeTypeOK, ProblemArc, Node, Arc

LEMMA AloneReturnsKeeps ==
  ASSUME IInv, AloneReturns
  PROVE  IInv'
<1>1. TypeOK /\ solved \in BOOLEAN
  BY DEF IInv, TypeOK, FixedChargeTypeOK
<1>2. /\ pc = "alone" /\ step = "done" /\ Return(solved)
      /\ capacity' = capacity /\ solution_lower_bound' = solution_lower_bound
      /\ solution_lower_bound_0' = solution_lower_bound_0
      /\ have_best_solution' = have_best_solution
      /\ best_solution' = best_solution /\ best_capacity' = best_capacity
  BY DEF AloneReturns, bounds, best
<1>3. ~ have_best_solution
  BY <1>2 DEF IInv, PlaceOK
<1>4. TypeOK'
  <2>1. capacity' \in [Arc -> Nat]
    BY <1>1, <1>2 DEF TypeOK, FixedChargeTypeOK, NetworkTypeOK
  <2>2. FixedChargeTypeOK'
    BY <1>1, <1>2, <2>1, Returned, IdleTypes
  <2> QED  BY <1>1, <1>2, <2>2, Returned DEF TypeOK, Constraint, Arc
<1>5. PlaceOK' /\ RoundOK' /\ CheapOK' /\ StopsAtFixedPoint'
  BY <1>1, <1>2, Returned DEF PlaceOK, RoundOK, CheapOK, StopsAtFixedPoint
<1>6. BalancedOK'
  BY <1>1, <1>2, Returned DEF IInv, BalancedOK, Balanced, Node
<1>7. CostsOK'
  BY <1>1, <1>2, Returned DEF IInv, CostsOK, ProblemArc
<1>8. BestOK'
  BY <1>2, <1>3 DEF BestOK
<1> QED  BY <1>4, <1>5, <1>6, <1>7, <1>8 DEF IInv

LEMMA FirstReturnsKeeps ==
  ASSUME IInv, FirstReturns
  PROVE  IInv'
<1>1. TypeOK /\ solved \in BOOLEAN
  BY DEF IInv, TypeOK, FixedChargeTypeOK
<1>2. /\ pc = "first" /\ step = "done" /\ Return(solved) /\ capacity' = capacity
      /\ solution_lower_bound' = IF solved THEN feature_cost(0) ELSE solution_lower_bound
      /\ solution_lower_bound_0' = IF solved THEN feature_cost(0)
                                   ELSE solution_lower_bound_0
      /\ have_best_solution' = have_best_solution
      /\ best_solution' = best_solution /\ best_capacity' = best_capacity
  BY DEF FirstReturns, best
<1>3. ~ have_best_solution
  BY <1>2 DEF IInv, PlaceOK
<1>4. capacity \in [Arc -> Nat] /\ feature_cost(0) \in Nat
  <2>1. capacity \in [Arc -> Nat] /\ problem \in Problems
    BY <1>1 DEF TypeOK, FixedChargeTypeOK, NetworkTypeOK
  <2> QED  BY <2>1, ConstraintFacts, FeaturedNat, FeatureFacts
<1>5. TypeOK'
  <2>1. FixedChargeTypeOK'
    BY <1>1, <1>2, <1>4, Returned, IdleTypes
  <2> QED  BY <1>1, <1>2, <1>4, <2>1, Returned DEF TypeOK, Constraint, Arc
<1>6. PlaceOK' /\ RoundOK' /\ CheapOK' /\ StopsAtFixedPoint'
  BY <1>1, <1>2, Returned DEF PlaceOK, RoundOK, CheapOK, StopsAtFixedPoint
<1>7. BalancedOK'
  BY <1>1, <1>2, Returned DEF IInv, BalancedOK, Balanced, Node
<1>8. CostsOK'
  BY <1>1, <1>2, Returned DEF IInv, CostsOK, ProblemArc
<1>9. BestOK'
  BY <1>2, <1>3 DEF BestOK
<1> QED  BY <1>5, <1>6, <1>7, <1>8, <1>9 DEF IInv

LEMMA FirstViolatesKeeps ==
  ASSUME IInv, FirstViolates
  PROVE  IInv'
<1>1. TypeOK
  BY DEF IInv
<1>2. /\ pc = "first" /\ step = "done" /\ solved
      /\ solution_lower_bound' = feature_cost(0)
      /\ solution_lower_bound_0' = feature_cost(0)
      /\ pc' = "update" /\ step' = "idle" /\ round' = 1
      /\ graph' = graph /\ capacity' = capacity /\ cost' = cost /\ potential' = potential
      /\ excess' = excess /\ unit_cost' = unit_cost /\ charge' = charge /\ i' = i
      /\ max_num_iterations' = max_num_iterations /\ solved' = solved
      /\ prev_capacity' = prev_capacity /\ last_nonzero_cost' = last_nonzero_cost
      /\ problem' = problem /\ iterations' = iterations /\ tolerance' = tolerance
      /\ weight' = weight /\ have_best_solution' = have_best_solution
      /\ best_solution' = best_solution /\ best_capacity' = best_capacity
      /\ result' = result
  BY DEF FirstViolates, networkVars, arguments, best
<1>3. ~ have_best_solution /\ result = "none" /\ Balanced
  BY <1>2 DEF IInv, PlaceOK, BalancedOK
<1>4. capacity' \in [Arc -> Nat] /\ feature_cost(0) \in Nat
  <2>1. capacity \in [Arc -> Nat] /\ problem \in Problems
    BY <1>1 DEF TypeOK, FixedChargeTypeOK, NetworkTypeOK
  <2> QED  BY <1>2, <2>1, ConstraintFacts, FeaturedNat, FeatureFacts
<1>5. TypeOK'
  <2>1. FixedChargeTypeOK'
    BY <1>1, <1>2, <1>4, IdleTypes
  <2> QED  BY <1>1, <1>2, <1>4, <2>1 DEF TypeOK, Constraint, Arc
<1>6. PlaceOK'
  BY <1>2, <1>3 DEF PlaceOK
<1>7. BalancedOK'
  BY <1>2, <1>3 DEF BalancedOK, Balanced, Node
<1>8. RoundOK' /\ CheapOK' /\ StopsAtFixedPoint'
  BY <1>2 DEF RoundOK, CheapOK, StopsAtFixedPoint
<1>9. CostsOK'
  BY <1>2 DEF IInv, CostsOK, ProblemArc
<1>10. BestOK'
  BY <1>2, <1>3 DEF BestOK
<1> QED  BY <1>5, <1>6, <1>7, <1>8, <1>9, <1>10 DEF IInv

(* The multipliers of the next round.                                      *)
LEMMA WeightNat ==
  ASSUME TypeOK, PlaceOK, pc = "update", round < iterations, NEW k \in Constraint
  PROVE  new_weight(k) \in Nat
<1>1. /\ round \in Nat /\ round > 0 /\ iterations \in Iterations /\ iterations \in Nat
      /\ weight[k] \in Nat
  BY ProblemsAssumption DEF TypeOK, PlaceOK
<1>2. round \in 1 .. iterations - 1
  BY <1>1
<1>3. decay[round] \in 1 .. Unit /\ Unit \in Nat
  BY <1>1, <1>2, ProblemsAssumption
<1>4. decay[round] \in Int
  BY <1>3
<1> DEFINE x == weight[k] + decay[round] * IF feature_cost(k) > problem.bound[k]
                                           THEN 2 ELSE -1
<1>5. x \in Int
  BY <1>1, <1>4
<1>6. new_weight(k) = Max({0, x})
  BY DEF new_weight
<1> HIDE DEF x
<1>7. Max({0, x}) \in Int /\ 0 <= Max({0, x})
  <2> DEFINE z == 0
  <2>1. z \in Int
    OBVIOUS
  <2> HIDE DEF z
  <2>2. Max({z, x}) \in Int /\ z <= Max({z, x})
    BY <1>5, <2>1, MaxOfTwo
  <2> QED  BY <2>2 DEF z
<1> QED  BY <1>6, <1>7

LEMMA UpdateKeeps ==
  ASSUME IInv, UpdateMultipliers
  PROVE  IInv'
<1> DEFINE w == weight'
           c == combined(problem.cost, w)
           v == combined(problem.charge, w)
<1>1. /\ pc = "update" /\ round < iterations /\ pc' = "round"
      /\ weight' = [k \in Constraint |-> IF k = 0 THEN 0 ELSE new_weight(k)]
      /\ solve_fcnfp(c, v, FCNFP_iterations)
      /\ graph' = graph /\ capacity' = capacity /\ potential' = potential
      /\ excess' = excess /\ problem' = problem /\ iterations' = iterations
      /\ tolerance' = tolerance /\ round' = round
      /\ solution_lower_bound' = solution_lower_bound
      /\ solution_lower_bound_0' = solution_lower_bound_0
      /\ have_best_solution' = have_best_solution
      /\ best_solution' = best_solution /\ best_capacity' = best_capacity
      /\ result' = result
  BY DEF UpdateMultipliers, arguments, bounds, best
<1>2. TypeOK /\ PlaceOK
  BY DEF IInv
<1>3. /\ problem \in Problems /\ solution_lower_bound_0 \in Nat
      /\ problem.cost \in [Constraint -> [ProblemArc -> Nat]]
      /\ problem.charge \in [Constraint -> [ProblemArc -> Nat]]
  BY <1>2, ProblemsAssumption DEF TypeOK
<1>4. w \in [Constraint -> Nat]
  BY <1>1, <1>2, WeightNat
<1>5. c \in [ProblemArc -> Nat] /\ v \in [ProblemArc -> Nat]
  <2> HIDE DEF w
  <2> QED  BY <1>3, <1>4, CombinedNat
<1>6. FCNFP_iterations \in Nat \ {0}
  BY ProblemsAssumption
<1>7. /\ FixedChargeTypeOK' /\ CostsOK' /\ step' = "refine" /\ i' = 0
      /\ solved' = FALSE /\ max_num_iterations' = FCNFP_iterations
  <2> HIDE DEF c, v
  <2> QED  BY <1>1, <1>2, <1>5, <1>6, Begins
<1>8. TypeOK'
  BY <1>1, <1>2, <1>4, <1>7 DEF TypeOK, Constraint, Arc
<1>9. PlaceOK'
  BY <1>1, <1>2, <1>6, <1>7 DEF PlaceOK
<1>10. BalancedOK'
  BY <1>1 DEF IInv, BalancedOK, Balanced, Node
<1>11. RoundOK' /\ CheapOK' /\ StopsAtFixedPoint'
  BY <1>7 DEF RoundOK, CheapOK, StopsAtFixedPoint
<1>12. BestOK'
  <2>1. have_best_solution' => BestIsSolution'
    <3> SUFFICES ASSUME have_best_solution PROVE BestIsSolution'
      BY <1>1
    <3>1. BestIsSolution
      BY DEF IInv, BestOK
    <3> QED  BY <1>1, <3>1, BestNext DEF BestIsSolution
  <2>2. result' # "true"
    BY <1>1, <1>2 DEF PlaceOK
  <2> QED  BY <2>1, <2>2 DEF BestOK
<1> QED  BY <1>7, <1>8, <1>9, <1>10, <1>11, <1>12 DEF IInv

(* Where no node has excess, the flow of the network is one of the problem *)
(* of the best flow, even when the best flow has replaced it.              *)
LEMMA MovedToBest ==
  ASSUME Balanced, NEW c
  PROVE  Moved(c, excess, c, nothing)
BY DEF Balanced, Moved, nothing

LEMMA OutOfRoundsKeeps ==
  ASSUME IInv, OutOfRounds
  PROVE  IInv'
<1>1. TypeOK /\ PlaceOK
  BY DEF IInv
<1>2. /\ pc = "update" /\ Return(TRUE)
      /\ capacity' = IF have_best_solution THEN best_capacity ELSE capacity
      /\ solution_lower_bound' = solution_lower_bound
      /\ solution_lower_bound_0' = solution_lower_bound_0
      /\ have_best_solution' = have_best_solution
      /\ best_solution' = best_solution /\ best_capacity' = best_capacity
  BY DEF OutOfRounds, bounds, best, returned
<1>3. Balanced
  BY <1>2 DEF IInv, BalancedOK
<1>4. TypeOK'
  <2>1. capacity' \in [Arc -> Nat]
    BY <1>1, <1>2 DEF TypeOK, FixedChargeTypeOK, NetworkTypeOK
  <2>2. FixedChargeTypeOK'
    BY <1>1, <1>2, <2>1, Returned, IdleTypes
  <2> QED  BY <1>1, <1>2, <2>2, Returned DEF TypeOK, Constraint, Arc
<1>5. PlaceOK' /\ RoundOK' /\ CheapOK' /\ StopsAtFixedPoint'
  BY <1>2, Returned DEF PlaceOK, RoundOK, CheapOK, StopsAtFixedPoint
<1>6. BalancedOK'
  BY <1>2, <1>3, Returned DEF BalancedOK, Balanced, Node
<1>7. CostsOK'
  BY <1>2, Returned DEF IInv, CostsOK, ProblemArc
<1>8. BestOK'
  <2>1. have_best_solution => BestIsSolution
    BY DEF IInv, BestOK
  <2>2. ASSUME have_best_solution PROVE BestIsSolution'
    <3>1. Moved(best_capacity, excess, best_capacity, nothing)
      BY <1>3, MovedToBest
    <3> QED  BY <1>2, <2>1, <2>2, <3>1, Returned, BestNext DEF BestIsSolution
  <2> QED  BY <1>2, <2>2 DEF BestOK
<1> QED  BY <1>4, <1>5, <1>6, <1>7, <1>8 DEF IInv

LEMMA EndRoundKeeps ==
  ASSUME IInv, EndRound
  PROVE  IInv'
<1>1. TypeOK /\ PlaceOK
  BY DEF IInv
<1>2. /\ pc = "round" /\ step = "done" /\ solved /\ RememberBest /\ RaiseBound
      /\ IF WithinTolerance
         THEN Return(TRUE) /\ capacity' = returned(have_best_solution', best_capacity')
         ELSE /\ pc' = "update" /\ step' = "idle" /\ round' = round + 1
              /\ UNCHANGED <<networkVars, excess, unit_cost, charge, max_num_iterations,
                             i, prev_capacity, last_nonzero_cost, solved, arguments,
                             weight, result>>
  BY DEF EndRound
<1>3. /\ graph' = graph /\ cost' = cost /\ potential' = potential /\ excess' = excess
      /\ unit_cost' = unit_cost /\ charge' = charge /\ i' = i /\ step' = "idle"
      /\ max_num_iterations' = max_num_iterations /\ solved' = solved
      /\ prev_capacity' = prev_capacity /\ last_nonzero_cost' = last_nonzero_cost
      /\ problem' = problem /\ iterations' = iterations /\ tolerance' = tolerance
      /\ weight' = weight
  BY <1>2, Returned DEF networkVars, arguments
<1>4. \/ /\ pc' = "idle" /\ result' = "true" /\ round' = round
         /\ have_best_solution' /\ capacity' = best_capacity'
      \/ /\ pc' = "update" /\ result' = result /\ round' = round + 1
         /\ capacity' = capacity
  BY <1>2, Returned DEF networkVars, WithinTolerance, returned
<1>5. Balanced /\ result = "none"
  BY <1>1, <1>2 DEF IInv, BalancedOK, PlaceOK
<1>6. capacity \in [Arc -> Nat] /\ best_capacity \in [Arc -> Nat] /\ feature_cost(0) \in Nat
  <2>1. capacity \in [Arc -> Nat] /\ best_capacity \in [Arc -> Nat] /\ problem \in Problems
    BY <1>1 DEF TypeOK, FixedChargeTypeOK, NetworkTypeOK
  <2> QED  BY <2>1, ConstraintFacts, FeaturedNat, FeatureFacts
<1>7. \/ /\ Satisfied /\ have_best_solution' = TRUE
         /\ best_solution' = feature_cost(0) /\ best_capacity' = capacity
      \/ /\ have_best_solution' = have_best_solution
         /\ best_solution' = best_solution /\ best_capacity' = best_capacity
  BY <1>2 DEF RememberBest, best
<1>8. solution_lower_bound' \in Nat /\ solution_lower_bound_0' = solution_lower_bound_0
  <2>1. solution_lower_bound \in Nat
    BY <1>1 DEF TypeOK
  <2>2. mod_total_cost \in Int
    BY <1>1, ModTotalInt
  <2>3. /\ solution_lower_bound' = Max({solution_lower_bound, mod_total_cost})
        /\ solution_lower_bound_0' = solution_lower_bound_0
    BY <1>2 DEF RaiseBound
  <2> DEFINE x == solution_lower_bound
             y == mod_total_cost
  <2>4. x \in Int /\ y \in Int
    BY <2>1, <2>2
  <2> HIDE DEF x, y
  <2>5. Max({x, y}) \in Int /\ x <= Max({x, y})
    BY <2>4, MaxOfTwo
  <2> QED  BY <2>1, <2>3, <2>5 DEF x, y
<1>9. best_capacity' \in [Arc -> Nat] /\ capacity' \in [Arc -> Nat]
  BY <1>4, <1>6, <1>7
<1>10. TypeOK'
  <2>1. FixedChargeTypeOK'
    BY <1>1, <1>3, <1>9, IdleTypes
  <2>2. round' \in Nat
    BY <1>1, <1>4 DEF TypeOK
  <2>3. have_best_solution' \in BOOLEAN /\ best_solution' \in Nat
    BY <1>1, <1>6, <1>7 DEF TypeOK
  <2>4. pc' \in {"idle", "update"} /\ result' \in {"none", "true", "false"}
    BY <1>4, <1>5
  <2> QED  BY <1>1, <1>3, <1>8, <1>9, <2>1, <2>2, <2>3, <2>4
           DEF TypeOK, Constraint, Arc
<1>11. PlaceOK'
  <2>1. round \in Nat
    BY <1>1 DEF TypeOK
  <2> QED  BY <1>3, <1>4, <1>5, <2>1 DEF PlaceOK
<1>12. BalancedOK'
  BY <1>3, <1>5 DEF BalancedOK, Balanced, Node
<1>13. RoundOK' /\ CheapOK' /\ StopsAtFixedPoint'
  BY <1>3 DEF RoundOK, CheapOK, StopsAtFixedPoint
<1>14. CostsOK'
  BY <1>3 DEF IInv, CostsOK, ProblemArc
<1>15. BestOK'
  <2>1. ASSUME have_best_solution' PROVE BestIsSolution'
    <3>1. /\ Cardinality({k \in Constraint :
                            featured(best_capacity', k) <= problem.bound[k]})
               = num_constraints
          /\ featured(best_capacity', 0) = best_solution'
      <4>1. CASE /\ Satisfied /\ best_solution' = feature_cost(0)
                 /\ best_capacity' = capacity
        BY <4>1, SatisfiedValue, FeatureFacts
      <4>2. CASE /\ have_best_solution' = have_best_solution
                 /\ best_solution' = best_solution /\ best_capacity' = best_capacity
        BY <2>1, <4>2 DEF IInv, BestOK, BestIsSolution
      <4> QED  BY <1>7, <4>1, <4>2
    <3>2. Moved(capacity', excess, best_capacity', nothing)
      <4>1. CASE best_capacity' = capacity'
        BY <1>5, <4>1, MovedToBest
      <4>2. CASE capacity' = capacity /\ best_capacity' = best_capacity
                 /\ have_best_solution
        BY <4>2 DEF IInv, BestOK, BestIsSolution
      <4> QED  BY <1>4, <1>7, <2>1, <4>1, <4>2
    <3> QED  BY <1>3, <3>1, <3>2, BestNext
  <2>2. result' = "true" => capacity' = best_capacity'
    BY <1>4, <1>5
  <2> QED  BY <2>1, <2>2 DEF BestOK
<1> QED  BY <1>10, <1>11, <1>12, <1>13, <1>14, <1>15 DEF IInv
-----------------------------------------------------------------------------
LEMMA StartsWell ==
  ASSUME Init
  PROVE  IInv
<1>1. /\ graph \in [from : [ProblemArc -> Node], to : [ProblemArc -> Node]]
      /\ capacity \in [Arc -> Nat] /\ excess \in [Node -> Int]
  BY NetworksAssumption DEF Init
<1>2. /\ cost = [a \in Arc |-> 0] /\ potential = [n \in Node |-> 0]
      /\ pc = "idle" /\ result = "none" /\ step = "idle" /\ solved = FALSE
      /\ problem \in Problems /\ iterations \in Iterations /\ tolerance \in Tolerances
      /\ round = 0 /\ weight = [k \in Constraint |-> 0]
      /\ solution_lower_bound = 0 /\ solution_lower_bound_0 = 0
      /\ have_best_solution = FALSE /\ best_solution = 0
      /\ best_capacity = [a \in Arc |-> 0]
      /\ unit_cost = [a \in ProblemArc |-> 0] /\ charge = [a \in ProblemArc |-> 0]
      /\ max_num_iterations = 0 /\ i = 0 /\ prev_capacity = [a \in Arc |-> 0]
      /\ last_nonzero_cost = [a \in ProblemArc |-> 0]
  BY DEF Init, NoRounds
<1>3. NetworkTypeOK
  <2>1. \A a \in Arc : cost[arc_dual(a)] = - cost[a]
    <3>1. \A a \in Arc : arc_dual(a) \in Arc
      BY DualFacts
    <3>2. \A a \in Arc : cost[a] = 0 /\ cost[arc_dual(a)] = 0
      BY <1>2, <3>1
    <3> QED  BY <3>2
  <2> QED  BY <1>1, <1>2, <2>1 DEF NetworkTypeOK
<1>4. FixedChargeTypeOK
  <2>1. /\ unit_cost \in [ProblemArc -> Nat] /\ charge \in [ProblemArc -> Nat]
        /\ last_nonzero_cost \in [ProblemArc -> Nat] /\ prev_capacity \in [Arc -> Nat]
    BY <1>2
  <2>2. max_num_iterations \in Nat /\ i \in 0 .. max_num_iterations
    BY <1>2
  <2>3. step \in {"idle", "refine", "compare", "done", "aborted"} /\ solved \in BOOLEAN
    BY <1>2
  <2> QED  BY <1>1, <1>3, <2>1, <2>2, <2>3 DEF FixedChargeTypeOK
<1>5. TypeOK
  BY <1>2, <1>4 DEF TypeOK
<1>6. PlaceOK /\ BalancedOK /\ RoundOK /\ CheapOK /\ StopsAtFixedPoint /\ BestOK
  BY <1>2 DEF PlaceOK, BalancedOK, RoundOK, CheapOK, StopsAtFixedPoint, BestOK
<1>7. CostsOK
  BY <1>2, DualFacts DEF CostsOK
<1> QED  BY <1>5, <1>6, <1>7 DEF IInv

LEMMA NextKeeps ==
  ASSUME IInv, Next
  PROVE  IInv'
<1>1. CASE solve_constrained_fcnfp
  <2>1. result = "none" /\ Call("first", first_round_FCNFP_iterations)
    BY <1>1 DEF solve_constrained_fcnfp
  <2>2. first_round_FCNFP_iterations \in Nat
    BY ProblemsAssumption
  <2> QED  BY <2>1, <2>2, CallKeeps
<1>2. CASE solve_fcnfp_alone
  <2>1. PICK n \in Iterations : Call("alone", n)
    BY <1>2 DEF solve_fcnfp_alone
  <2>2. n \in Nat
    BY ProblemsAssumption
  <2> QED  BY <2>1, <2>2, CallKeeps
<1>3. CASE Running
  BY <1>3, SolveKeeps, AloneReturnsKeeps, FirstReturnsKeeps, FirstViolatesKeeps,
     UpdateKeeps, EndRoundKeeps, OutOfRoundsKeeps DEF Running
<1> QED  BY <1>1, <1>2, <1>3 DEF Next

(* Whatever does not change leaves the invariant as it is.                 *)
LEMMA StutterKeeps ==
  ASSUME IInv, UNCHANGED vars
  PROVE  IInv'
<1>1. /\ CallerWaits /\ graph' = graph /\ capacity' = capacity /\ cost' = cost
      /\ potential' = potential /\ excess' = excess /\ step' = step
      /\ unit_cost' = unit_cost /\ charge' = charge /\ i' = i
      /\ max_num_iterations' = max_num_iterations /\ solved' = solved
      /\ prev_capacity' = prev_capacity /\ last_nonzero_cost' = last_nonzero_cost
  BY DEF vars, networkVars, fcnfpVars, CallerWaits
<1>2. TypeOK /\ FixedChargeTypeOK /\ NetworkTypeOK /\ excess \in [Node -> Int]
  BY DEF IInv, TypeOK, FixedChargeTypeOK
<1>3. NetworkTypeOK'
  BY <1>1, <1>2 DEF NetworkTypeOK, ProblemArc, Node, Arc, arc_dual
<1>4. TypeOK'
  <2>1. FixedChargeTypeOK'
    BY <1>1, <1>2, <1>3 DEF FixedChargeTypeOK, ProblemArc, Node, Arc
  <2> QED  BY <1>1, <1>2, <2>1, CallerFacts DEF TypeOK, Constraint, Arc
<1>5. PlaceOK'
  BY <1>1, CallerFacts DEF IInv, PlaceOK
<1>6. BalancedOK'
  BY <1>1, CallerFacts DEF IInv, BalancedOK, Balanced, Node
<1>7. RoundOK'
  BY <1>1, CallerFacts DEF IInv, RoundOK
<1>8. CostsOK'
  BY <1>1 DEF IInv, CostsOK, ProblemArc, arc_dual
<1>9. CheapOK'
  BY <1>1, <1>2, <1>3, CheapestNext DEF IInv, CheapOK
<1>10. StopsAtFixedPoint'
  <2>1. ASSUME step = "done", solved, i < max_num_iterations
        PROVE  /\ Cheapest'
               /\ \A a \in ProblemArc :
                    flow_on(a)' > 0 => cost'[a] = unit_cost'[a] + charge'[a] \div flow_on(a)'
    <3>1. /\ Cheapest
          /\ \A a \in ProblemArc :
               flow_on(a) > 0 => cost[a] = unit_cost[a] + charge[a] \div flow_on(a)
      BY <2>1 DEF IInv, StopsAtFixedPoint, Cheapest
    <3>2. Cheapest'
      BY <1>1, <1>2, <1>3, <3>1, CheapestNext
    <3> QED  BY <1>1, <3>1, <3>2 DEF flow_on, arc_dual
  <2> QED  BY <1>1, <2>1 DEF StopsAtFixedPoint, Cheapest, ProblemArc
<1>11. BestOK'
  <2>1. have_best_solution' => BestIsSolution'
    BY <1>1, <1>2, <1>3, SameFlow DEF IInv
  <2> QED  BY <1>1, <2>1, CallerFacts DEF IInv, BestOK
<1> QED  BY <1>4, <1>5, <1>6, <1>7, <1>8, <1>9, <1>10, <1>11 DEF IInv

(* The invariant from which the theorems follow.                           *)
THEOREM Invariant == Spec => []IInv
<1>1. Init => IInv
  BY StartsWell
<1>2. IInv /\ [Next]_vars => IInv'
  BY NextKeeps, StutterKeeps
<1> QED  BY <1>1, <1>2, PTL DEF Spec

(* All variables of solve_fcnfp and of the loop over the multipliers keep  *)
(* their types.                                                            *)
THEOREM TypesCorrect == Spec => []TypeOK
<1>1. IInv => TypeOK
  BY DEF IInv
<1> QED  BY <1>1, Invariant, PTL

(* A call of solve_fcnfp that stops before its rounds are used up has      *)
(* found a flow that is cheapest for the very costs that spread the        *)
(* charges over it.                                                        *)
THEOREM FixedPointFound == Spec => []StopsAtFixedPoint
<1>1. IInv => StopsAtFixedPoint
  BY DEF IInv
<1> QED  BY <1>1, Invariant, PTL

(* What solve_constrained_fcnfp returns meets the supplies, and the        *)
(* constraints too if any of its rounds did, at the cost remembered.       *)
THEOREM BestReturned == Spec => []ReturnsBest
<1>1. ASSUME IInv, result = "true" PROVE \A n \in Node : excess[n] = 0
  BY <1>1 DEF IInv, BalancedOK, Balanced
<1>2. ASSUME IInv, result = "true", have_best_solution
      PROVE  Satisfied /\ feature_cost(0) = best_solution
  BY <1>2, SatisfiedValue, FeatureFacts DEF IInv, BestOK, BestIsSolution
<1>3. IInv => ReturnsBest
  BY <1>1, <1>2 DEF ReturnsBest
<1> QED  BY <1>3, Invariant, PTL

(* The best flow of solve_constrained_fcnfp only becomes cheaper, and is   *)
(* never dearer than a flow that a round has just found.                   *)
THEOREM BestNeverLost == Spec => BestOnlyImproves
<1> DEFINE A == pc = "round" =>
                  /\ have_best_solution =>
                       have_best_solution' /\ best_solution' <= best_solution
                  /\ step = "done" /\ Satisfied =>
                       have_best_solution' /\ best_solution' <= feature_cost(0)
<1>1. ASSUME IInv, Next PROVE A
  <2> SUFFICES ASSUME pc = "round" PROVE A
    OBVIOUS
  <2>1. best_solution \in Nat /\ feature_cost(0) \in Nat
    <3>1. capacity \in [Arc -> Nat] /\ problem \in Problems /\ best_solution \in Nat
      BY <1>1 DEF IInv, TypeOK, FixedChargeTypeOK, NetworkTypeOK
    <3> QED  BY <3>1, ConstraintFacts, FeaturedNat, FeatureFacts
  <2>2. CASE Solve
    <3>1. step # "done"
      BY <2>2 DEF Solve, Round, Refine, RefineFails, Stop, NextRound, NoRoundLeft
    <3>2. have_best_solution' = have_best_solution /\ best_solution' = best_solution
      BY <2>2 DEF Solve, best
    <3> QED  BY <2>1, <3>1, <3>2
  <2>3. CASE EndRound
    <3>1. RememberBest
      BY <2>3 DEF EndRound
    <3>2. CASE Satisfied /\ improves
      <4>1. have_best_solution' = TRUE /\ best_solution' = feature_cost(0)
        BY <3>1, <3>2 DEF RememberBest
      <4>2. ~ have_best_solution \/ best_solution > feature_cost(0)
        BY <3>2 DEF improves
      <4> QED  BY <2>1, <4>1, <4>2
    <3>3. CASE ~ (Satisfied /\ improves)
      <4>1. have_best_solution' = have_best_solution /\ best_solution' = best_solution
        BY <3>1, <3>3 DEF RememberBest, best
      <4>2. Satisfied => have_best_solution /\ ~ (best_solution > feature_cost(0))
        BY <3>3 DEF improves
      <4> QED  BY <2>1, <4>1, <4>2
    <3> QED  BY <3>2, <3>3
  <2>4. Solve \/ EndRound
    BY <1>1 DEF Next, Running, solve_constrained_fcnfp, solve_fcnfp_alone, Call,
       AloneReturns, FirstReturns, FirstViolates, UpdateMultipliers, OutOfRounds
  <2> QED  BY <2>2, <2>3, <2>4
<1> HIDE DEF A
<1>2. IInv /\ [Next]_vars => [A]_vars
  BY <1>1
<1>3. Spec => [][A]_vars
  BY <1>2, Invariant, PTL DEF Spec
<1> QED  BY <1>3 DEF BestOnlyImproves, A

(* The assertions of solve_fcnfp, of solve_constrained_fcnfp and of the    *)
(* validator hold: every call after one that succeeded starts from a flow  *)
(* that meets the supplies, and finds one in every round.  A user may not  *)
(* allow solve_fcnfp no round at all: it then answers false.               *)
THEOREM AssertionsNeverFail ==
  ASSUME 0 \notin Iterations
  PROVE  Spec => []AssertionsHold
<1>1. ASSUME IInv PROVE AssertionsHold
  <2>1. RoundOK /\ PlaceOK
    BY <1>1 DEF IInv
  <2>2. max_num_iterations \in Nat
    BY <1>1 DEF IInv, TypeOK, FixedChargeTypeOK
  <2>3. pc = "round" \/ pc = "alone" => max_num_iterations # 0
    BY <2>1, <2>2 DEF PlaceOK
  <2> QED  BY <2>1, <2>3 DEF RoundOK, AssertionsHold
<1>2. IInv => AssertionsHold
  BY <1>1
<1> QED  BY <1>2, Invariant, PTL
=============================================================================
