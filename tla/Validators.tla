------------------------------ MODULE Validators ------------------------------
(* The programs of src/example that test the solvers: ex-mcf-validate.c,   *)
(* ex-goldberg-tarjan-validate.c, ex-fcmcf-approx-validate.c and           *)
(* ex-constrained-fcmcf-validate.c.  Each reads a problem arc by arc into  *)
(* a graph and arrays whose sizes it computes from the number of arcs,     *)
(* calls its solver and asserts what it expects of the flow.               *)
(*                                                                         *)
(* This is where the two views of a network meet.  The program builds the  *)
(* arrays of module Graph, with arcs from 0 on, duals at the other side of *)
(* a bit and unused slots in between; the solvers work on the network of   *)
(* module ResidualNetwork, which is those arrays without the unused slots. *)
(* A call of a solver is one step, that does what the modules about the    *)
(* solvers show it to do.  The test cases of a file share nothing: one     *)
(* behaviour is one case.  pc is the place in solve_case:                  *)
(*   read     the loop over the arcs                                       *)
(*   solve    before the call of the solver                                *)
(*   improve  between solve_mcf and solve_fcnfp                            *)
(*   check    at the assertions after the call                             *)
(*   recheck  at those after the second call, if there is one              *)
EXTENDS Integers, Sequences, FiniteSets, FiniteSetsExt, SequencesExt

CONSTANTS Tests,      \* the cases: see TestsAssumption
          IndexWidth, Garbage

VARIABLES
  test,                                                 \* the case at hand
  pc, arcs_read,
  arc_tail, node_adjacency_first, node_adjacency_next,  \* struct graph
  capacity, cost, fixedcost, excess,                    \* the arrays
  result,                                               \* of the last call
  printed                                               \* costs, by name

graph == <<arc_tail, node_adjacency_first, node_adjacency_next>>
vars == <<test, pc, arcs_read, graph, capacity, cost, fixedcost, excess, result,
          printed>>
-----------------------------------------------------------------------------
N_nodes(t) == t.nodes
N_arcs(t) == Cardinality(DOMAIN t.from)
Constraint(t) == DOMAIN t.cost
N_constraints(t) == Cardinality(Constraint(t))

(* Mutant of next_bit: a power of two gets the bit it is.                  *)
next_bit_of_last(x) == Min({b \in 0 .. IndexWidth : 2^b >= x})

next_bit(x) == Min({b \in 0 .. IndexWidth : 2^b > x})

DUAL_BIT(t) == next_bit(N_arcs(t))

(* (1 << DUAL_BIT) | N_arcs: the bit is at least the highest of N_arcs.    *)
MAX_ARCS(t) ==
  IF N_arcs(t) < 2^DUAL_BIT(t) THEN 2^DUAL_BIT(t) + N_arcs(t) ELSE N_arcs(t)

Slot(t) == 0 .. MAX_ARCS(t) - 1

(* A problem the generators of src/python write: arcs between nodes, with  *)
(* positive capacities, an amount that can be sent, the cost of the best   *)
(* flow.  There are at least 2 * N_arcs + 1 slots, and Graph needs one for *)
(* every node.                                                             *)
ASSUME TestsAssumption ==
  \A t \in Tests :
    /\ t.program \in {"mcf", "goldberg_tarjan", "fcmcf", "constrained_fcmcf"}
    /\ N_nodes(t) \in Nat /\ N_nodes(t) <= 2 * N_arcs(t) + 1
    /\ {t.src, t.dst} \subseteq 0 .. N_nodes(t) - 1 /\ t.src # t.dst
    /\ t.amount \in Nat \ {0}
    /\ \A i \in 0 .. N_arcs(t) - 1 :
         /\ {t.from[i], t.to[i]} \subseteq 0 .. N_nodes(t) - 1
         /\ t.capacity[i] \in Nat \ {0}

(* The graph of a case, and the arcs of the problem.                       *)
Arrays(t) == INSTANCE Graph WITH
  max_num_nodes <- N_nodes(t), max_num_arcs <- MAX_ARCS(t),
  arc_dual_bit <- DUAL_BIT(t)

ProblemArc(t) == 0 .. N_arcs(t) - 1
Forward(t) == {i \in Slot(t) : ~ Arrays(t)!is_dual(i)}
-----------------------------------------------------------------------------
(* graph_new and tal_arrz.                                                 *)
Init ==
  \E t \in Tests :
    /\ test = t
    /\ pc = "read" /\ arcs_read = 0
    /\ Arrays(t)!Init
    /\ capacity = [i \in Slot(t) |-> 0]
    /\ cost = [k \in Constraint(t) |-> [i \in Slot(t) |-> 0]]
    /\ fixedcost = [k \in Constraint(t) |-> [i \in Slot(t) |-> 0]]
    /\ excess = [n \in 0 .. N_nodes(t) - 1 |-> 0]
    /\ result = FALSE /\ printed = << >>

(* The answer of graph_add_arc is not looked at.                           *)
add_arc(t, i) ==
  IF {i, Arrays(t)!arc_dual(i)} \subseteq Slot(t)
  THEN Arrays(t)!graph_add_arc(i, t.from[i], t.to[i])
  ELSE UNCHANGED graph

(* The cost of the dual is the caller's business as well.                  *)
with_dual(t, x, i, c) == [x EXCEPT ![i] = c, ![Arrays(t)!arc_dual(i)] = - c]

ReadArc(t) ==
  LET i == arcs_read
  IN  /\ t = test /\ pc = "read" /\ i < N_arcs(t)
      /\ arcs_read' = i + 1
      /\ add_arc(t, i)
      /\ capacity' = [capacity EXCEPT ![i] = t.capacity[i]]
      /\ cost' = [k \in Constraint(t) |-> with_dual(t, cost[k], i, t.cost[k][i])]
      /\ fixedcost' = [k \in Constraint(t) |->
                         [fixedcost[k] EXCEPT ![i] = t.charge[k][i]]]
      /\ UNCHANGED <<test, pc, excess, result, printed>>

(* What the programs make of the last line of a case; for the first of     *)
(* them simple_mcf does it.                                                *)
supply(t) == [excess EXCEPT ![t.src] = t.amount, ![t.dst] = - t.amount]

ReadAmount(t) ==
  /\ t = test /\ pc = "read" /\ arcs_read = N_arcs(t)
  /\ pc' = "solve"
  /\ excess' = supply(t)
  /\ UNCHANGED <<test, arcs_read, graph, capacity, cost, fixedcost, result, printed>>
-----------------------------------------------------------------------------
(* What the solvers see: the arcs of the problem and their duals.          *)
Seen(t, x) ==
  [a \in 0 .. 2 * N_arcs(t) - 1 |->
     IF a < N_arcs(t) THEN x[a] ELSE x[Arrays(t)!arc_dual(a - N_arcs(t))]]

Network(t) == INSTANCE MinCostFlow WITH
  max_num_nodes <- N_nodes(t), num_arcs <- N_arcs(t),
  graph <- [from |-> [i \in ProblemArc(t) |-> arc_tail[i]],
            to   |-> [i \in ProblemArc(t) |-> Arrays(t)!arc_head(i)]],
  capacity <- Seen(t, capacity), cost <- Seen(t, cost[0]),
  potential <- << >>, excess <- excess, status <- "working"

(* Mutant of CheapestFlows: mcf_refinement is given the costs of tmp_cost, *)
(* with charges spread over capacities, instead of cost.                   *)
CheapestFlows_of_tmp_cost(t) ==
  LET flows == Network(t)!FeasibleFlows
      spread(f) == MapThenSumSet(
        LAMBDA i : f[i] * (cost[0][i] + fixedcost[0][i] \div t.capacity[i]),
        ProblemArc(t))
  IN  {f \in flows : \A g \in flows : spread(f) <= spread(g)}

(* The flows that mcf_refinement and goldberg_tarjan_mcf may leave.        *)
CheapestFlows(t) ==
  LET flows == Network(t)!FeasibleFlows
  IN  {f \in flows : \A g \in flows : Network(t)!FlowCost(f) <= Network(t)!FlowCost(g)}

(* The capacities with flow f, which is on the duals.                      *)
holding(t, f) ==
  LET dual(i) == Arrays(t)!arc_dual(i)
  IN  [i \in Slot(t) |-> IF i \in ProblemArc(t) THEN capacity[i] + capacity[dual(i)] - f[i]
                         ELSE IF dual(i) \in ProblemArc(t) THEN f[dual(i)]
                         ELSE capacity[i]]

(* A call leaves one of the flows in S and nothing to send, or answers     *)
(* false if there are none.                                                *)
Call(t, S) ==
  /\ result' = (S # {})
  /\ IF S # {}
     THEN /\ \E f \in S : capacity' = holding(t, f)
          /\ excess' = [n \in DOMAIN excess |-> 0]
     ELSE UNCHANGED <<capacity, excess>>
  /\ UNCHANGED <<test, arcs_read, graph, cost, fixedcost>>

simple_mcf(t) ==
  /\ t = test /\ pc = "solve" /\ t.program = "mcf"
  /\ pc' = "check"
  /\ Call(t, CheapestFlows(t)) /\ UNCHANGED printed

goldberg_tarjan_mcf(t) ==
  /\ t = test /\ pc = "solve" /\ t.program = "goldberg_tarjan"
  /\ pc' = "check"
  /\ Call(t, CheapestFlows(t)) /\ UNCHANGED printed

(* Mutant of flow_cost: duals are not passed over.                         *)
flow_cost_of_all(t, x, k) ==
  MapThenSumSet(LAMBDA i : x[Arrays(t)!arc_dual(i)] * cost[k][i],
                {i \in Slot(t) : Arrays(t)!arc_dual(i) \in Slot(t)})

(* flow_cost passes over the duals; what it reads beyond the array is      *)
(* multiplied by the cost of an unused slot, which is 0.                   *)
flow_cost(t, x, k) ==
  MapThenSumSet(LAMBDA i : x[Arrays(t)!arc_dual(i)] * cost[k][i],
                {i \in Forward(t) : Arrays(t)!arc_dual(i) \in Slot(t)})

fixed_cost(t, x, k) ==
  MapThenSumSet(LAMBDA i : fixedcost[k][i],
                {i \in Forward(t) : /\ Arrays(t)!arc_enabled(i)
                                    /\ x[Arrays(t)!arc_dual(i)] > 0})

(* flow_cost_with_charge adds up the same, but passes over unused slots.   *)
compute_cost(t, x, k) == fixed_cost(t, x, k) + flow_cost(t, x, k)

(* solve_mcf works on copies: the flow it finds is gone when it returns,   *)
(* only the cost of it is kept.  It asserts that there is one.             *)
solve_mcf(t) ==
  /\ t = test /\ pc = "solve" /\ t.program = "fcmcf"
  /\ pc' = "improve"
  /\ result' = (CheapestFlows(t) # {})
  /\ IF result'
     THEN \E f \in CheapestFlows(t) :
            printed' = [mcf_solution |-> compute_cost(t, holding(t, f), 0)]
     ELSE UNCHANGED printed
  /\ UNCHANGED <<test, arcs_read, graph, capacity, cost, fixedcost, excess>>

(* solve_fcnfp promises no more than a feasible flow.                      *)
solve_fcnfp(t) ==
  /\ t = test /\ pc = "improve" /\ t.program = "fcmcf"
  /\ pc' = "check"
  /\ Call(t, Network(t)!FeasibleFlows)
  /\ printed' = printed @@ [dynslope_solution |-> compute_cost(t, capacity', 0)]

(* flow_satisfy_constraints: how many bounds the flow in x meets.          *)
flow_satisfy_constraints(t, x) ==
  Cardinality({k \in Constraint(t) : compute_cost(t, x, k) <= t.bound[k]})

solve_constrained_fcnfp(t) ==
  /\ t = test /\ pc = "solve" /\ t.program = "constrained_fcmcf"
  /\ pc' = "check"
  /\ Call(t, Network(t)!FeasibleFlows)
  /\ printed' = [cost_constrained |-> compute_cost(t, capacity', 0),
                 satisfied_constraints |-> flow_satisfy_constraints(t, capacity')]

(* The second call starts from the flow of the first and has nothing left  *)
(* to send.                                                                *)
solve_fcnfp_again(t) ==
  /\ t = test /\ pc = "check" /\ t.program = "constrained_fcmcf"
  /\ pc' = "recheck"
  /\ Call(t, Network(t)!FeasibleFlows)
  /\ printed' = printed @@
       [cost_unconstrained |-> compute_cost(t, capacity', 0),
        satisfied_UNconstraints |-> flow_satisfy_constraints(t, capacity')]

Next ==
  \E t \in Tests :
    \/ ReadArc(t) \/ ReadAmount(t)
    \/ simple_mcf(t) \/ goldberg_tarjan_mcf(t)
    \/ solve_mcf(t) \/ solve_fcnfp(t)
    \/ solve_constrained_fcnfp(t) \/ solve_fcnfp_again(t)

Spec == Init /\ [][Next]_vars
-----------------------------------------------------------------------------
(* When the solver is called the arrays hold the problem and nothing else: *)
(* no arc was refused or fell onto the dual of another, a loop over the    *)
(* arcs of a node visits those of the problem and their duals once each,   *)
(* costs are antisymmetric, duals are empty.  That is what the modules     *)
(* about the solvers take for granted of a network.                        *)
NetworkAsRead ==
  pc = "solve" => \A t \in Tests : t = test =>
    LET P == ProblemArc(t)
        dual(i) == Arrays(t)!arc_dual(i)
    IN  /\ \A i \in P : /\ dual(i) \in Slot(t) \ P
                        /\ arc_tail[i] = t.from[i] /\ arc_tail[dual(i)] = t.to[i]
                        /\ capacity[i] = t.capacity[i] /\ capacity[dual(i)] = 0
        /\ \A i \in P, k \in Constraint(t) :
             cost[k][i] = t.cost[k][i] /\ cost[k][dual(i)] = - cost[k][i]
        /\ \A n \in DOMAIN excess :
             LET w == Arrays(t)!node_adjacency_loop(n)
             IN  /\ IsInjective(w)
                 /\ ToSet(w) = {i \in P : t.from[i] = n}
                               \union {dual(i) : i \in {j \in P : t.to[j] = n}}
        /\ \A i \in Slot(t) \ (P \union {dual(j) : j \in P}) :
             ~ Arrays(t)!arc_enabled(i) /\ capacity[i] = 0 /\ cost[0][i] = 0

(* node_balance, by the loop over the list of the node.                    *)
node_balance(t, n) ==
  MapThenSumSet(LAMBDA i : IF Arrays(t)!is_dual(i) THEN capacity[i]
                           ELSE - capacity[Arrays(t)!arc_dual(i)],
                ToSet(Arrays(t)!node_adjacency_loop(n)))

(* The assertions of the four programs: every call of a solver succeeds,   *)
(* the one in solve_mcf and the second of solve_fcnfp included; the amount *)
(* leaves the source and arrives at the destination and nothing stays on   *)
(* the way; the cost is the one the generator found to be the best.        *)
AssertionsHold ==
  /\ pc \in {"improve", "check", "recheck"} => result
  /\ pc \in {"check", "recheck"} => \A t \in Tests : t = test =>
       /\ \A n \in DOMAIN excess :
            /\ excess[n] = 0
            /\ node_balance(t, n) = CASE n = t.src -> - t.amount
                                      [] n = t.dst -> t.amount
                                      [] OTHER -> 0
       /\ t.program \in {"mcf", "goldberg_tarjan"} =>
            flow_cost(t, capacity, 0) = t.best_cost

(* What is printed next to the best cost is right, by the data of the case *)
(* alone: the number of solve_mcf is the cost, with charges, of a flow     *)
(* that is cheapest when charges are ignored; the others are the cost of   *)
(* the flow each call left and how many bounds that flow meets, taken      *)
(* before the next call replaces it.  With AssertionsHold, no cost of a    *)
(* flow that meets the bounds is below the best.                           *)
ReportedCostsRight ==
  \A t \in Tests : t = test =>
    LET variable(f, k) == MapThenSumSet(LAMBDA i : f[i] * t.cost[k][i], ProblemArc(t))
        charged(f, k) == MapThenSumSet(LAMBDA i : t.charge[k][i],
                                       {i \in ProblemArc(t) : f[i] > 0})
        full(f, k) == variable(f, k) + charged(f, k)
        left == [i \in ProblemArc(t) |-> t.capacity[i] - capacity[i]]
        met == Cardinality({k \in Constraint(t) : full(left, k) <= t.bound[k]})
        flows == Network(t)!FeasibleFlows
    IN  /\ pc = "improve" =>
             \E f \in flows :
               /\ \A g \in flows : variable(f, 0) <= variable(g, 0)
               /\ printed.mcf_solution = full(f, 0)
        /\ pc = "check" /\ t.program = "fcmcf" =>
             printed.dynslope_solution = full(left, 0)
        /\ pc = "check" /\ t.program = "constrained_fcmcf" =>
             /\ printed.cost_constrained = full(left, 0)
             /\ printed.satisfied_constraints = met
        /\ pc = "recheck" =>
             /\ printed.cost_unconstrained = full(left, 0)
             /\ printed.satisfied_UNconstraints = met
=============================================================================
