---------------------------- MODULE FixedCharge ----------------------------
(* solve_fcnfp of src/mcf/mcf/algorithm.c: an approximate solver of the    *)
(* fixed charge network flow problem, in which an arc that carries flow    *)
(* costs its charge as well.  Each round solves a minimum cost flow        *)
(* problem in which the charge is spread over the flow that the round      *)
(* before sent through the arc.                                            *)
(*                                                                         *)
(* The caller of solve_fcnfp is left open: module Constrained has two of   *)
(* them.  mcf_refinement is one step, what module McfRefinement shows it   *)
(* to do; its answer does not depend on the potentials, which are left     *)
(* out.  The variable cost of the network is the array mod_cost.           *)
EXTENDS ResidualNetwork

VARIABLES
  excess,               \* of every node
  step,                 \* of solve_fcnfp: "idle", "refine" and "compare" in
                        \* its loop, "done" when it returned, "aborted"
  unit_cost, charge,    \* its arguments cost and charge
  max_num_iterations,   \* its argument
  i,                    \* counter of its rounds
  prev_capacity,        \* the flow of the round before
  last_nonzero_cost,
  solved                \* its answer

fcnfpVars == <<step, unit_cost, charge, max_num_iterations, i, prev_capacity,
               last_nonzero_cost, solved>>

FixedChargeTypeOK ==
  /\ NetworkTypeOK
  /\ excess \in [Node -> Int]
  /\ step \in {"idle", "refine", "compare", "done", "aborted"}
  /\ unit_cost \in [ProblemArc -> Nat] /\ charge \in [ProblemArc -> Nat]
  /\ max_num_iterations \in Nat /\ i \in 0 .. max_num_iterations
  /\ prev_capacity \in [Arc -> Nat]
  /\ last_nonzero_cost \in [ProblemArc -> Nat]
  /\ solved \in BOOLEAN

NoRounds ==
  /\ step = "idle"
  /\ unit_cost = [a \in ProblemArc |-> 0] /\ charge = [a \in ProblemArc |-> 0]
  /\ max_num_iterations = 0 /\ i = 0
  /\ prev_capacity = [a \in Arc |-> 0]
  /\ last_nonzero_cost = [a \in ProblemArc |-> 0]
  /\ solved = FALSE

(* The minimum cost flow problem of a round.                               *)
Mcf == INSTANCE MinCostFlow WITH status <- "working"

flow_on(arc) == capacity[arc_dual(arc)]

(* flow_cost_with_charge of the flow in the network.                       *)
flow_cost_with_charge(c, s) ==
  MapThenSumSet(LAMBDA a : flow_on(a) * c[a] + IF flow_on(a) > 0 THEN s[a] ELSE 0,
                ProblemArc)

(* The first guess spreads the charge over the flow of an earlier call, or *)
(* over the whole capacity.                                                *)
initial_guess(c, s) ==
  [a \in ProblemArc |->
     c[a] + s[a] \div IF flow_on(a) > 0 THEN flow_on(a) ELSE Max({1, Mcf!total(a)})]

solve_fcnfp(c, s, n) ==
  /\ step' = "refine" /\ i' = 0 /\ solved' = FALSE
  /\ unit_cost' = c /\ charge' = s /\ max_num_iterations' = n
  /\ prev_capacity' = [a \in Arc |-> 0]
  /\ last_nonzero_cost' = c
  /\ cost' = antisymmetric(initial_guess(c, s))

(* What the calls of sendflow in mcf_refinement amount to when the network *)
(* holds flow f after them: capacity moves between an arc and its dual and *)
(* their sum stays.                                                        *)
carrying(f) ==
  [a \in Arc |-> IF arc_is_dual(a) THEN f[arc_dual(a)]
                 ELSE Mcf!total(a) - f[a]]

(* Mutant of remaining: flow is moved without updating the excess.         *)
remaining_forgotten(f) == excess

(* Each call takes what it moves from the excess of one node to that of    *)
(* another: the excess that flow f leaves in every node.                   *)
remaining(f) == [n \in Node |-> Mcf!Excess(f, n)]

(* mcf_refinement finds a cheapest flow.                                   *)
Refine ==
  /\ step = "refine" /\ i < max_num_iterations
  /\ LET cheapest == Min({Mcf!FlowCost(f) : f \in Mcf!FeasibleFlows})
     IN  \E f \in Mcf!FeasibleFlows :
           /\ Mcf!FlowCost(f) = cheapest
           /\ capacity' = carrying(f) /\ excess' = remaining(f)
  /\ step' = "compare" /\ solved' = TRUE
  /\ UNCHANGED <<graph, cost, potential, unit_cost, charge, max_num_iterations,
                 i, prev_capacity, last_nonzero_cost>>

(* It finds none, and leaves any flow; "this should only happen at the     *)
(* first trial", else the assertion stops the program.                     *)
RefineFails ==
  /\ step = "refine" /\ i < max_num_iterations
  /\ Mcf!FeasibleFlows = {}
  /\ \E f \in Mcf!Flows :
       /\ capacity' = carrying(f) /\ excess' = remaining(f)
  /\ step' = IF i = 0 THEN "done" ELSE "aborted"
  /\ UNCHANGED <<graph, cost, potential, unit_cost, charge, max_num_iterations,
                 i, prev_capacity, last_nonzero_cost, solved>>

(* The stopping criterion: this round found the flow of the one before.    *)
Stop ==
  /\ step = "compare" /\ prev_capacity = capacity
  /\ step' = "done"
  /\ UNCHANGED <<networkVars, excess, unit_cost, charge, max_num_iterations, i,
                 prev_capacity, last_nonzero_cost, solved>>

(* Mutant of slope: the charge is spread over the capacity again.          *)
slope_of_capacity(a) ==
  IF flow_on(a) > 0 THEN unit_cost[a] + charge[a] \div Mcf!total(a)
  ELSE last_nonzero_cost[a]

slope(a) ==
  IF flow_on(a) > 0 THEN unit_cost[a] + charge[a] \div flow_on(a)
  ELSE last_nonzero_cost[a]

(* The next round starts from the slopes of this flow.                     *)
NextRound ==
  /\ step = "compare" /\ prev_capacity # capacity
  /\ prev_capacity' = capacity
  /\ cost' = antisymmetric([a \in ProblemArc |-> slope(a)])
  /\ last_nonzero_cost' = [a \in ProblemArc |-> slope(a)]
  /\ i' = i + 1 /\ step' = "refine"
  /\ UNCHANGED <<graph, capacity, potential, excess, unit_cost, charge,
                 max_num_iterations, solved>>

NoRoundLeft ==
  /\ step = "refine" /\ i = max_num_iterations
  /\ step' = "done"
  /\ UNCHANGED <<networkVars, excess, unit_cost, charge, max_num_iterations, i,
                 prev_capacity, last_nonzero_cost, solved>>

Round == Refine \/ RefineFails \/ Stop \/ NextRound \/ NoRoundLeft
=============================================================================
