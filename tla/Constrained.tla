---------------------------- MODULE Constrained ----------------------------
(* solve_constrained_fcnfp of src/mcf/mcf/algorithm.c: a fixed charge flow *)
(* that also keeps other cost functions within bounds, by Lagrangian       *)
(* relaxation.  Every round changes the multipliers of the constraints,    *)
(* solves the fixed charge problem for the combined costs with solve_fcnfp *)
(* and remembers the best flow that meets all constraints.  A user may     *)
(* also call solve_fcnfp by itself.  pc is the place in the code:          *)
(*   idle     no call runs                                                 *)
(*   alone    a user's call of solve_fcnfp                                 *)
(*   first    the call of solve_fcnfp that ignores the constraints         *)
(*   update   the head of the loop                                         *)
(*   round    the call of solve_fcnfp in the loop                          *)
(*                                                                         *)
(* The multipliers are doubles in the code.  Here multiplier k is          *)
(* weight[k] / Unit * solution_lower_bound_0 / bound[k], and               *)
(* decay[r] / Unit stands for 1 / pow(r, decay_exponent).                  *)
EXTENDS FixedCharge, Sequences

CONSTANTS Graphs, Capacities, Supplies,
          num_constraints,   \* cost functions, the objective is number 0
          Problems,          \* [cost, charge, bound], of every cost function
          Iterations,        \* values of max_num_iterations
          Tolerances,        \* of tolerance, as percentages
          FCNFP_iterations, first_round_FCNFP_iterations,   \* 10 and 100
          Unit, decay

Constraint == 0 .. num_constraints - 1

ASSUME NetworksAssumption ==
  /\ Graphs \subseteq [from : [ProblemArc -> Node], to : [ProblemArc -> Node]]
  /\ Capacities \subseteq [Arc -> Nat] /\ Supplies \subseteq [Node -> Int]

ASSUME ProblemsAssumption ==
  /\ num_constraints \in Nat \ {0}
  /\ Problems \subseteq [cost : [Constraint -> [ProblemArc -> Nat]],
                         charge : [Constraint -> [ProblemArc -> Nat]],
                         bound : [Constraint -> Nat \ {0}]]
  /\ Iterations \subseteq Nat /\ Tolerances \subseteq Nat
  /\ FCNFP_iterations \in Nat \ {0} /\ first_round_FCNFP_iterations \in Nat \ {0}
  /\ Unit \in Nat \ {0}
  /\ \A n \in Iterations : \A r \in 1 .. n - 1 : decay[r] \in 1 .. Unit
  /\ 1 \in DOMAIN decay => decay[1] = Unit

VARIABLES
  pc, problem, iterations, tolerance,   \* the call and its arguments
  round,                                \* i of the code
  weight,
  solution_lower_bound, solution_lower_bound_0,
  have_best_solution, best_solution, best_capacity,
  result                                \* of the last call, "none" before it

arguments == <<problem, iterations, tolerance>>
bounds == <<solution_lower_bound, solution_lower_bound_0>>
best == <<have_best_solution, best_solution, best_capacity>>
vars == <<networkVars, excess, fcnfpVars, pc, arguments, round, weight, bounds,
          best, result>>

TypeOK ==
  /\ FixedChargeTypeOK
  /\ pc \in {"idle", "alone", "first", "update", "round"}
  /\ problem \in Problems /\ iterations \in Iterations /\ tolerance \in Tolerances
  /\ round \in Nat /\ weight \in [Constraint -> Nat]
  /\ solution_lower_bound \in Nat /\ solution_lower_bound_0 \in Nat
  /\ have_best_solution \in BOOLEAN /\ best_solution \in Nat
  /\ best_capacity \in [Arc -> Nat]
  /\ result \in {"none", "true", "false"}
-----------------------------------------------------------------------------
Init ==
  /\ graph \in Graphs /\ capacity \in Capacities /\ excess \in Supplies
  /\ cost = [a \in Arc |-> 0] /\ potential = [n \in Node |-> 0]
  /\ NoRounds
  /\ pc = "idle" /\ result = "none"
  /\ problem \in Problems /\ iterations \in Iterations /\ tolerance \in Tolerances
  /\ round = 0 /\ weight = [k \in Constraint |-> 0]
  /\ solution_lower_bound = 0 /\ solution_lower_bound_0 = 0
  /\ have_best_solution = FALSE /\ best_solution = 0
  /\ best_capacity = [a \in Arc |-> 0]

(* The cost of the flow in the network by cost function k.                 *)
feature_cost(k) == flow_cost_with_charge(problem.cost[k], problem.charge[k])

flow_satisfy_constraints ==
  Cardinality({k \in Constraint : feature_cost(k) <= problem.bound[k]})

Satisfied == flow_satisfy_constraints = num_constraints

NoBest ==
  /\ solution_lower_bound' = 0 /\ solution_lower_bound_0' = 0
  /\ have_best_solution' = FALSE /\ best_solution' = 0
  /\ best_capacity' = [a \in Arc |-> 0]
  /\ round' = 0 /\ weight' = [k \in Constraint |-> 0]

(* A call solves on the flow and the excess that the one before has left.  *)
Call(place, n) ==
  /\ pc = "idle" /\ pc' = place
  /\ solve_fcnfp(problem.cost[0], problem.charge[0], n)
  /\ NoBest
  /\ UNCHANGED <<graph, capacity, potential, excess, arguments, result>>

solve_constrained_fcnfp ==
  /\ result = "none"
  /\ Call("first", first_round_FCNFP_iterations)

(* By itself, first of all or again after a call that has succeeded, as    *)
(* the validator of the constrained problem does.                          *)
solve_fcnfp_alone ==
  /\ result # "false"
  /\ \E n \in Iterations : Call("alone", n)

(* One step of solve_fcnfp, whoever called it.                             *)
Solve ==
  /\ Round
  /\ UNCHANGED <<pc, arguments, round, weight, bounds, best, result>>

(* The end of either call.                                                 *)
Return(answer) ==
  /\ pc' = "idle" /\ step' = "idle" /\ result' = IF answer THEN "true" ELSE "false"
  /\ UNCHANGED <<graph, cost, potential, excess, unit_cost, charge,
                 max_num_iterations, i, prev_capacity, last_nonzero_cost, solved,
                 arguments, round, weight>>

AloneReturns ==
  /\ pc = "alone" /\ step = "done"
  /\ Return(solved)
  /\ UNCHANGED <<capacity, bounds, best>>

(* Nothing meets the supplies, or the first flow meets all constraints.    *)
FirstReturns ==
  /\ pc = "first" /\ step = "done" /\ (solved => Satisfied)
  /\ Return(solved)
  /\ solution_lower_bound' = IF solved THEN feature_cost(0) ELSE solution_lower_bound
  /\ solution_lower_bound_0' = IF solved THEN feature_cost(0) ELSE solution_lower_bound_0
  /\ UNCHANGED <<capacity, best>>

FirstViolates ==
  /\ pc = "first" /\ step = "done" /\ solved /\ ~ Satisfied
  /\ solution_lower_bound' = feature_cost(0)
  /\ solution_lower_bound_0' = feature_cost(0)
  /\ pc' = "update" /\ step' = "idle" /\ round' = 1
  /\ UNCHANGED <<networkVars, excess, unit_cost, charge, max_num_iterations, i,
                 prev_capacity, last_nonzero_cost, solved, arguments, weight,
                 best, result>>

(* The multiplier of a constraint rises while it is violated and falls,    *)
(* half as fast, when it is met.                                           *)
new_weight(k) ==
  Max({0, weight[k] + decay[round] * IF feature_cost(k) > problem.bound[k]
                                     THEN 2 ELSE -1})

(* compute_modified_cost: the terms of the sum are cut to integers.        *)
times_multiplier(x, w, k) ==
  (x * w[k] * solution_lower_bound_0) \div (Unit * problem.bound[k])

combined(c, w) ==
  [a \in ProblemArc |->
     c[0][a] + MapThenSumSet(LAMBDA k : times_multiplier(c[k][a], w, k),
                             Constraint \ {0})]

UpdateMultipliers ==
  /\ pc = "update" /\ round < iterations
  /\ weight' = [k \in Constraint |-> IF k = 0 THEN 0 ELSE new_weight(k)]
  /\ pc' = "round"
  /\ solve_fcnfp(combined(problem.cost, weight'), combined(problem.charge, weight'),
                 FCNFP_iterations)
  /\ UNCHANGED <<graph, capacity, potential, excess, arguments, round, bounds,
                 best, result>>

(* What the multipliers take off the combined cost, rounded up because the *)
(* code cuts the difference.                                               *)
relaxed(k) == - ((- weight[k] * solution_lower_bound_0) \div Unit)

mod_total_cost ==
  flow_cost_with_charge(unit_cost, charge)
    - MapThenSumSet(LAMBDA k : relaxed(k), Constraint \ {0})

(* Mutant of improves: the last flow that meets the constraints is kept.   *)
improves_always == TRUE
improves == ~ have_best_solution \/ best_solution > feature_cost(0)

(* The flow of this round becomes the best one if it is.                   *)
RememberBest ==
  IF Satisfied /\ improves
  THEN /\ have_best_solution' = TRUE /\ best_solution' = feature_cost(0)
       /\ best_capacity' = capacity
  ELSE UNCHANGED best

(* The best flow costs at most tolerance more than the bound.              *)
WithinTolerance ==
  /\ have_best_solution' /\ solution_lower_bound' > 0
  /\ 100 * (best_solution' - solution_lower_bound')
       <= tolerance * solution_lower_bound'

RaiseBound ==
  /\ solution_lower_bound' = Max({solution_lower_bound, mod_total_cost})
  /\ UNCHANGED solution_lower_bound_0

(* Mutant of returned: the flow of the last round is returned.             *)
returned_last(have, flow) == capacity
returned(have, flow) == IF have THEN flow ELSE capacity

EndRound ==
  /\ pc = "round" /\ step = "done" /\ solved
  /\ RememberBest /\ RaiseBound
  /\ IF WithinTolerance
     THEN /\ Return(TRUE)
          /\ capacity' = returned(have_best_solution', best_capacity')
     ELSE /\ pc' = "update" /\ step' = "idle" /\ round' = round + 1
          /\ UNCHANGED <<networkVars, excess, unit_cost, charge, max_num_iterations,
                         i, prev_capacity, last_nonzero_cost, solved, arguments,
                         weight, result>>

OutOfRounds ==
  /\ pc = "update" /\ round >= iterations
  /\ Return(TRUE)
  /\ capacity' = returned(have_best_solution, best_capacity)
  /\ UNCHANGED <<bounds, best>>

Running ==
  \/ Solve
  \/ AloneReturns \/ FirstReturns \/ FirstViolates
  \/ UpdateMultipliers \/ EndRound \/ OutOfRounds

Next == solve_constrained_fcnfp \/ solve_fcnfp_alone \/ Running

Spec == Init /\ [][Next]_vars
-----------------------------------------------------------------------------
(* The assertions of solve_fcnfp, of solve_constrained_fcnfp and, after    *)
(* two calls in a row, of the validator: only the first of all rounds can  *)
(* fail, because the others, and those of another call, start from a flow  *)
(* that meets the supplies and only the costs have changed.                *)
AssertionsHold ==
  /\ step # "aborted"
  /\ pc = "round" /\ step = "done" => solved
  /\ pc = "alone" /\ step = "done" /\ result = "true" => solved

(* A call of solve_fcnfp that stopped before its rounds were used up has   *)
(* found a fixed point: a flow that is cheapest for the very costs that    *)
(* spread the charges over it.                                             *)
StopsAtFixedPoint ==
  step = "done" /\ solved /\ i < max_num_iterations =>
    /\ \A a \in ProblemArc :
         flow_on(a) > 0 => cost[a] = unit_cost[a] + charge[a] \div flow_on(a)
    /\ \A f \in Mcf!FeasibleFlows : flow_cost <= Mcf!FlowCost(f)

(* No round loses the best flow: what is remembered only becomes cheaper,  *)
(* and is never dearer than a flow the round has just found.               *)
BestOnlyImproves ==
  [][pc = "round" =>
       /\ have_best_solution =>
            have_best_solution' /\ best_solution' <= best_solution
       /\ step = "done" /\ Satisfied =>
            have_best_solution' /\ best_solution' <= feature_cost(0)]_vars

(* What solve_constrained_fcnfp returns meets the supplies, and if any     *)
(* round met the constraints it meets them too, at the cost remembered.    *)
ReturnsBest ==
  result = "true" =>
    /\ \A n \in Node : excess[n] = 0
    /\ have_best_solution => Satisfied /\ feature_cost(0) = best_solution
=============================================================================
