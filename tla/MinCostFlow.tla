---------------------------- MODULE MinCostFlow ----------------------------
(* What a solver of the minimum cost flow problem promises, whatever its   *)
(* algorithm: the documentation of simple_mcf, mcf_refinement and          *)
(* goldberg_tarjan_mcf in src/mcf/mcf/algorithm.h.                         *)
(*                                                                         *)
(* A call hands over a network and the excess of its nodes.  The solver    *)
(* moves flow, without creating or losing any, and answers true with the   *)
(* constraints met at the least cost, or false when nothing meets them.    *)
EXTENDS ResidualNetwork

VARIABLES excess, status
vars == <<networkVars, excess, status>>

Status == {"idle", "working", "solved", "failed"}

(* What a node produces: its excess when the network carries no flow.      *)
supply(n) == excess[n] - node_balance(n)

(* The capacity of a problem arc, used or not.                             *)
total(arc) == capacity[arc] + capacity[arc_dual(arc)]

Inflow(f, n) ==
  MapThenSumSet(LAMBDA a : f[a], {a \in ProblemArc : graph.to[a] = n})
Outflow(f, n) ==
  MapThenSumSet(LAMBDA a : f[a], {a \in ProblemArc : graph.from[a] = n})

(* The excess that a flow leaves in a node.                                *)
Excess(f, n) == supply(n) + Inflow(f, n) - Outflow(f, n)

Flows == {f \in [ProblemArc -> 0 .. Max({total(a) : a \in ProblemArc})] :
            \A a \in ProblemArc : f[a] <= total(a)}

FeasibleFlows == {f \in Flows : \A n \in Node : Excess(f, n) = 0}

FlowCost(f) == MapThenSumSet(LAMBDA a : f[a] * cost[a], ProblemArc)

Balanced == \A n \in Node : excess[n] = 0

Optimal == \A f \in FeasibleFlows : flow_cost <= FlowCost(f)

Init == status = "idle"

(* A call brings its own costs, potentials and excess.  Once a problem was *)
(* solved it may be solved again for other costs.                          *)
Call ==
  /\ status \in {"idle", "solved"}
  /\ status' \in {"working", "failed"}
  /\ status = "solved" => UNCHANGED excess /\ status' = "working"
  /\ UNCHANGED <<graph, capacity>>
  /\ (status' = "failed") => (FeasibleFlows = {})'

(* Flow is moved: no node gains or loses, no arc carries more than it can. *)
Work ==
  /\ status = "working"
  /\ UNCHANGED <<graph, cost, status>>
  /\ \A a \in Arc : capacity'[a] >= 0 /\ total(a)' = total(a)
  /\ \A n \in Node : supply(n)' = supply(n)

Succeed ==
  /\ status = "working" /\ status' = "solved"
  /\ Balanced /\ Optimal
  /\ UNCHANGED <<networkVars, excess>>

Fail ==
  /\ status = "working" /\ status' = "failed"
  /\ FeasibleFlows = {}
  /\ UNCHANGED <<networkVars, excess>>

Next == Call \/ Work \/ Succeed \/ Fail

(* Every call returns.                                                     *)
EveryCallReturns == status = "working" ~> status # "working"

Spec == Init /\ [][Next]_vars /\ EveryCallReturns
=============================================================================
