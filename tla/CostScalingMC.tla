--------------------------- MODULE CostScalingMC ---------------------------
(* Networks of four nodes and five arcs for CostScaling.                   *)
EXTENDS CostScaling

Edges(s) == [from |-> [a \in ProblemArc |-> s[a + 1][1]],
             to   |-> [a \in ProblemArc |-> s[a + 1][2]]]

(* A diamond with a cross arc, and a ring with a loop and a way out, and   *)
(* parallel arcs into a ring.                                              *)
MCGraphs == {Edges(<< <<0, 1>>, <<0, 2>>, <<1, 2>>, <<1, 3>>, <<2, 3>> >>),
             Edges(<< <<0, 1>>, <<1, 1>>, <<1, 2>>, <<2, 0>>, <<2, 3>> >>),
             Edges(<< <<0, 1>>, <<0, 1>>, <<1, 2>>, <<2, 3>>, <<3, 1>> >>)}

MCCapacities == {unused([a \in ProblemArc |-> IF a = 2 THEN 2 ELSE 1]),
                 unused([a \in ProblemArc |-> IF a = 1 THEN 1 ELSE 2])}

(* Costs that need two rounds of refinement, a negative cycle in the ring, *)
(* ties, and costs 0, that need none.                                      *)
MCCosts == {[a \in ProblemArc |-> s[a + 1]] :
              s \in {<<1, 5, 0, 4, 2>>, <<9, 2, 6, -3, 1>>, <<2, 0, 0, 2, 0>>, 
                     <<0, 0, 0, 0, 0>>, <<1, 1, -1, -2, 0>>}}

Balance(s) == [n \in Node |-> s[n + 1]]
MCSupplies == {Balance(<<2, 0, 0, -2>>), Balance(<<1, 1, -2, 0>>),
               Balance(<<0, 0, 0, 0>>)}

(* The lists in the order of the arcs and in the reverse one.              *)
MCOrders == {[a \in Arc |-> a], [a \in Arc |-> 2 * num_arcs - a]}

(* A network of one node with a loop of negative cost.                     *)
LoopGraphs == {Edges(<< <<0, 0>> >>)}
LoopCapacities == {unused([a \in ProblemArc |-> 1])}
LoopCosts == {[a \in ProblemArc |-> -1]}
LoopSupplies == {[n \in Node |-> 0]}
=============================================================================
