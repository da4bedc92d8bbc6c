-------------------------- MODULE McfRefinementMC --------------------------
(* Networks of four nodes and five arcs for McfRefinement.                 *)
EXTENDS McfRefinement, Sequences

Edges(s) == [from |-> [a \in ProblemArc |-> s[a + 1][1]],
             to   |-> [a \in ProblemArc |-> s[a + 1][2]]]

(* A diamond with a cross arc, and a ring with parallel arcs, a loop and a *)
(* way out.                                                                *)
MCGraphs == {Edges(<< <<0, 1>>, <<0, 2>>, <<1, 2>>, <<1, 3>>, <<2, 3>> >>),
             Edges(<< <<0, 1>>, <<0, 1>>, <<1, 1>>, <<1, 2>>, <<2, 0>> >>)}

MCCapacities == {unused([a \in ProblemArc |-> IF a = 2 THEN 2 ELSE 1]),
                 unused([a \in ProblemArc |-> IF a = 1 THEN 1 ELSE 2])}

(* Costs with a negative one, with a negative cycle in the ring, with ties *)
(* and one that reverses the order of the others.                          *)
MCCosts == {[a \in ProblemArc |-> s[a + 1]] :
              s \in {<<1, 2, 0, 1, 2>>, <<2, 0, 0, 2, 0>>, <<0, 0, 0, 0, 0>>,
                     <<1, 1, -1, -2, 0>>}}

Balance(s) == [n \in Node |-> s[n + 1]]
MCSupplies == {Balance(<<2, 0, 0, -2>>), Balance(<<1, 1, -2, 0>>),
               Balance(<<1, -1, 1, -1>>), Balance(<<0, 0, 0, 0>>),
               Balance(<<-1, 0, 2, 0>>)}

MCPotentials == {[n \in Node |-> 0], [n \in Node |-> IF n = 2 THEN 2 ELSE 0]}
=============================================================================
