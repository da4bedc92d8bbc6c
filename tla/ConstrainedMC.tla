--------------------------- MODULE ConstrainedMC ---------------------------
(* Networks of four nodes and five arcs for Constrained, with an objective *)
(* and one constraint.                                                     *)
EXTENDS Constrained

Edges(s) == [from |-> [a \in ProblemArc |-> s[a + 1][1]],
             to   |-> [a \in ProblemArc |-> s[a + 1][2]]]

(* Two ways and a cross arc; three parallel arcs and a detour.             *)
MCGraphs == {Edges(<< <<0, 1>>, <<0, 2>>, <<1, 2>>, <<1, 3>>, <<2, 3>> >>),
             Edges(<< <<0, 3>>, <<0, 3>>, <<0, 3>>, <<0, 1>>, <<1, 3>> >>)}

MCCapacities == {unused([a \in ProblemArc |-> IF a \in {0, 1, 4} THEN 2 ELSE 1]),
                 unused([a \in ProblemArc |-> IF a = 0 THEN 2 ELSE 1])}

(* From node 0 to node 3; three units are too many for the first network  *)
(* with the second capacities.                                             *)
FromTo(x) == [n \in Node |-> CASE n = 0 -> x [] n = 3 -> - x [] OTHER -> 0]
MCSupplies == {FromTo(2), FromTo(3)}

Each(s) == [a \in ProblemArc |-> s[a + 1]]
Two(x, y) == [k \in Constraint |-> IF k = 0 THEN x ELSE y]

(* The cheap arcs of the objective are the dear ones of the constraint.    *)
(* The bound of the objective is wide.                                     *)
MCCosts == Two(Each(<<1, 3, 1, 1, 4>>), Each(<<5, 2, 0, 3, 1>>))
MCCharges == {Two(Each(<<5, 3, 0, 4, 1>>), Each(<<1, 0, 2, 1, 0>>)),
              Two(Each(<<1, 6, 2, 3, 5>>), Each(<<4, 1, 1, 2, 0>>))}

MCProblems == {[cost |-> MCCosts, charge |-> s, bound |-> Two(1000, b)] :
                 s \in MCCharges, b \in {7, 9, 12, 15}}

(* 1 / sqrt(r), in tenths.                                                 *)
MCdecay == <<10, 7, 6, 5>>
=============================================================================
