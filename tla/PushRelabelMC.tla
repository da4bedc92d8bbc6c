--------------------------- MODULE PushRelabelMC ---------------------------
(* Networks of four nodes and five arcs for PushRelabel.                   *)
EXTENDS PushRelabel

Edges(s) == [from |-> [a \in ProblemArc |-> s[a + 1][1]],
             to   |-> [a \in ProblemArc |-> s[a + 1][2]]]

(* A diamond with a cross arc, a ring with parallel arcs, a loop and a way *)
(* out, and a path with a dead end.                                        *)
MCGraphs == {Edges(<< <<0, 1>>, <<0, 2>>, <<1, 2>>, <<1, 3>>, <<2, 3>> >>),
             Edges(<< <<0, 1>>, <<0, 1>>, <<1, 1>>, <<1, 2>>, <<2, 0>> >>),
             Edges(<< <<0, 1>>, <<1, 2>>, <<1, 3>>, <<2, 1>>, <<0, 3>> >>)}

(* Networks without flow and one with flow on arc 0.                       *)
MCCapacities ==
  {unused([a \in ProblemArc |-> 1 + (a % 2)]),
   unused([a \in ProblemArc |-> IF a = 4 THEN 0 ELSE 2]),
   [unused([a \in ProblemArc |-> 1]) EXCEPT ![num_arcs] = 1]}

Balance(s) == [n \in Node |-> s[n + 1]]

(* Two and three units to one sink, two sources or two sinks, a node that  *)
(* is upstream of the source, and supply without demand.                   *)
MCSupplies == {Balance(<<2, 0, 0, -2>>), Balance(<<3, 0, 0, -3>>),
               Balance(<<1, 1, -2, 0>>), Balance(<<2, -1, -1, 0>>),
               Balance(<<-1, 0, 2, -1>>), Balance(<<1, 0, 0, 0>>)}
=============================================================================
