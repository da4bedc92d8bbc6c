-------------------------- MODULE FeasibleFlowMC ---------------------------
(* Networks of four nodes and five arcs for FeasibleFlow.                  *)
EXTENDS FeasibleFlow

Edges(s) == [from |-> [a \in ProblemArc |-> s[a + 1][1]],
             to   |-> [a \in ProblemArc |-> s[a + 1][2]]]

(* A diamond with a cross arc, where a path may have to be undone, and a   *)
(* ring with parallel arcs, a loop and a way out.                          *)
MCGraphs == {Edges(<< <<0, 1>>, <<0, 2>>, <<1, 2>>, <<1, 3>>, <<2, 3>> >>),
             Edges(<< <<0, 1>>, <<0, 1>>, <<1, 1>>, <<1, 2>>, <<2, 0>> >>)}

(* Networks without flow, and one with flow on arc 0.                      *)
MCCapacities ==
  {unused([a \in ProblemArc |-> IF a = 2 THEN 2 ELSE 1]),
   unused([a \in ProblemArc |-> IF a = 1 THEN 1 ELSE 3]),
   [unused([a \in ProblemArc |-> 1]) EXCEPT ![num_arcs] = 2]}

(* Two different ends, as the callers in the library and its tests give.   *)
TwoEnds == {ends \in Node \X Node : ends[1] # ends[2]}

=============================================================================
