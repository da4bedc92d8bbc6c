--------------------------- MODULE ShortestPathMC ---------------------------
(* Networks of four nodes and five arcs for ShortestPath.                  *)
EXTENDS ShortestPath, Sequences

Edges(s) == [from |-> [a \in ProblemArc |-> s[a + 1][1]],
             to   |-> [a \in ProblemArc |-> s[a + 1][2]]]

(* Two ways around a diamond with a cross arc, a ring with a chord and     *)
(* parallel arcs, and a path with a loop and a way back.                   *)
MCGraphs == {Edges(<< <<0, 1>>, <<0, 2>>, <<1, 2>>, <<1, 3>>, <<2, 3>> >>),
             Edges(<< <<0, 1>>, <<0, 1>>, <<1, 2>>, <<2, 0>>, <<2, 3>> >>),
             Edges(<< <<0, 1>>, <<1, 1>>, <<1, 2>>, <<2, 3>>, <<3, 0>> >>)}

(* All arcs free, one without capacity, and a flow on arc 0.               *)
MCCapacities ==
  {unused([a \in ProblemArc |-> 1]),
   unused([a \in ProblemArc |-> IF a = 3 THEN 0 ELSE 1]),
   [unused([a \in ProblemArc |-> 1]) EXCEPT ![num_arcs] = 1]}

(* Arc 0 may have a negative cost.                                         *)
MCCosts == {c \in [ProblemArc -> -1 .. 2] :
              /\ \A a \in ProblemArc : c[a] < 0 => a = 0
              /\ c[2] \in {0, 1} /\ c[3] \in {0, 2} /\ c[4] = 1}

MCPotentials == {[n \in Node |-> IF n = 1 THEN p ELSE 0] : p \in 0 .. 1}
=============================================================================
