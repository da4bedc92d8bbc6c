---------------------------- MODULE ValidatorsMC ----------------------------
(* Cases for Validators, of one to five arcs: one less than a power of     *)
(* two, a power of two, and one more.                                      *)
EXTENDS Validators

(* Arcs in the order they are read, as <<from, to, capacity>>, with costs  *)
(* and charges of the objective and of the second function.                *)
Networks == {
  [nodes |-> 2, arcs |-> << <<0, 1, 2>> >>],
  [nodes |-> 2, arcs |-> << <<1, 0, 1>>, <<0, 1, 2>> >>],
  [nodes |-> 3, arcs |-> << <<0, 2, 2>>, <<0, 1, 1>>, <<2, 1, 1>> >>],
  [nodes |-> 3, arcs |-> << <<2, 1, 2>>, <<1, 2, 1>>, <<0, 2, 1>>, <<0, 1, 1>> >>],
  [nodes |-> 4, arcs |-> << <<0, 2, 2>>, <<0, 3, 1>>, <<3, 2, 1>>, <<3, 1, 2>>,
                            <<2, 1, 1>> >>]}

Prices == {[cost |-> <<3, 1, 1, 2, 0>>, charge |-> <<0, 4, 1, 0, 2>>],
           [cost |-> <<1, 2, 3, 1, 2>>, charge |-> <<2, 0, 0, 3, 1>>]}

Indexed(s, m) == [i \in 0 .. m - 1 |-> s[i + 1]]
Column(arcs, j) == [i \in 0 .. Len(arcs) - 1 |-> arcs[i + 1][j]]
Opposite(p) == CHOOSE q \in Prices : q # p

(* The objective and, in a problem with constraints, another function.     *)
Functions(program, p, m, field) ==
  [k \in IF program = "constrained_fcmcf" THEN 0 .. 1 ELSE {0} |->
     IF program \in {"mcf", "goldberg_tarjan"} /\ field = "charge"
     THEN [i \in 0 .. m - 1 |-> 0]
     ELSE Indexed(IF k = 0 THEN p[field] ELSE Opposite(p)[field], m)]

Case(program, n, p, amount, bound) ==
  LET m == Len(n.arcs)
      both == program = "constrained_fcmcf"
  IN  [program |-> program, nodes |-> n.nodes,
       from |-> Column(n.arcs, 1), to |-> Column(n.arcs, 2),
       capacity |-> Column(n.arcs, 3),
       cost |-> Functions(program, p, m, "cost"),
       charge |-> Functions(program, p, m, "charge"),
       bound |-> [k \in IF both THEN 0 .. 1 ELSE {0} |-> IF k = 0 THEN 100 ELSE bound],
       src |-> 0, dst |-> 1, amount |-> amount]

(* What the generators ask ortools: the flows of a case, and their costs.  *)
Flows(c) ==
  {f \in [DOMAIN c.from -> 0 .. 2] :
     /\ \A i \in DOMAIN f : f[i] <= c.capacity[i]
     /\ \A n \in 0 .. c.nodes - 1 :
          MapThenSumSet(LAMBDA i : IF c.from[i] = n THEN f[i] ELSE - f[i],
                        {i \in DOMAIN f : n \in {c.from[i], c.to[i]}})
            = CASE n = c.src -> c.amount [] n = c.dst -> - c.amount [] OTHER -> 0}

CostOf(c, f, k) ==
  MapThenSumSet(LAMBDA i : f[i] * c.cost[k][i] + IF f[i] > 0 THEN c.charge[k][i] ELSE 0,
                DOMAIN f)

Meets(c) == {f \in Flows(c) : \A k \in DOMAIN c.bound : CostOf(c, f, k) <= c.bound[k]}

(* Only problems that have a solution are generated.                       *)
MCTests ==
  {[field \in DOMAIN c \union {"best_cost"} |->
      IF field = "best_cost" THEN Min({CostOf(c, f, 0) : f \in Meets(c)}) ELSE c[field]] :
     c \in {d \in {Case(program, n, p, amount, bound) :
                     program \in {"mcf", "goldberg_tarjan", "fcmcf", "constrained_fcmcf"},
                     n \in Networks, p \in Prices, amount \in {1, 2}, bound \in {4, 8}} :
              Meets(d) # {}}}

(* What fresh memory holds: the index of an arc that may be in a list.     *)
MCGarbage == {1}
=============================================================================
