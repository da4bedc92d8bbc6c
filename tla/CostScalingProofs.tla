------------------------- MODULE CostScalingProofs -------------------------
(* Theorems about goldberg_tarjan_mcf, for every network, every order of   *)
(* the adjacency lists, every costs and supplies: the flow is epsilon-     *)
(* optimal through every push, relabel and price update, no scan leaves an *)
(* arc behind that could be pushed, no cycle of admissible arcs appears,   *)
(* and a price update opens a path to a sink from every active node.  And  *)
(* the answer is right: the solver implements MinCostFlow.                 *)
(*                                                                         *)
(* That the last flow costs least is weak duality.  Potentials in which no *)
(* arc of the residual network has a negative reduced cost bound the cost  *)
(* of every flow from below, because a sum over the arcs is a sum over the *)
(* nodes of the sums over their arcs.  The potentials of the code show no  *)
(* more than -1 in costs times the number of nodes; divided by that number *)
(* and rounded, after a shift that rounds no admissible arc the wrong way, *)
(* they show 0.  Such a shift exists since the admissible arcs leave one   *)
(* node without any: fewer nodes ask to avoid a shift than there are.      *)
(*                                                                         *)
(* The flood of a price update stops when the sum of the excess it has met *)
(* is 0, so the invariant speaks of sums over finite sets.                 *)
(*                                                                         *)
(* How high prices get is counted from the beginning of a refinement, with *)
(* the capacities and prices of then.  A node with excess has a path of    *)
(* arcs that gained capacity to a deficit, and arc by arc prices differ by *)
(* no more than they can; other nodes are lifted above them, each at most  *)
(* once, or with all others by a price update, which lifts a node with     *)
(* excess as much: the nodes pay for the highest price together.           *)
EXTENDS CostScaling, ResidualNetworkProofs
-----------------------------------------------------------------------------

(* The reduced costs for potentials p, and the arcs that lead down in them *)
(* for residual capacities c.                                              *)
rcost(p, a) == gt_cost(a) + p[arc_head(a)] - p[arc_tail(a)]
Down(c, p, a) == c[a] > 0 /\ rcost(p, a) < 0

NearOptimal(c, p, e) == \A a \in Arc : c[a] > 0 => rcost(p, a) >= - e

NoCycle(c, p) ==
  \A S \in (SUBSET Node) \ {{}} : \E n \in S :
    \A a \in node_adjacency(n) : Down(c, p, a) => arc_head(a) \notin S

(* at is the arc of every node where its scan begins or is.                *)
Skipped(c, p, at) ==
  \A n \in Node : \A a \in node_adjacency(n) \ arcs_from(n, at[n]) : ~ Down(c, p, a)

(* From capacities c and potentials p to d and q no arc that leads down    *)
(* comes in, and the others that come in do not lead down.                 *)
Keeps(c, p, d, q) ==
  \A b \in Arc : /\ Down(d, q, b) => Down(c, p, b)
                 /\ d[b] > 0 => c[b] > 0 \/ rcost(q, b) >= 0

Started == Refining \/ pc \in {"saturate", "enqueue"}

(* The loop over the arcs leaves behind no arc that leads down.            *)
SaturatedOK ==
  /\ pc = "saturate" => \A a \in Arc : a < arc_id => ~ Down(capacity, potential, a)
  /\ pc = "enqueue" => \A a \in Arc : ~ Down(capacity, potential, a)

(* Where the scan of every node is, or begins.                             *)
position ==
  [n \in Node |-> IF pc = "scan" /\ n = node THEN arc ELSE current_arc[n]]

PricesOK ==
  /\ Started => epsilon >= 1
  /\ Refining \/ pc = "scale" => NearOptimal(capacity, potential, epsilon)
  /\ Refining => /\ NoCycle(capacity, potential)
                 /\ Skipped(capacity, potential, position)
  /\ pc = "scan" => arc \in node_adjacency(node) \union {NO_ARC}
  /\ \A n \in Node : potential[n] >= 0

(* The nodes that the flood has reached and popped, and the arcs into the  *)
(* last of them that it has not scanned yet.                               *)
settled(n) == n \notin pending /\ distance[n] < INFINITE

unscanned(a) ==
  /\ arc_head(a) = node
  /\ pc = "raise" \/ arc_dual(a) \in arcs_from(node, arc)

(* The flood is a search for shortest paths, by levels, from the sinks.    *)
FloodOK ==
  pc \in {"flood", "raise"} =>
    /\ maximum_distance <= INFINITE
    /\ \A n \in Node : distance[n] <= INFINITE
    /\ \A n \in pending : distance[n] >= maximum_distance
    /\ \A n \in Node : settled(n) => distance[n] <= maximum_distance
    /\ pc = "raise" \/ arc # NO_ARC =>
         node \notin pending /\ distance[node] = maximum_distance
    /\ pc = "flood" => arc \in node_adjacency(node) \union {NO_ARC}
    /\ \A a \in Arc :
         (residual(a) /\ settled(arc_head(a)) /\ ~ unscanned(a)) =>
           distance[arc_tail(a)] <= distance[arc_head(a)] + levels(a)

(* A node that was reached and is no sink was reached through an arc.      *)
TreeOK ==
  pc \in {"flood", "raise"} =>
    \A n \in Node : (distance[n] < INFINITE /\ excess[n] >= 0) =>
      \E a \in node_adjacency(n) :
        /\ residual(a) /\ settled(arc_head(a))
        /\ distance[n] = distance[arc_head(a)] + levels(a)

(* The excess of the sinks and of the nodes that the flood has popped.     *)
flooded == [n \in Node |-> IF excess[n] < 0 \/ settled(n) THEN excess[n] ELSE 0]

(* No excess is lost, and set_excess is what the flood has met of it.      *)
ExcessOK ==
  /\ Started \/ pc = "scale" => SumOver(excess, Node) = 0
  /\ pc \in {"flood", "raise"} =>
       /\ \A n \in Node : excess[n] < 0 => distance[n] = 0
       /\ \A n \in pending : excess[n] < 0 \/ distance[n] < INFINITE
       /\ set_excess = SumOver(flooded, Node)
  /\ pc = "raise" => set_excess = 0

IInv == TypeOK /\ SaturatedOK /\ PricesOK /\ FloodOK /\ TreeOK /\ ExcessOK

(* A node with excess waits in the queue or is being discharged.           *)
QueueOK ==
  /\ pc = "enqueue" =>
       \A n \in Node : n < node_id /\ excess[n] > 0 => Queued(active, n)
  /\ pc \in {"main", "flood", "raise"} =>
       \A n \in Node : excess[n] > 0 => Queued(active, n)
  /\ pc \in {"discharge", "scan"} =>
       \A n \in Node : excess[n] > 0 => n = node \/ Queued(active, n)

(* What the call knows when it is about to return.                         *)
AnswerOK ==
  /\ pc = "fail" => Abstract!FeasibleFlows = {}
  /\ pc = "scale" =>
       /\ \A n \in Node : excess[n] = 0
       /\ epsilon = 0 \/ epsilon > 1 \/ NoCycle(capacity, potential)
-----------------------------------------------------------------------------

(* The sizes of the network, and that its sets are finite.                 *)
LEMMA Sizes ==
  /\ max_num_nodes \in Nat \ {0} /\ num_arcs \in Nat /\ INFINITE \in Nat
  /\ 0 \in Node /\ NO_ARC \notin Arc
  /\ IsFiniteSet(Node) /\ IsFiniteSet(Arc) /\ IsFiniteSet(ProblemArc)
  /\ Arc \subseteq Nat
BY SizesAssumption, InfiniteAssumption, FS_Interval
   DEF Node, Arc, ProblemArc, NO_ARC

(* The order of a list is one of natural numbers without ties.             *)
LEMMA FirstFacts ==
  ASSUME order \in Orders, NEW S, S \subseteq Arc
  PROVE  /\ first(S) \in S \union {NO_ARC}
         /\ S = {} => first(S) = NO_ARC
         /\ S # {} => first(S) \in S /\ \A b \in S : order[first(S)] <= order[b]
<1>1. CASE S = {}
  BY <1>1 DEF first
<1>2. CASE S # {}
  <2> DEFINE T == {order[a] : a \in S}
  <2>1. order \in [Arc -> Nat]
    BY NetworksAssumption
  <2>2. IsFiniteSet(S)
    BY Sizes, FS_Subset
  <2>3. T \subseteq Int /\ T # {}
    BY <1>2, <2>1
  <2>4. IsFiniteSet(T)
    BY <2>2, ImageFinite
  <2>5. PICK m \in T : \A x \in T : m <= x
    <3> HIDE DEF T
    <3> QED  BY <2>3, <2>4, LeastOfFinite
  <2>6. \E a \in S : \A b \in S : order[a] <= order[b]
    BY <2>5
  <2>7. first(S) = CHOOSE a \in S : \A b \in S : order[a] <= order[b]
    BY <1>2 DEF first
  <2> QED  BY <1>2, <2>6, <2>7, Zenon
<1> QED  BY <1>1, <1>2

(* Where a loop over a list begins, goes on and ends.                      *)
LEMMA LoopFacts ==
  ASSUME order \in Orders, NEW n
  PROVE  /\ node_adjacency_begin(n) \in node_adjacency(n) \union {NO_ARC}
         /\ arcs_from(n, node_adjacency_begin(n)) = node_adjacency(n)
         /\ arcs_from(n, NO_ARC) = {}
         /\ \A a \in node_adjacency(n) :
              /\ a \in arcs_from(n, a)
              /\ node_adjacency_next(a) \in node_adjacency(n) \union {NO_ARC}
              /\ arcs_from(n, node_adjacency_next(a)) = arcs_from(n, a) \ {a}
         /\ \A S \in SUBSET node_adjacency(n) :
              S # {} => first(S) \in node_adjacency(n) /\ S \subseteq arcs_from(n, first(S))
<1>1. /\ order \in [Arc -> Nat] /\ \A a, b \in Arc : order[a] = order[b] => a = b
      /\ node_adjacency(n) \subseteq Arc /\ NO_ARC \notin Arc
  BY NetworksAssumption, Sizes DEF node_adjacency
<1>2. \A S \in SUBSET node_adjacency(n) :
        S # {} => first(S) \in node_adjacency(n) /\ S \subseteq arcs_from(n, first(S))
  <2> SUFFICES ASSUME NEW S \in SUBSET node_adjacency(n), S # {}
               PROVE  first(S) \in node_adjacency(n) /\ S \subseteq arcs_from(n, first(S))
    OBVIOUS
  <2>1. first(S) \in S /\ \A b \in S : order[first(S)] <= order[b]
    BY <1>1, FirstFacts
  <2> QED  BY <1>1, <2>1 DEF arcs_from
<1>3. /\ node_adjacency_begin(n) \in node_adjacency(n) \union {NO_ARC}
      /\ arcs_from(n, node_adjacency_begin(n)) = node_adjacency(n)
  <2>1. CASE node_adjacency(n) = {}
    <3>1. node_adjacency_begin(n) = NO_ARC
      BY <1>1, <2>1, FirstFacts DEF node_adjacency_begin
    <3> QED  BY <2>1, <3>1 DEF arcs_from
  <2>2. CASE node_adjacency(n) # {}
    <3>1. arcs_from(n, node_adjacency_begin(n)) \subseteq node_adjacency(n)
      BY DEF arcs_from
    <3> QED  BY <1>2, <2>2, <3>1 DEF node_adjacency_begin
  <2> QED  BY <2>1, <2>2
<1>4. ASSUME NEW a \in node_adjacency(n)
      PROVE  /\ a \in arcs_from(n, a)
             /\ node_adjacency_next(a) \in node_adjacency(n) \union {NO_ARC}
             /\ arcs_from(n, node_adjacency_next(a)) = arcs_from(n, a) \ {a}
  <2> DEFINE S == {b \in node_adjacency(n) : order[b] > order[a]}
  <2>1. node_adjacency_next(a) = first(S)
    BY DEF node_adjacency, node_adjacency_next
  <2>2. a \in Arc /\ a # NO_ARC /\ order[a] \in Nat
    BY <1>1
  <2>3. a \in arcs_from(n, a)
    BY <1>1, <2>2 DEF arcs_from
  <2>4. arcs_from(n, a) \ {a} = S
    <3>1. \A b \in node_adjacency(n) : order[b] \in Nat /\ (order[b] = order[a] => b = a)
      BY <1>1, <2>2
    <3> QED  BY <2>2, <3>1 DEF arcs_from
  <2>5. S \subseteq Arc /\ S \in SUBSET node_adjacency(n)
    BY <1>1
  <2>6. CASE S = {}
    <3>1. first(S) = NO_ARC
      BY <2>5, <2>6, FirstFacts
    <3> QED  BY <2>1, <2>3, <2>4, <2>6, <3>1 DEF arcs_from
  <2>7. CASE S # {}
    <3>1. first(S) \in S /\ \A b \in S : order[first(S)] <= order[b]
      <4> HIDE DEF S
      <4> QED  BY <2>5, <2>7, FirstFacts
    <3> DEFINE c == first(S)
    <3> HIDE DEF c
    <3>2. c \in S /\ c \in Arc /\ c # NO_ARC /\ \A b \in S : order[c] <= order[b]
      BY <1>1, <2>5, <3>1 DEF c
    <3>3. arcs_from(n, c) = S
      <4>1. ASSUME NEW b \in node_adjacency(n), order[b] >= order[c]
            PROVE  b \in S
        <5>1. order[b] \in Nat /\ order[c] \in Nat /\ order[a] \in Nat /\ order[c] > order[a]
          BY <1>1, <2>2, <3>2
        <5> QED  BY <4>1, <5>1
      <4>2. ASSUME NEW b \in S PROVE order[b] >= order[c] /\ b \in node_adjacency(n)
        <5>1. order[b] \in Nat /\ order[c] \in Nat
          BY <1>1, <3>2
        <5> QED  BY <3>2, <5>1
      <4> QED  BY <3>2, <4>1, <4>2 DEF arcs_from
    <3> QED  BY <2>1, <2>3, <2>4, <3>2, <3>3 DEF c
  <2> QED  BY <2>6, <2>7
<1>5. arcs_from(n, NO_ARC) = {}
  BY DEF arcs_from
<1> QED  BY <1>2, <1>3, <1>4, <1>5
-----------------------------------------------------------------------------
(* Scaled costs are integers, opposite on an arc and its dual.             *)
LEMMA CostFacts ==
  ASSUME NetworkTypeOK, NEW p \in [Node -> Int], NEW a \in Arc
  PROVE  /\ gt_cost(a) \in Int /\ gt_cost(arc_dual(a)) = - gt_cost(a)
         /\ rcost(p, a) \in Int /\ rcost(p, arc_dual(a)) = - rcost(p, a)
<1>1. /\ arc_dual(a) \in Arc /\ arc_tail(a) \in Node /\ arc_head(a) \in Node
      /\ arc_tail(arc_dual(a)) = arc_head(a) /\ arc_head(arc_dual(a)) = arc_tail(a)
  BY ArcFacts
<1>2. cost[a] \in Int /\ cost[arc_dual(a)] = - cost[a] /\ max_num_nodes \in Int
  BY SizesAssumption DEF NetworkTypeOK
<1>3. gt_cost(a) \in Int /\ gt_cost(arc_dual(a)) = - gt_cost(a)
  BY <1>2 DEF gt_cost, scale_factor
<1>4. p[arc_tail(a)] \in Int /\ p[arc_head(a)] \in Int
  BY <1>1
<1> QED  BY <1>1, <1>3, <1>4 DEF rcost

(* A push along an arc that leads down opens no other such arc.            *)
LEMMA PushFacts ==
  ASSUME NetworkTypeOK, NEW c \in [Arc -> Nat], NEW p \in [Node -> Int],
         NEW a \in Arc, Down(c, p, a), NEW x \in 0 .. c[a], NEW d,
         d = [c EXCEPT ![a] = @ - x, ![arc_dual(a)] = @ + x]
  PROVE  /\ d \in [Arc -> Nat]
         /\ Keeps(c, p, d, p)
         /\ x = c[a] => ~ Down(d, p, a)
<1>1. arc_dual(a) \in Arc /\ arc_dual(a) # a
  BY ArcFacts
<1>2. /\ d[a] = c[a] - x /\ d[arc_dual(a)] = c[arc_dual(a)] + x
      /\ \A b \in Arc : b # a /\ b # arc_dual(a) => d[b] = c[b]
  BY <1>1
<1>3. c[a] \in Nat /\ c[arc_dual(a)] \in Nat /\ x \in Nat /\ c[a] - x \in Nat
  BY <1>1
<1>4. d \in [Arc -> Nat]
  BY <1>1, <1>3
<1>5. rcost(p, a) \in Int /\ rcost(p, a) < 0 /\ rcost(p, arc_dual(a)) = - rcost(p, a) /\ c[a] > 0
  BY CostFacts DEF Down
<1>6. rcost(p, arc_dual(a)) > 0 /\ ~ (rcost(p, arc_dual(a)) < 0)
  BY <1>5
<1>7. \A b \in Arc : Down(d, p, b) => Down(c, p, b)
  BY <1>2, <1>5, <1>6 DEF Down
<1>8. \A b \in Arc : d[b] > 0 => c[b] > 0 \/ rcost(p, b) >= 0
  BY <1>2, <1>5, <1>6
<1>9. x = c[a] => ~ Down(d, p, a)
  BY <1>2, <1>3 DEF Down
<1> QED  BY <1>4, <1>7, <1>8, <1>9 DEF Keeps

(* What holds of all residual arcs and of all that lead down then goes on  *)
(* to hold.                                                                *)
LEMMA KeepsFacts ==
  ASSUME NetworkTypeOK, NEW c, NEW d, NEW p \in [Node -> Int], Keeps(c, p, d, p),
         NEW e \in Nat
  PROVE  /\ NearOptimal(c, p, e) => NearOptimal(d, p, e)
         /\ NoCycle(c, p) => NoCycle(d, p)
         /\ \A at : Skipped(c, p, at) => Skipped(d, p, at)
<1>1. \A b \in Arc : Down(d, p, b) => Down(c, p, b)
  BY DEF Keeps
<1>2. \A n : node_adjacency(n) \subseteq Arc
  BY DEF node_adjacency
<1>3. NoCycle(c, p) => NoCycle(d, p)
  BY <1>1, <1>2 DEF NoCycle
<1>4. \A at : Skipped(c, p, at) => Skipped(d, p, at)
  BY <1>1, <1>2 DEF Skipped
<1>5. ASSUME NearOptimal(c, p, e) PROVE NearOptimal(d, p, e)
  <2> SUFFICES ASSUME NEW b \in Arc, d[b] > 0 PROVE rcost(p, b) >= - e
    BY DEF NearOptimal
  <2>1. c[b] > 0 \/ rcost(p, b) >= 0
    BY DEF Keeps
  <2>2. rcost(p, b) \in Int
    BY CostFacts
  <2> QED  BY <1>5, <2>1, <2>2 DEF NearOptimal
<1> QED  BY <1>3, <1>4, <1>5
-----------------------------------------------------------------------------
(* What gt_mcf_relabel makes of a node none of whose arcs leads down.      *)
LEMMA RelabeledValue ==
  ASSUME NetworkTypeOK, epsilon \in Nat, epsilon >= 1, NEW n \in Node,
         \A a \in node_adjacency(n) : ~ Down(capacity, potential, a)
  PROVE  /\ relabeled(n) \in Int /\ relabeled(n) >= potential[n] + epsilon
         /\ \A a \in residual_arcs(n) : arc_head(a) # n =>
              relabeled(n) <= gt_cost(a) + potential[arc_head(a)] + epsilon
         /\ (lowered(n) = {} /\ residual_arcs(n) # {}) \/ relabeled(n) = raised(n)
<1> DEFINE R == residual_arcs(n)
           h == [a \in R |-> through(n, a)]
           T == {through(n, a) : a \in R}
<1>1. /\ R \subseteq node_adjacency(n) /\ R \subseteq Arc /\ potential \in [Node -> Int]
      /\ \A a \in R : capacity[a] > 0 /\ arc_tail(a) = n /\ arc_head(a) \in Node
  BY ArcFacts DEF residual_arcs, node_adjacency, residual, NetworkTypeOK
<1>2. potential[n] \in Int /\ raised(n) = potential[n] + epsilon /\ raised(n) \in Int
  BY <1>1 DEF raised
<1>3. ASSUME NEW a \in R
      PROVE  /\ gt_cost(a) \in Int /\ through(n, a) \in Int
             /\ potential[arc_head(a)] \in Int
             /\ arc_head(a) # n => through(n, a) = gt_cost(a) + potential[arc_head(a)]
             /\ gt_cost(a) + potential[arc_head(a)] - potential[n] >= 0
  <2>1. gt_cost(a) \in Int /\ potential[arc_head(a)] \in Int /\ rcost(potential, a) \in Int
    BY <1>1, CostFacts
  <2>2. through(n, a) \in Int
    BY <1>2, <2>1 DEF through
  <2>3. ~ (rcost(potential, a) < 0)
    BY <1>1 DEF Down
  <2>4. rcost(potential, a) = gt_cost(a) + potential[arc_head(a)] - potential[n]
    BY <1>1 DEF rcost
  <2>5. gt_cost(a) + potential[arc_head(a)] - potential[n] >= 0
    BY <2>1, <2>3, <2>4
  <2> QED  BY <2>1, <2>2, <2>5 DEF through
<1> HIDE DEF R
<1>4. CASE lowered(n) # {} \/ R = {}
  <2>1. relabeled(n) = raised(n)
    BY <1>4 DEF relabeled, R
  <2>2. \A a \in R : arc_head(a) # n =>
              relabeled(n) <= gt_cost(a) + potential[arc_head(a)] + epsilon
    BY <1>2, <1>3, <2>1
  <2> QED  BY <1>2, <2>1, <2>2 DEF R
<1>5. CASE lowered(n) = {} /\ R # {}
  <2>1. relabeled(n) = Min(T) + epsilon
    BY <1>5 DEF relabeled, R
  <2>2. T = {h[a] : a \in R} /\ T \subseteq Int /\ T # {}
    BY <1>3, <1>5
  <2>3. IsFiniteSet(T)
    <3>1. IsFiniteSet(R)
      BY <1>1, Sizes, FS_Subset
    <3> HIDE DEF h, T
    <3> QED  BY <2>2, <3>1, ImageFinite
  <2>4. Min(T) \in T /\ \A x \in T : Min(T) <= x
    <3> HIDE DEF h, T
    <3> QED  BY <2>2, <2>3, MinMaxFacts
  <2>5. PICK b \in R : Min(T) = through(n, b)
    BY <2>4
  <2>6. ~ (through(n, b) < raised(n))
    BY <1>5 DEF lowered, R
  <2>7. relabeled(n) \in Int /\ relabeled(n) >= potential[n] + epsilon
    BY <1>2, <1>3, <2>1, <2>5, <2>6
  <2>8. ASSUME NEW a \in R, arc_head(a) # n
        PROVE  relabeled(n) <= gt_cost(a) + potential[arc_head(a)] + epsilon
    <3>1. Min(T) <= through(n, a) /\ Min(T) \in Int
      BY <1>3, <2>4, <2>5
    <3>2. through(n, a) = gt_cost(a) + potential[arc_head(a)] /\ through(n, a) \in Int
      BY <1>3, <2>8
    <3> QED  BY <2>1, <3>1, <3>2
  <2> QED  BY <1>5, <2>7, <2>8 DEF R
<1> QED  BY <1>4, <1>5

(* What gt_mcf_relabel does for the bounds, the arcs and the scan of n.    *)
LEMMA RelabelFacts ==
  ASSUME NetworkTypeOK, order \in Orders, epsilon \in Nat, epsilon >= 1,
         NearOptimal(capacity, potential, epsilon), NoCycle(capacity, potential),
         NEW n \in Node, \A a \in node_adjacency(n) : ~ Down(capacity, potential, a),
         NEW q \in [Node -> Int], q[n] = relabeled(n),
         \A m \in Node : m # n => q[m] = potential[m]
  PROVE  /\ \A m \in Node : q[m] >= potential[m]
         /\ NearOptimal(capacity, q, epsilon) /\ NoCycle(capacity, q)
         /\ \A a \in Arc : arc_tail(a) # n /\ Down(capacity, q, a) =>
              Down(capacity, potential, a)
         /\ \A a \in node_adjacency(n) \ arcs_from(n, relabeled_arc(n)) :
              ~ Down(capacity, q, a)
         /\ relabeled_arc(n) \in node_adjacency(n) \union {NO_ARC}
<1>1. /\ relabeled(n) \in Int /\ relabeled(n) >= potential[n] + epsilon
      /\ \A a \in residual_arcs(n) : arc_head(a) # n =>
              relabeled(n) <= gt_cost(a) + potential[arc_head(a)] + epsilon
      /\ (lowered(n) = {} /\ residual_arcs(n) # {}) \/ relabeled(n) = raised(n)
  BY RelabeledValue
<1>2. potential \in [Node -> Int] /\ capacity \in [Arc -> Nat]
  BY DEF NetworkTypeOK
<1>3. \A m \in Node : q[m] >= potential[m]
  BY <1>1, <1>2
<1>4. ASSUME NEW a \in Arc
      PROVE  /\ arc_tail(a) \in Node /\ arc_head(a) \in Node /\ gt_cost(a) \in Int
             /\ q[arc_tail(a)] \in Int /\ q[arc_head(a)] \in Int
             /\ potential[arc_tail(a)] \in Int /\ potential[arc_head(a)] \in Int
             /\ rcost(q, a) \in Int /\ rcost(potential, a) \in Int
             /\ rcost(q, a) = gt_cost(a) + q[arc_head(a)] - q[arc_tail(a)]
             /\ rcost(potential, a) = gt_cost(a) + potential[arc_head(a)] - potential[arc_tail(a)]
  BY <1>2, ArcFacts, CostFacts DEF rcost
<1>5. ASSUME NEW a \in Arc, arc_tail(a) # n
      PROVE  /\ rcost(q, a) >= rcost(potential, a)
             /\ Down(capacity, q, a) => Down(capacity, potential, a)
             /\ arc_head(a) = n => ~ Down(capacity, q, a) \/ ~ (capacity[a] > 0)
  <2>1. q[arc_tail(a)] = potential[arc_tail(a)] /\ q[arc_head(a)] >= potential[arc_head(a)]
    BY <1>2, <1>3, <1>4, <1>5
  <2>2. rcost(q, a) >= rcost(potential, a)
    BY <1>4, <2>1
  <2>3. rcost(q, a) \in Int /\ rcost(potential, a) \in Int
    BY <1>4
  <2>4. ASSUME arc_head(a) = n, capacity[a] > 0 PROVE ~ (rcost(q, a) < 0)
    <3>1. rcost(potential, a) >= - epsilon
      BY <2>4 DEF NearOptimal
    <3>2. q[arc_head(a)] >= potential[arc_head(a)] + epsilon
      BY <1>1, <1>2, <2>4
    <3> QED  BY <1>4, <2>1, <3>1, <3>2
  <2> QED  BY <2>2, <2>3, <2>4 DEF Down
<1>6. ASSUME NEW a \in residual_arcs(n)
      PROVE  /\ a \in Arc /\ arc_tail(a) = n /\ capacity[a] > 0
             /\ rcost(q, a) >= - epsilon
             /\ arc_head(a) = n => rcost(q, a) >= 0
             /\ relabeled(n) = raised(n) => (rcost(q, a) < 0 <=> a \in lowered(n))
  <2>1. a \in Arc /\ arc_tail(a) = n /\ capacity[a] > 0 /\ a \in node_adjacency(n)
    BY DEF residual_arcs, residual, node_adjacency
  <2>2. CASE arc_head(a) = n
    <3>1. rcost(q, a) = gt_cost(a) /\ rcost(potential, a) = gt_cost(a)
      BY <1>4, <2>1, <2>2
    <3>2. ~ (rcost(potential, a) < 0)
      BY <2>1 DEF Down
    <3>3. rcost(q, a) >= 0
      BY <1>4, <2>1, <3>1, <3>2
    <3>4. raised(n) \in Int
      BY <1>2 DEF raised
    <3>5. through(n, a) = gt_cost(a) + raised(n)
      BY <2>2 DEF through
    <3>6. ~ (through(n, a) < raised(n))
      BY <1>4, <2>1, <3>1, <3>3, <3>4, <3>5
    <3>7. a \notin lowered(n)
      BY <3>6 DEF lowered
    <3>8. ~ (rcost(q, a) < 0) /\ rcost(q, a) >= - epsilon
      BY <1>4, <2>1, <3>1, <3>3
    <3> QED  BY <2>1, <3>3, <3>7, <3>8
  <2>3. CASE arc_head(a) # n
    <3>1. q[arc_head(a)] = potential[arc_head(a)] /\ q[arc_tail(a)] = relabeled(n)
      BY <1>2, <1>4, <2>1, <2>3
    <3>2. rcost(q, a) = gt_cost(a) + potential[arc_head(a)] - relabeled(n)
      BY <1>4, <2>1, <3>1
    <3>3. rcost(q, a) >= - epsilon
      BY <1>1, <1>4, <2>1, <2>3, <3>2
    <3>4. through(n, a) = gt_cost(a) + potential[arc_head(a)]
      BY <2>3 DEF through
    <3>5. ASSUME relabeled(n) = raised(n) PROVE rcost(q, a) < 0 <=> through(n, a) < raised(n)
      BY <1>1, <1>4, <2>1, <3>2, <3>4, <3>5
    <3> QED  BY <2>1, <2>3, <3>3, <3>5 DEF lowered
  <2> QED  BY <2>2, <2>3
<1>7. NearOptimal(capacity, q, epsilon)
  <2> SUFFICES ASSUME NEW a \in Arc, capacity[a] > 0 PROVE rcost(q, a) >= - epsilon
    BY DEF NearOptimal
  <2>1. CASE arc_tail(a) = n
    BY <1>6, <2>1 DEF residual_arcs, node_adjacency, residual
  <2>2. CASE arc_tail(a) # n
    <3>1. rcost(potential, a) >= - epsilon /\ rcost(q, a) >= rcost(potential, a)
      BY <1>5, <2>2 DEF NearOptimal
    <3>2. rcost(q, a) \in Int /\ rcost(potential, a) \in Int
      BY <1>4
    <3> QED  BY <3>1, <3>2
  <2> QED  BY <2>1, <2>2
<1>8. \A a \in Arc : arc_head(a) = n => ~ Down(capacity, q, a)
  <2> SUFFICES ASSUME NEW a \in Arc, arc_head(a) = n PROVE ~ Down(capacity, q, a)
    OBVIOUS
  <2>1. CASE arc_tail(a) # n
    BY <1>5, <2>1 DEF Down
  <2>2. CASE arc_tail(a) = n /\ capacity[a] > 0
    <3>1. rcost(q, a) >= 0
      BY <1>6, <2>2 DEF residual_arcs, residual, node_adjacency
    <3>2. ~ (rcost(q, a) < 0)
      BY <1>4, <3>1
    <3> QED  BY <3>2 DEF Down
  <2> QED  BY <2>1, <2>2 DEF Down
<1>9. NoCycle(capacity, q)
  <2> SUFFICES ASSUME NEW S \in (SUBSET Node) \ {{}}
               PROVE  \E m \in S : \A a \in node_adjacency(m) :
                        Down(capacity, q, a) => arc_head(a) \notin S
    BY DEF NoCycle
  <2>1. CASE S \ {n} = {}
    <3>1. S = {n}
      <4>1. S # {}
        BY Zenon
      <4> QED  BY <2>1, <4>1, Zenon
    <3> QED  BY <1>8, <3>1 DEF node_adjacency
  <2>2. CASE S \ {n} # {}
    <3>1. PICK m \in S \ {n} : \A a \in node_adjacency(m) :
            Down(capacity, potential, a) => arc_head(a) \notin S \ {n}
      <4>1. S \ {n} \in (SUBSET Node) \ {{}}
        BY <2>2
      <4> QED  BY <4>1 DEF NoCycle
    <3>2. \A a \in node_adjacency(m) : Down(capacity, q, a) => arc_head(a) \notin S
      <4> SUFFICES ASSUME NEW a \in node_adjacency(m), Down(capacity, q, a), arc_head(a) \in S
                   PROVE  FALSE
        OBVIOUS
      <4>1. a \in Arc /\ arc_tail(a) # n
        BY DEF node_adjacency
      <4>2. arc_head(a) # n
        BY <1>8, <4>1
      <4> QED  BY <1>5, <3>1, <4>1, <4>2
    <3> QED  BY <3>1, <3>2
  <2> QED  BY <2>1, <2>2
<1>10. /\ \A a \in node_adjacency(n) \ arcs_from(n, relabeled_arc(n)) :
            ~ Down(capacity, q, a)
       /\ relabeled_arc(n) \in node_adjacency(n) \union {NO_ARC}
  <2>1. /\ lowered(n) \subseteq residual_arcs(n) /\ residual_arcs(n) \subseteq node_adjacency(n)
        /\ \A a \in node_adjacency(n) : Down(capacity, q, a) => a \in residual_arcs(n)
    BY DEF lowered, residual_arcs, residual, Down
  <2>2. CASE lowered(n) # {}
    <3>1. relabeled_arc(n) = first(lowered(n)) /\ relabeled(n) = raised(n)
      BY <1>1, <2>2 DEF relabeled_arc
    <3>2. /\ relabeled_arc(n) \in node_adjacency(n)
          /\ lowered(n) \subseteq arcs_from(n, relabeled_arc(n))
      BY <2>1, <2>2, <3>1, LoopFacts
    <3> QED  BY <1>6, <2>1, <3>1, <3>2 DEF Down
  <2>3. CASE lowered(n) = {} /\ residual_arcs(n) # {}
    <3>1. relabeled_arc(n) = first(residual_arcs(n))
      BY <2>3 DEF relabeled_arc
    <3>2. /\ relabeled_arc(n) \in node_adjacency(n)
          /\ residual_arcs(n) \subseteq arcs_from(n, relabeled_arc(n))
      BY <2>1, <2>3, <3>1, LoopFacts
    <3> QED  BY <2>1, <3>2
  <2>4. CASE lowered(n) = {} /\ residual_arcs(n) = {}
    <3>1. relabeled_arc(n) = node_adjacency_begin(n)
      BY <2>4 DEF relabeled_arc
    <3> QED  BY <2>1, <2>4, <3>1, LoopFacts
  <2> QED  BY <2>2, <2>3, <2>4
<1> QED  BY <1>2, <1>3, <1>5, <1>7, <1>9, <1>10
-----------------------------------------------------------------------------
(* What the network is made of stays as it is during a call.               *)
LEMMA StaticFacts ==
  ASSUME UNCHANGED problem
  PROVE  /\ graph' = graph /\ cost' = cost /\ order' = order
         /\ \A a : arc_tail(a)' = arc_tail(a) /\ arc_head(a)' = arc_head(a)
         /\ \A a : gt_cost(a)' = gt_cost(a)
         /\ \A n : node_adjacency(n)' = node_adjacency(n)
         /\ \A n, a : arcs_from(n, a)' = arcs_from(n, a)
<1>1. graph' = graph /\ cost' = cost /\ order' = order
  BY DEF problem
<1>2. \A a : arc_tail(a)' = arc_tail(a)
  BY <1>1 DEF arc_tail
<1>3. \A a : arc_head(a)' = arc_head(a)
  BY <1>1 DEF arc_head, arc_tail
<1>4. \A a : gt_cost(a)' = gt_cost(a)
  BY <1>1 DEF gt_cost
<1>5. \A n : node_adjacency(n)' = node_adjacency(n)
  BY <1>2 DEF node_adjacency
<1>6. \A n, a : arcs_from(n, a)' = arcs_from(n, a)
  BY <1>1, <1>5 DEF arcs_from
<1> QED  BY <1>1, <1>2, <1>3, <1>4, <1>5, <1>6

(* The parts of the invariant, after a step and over the network before it.*)
LEMMA NextFacts ==
  ASSUME UNCHANGED problem
  PROVE  /\ \A a : Down(capacity, potential, a)' <=> Down(capacity', potential', a)
         /\ NearOptimal(capacity', potential', epsilon') =>
              NearOptimal(capacity, potential, epsilon)'
         /\ NoCycle(capacity', potential') => NoCycle(capacity, potential)'
         /\ Skipped(capacity', potential', position') =>
              Skipped(capacity, potential, position)'
<1>1. /\ \A a : arc_tail(a)' = arc_tail(a) /\ arc_head(a)' = arc_head(a)
      /\ \A a : gt_cost(a)' = gt_cost(a)
      /\ \A n : node_adjacency(n)' = node_adjacency(n)
      /\ \A n, a : arcs_from(n, a)' = arcs_from(n, a)
  BY StaticFacts
<1>2. \A a : rcost(potential, a)' = rcost(potential', a)
  BY <1>1 DEF rcost
<1>3. \A a : Down(capacity, potential, a)' <=> Down(capacity', potential', a)
  BY <1>2 DEF Down
<1>4. NearOptimal(capacity', potential', epsilon') => NearOptimal(capacity, potential, epsilon)'
  BY <1>2 DEF NearOptimal
<1>5. NoCycle(capacity', potential') => NoCycle(capacity, potential)'
  BY <1>1, <1>3 DEF NoCycle
<1>6. Skipped(capacity', potential', position') => Skipped(capacity, potential, position)'
  BY <1>1, <1>3 DEF Skipped
<1> QED  BY <1>3, <1>4, <1>5, <1>6
-----------------------------------------------------------------------------
(* The specification of the solvers sees the same network.                 *)
LEMMA AbstractFacts ==
  /\ Abstract!Node = Node /\ Abstract!ProblemArc = ProblemArc /\ Abstract!Arc = Arc
  /\ \A a : Abstract!arc_dual(a) = arc_dual(a)
  /\ \A a : Abstract!total(a) = capacity[a] + capacity[arc_dual(a)]
  /\ \A S : Abstract!Max(S) = Max(S)
  /\ \A n : Abstract!node_balance(n) = node_balance(n)
  /\ \A f, n : Abstract!Inflow(f, n) = SumOver(f, {a \in ProblemArc : graph.to[a] = n})
  /\ \A f, n : Abstract!Outflow(f, n) = SumOver(f, {a \in ProblemArc : graph.from[a] = n})
<1>1. Abstract!Node = Node /\ Abstract!ProblemArc = ProblemArc /\ Abstract!Arc = Arc
  BY DEF Abstract!Node, Node, Abstract!ProblemArc, ProblemArc, Abstract!Arc, Arc
<1>2. \A a : Abstract!arc_dual(a) = arc_dual(a)
  BY DEF Abstract!arc_dual, arc_dual
<1>3. \A a : Abstract!total(a) = capacity[a] + capacity[arc_dual(a)]
  BY <1>2 DEF Abstract!total
<1>4. \A S : Abstract!Max(S) = Max(S)
  BY Zenon DEF Abstract!Max, Max
<1>5. ASSUME NEW n PROVE Abstract!node_balance(n) = node_balance(n)
  BY ZenonT(30) DEF Abstract!node_balance, node_balance, Abstract!MapThenSumSet, MapThenSumSet,
     Abstract!MapThenFoldSet, MapThenFoldSet, Abstract!node_adjacency, node_adjacency,
     Abstract!arc_tail, arc_tail, Abstract!arc_is_dual, arc_is_dual, Abstract!arc_dual, arc_dual,
     Abstract!Arc, Arc
<1>6. ASSUME NEW f, NEW n
      PROVE  Abstract!Inflow(f, n) = SumOver(f, {a \in ProblemArc : graph.to[a] = n})
  BY ZenonT(30) DEF Abstract!Inflow, SumOver, Abstract!MapThenSumSet, MapThenSumSet,
     Abstract!MapThenFoldSet, MapThenFoldSet, Abstract!ProblemArc, ProblemArc
<1>7. ASSUME NEW f, NEW n
      PROVE  Abstract!Outflow(f, n) = SumOver(f, {a \in ProblemArc : graph.from[a] = n})
  BY ZenonT(30) DEF Abstract!Outflow, SumOver, Abstract!MapThenSumSet, MapThenSumSet,
     Abstract!MapThenFoldSet, MapThenFoldSet, Abstract!ProblemArc, ProblemArc
<1> QED  BY <1>1, <1>2, <1>3, <1>4, <1>5, <1>6, <1>7
-----------------------------------------------------------------------------
(* A push takes from one node what it gives to another, or the same one.   *)
LEMMA ExcessConserved ==
  ASSUME TypeOK, NEW a \in Arc, NEW x \in Int, gt_push(a, x)
  PROVE  excess' \in [Node -> Int] /\ SumOver(excess', Node) = SumOver(excess, Node)
<1> DEFINE f == excess
           g == excess'
           t == arc_tail(a)
           h == arc_head(a)
           k == [n \in Node |-> IF n = t THEN f[n] - x ELSE f[n]]
<1>1. f \in [Node -> Int] /\ t \in Node /\ h \in Node
  BY ArcFacts DEF TypeOK
<1>2. k \in [Node -> Int] /\ k[t] = f[t] - x /\ \A y \in Node \ {t} : f[y] = k[y]
  <2> HIDE DEF f, t
  <2> QED  BY <1>1
<1>3. g \in [Node -> Int] /\ g[h] = k[h] + x /\ \A y \in Node \ {h} : k[y] = g[y]
  <2>1. g = [f EXCEPT ![t] = @ - x, ![h] = @ + x]
    BY DEF gt_push
  <2> HIDE DEF f, t, h, g
  <2> QED  BY <1>1, <2>1
<1> HIDE DEF k, f, t, h, g
<1>4. Integral(f, Node) /\ Integral(k, Node) /\ Integral(g, Node) /\ IsFiniteSet(Node)
  BY <1>1, <1>2, <1>3, Sizes DEF Integral
<1>5. SumOver(k, Node) = SumOver(f, Node) + k[t] - f[t]
  BY <1>1, <1>2, <1>4, SumChange
<1>6. SumOver(g, Node) = SumOver(k, Node) + g[h] - k[h]
  BY <1>1, <1>3, <1>4, SumChange
<1>7. /\ SumOver(f, Node) \in Int /\ SumOver(k, Node) \in Int
      /\ f[t] \in Int /\ k[t] \in Int /\ g[h] \in Int /\ k[h] \in Int
  BY <1>1, <1>2, <1>3, <1>4, SumType
<1>8. SumOver(k, Node) = SumOver(f, Node) - x
  BY <1>2, <1>5, <1>7
<1>9. SumOver(g, Node) = SumOver(k, Node) + x
  BY <1>3, <1>6, <1>7
<1>10. SumOver(g, Node) = SumOver(f, Node)
  BY <1>7, <1>8, <1>9
<1> QED  BY <1>3, <1>10 DEF f, g

(* A step that moves no flow, changes no price and takes every scan on     *)
(* from where it was.                                                      *)
LEMMA PricesFrame ==
  ASSUME UNCHANGED problem, PricesOK, Refining, Refining' \/ pc' = "scale",
         capacity' = capacity, potential' = potential, epsilon' = epsilon,
         Refining' => position' = position,
         pc' = "scan" => arc' \in node_adjacency(node') \union {NO_ARC}
  PROVE  PricesOK' /\ SaturatedOK'
<1>1. /\ epsilon >= 1 /\ NearOptimal(capacity, potential, epsilon)
      /\ NoCycle(capacity, potential) /\ Skipped(capacity, potential, position)
      /\ \A n \in Node : potential[n] >= 0
  BY DEF PricesOK, Started
<1>2. /\ NearOptimal(capacity, potential, epsilon)'
      /\ NoCycle(capacity, potential)'
      /\ Refining' => Skipped(capacity, potential, position)'
  BY <1>1, NextFacts
<1>3. \A n : node_adjacency(n)' = node_adjacency(n)
  BY StaticFacts
<1>4. \A n \in Node : (potential[n] >= 0)'
  BY <1>1
<1>5. PricesOK'
  BY <1>1, <1>2, <1>3, <1>4 DEF PricesOK
<1>6. SaturatedOK'
  BY DEF SaturatedOK, Refining
<1> QED  BY <1>5, <1>6

(* A step into or within the scans that leaves the flood alone.            *)
LEMMA NoFlood ==
  ASSUME pc' \notin {"flood", "raise"}, Started' \/ pc' = "scale" => SumOver(excess', Node) = 0
  PROVE  FloodOK' /\ TreeOK' /\ ExcessOK'
<1>1. FloodOK' /\ TreeOK'
  BY DEF FloodOK, TreeOK
<1>2. SumOver(excess, Node)' = SumOver(excess', Node)
  OBVIOUS
<1>3. ExcessOK'
  BY <1>2 DEF ExcessOK
<1> QED  BY <1>1, <1>3

(* One lemma for every action follows, and one for the initial states.     *)
LEMMA InitIInv == Init => IInv
<1> SUFFICES ASSUME Init PROVE IInv
  OBVIOUS
<1> USE DEF Init
<1>1. NetworkTypeOK
  <2>1. graph \in Graphs /\ capacity \in Capacities
    OBVIOUS
  <2>2. /\ graph \in [from : [ProblemArc -> Node], to : [ProblemArc -> Node]]
        /\ capacity \in [Arc -> Nat]
    BY <2>1, NetworksAssumption
  <2>3. \A a \in Arc : arc_dual(a) \in Arc
    BY SizesAssumption DEF Arc, arc_dual
  <2>4. cost \in [Arc -> Int] /\ \A a \in Arc : cost[arc_dual(a)] = - cost[a]
    <3>1. cost \in [Arc -> Int] /\ \A a \in Arc : cost[a] = 0
      OBVIOUS
    <3> HIDE DEF Init
    <3> QED  BY <2>3, <3>1
  <2>5. potential \in [Node -> Int]
    OBVIOUS
  <2> HIDE DEF Init
  <2> QED  BY <2>2, <2>4, <2>5 DEF NetworkTypeOK
<1>2. TypeOK
  BY <1>1, Sizes DEF TypeOK
<1>3. PricesOK /\ SaturatedOK
  BY DEF PricesOK, SaturatedOK, Started, Refining
<1>4. FloodOK /\ TreeOK /\ ExcessOK
  BY DEF FloodOK, TreeOK, ExcessOK, Started, Refining
<1> QED  BY <1>2, <1>3, <1>4 DEF IInv
-----------------------------------------------------------------------------
(* The call takes costs and supplies.                                      *)
LEMMA CallStep ==
  ASSUME IInv, NEW supply \in Supplies, NEW c \in Costs, goldberg_tarjan_mcf(supply, c)
  PROVE  IInv'
<1> USE DEF goldberg_tarjan_mcf
<1>1. /\ graph' = graph /\ capacity' = capacity /\ potential' = potential /\ order' = order
      /\ TypeOK /\ pc' = "feasible" /\ PricesOK
  BY DEF IInv
<1>2. NetworkTypeOK'
  <2>1. c \in [ProblemArc -> Int]
    BY NetworksAssumption
  <2>2. cost' \in [Arc -> Int] /\ \A a \in Arc : cost'[arc_dual(a)] = - cost'[a]
    BY <2>1, SizesAssumption DEF antisymmetric, Arc, ProblemArc, arc_is_dual, arc_dual
  <2> QED  BY <1>1, <2>2 DEF NetworkTypeOK, TypeOK
<1>3. \A n : node_adjacency(n)' = node_adjacency(n)
  BY <1>1 DEF node_adjacency, arc_tail
<1>4. supply \in [Node -> Int]
  BY NetworksAssumption
<1>5. TypeOK'
  BY <1>1, <1>2, <1>3, <1>4 DEF TypeOK, loops, queue, cursor, flood
<1>6. PricesOK' /\ SaturatedOK'
  BY <1>1 DEF PricesOK, SaturatedOK, Started, Refining
<1>7. FloodOK' /\ TreeOK' /\ ExcessOK'
  BY NoFlood DEF Started, Refining
<1> QED  BY <1>5, <1>6, <1>7 DEF IInv

(* The greatest cost, or 0, from which the first epsilon is computed.      *)
LEMMA GreatestCost ==
  ASSUME NetworkTypeOK
  PROVE  /\ Max({0} \union {cost[a] : a \in Arc}) \in Nat
         /\ \A a \in Arc : /\ cost[a] <= Max({0} \union {cost[b] : b \in Arc})
                           /\ cost[a] \in Int
<1> DEFINE T == {0} \union {cost[a] : a \in Arc}
<1>1. cost \in [Arc -> Int]
  BY DEF NetworkTypeOK
<1>2. T \subseteq Int /\ T # {} /\ 0 \in T /\ \A a \in Arc : cost[a] \in T /\ cost[a] \in Int
  BY <1>1
<1>3. IsFiniteSet(T)
  <2>1. IsFiniteSet({cost[a] : a \in Arc}) /\ IsFiniteSet({0})
    <3>1. IsFiniteSet({cost[a] : a \in Arc})
      BY Sizes, ImageFinite
    <3> QED  BY <3>1, FS_Singleton
  <2> QED  BY <2>1, FS_Union
<1> HIDE DEF T
<1>4. Max(T) \in T /\ \A x \in T : x <= Max(T)
  BY <1>2, <1>3, MinMaxFacts
<1>5. Max(T) \in Int /\ 0 <= Max(T)
  BY <1>2, <1>4
<1>6. \A a \in Arc : cost[a] <= Max(T) /\ cost[a] \in Int
  BY <1>2, <1>4
<1> QED  BY <1>5, <1>6 DEF T

(* A flow of the specification carries natural numbers, on no arc more     *)
(* than there is.                                                          *)
LEMMA FlowFacts ==
  ASSUME TypeOK, NEW f \in Abstract!Flows, NEW a \in ProblemArc
  PROVE  /\ f[a] \in Nat /\ Abstract!total(a) - f[a] \in Nat
         /\ a \in Arc /\ Abstract!total(a) \in Nat
<1> DEFINE h == [b \in ProblemArc |-> Abstract!total(b)]
           T == {Abstract!total(b) : b \in ProblemArc}
<1>1. \A b \in ProblemArc : b \in Arc /\ Abstract!total(b) \in Nat
  <2> SUFFICES ASSUME NEW b \in ProblemArc PROVE b \in Arc /\ Abstract!total(b) \in Nat
    OBVIOUS
  <2>1. b \in Arc
    BY SizesAssumption DEF Arc, ProblemArc
  <2>2. capacity[b] \in Nat /\ capacity[arc_dual(b)] \in Nat
    BY <2>1, ArcFacts DEF TypeOK, NetworkTypeOK
  <2> QED  BY <2>1, <2>2, AbstractFacts
<1>2. IsFiniteSet(T)
  <2>1. T = {h[b] : b \in ProblemArc}
    OBVIOUS
  <2> HIDE DEF h, T
  <2> QED  BY <2>1, Sizes, ImageFinite
<1>3. T \subseteq Int /\ T # {}
  BY <1>1
<1>4. Max(T) \in Int
  <2> HIDE DEF T
  <2> QED  BY <1>2, <1>3, MinMaxFacts
<1>5. f[a] \in 0 .. Max(T) /\ f[a] <= Abstract!total(a)
  <2> DEFINE U == {Abstract!total(b) : b \in Abstract!ProblemArc}
  <2>1. f \in [Abstract!ProblemArc -> 0 .. Abstract!Max(U)] /\ f[a] <= Abstract!total(a)
    <3>1. a \in Abstract!ProblemArc
      BY AbstractFacts
    <3> QED  BY <3>1 DEF Abstract!Flows
  <2>2. U = T /\ \A S : Abstract!Max(S) = Max(S)
    BY AbstractFacts
  <2>3. Abstract!Max(U) = Max(T) /\ Abstract!ProblemArc = ProblemArc
    BY <2>2, AbstractFacts
  <2> HIDE DEF U, T
  <2> QED  BY <2>1, <2>3
<1> HIDE DEF T
<1> QED  BY <1>1, <1>4, <1>5

(* goldberg_tarjan_feasible leaves a flow, and no excess if there is a     *)
(* feasible one; with potentials of zero it is optimal up to the greatest  *)
(* cost.                                                                   *)
LEMMA FeasibleStep ==
  ASSUME IInv, goldberg_tarjan_feasible
  PROVE  IInv'
<1> DEFINE met == Abstract!FeasibleFlows # {}
<1>1. PICK f \in IF met THEN Abstract!FeasibleFlows ELSE Abstract!Flows :
        /\ capacity' = [a \in Arc |-> IF arc_is_dual(a) THEN f[arc_dual(a)]
                                      ELSE Abstract!total(a) - f[a]]
        /\ excess' = [n \in Node |-> Abstract!Excess(f, n)]
  BY DEF goldberg_tarjan_feasible
<1>2. /\ pc = "feasible"
      /\ IF met
         THEN /\ pc' = "scale"
              /\ epsilon' = scale_factor * Max({0} \union {cost[a] : a \in Arc})
         ELSE pc' = "fail" /\ UNCHANGED epsilon
      /\ potential' = [n \in Node |-> 0]
      /\ UNCHANGED <<problem, current_arc, arc_id, node_id, queue, cursor, flood,
                     result>>
  BY DEF goldberg_tarjan_feasible
<1>3. TypeOK /\ NetworkTypeOK
  BY DEF IInv, TypeOK
<1>4. f \in Abstract!Flows /\ (met => f \in Abstract!FeasibleFlows)
  BY <1>1 DEF Abstract!FeasibleFlows
<1> HIDE DEF met
<1>5. ASSUME NEW a \in ProblemArc
      PROVE  /\ f[a] \in Nat /\ Abstract!total(a) - f[a] \in Nat
             /\ a \in Arc /\ Abstract!total(a) \in Nat
  BY <1>3, <1>4, FlowFacts
<1>6. capacity' \in [Arc -> Nat]
  <2>1. \A a \in Arc : IF arc_is_dual(a) THEN arc_dual(a) \in ProblemArc ELSE a \in ProblemArc
    BY SizesAssumption DEF Arc, ProblemArc, arc_is_dual, arc_dual
  <2> QED  BY <1>1, <1>5, <2>1
<1>7. ASSUME NEW n \in Node PROVE Abstract!Excess(f, n) \in Int
  <2> DEFINE In == {a \in ProblemArc : graph.to[a] = n}
             Out == {a \in ProblemArc : graph.from[a] = n}
             F == [a \in Arc |-> carried(capacity, a)]
  <2>1. SumOver(f, In) \in Int /\ SumOver(f, Out) \in Int
    <3>1. IsFiniteSet(ProblemArc) /\ In \in SUBSET ProblemArc /\ Out \in SUBSET ProblemArc
      BY Sizes
    <3>2. Integral(f, ProblemArc)
      BY <1>5 DEF Integral
    <3> QED  BY <3>1, <3>2, SumType
  <2>2. Abstract!Inflow(f, n) = SumOver(f, In) /\ Abstract!Outflow(f, n) = SumOver(f, Out)
    BY AbstractFacts
  <2>3. node_adjacency(n) \in SUBSET Arc /\ IsFiniteSet(node_adjacency(n))
    BY Sizes, FS_Subset DEF node_adjacency
  <2>4. node_balance(n) = SumOver(F, node_adjacency(n))
    BY <2>3, BalanceIsSum
  <2>5. Integral(F, Arc)
    <3>1. \A a \in Arc : carried(capacity, a) \in Int
      BY <1>3, ArcFacts DEF carried, NetworkTypeOK
    <3> QED  BY <3>1 DEF Integral
  <2>6. node_balance(n) \in Int
    <3> HIDE DEF F
    <3> QED  BY <2>3, <2>4, <2>5, Sizes, SumType
  <2>7. Abstract!supply(n) = excess[n] - node_balance(n)
    BY AbstractFacts DEF Abstract!supply
  <2>8. excess[n] \in Int
    BY <1>3 DEF TypeOK
  <2> HIDE DEF In, Out, F
  <2> QED  BY <2>1, <2>2, <2>6, <2>7, <2>8 DEF Abstract!Excess
<1>8. excess' \in [Node -> Int]
  BY <1>1, <1>7
<1>9. ASSUME met PROVE \A n \in Node : excess'[n] = 0
  <2>1. \A n \in Node : Abstract!Excess(f, n) = 0
    BY <1>4, <1>9, AbstractFacts DEF Abstract!FeasibleFlows
  <2> QED  BY <1>1, <2>1
<1> DEFINE T == {0} \union {cost[a] : a \in Arc}
<1>10. Max(T) \in Nat /\ \A a \in Arc : cost[a] <= Max(T) /\ cost[a] \in Int
  BY <1>3, GreatestCost
<1>11. met => epsilon' = max_num_nodes * Max(T)
  BY <1>2 DEF scale_factor
<1> HIDE DEF T
<1>12. epsilon' \in Nat
  <2>1. epsilon \in Nat
    BY <1>3 DEF TypeOK
  <2>2. max_num_nodes * Max(T) \in Nat
    BY <1>10, SizesAssumption
  <2> QED  BY <1>2, <1>11, <2>1, <2>2
<1>13. graph' = graph /\ cost' = cost /\ order' = order
  BY <1>2 DEF problem
<1>14. potential' \in [Node -> Int] /\ \A n \in Node : potential'[n] = 0
  BY <1>2
<1>15. NetworkTypeOK'
  <2>1. \A a : arc_dual(a)' = arc_dual(a)
    BY DEF arc_dual
  <2> QED  BY <1>3, <1>6, <1>13, <1>14 DEF NetworkTypeOK
<1>16. TypeOK'
  <2>1. \A n : node_adjacency(n)' = node_adjacency(n)
    BY <1>2, StaticFacts
  <2> QED  BY <1>2, <1>3, <1>8, <1>12, <1>13, <1>15, <2>1 DEF TypeOK, queue, cursor, flood
<1>17. ASSUME met PROVE NearOptimal(capacity', potential', epsilon')
  <2> SUFFICES ASSUME NEW a \in Arc PROVE rcost(potential', a) >= - epsilon'
    BY DEF NearOptimal
  <2>1. rcost(potential', a) = gt_cost(a)
    <3>1. arc_head(a) \in Node /\ arc_tail(a) \in Node /\ gt_cost(a) \in Int
      BY <1>3, ArcFacts, CostFacts DEF NetworkTypeOK
    <3>2. potential'[arc_head(a)] = 0 /\ potential'[arc_tail(a)] = 0
      BY <1>14, <3>1
    <3> QED  BY <3>1, <3>2 DEF rcost
  <2>2. cost[arc_dual(a)] = - cost[a] /\ arc_dual(a) \in Arc
    BY <1>3, ArcFacts DEF NetworkTypeOK
  <2>3. cost[a] \in Int /\ cost[a] >= - Max(T)
    BY <1>10, <2>2
  <2>4. gt_cost(a) = cost[a] * max_num_nodes
    BY DEF gt_cost, scale_factor
  <2>5. cost[a] * max_num_nodes >= - (max_num_nodes * Max(T))
    BY <1>10, <2>3, SizesAssumption
  <2> QED  BY <1>11, <1>17, <2>1, <2>4, <2>5
<1>18. PricesOK' /\ SaturatedOK'
  <2>1. pc' = "scale" => NearOptimal(capacity, potential, epsilon)'
    BY <1>2, <1>17, NextFacts
  <2>2. \A n \in Node : (potential[n] >= 0)'
    BY <1>14
  <2>3. PricesOK'
    BY <1>2, <2>1, <2>2 DEF PricesOK, Started, Refining
  <2> QED  BY <1>2, <2>3 DEF SaturatedOK
<1>19. FloodOK' /\ TreeOK' /\ ExcessOK'
  <2>1. pc' = "scale" => SumOver(excess', Node) = 0
    BY <1>2, <1>9, Sizes, SumZero
  <2> QED  BY <1>2, <2>1, NoFlood DEF Started, Refining
<1> QED  BY <1>16, <1>18, <1>19 DEF IInv

(* What the constants and the network alone decide stays.                  *)
LEMMA NetworkFrame ==
  ASSUME TypeOK, UNCHANGED problem, capacity' \in [Arc -> Nat], potential' \in [Node -> Int]
  PROVE  NetworkTypeOK' /\ \A n : node_adjacency(n)' = node_adjacency(n)
<1>1. graph' = graph /\ cost' = cost /\ \A n : node_adjacency(n)' = node_adjacency(n)
  BY StaticFacts
<1>2. \A a : arc_dual(a)' = arc_dual(a)
  BY DEF arc_dual
<1> QED  BY <1>1, <1>2 DEF TypeOK, NetworkTypeOK

(* The two ends of a call.                                                 *)
LEMMA ReturnSteps ==
  ASSUME IInv, Fail \/ Return
  PROVE  IInv'
<1>1. /\ pc' = "idle" /\ result' \in {"solved", "failed"}
      /\ UNCHANGED <<problem, flows, potential, current_arc, loops, queue, cursor, flood>>
  BY DEF Fail, Return
<1>2. TypeOK /\ PricesOK /\ UNCHANGED problem
  BY <1>1 DEF IInv
<1>3. /\ capacity' = capacity /\ potential' = potential
      /\ capacity' \in [Arc -> Nat] /\ potential' \in [Node -> Int]
  BY <1>1, <1>2 DEF flows, TypeOK, NetworkTypeOK
<1>4. NetworkTypeOK' /\ \A n : node_adjacency(n)' = node_adjacency(n)
  BY <1>2, <1>3, NetworkFrame
<1>5. TypeOK'
  BY <1>1, <1>2, <1>4 DEF TypeOK, problem, flows, loops, queue, cursor, flood
<1>6. PricesOK' /\ SaturatedOK'
  BY <1>1, <1>2, <1>3 DEF PricesOK, SaturatedOK, Started, Refining
<1>7. FloodOK' /\ TreeOK' /\ ExcessOK'
  BY <1>1, NoFlood DEF Started, Refining
<1> QED  BY <1>5, <1>6, <1>7 DEF IInv

(* A refinement begins.                                                    *)
LEMMA RefineStep ==
  ASSUME IInv, Refine
  PROVE  IInv'
<1>1. /\ pc = "scale" /\ pc' = "saturate" /\ arc_id' = 0
      /\ epsilon' = Max({1, epsilon \div GOLDBERG_PRICE_REFINEMENT})
      /\ current_arc' = [n \in Node |-> node_adjacency_begin(n)]
      /\ UNCHANGED <<problem, flows, potential, node_id, queue, cursor, flood, result>>
  BY DEF Refine
<1>2. TypeOK /\ PricesOK /\ ExcessOK /\ UNCHANGED problem
  BY <1>1 DEF IInv
<1>3. /\ capacity' = capacity /\ potential' = potential /\ excess' = excess
      /\ capacity' \in [Arc -> Nat] /\ potential' \in [Node -> Int]
  BY <1>1, <1>2 DEF flows, TypeOK, NetworkTypeOK
<1>4. epsilon' \in Nat /\ epsilon' >= 1
  <2> DEFINE x == epsilon \div GOLDBERG_PRICE_REFINEMENT
             T == {1, x}
  <2>1. x \in Nat
    BY <1>2 DEF TypeOK, GOLDBERG_PRICE_REFINEMENT
  <2> HIDE DEF x
  <2>2. T \subseteq Int /\ T # {} /\ 1 \in T
    BY <2>1
  <2>3. IsFiniteSet(T)
    <3>1. IsFiniteSet({x}) /\ T = {x} \union {1}
      BY FS_Singleton
    <3> QED  BY <3>1, FS_AddElement
  <2> HIDE DEF T
  <2>4. Max(T) \in T /\ 1 <= Max(T)
    BY <2>2, <2>3, MinMaxFacts
  <2>5. Max(T) \in Int
    BY <2>2, <2>4
  <2>6. epsilon' = Max(T)
    BY <1>1 DEF T, x
  <2> QED  BY <2>4, <2>5, <2>6
<1>5. \A n \in Node : current_arc'[n] \in node_adjacency(n) \union {NO_ARC}
  <2>1. order \in Orders
    BY <1>2 DEF TypeOK
  <2> QED  BY <1>1, <2>1, LoopFacts
<1>6. NetworkTypeOK' /\ \A n : node_adjacency(n)' = node_adjacency(n)
  BY <1>2, <1>3, NetworkFrame
<1>7. current_arc' \in [Node -> Arc \union {NO_ARC}]
  BY <1>1, <1>5 DEF node_adjacency
<1>8. TypeOK'
  <2>1. 0 \in 0 .. 2 * num_arcs
    BY Sizes
  <2> QED  BY <1>1, <1>2, <1>4, <1>5, <1>6, <1>7, <2>1 DEF TypeOK, problem, flows, queue, cursor, flood
<1>9. PricesOK' /\ SaturatedOK'
  <2>1. \A a \in Arc : ~ (a < 0)
    BY Sizes
  <2> QED  BY <1>1, <1>2, <1>3, <1>4, <2>1 DEF PricesOK, SaturatedOK, Refining
<1>10. FloodOK' /\ TreeOK' /\ ExcessOK'
  BY <1>1, <1>2, <1>3, NoFlood DEF ExcessOK
<1> QED  BY <1>8, <1>9, <1>10 DEF IInv

(* The loop over the arcs saturates those that lead down.                  *)
LEMMA SaturateStep ==
  ASSUME IInv, Saturate
  PROVE  IInv'
<1>1. /\ pc = "saturate" /\ arc_id \in Arc /\ arc_id' = arc_id + 1
      /\ IF saturates(arc_id)
         THEN gt_push(arc_id, capacity[arc_id]) ELSE UNCHANGED flows
      /\ UNCHANGED <<problem, potential, current_arc, pc, epsilon, node_id, queue,
                     cursor, flood, result>>
  BY DEF Saturate
<1>2. TypeOK /\ NetworkTypeOK /\ PricesOK /\ SaturatedOK /\ ExcessOK /\ UNCHANGED problem
  BY <1>1 DEF IInv, TypeOK
<1>3. /\ capacity \in [Arc -> Nat] /\ potential \in [Node -> Int] /\ potential' = potential
      /\ excess \in [Node -> Int] /\ arc_id \in Nat
  BY <1>1, <1>2, Sizes DEF TypeOK, NetworkTypeOK
<1>4. saturates(arc_id) <=> Down(capacity, potential, arc_id)
  BY DEF saturates, admissible, residual, gt_reduced_cost, Down, rcost
<1>5. /\ capacity' \in [Arc -> Nat] /\ excess' \in [Node -> Int]
      /\ \A b \in Arc : Down(capacity', potential, b) => Down(capacity, potential, b)
      /\ ~ Down(capacity', potential, arc_id)
      /\ SumOver(excess', Node) = SumOver(excess, Node)
  <2>1. CASE saturates(arc_id)
    <3> DEFINE x == capacity[arc_id]
               d == capacity'
    <3>1. gt_push(arc_id, x) /\ x \in Nat /\ x \in 0 .. capacity[arc_id]
      BY <1>1, <1>3, <2>1
    <3>2. d = [capacity EXCEPT ![arc_id] = @ - x, ![arc_dual(arc_id)] = @ + x]
      BY <3>1 DEF gt_push
    <3>3. x = capacity[arc_id]
      OBVIOUS
    <3> HIDE DEF d, x
    <3>4. d \in [Arc -> Nat] /\ Keeps(capacity, potential, d, potential)
          /\ ~ Down(d, potential, arc_id)
      BY <1>1, <1>2, <1>3, <1>4, <2>1, <3>1, <3>2, <3>3, PushFacts
    <3>5. excess' \in [Node -> Int] /\ SumOver(excess', Node) = SumOver(excess, Node)
      BY <1>1, <1>2, <3>1, ExcessConserved
    <3> QED  BY <3>4, <3>5 DEF Keeps, d
  <2>2. CASE ~ saturates(arc_id)
    BY <1>1, <1>3, <1>4, <2>2 DEF flows
  <2> QED  BY <2>1, <2>2
<1>6. NetworkTypeOK' /\ \A n : node_adjacency(n)' = node_adjacency(n)
  BY <1>2, <1>3, <1>5, NetworkFrame
<1>7. TypeOK'
  <2>1. arc_id + 1 \in 0 .. 2 * num_arcs
    BY <1>1, Sizes DEF Arc
  <2> QED  BY <1>1, <1>2, <1>5, <1>6, <2>1 DEF TypeOK, problem, flows, queue, cursor, flood
<1>8. PricesOK' /\ SaturatedOK'
  <2>1. \A a : Down(capacity, potential, a)' <=> Down(capacity', potential', a)
    BY <1>2, NextFacts
  <2>2. ASSUME NEW a \in Arc, a < arc_id' PROVE ~ Down(capacity', potential', a)
    <3>1. a < arc_id \/ a = arc_id
      BY <1>1, <1>3, <2>2, Sizes
    <3> QED  BY <1>1, <1>2, <1>3, <1>5, <3>1 DEF SaturatedOK
  <2> QED  BY <1>1, <1>2, <1>3, <2>1, <2>2 DEF PricesOK, SaturatedOK, Started, Refining
<1>9. FloodOK' /\ TreeOK' /\ ExcessOK'
  BY <1>1, <1>2, <1>5, NoFlood DEF ExcessOK, Started
<1> QED  BY <1>7, <1>8, <1>9 DEF IInv

(* The loop over the nodes.                                                *)
LEMMA EnqueueSteps ==
  ASSUME IInv, Saturated \/ Enqueue
  PROVE  IInv'
<1>1. /\ pc \in {"saturate", "enqueue"} /\ pc' = "enqueue"
      /\ pc = "saturate" => arc_id = 2 * num_arcs
      /\ UNCHANGED <<problem, flows, potential, current_arc, epsilon, arc_id,
                     num_relabels, cursor, flood, result>>
  BY DEF Saturated, Enqueue, queue
<1>2. TypeOK /\ NetworkTypeOK /\ PricesOK /\ SaturatedOK /\ ExcessOK /\ UNCHANGED problem
  BY <1>1 DEF IInv, TypeOK
<1>3. /\ capacity' = capacity /\ potential' = potential /\ excess' = excess
      /\ capacity' \in [Arc -> Nat] /\ potential' \in [Node -> Int]
  BY <1>1, <1>2 DEF flows, TypeOK, NetworkTypeOK
<1>4. node_id' \in 0 .. max_num_nodes /\ active' \in Seq(Node)
  <2>1. CASE Saturated
    BY <1>2, <2>1, Sizes DEF Saturated, TypeOK, queue
  <2>2. CASE Enqueue
    <3>1. node_id \in Node /\ node_id' = node_id + 1 /\ active \in Seq(Node)
      BY <1>2, <2>2 DEF Enqueue, TypeOK
    <3>2. active' = Append(active, node_id) \/ active' = active
      BY <2>2 DEF Enqueue
    <3>3. node_id' \in 0 .. max_num_nodes
      BY <3>1, Sizes DEF Node
    <3>4. active' \in Seq(Node)
      BY <3>1, <3>2
    <3> QED  BY <3>3, <3>4
  <2> QED  BY <2>1, <2>2
<1>5. NetworkTypeOK' /\ \A n : node_adjacency(n)' = node_adjacency(n)
  BY <1>2, <1>3, NetworkFrame
<1>6. TypeOK'
  BY <1>1, <1>2, <1>3, <1>4, <1>5 DEF TypeOK, problem, cursor, flood
<1>7. PricesOK' /\ SaturatedOK'
  <2>1. \A a : Down(capacity, potential, a)' <=> Down(capacity', potential', a)
    BY <1>2, NextFacts
  <2>2. \A a \in Arc : a < 2 * num_arcs
    BY Sizes DEF Arc
  <2>3. \A a \in Arc : ~ Down(capacity, potential, a)
    BY <1>1, <1>2, <2>2 DEF SaturatedOK
  <2> QED  BY <1>1, <1>2, <1>3, <2>1, <2>3 DEF PricesOK, SaturatedOK, Started, Refining
<1>8. FloodOK' /\ TreeOK' /\ ExcessOK'
  BY <1>1, <1>2, <1>3, NoFlood DEF ExcessOK, Started
<1> QED  BY <1>6, <1>7, <1>8 DEF IInv

(* With nothing that leads down, the flow is optimal for this epsilon.     *)
LEMMA EnqueuedStep ==
  ASSUME IInv, Enqueued
  PROVE  IInv'
<1>1. /\ pc = "enqueue" /\ pc' = "main" /\ num_relabels' = 0
      /\ UNCHANGED <<problem, flows, potential, current_arc, loops, active, cursor,
                     flood, result>>
  BY DEF Enqueued
<1>2. TypeOK /\ NetworkTypeOK /\ PricesOK /\ SaturatedOK /\ ExcessOK /\ UNCHANGED problem
  BY <1>1 DEF IInv, TypeOK
<1>3. /\ capacity' = capacity /\ potential' = potential /\ excess' = excess /\ epsilon' = epsilon
      /\ capacity' \in [Arc -> Nat] /\ potential' \in [Node -> Int]
  BY <1>1, <1>2 DEF flows, loops, TypeOK, NetworkTypeOK
<1>4. NetworkTypeOK' /\ \A n : node_adjacency(n)' = node_adjacency(n)
  BY <1>2, <1>3, NetworkFrame
<1>5. TypeOK'
  BY <1>1, <1>2, <1>3, <1>4, Sizes DEF TypeOK, problem, loops, cursor, flood
<1>6. epsilon \in Nat /\ epsilon >= 1 /\ \A a \in Arc : ~ Down(capacity, potential, a)
  BY <1>1, <1>2 DEF TypeOK, PricesOK, SaturatedOK, Started
<1>7. NearOptimal(capacity, potential, epsilon)
  <2> SUFFICES ASSUME NEW a \in Arc, capacity[a] > 0 PROVE rcost(potential, a) >= - epsilon
    BY DEF NearOptimal
  <2>1. rcost(potential, a) \in Int
    BY <1>2, <1>3, CostFacts
  <2>2. ~ (rcost(potential, a) < 0)
    BY <1>6 DEF Down
  <2> QED  BY <1>6, <2>1, <2>2
<1>8. /\ NoCycle(capacity, potential)
      /\ \A at : Skipped(capacity, potential, at)
  <2>1. \A n : node_adjacency(n) \subseteq Arc
    BY DEF node_adjacency
  <2> QED  BY <1>6, <2>1 DEF NoCycle, Skipped
<1>9. /\ NearOptimal(capacity, potential, epsilon)'
      /\ NoCycle(capacity, potential)' /\ Skipped(capacity, potential, position)'
  BY <1>2, <1>3, <1>7, <1>8, NextFacts
<1>10. PricesOK' /\ SaturatedOK'
  BY <1>1, <1>2, <1>3, <1>6, <1>9 DEF PricesOK, SaturatedOK, Started
<1>11. FloodOK' /\ TreeOK' /\ ExcessOK'
  BY <1>1, <1>2, <1>3, NoFlood DEF ExcessOK, Started
<1> QED  BY <1>5, <1>10, <1>11 DEF IInv
-----------------------------------------------------------------------------
(* The steps of the loop over the queue that move no flow and change no    *)
(* price.                                                                  *)
LEMMA QueueSteps ==
  ASSUME IInv, Pop \/ Refined \/ Discharged
  PROVE  IInv'
<1>1. /\ pc \in {"main", "discharge"} /\ pc' \in {"main", "discharge", "scale"}
      /\ UNCHANGED <<problem, flows, potential, current_arc, loops, num_relabels, arc,
                     flood, result>>
      /\ node' \in Node /\ active' \in Seq(Node)
  <2>1. node \in Node /\ active \in Seq(Node)
    BY DEF IInv, TypeOK
  <2>2. CASE Pop
    BY <2>1, <2>2 DEF Pop
  <2>3. CASE Refined
    BY <2>1, <2>3 DEF Refined, queue, cursor
  <2>4. CASE Discharged
    BY <2>1, <2>4 DEF Discharged, queue, cursor
  <2> QED  BY <2>2, <2>3, <2>4
<1>2. TypeOK /\ NetworkTypeOK /\ PricesOK /\ ExcessOK /\ UNCHANGED problem
  BY <1>1 DEF IInv, TypeOK
<1>3. /\ capacity' = capacity /\ potential' = potential /\ excess' = excess
      /\ epsilon' = epsilon /\ current_arc' = current_arc
      /\ capacity' \in [Arc -> Nat] /\ potential' \in [Node -> Int]
  BY <1>1, <1>2 DEF flows, loops, TypeOK, NetworkTypeOK
<1>4. NetworkTypeOK' /\ \A n : node_adjacency(n)' = node_adjacency(n)
  BY <1>2, <1>3, NetworkFrame
<1>5. TypeOK'
  BY <1>1, <1>2, <1>3, <1>4 DEF TypeOK, problem, loops, flood
<1>6. PricesOK' /\ SaturatedOK'
  <2>1. position' = position
    BY <1>1, <1>3 DEF position
  <2> QED  BY <1>1, <1>2, <1>3, <2>1, PricesFrame DEF Refining
<1>7. FloodOK' /\ TreeOK' /\ ExcessOK'
  BY <1>1, <1>2, <1>3, NoFlood DEF ExcessOK, Started, Refining
<1> QED  BY <1>5, <1>6, <1>7 DEF IInv

(* A scan begins at the current arc.                                       *)
LEMMA BeginScanStep ==
  ASSUME IInv, BeginScan
  PROVE  IInv'
<1>1. /\ pc = "discharge" /\ pc' = "scan" /\ arc' = current_arc[node]
      /\ UNCHANGED <<problem, flows, potential, current_arc, loops, queue, node, flood,
                     result>>
  BY DEF BeginScan
<1>2. TypeOK /\ NetworkTypeOK /\ PricesOK /\ ExcessOK /\ UNCHANGED problem
  BY <1>1 DEF IInv, TypeOK
<1>3. /\ capacity' = capacity /\ potential' = potential /\ excess' = excess
      /\ epsilon' = epsilon /\ current_arc' = current_arc /\ node' = node
      /\ capacity' \in [Arc -> Nat] /\ potential' \in [Node -> Int]
      /\ arc' \in Arc \union {NO_ARC} /\ arc' \in node_adjacency(node) \union {NO_ARC}
  BY <1>1, <1>2 DEF flows, loops, TypeOK, NetworkTypeOK
<1>4. NetworkTypeOK' /\ \A n : node_adjacency(n)' = node_adjacency(n)
  BY <1>2, <1>3, NetworkFrame
<1>5. TypeOK'
  BY <1>1, <1>2, <1>3, <1>4 DEF TypeOK, problem, loops, queue, flood
<1>6. PricesOK' /\ SaturatedOK'
  <2>1. position' = position
    BY <1>1, <1>3 DEF position
  <2> QED  BY <1>1, <1>2, <1>3, <2>1, PricesFrame DEF Refining
<1>7. FloodOK' /\ TreeOK' /\ ExcessOK'
  BY <1>1, <1>2, <1>3, NoFlood DEF ExcessOK, Started, Refining
<1> QED  BY <1>5, <1>6, <1>7 DEF IInv

(* What has been seen to lead not down may be left behind.                 *)
LEMMA PassFacts ==
  ASSUME TypeOK, PricesOK, pc = "scan", arc # NO_ARC
  PROVE  /\ arc \in node_adjacency(node) /\ arc \in Arc /\ arc_tail(arc) = node
         /\ arc_head(arc) \in Node
         /\ node_adjacency_next(arc) \in node_adjacency(node) \union {NO_ARC}
         /\ arcs_from(node, node_adjacency_next(arc)) = arcs_from(node, arc) \ {arc}
<1>1. arc \in node_adjacency(node) /\ order \in Orders /\ NetworkTypeOK
  BY DEF PricesOK, TypeOK
<1>2. arc \in Arc /\ arc_tail(arc) = node
  BY <1>1 DEF node_adjacency
<1> QED  BY <1>1, <1>2, ArcFacts, LoopFacts

(* An arc that does not lead down is passed.                               *)
LEMMA PassArcStep ==
  ASSUME IInv, PassArc
  PROVE  IInv'
<1>1. /\ pc = "scan" /\ pc' = "scan" /\ arc # NO_ARC /\ ~ admissible(arc)
      /\ arc' = node_adjacency_next(arc)
      /\ UNCHANGED <<problem, flows, potential, current_arc, pc, loops, queue, node,
                     flood, result>>
  BY DEF PassArc, Scanning
<1>2. TypeOK /\ NetworkTypeOK /\ PricesOK /\ ExcessOK /\ UNCHANGED problem
  BY <1>1 DEF IInv, TypeOK
<1>3. /\ arc \in node_adjacency(node)
      /\ node_adjacency_next(arc) \in node_adjacency(node) \union {NO_ARC}
      /\ arcs_from(node, node_adjacency_next(arc)) = arcs_from(node, arc) \ {arc}
  BY <1>1, <1>2, PassFacts
<1>4. /\ capacity' = capacity /\ potential' = potential /\ excess' = excess
      /\ epsilon' = epsilon /\ current_arc' = current_arc /\ node' = node
      /\ capacity' \in [Arc -> Nat] /\ potential' \in [Node -> Int]
      /\ arc' \in Arc \union {NO_ARC} /\ arc' \in node_adjacency(node) \union {NO_ARC}
  BY <1>1, <1>2, <1>3 DEF flows, loops, TypeOK, NetworkTypeOK, node_adjacency
<1>5. NetworkTypeOK' /\ \A n : node_adjacency(n)' = node_adjacency(n)
  BY <1>2, <1>4, NetworkFrame
<1>6. TypeOK'
  BY <1>1, <1>2, <1>4, <1>5 DEF TypeOK, problem, loops, queue, flood
<1>7. Skipped(capacity, potential, position')
  <2>1. ~ Down(capacity, potential, arc)
    BY <1>1 DEF admissible, residual, gt_reduced_cost, Down, rcost
  <2>2. Skipped(capacity, potential, position)
    BY <1>1, <1>2 DEF PricesOK, Refining
  <2> SUFFICES ASSUME NEW n \in Node, NEW a \in node_adjacency(n) \ arcs_from(n, position'[n])
               PROVE  ~ Down(capacity, potential, a)
    BY DEF Skipped
  <2>3. CASE n = node
    <3>1. position[n] = arc /\ position'[n] = node_adjacency_next(arc)
      BY <1>1, <1>4, <2>3 DEF position
    <3>2. a \in node_adjacency(n) \ arcs_from(n, position[n]) \/ a = arc
      BY <1>3, <2>3, <3>1
    <3> QED  BY <2>1, <2>2, <3>2 DEF Skipped
  <2>4. CASE n # node
    <3>1. position[n] = current_arc[n] /\ position'[n] = current_arc[n]
      BY <1>1, <1>4, <2>4 DEF position
    <3> QED  BY <2>2, <3>1 DEF Skipped
  <2> QED  BY <2>3, <2>4
<1>8. PricesOK' /\ SaturatedOK'
  <2>1. /\ NearOptimal(capacity, potential, epsilon) /\ NoCycle(capacity, potential)
        /\ epsilon >= 1 /\ \A n \in Node : potential[n] >= 0
    BY <1>1, <1>2 DEF PricesOK, Started, Refining
  <2>2. /\ NearOptimal(capacity, potential, epsilon)'
        /\ NoCycle(capacity, potential)' /\ Skipped(capacity, potential, position)'
    BY <1>2, <1>4, <1>7, <2>1, NextFacts
  <2> QED  BY <1>1, <1>4, <1>5, <2>1, <2>2 DEF PricesOK, SaturatedOK
<1>9. FloodOK' /\ TreeOK' /\ ExcessOK'
  BY <1>1, <1>2, <1>4, NoFlood DEF ExcessOK, Started, Refining
<1> QED  BY <1>6, <1>8, <1>9 DEF IInv
-----------------------------------------------------------------------------
(* Admissible arcs are those that lead down.                               *)
LEMMA DownFacts ==
  \A a : admissible(a) <=> Down(capacity, potential, a)
BY DEF admissible, residual, gt_reduced_cost, Down, rcost

(* Where no cycle leads down, no loop does.                                *)
LEMMA NoLoop ==
  ASSUME NetworkTypeOK, NEW c, NEW p, NoCycle(c, p), NEW a \in Arc, Down(c, p, a)
  PROVE  arc_head(a) # arc_tail(a)
<1>1. arc_tail(a) \in Node /\ a \in node_adjacency(arc_tail(a))
  BY ArcFacts DEF node_adjacency
<1>2. {arc_tail(a)} \in (SUBSET Node) \ {{}}
  BY <1>1
<1>3. PICK n \in {arc_tail(a)} : \A b \in node_adjacency(n) : Down(c, p, b) => arc_head(b) \notin {arc_tail(a)}
  BY <1>2 DEF NoCycle
<1> QED  BY <1>1, <1>3

(* A push along the arc of the scan either leaves no excess or leaves no   *)
(* capacity.                                                               *)
LEMMA PushAlong ==
  ASSUME TypeOK, Scanning, arc \in Arc, arc_tail(arc) = node, arc_head(arc) # node,
         NEW q \in [Node -> Int], Down(capacity, q, arc), push_along
  PROVE  /\ capacity' \in [Arc -> Nat] /\ excess' \in [Node -> Int]
         /\ SumOver(excess', Node) = SumOver(excess, Node)
         /\ active' \in Seq(Node)
         /\ Keeps(capacity, q, capacity', q)
         /\ \/ arc' = arc
            \/ arc' = node_adjacency_next(arc) /\ ~ Down(capacity', q, arc)
<1>1. /\ NetworkTypeOK /\ capacity \in [Arc -> Nat] /\ excess \in [Node -> Int]
      /\ node \in Node /\ arc_head(arc) \in Node /\ excess[node] > 0
      /\ active \in Seq(Node)
  BY ArcFacts DEF TypeOK, NetworkTypeOK, Scanning
<1> DEFINE x == amount(arc)
           d == capacity'
           e == excess'
<1>2. x \in Nat /\ x \in 0 .. capacity[arc] /\ (x = excess[node] \/ x = capacity[arc])
  BY <1>1 DEF amount, MIN
<1>3. gt_push(arc, x)
  BY DEF push_along
<1>4. e \in [Node -> Int] /\ SumOver(e, Node) = SumOver(excess, Node)
  BY <1>2, <1>3, ExcessConserved
<1>5. e[node] = excess[node] - x
  <2>1. e = [excess EXCEPT ![arc_tail(arc)] = @ - x, ![arc_head(arc)] = @ + x]
    BY <1>3 DEF gt_push
  <2> DEFINE t == arc_tail(arc)
             h == arc_head(arc)
  <2>2. t = node /\ t \in Node /\ h # t
    BY <1>1
  <2>3. excess[t] - x \in Int
    BY <1>1, <1>2, <2>2
  <2> HIDE DEF e, x, t, h
  <2>4. e = [excess EXCEPT ![t] = @ - x, ![h] = @ + x]
    BY <2>1 DEF t, h
  <2>5. e[t] = excess[t] - x
    BY <1>1, <2>2, <2>4
  <2> QED  BY <2>2, <2>5
<1>6. d \in [Arc -> Nat] /\ Keeps(capacity, q, d, q) /\ (x = capacity[arc] => ~ Down(d, q, arc))
  <2>1. d = [capacity EXCEPT ![arc] = @ - x, ![arc_dual(arc)] = @ + x]
    BY <1>3 DEF gt_push
  <2> HIDE DEF d, x
  <2> QED  BY <1>1, <1>2, <2>1, PushFacts
<1>7. active' \in Seq(Node)
  <2>1. active' = Append(active, arc_head(arc)) \/ active' = active
    BY DEF push_along
  <2> HIDE DEF e, d, x
  <2>2. Append(active, arc_head(arc)) \in Seq(Node)
    BY <1>1
  <2> QED  BY <1>1, <2>1, <2>2
<1>8. \/ arc' = arc
      \/ arc' = node_adjacency_next(arc) /\ ~ Down(d, q, arc)
  <2>1. CASE e[node] = 0
    BY <2>1 DEF push_along
  <2>2. CASE e[node] # 0
    <3>1. arc' = node_adjacency_next(arc)
      BY <2>2 DEF push_along
    <3> HIDE DEF e, x
    <3>2. x # excess[node]
      BY <1>1, <1>5, <2>2
    <3> QED  BY <1>2, <1>6, <3>1, <3>2
  <2> QED  BY <2>1, <2>2
<1> QED  BY <1>4, <1>6, <1>7, <1>8

(* A step within a scan, from what it does to the arcs that lead down.     *)
LEMMA ScanPrices ==
  ASSUME TypeOK, PricesOK, pc = "scan", pc' = "scan", arc # NO_ARC, UNCHANGED problem,
         node' = node, epsilon' = epsilon,
         \A n \in Node : potential'[n] >= 0,
         NearOptimal(capacity', potential', epsilon), NoCycle(capacity', potential'),
         \A a \in node_adjacency(node) :
           Down(capacity', potential', a) => Down(capacity, potential, a),
         \/ arc' = arc
         \/ arc' = node_adjacency_next(arc) /\ ~ Down(capacity', potential', arc),
         \A n \in Node \ {node} : \A a \in node_adjacency(n) \ arcs_from(n, current_arc'[n]) :
           ~ Down(capacity', potential', a)
  PROVE  PricesOK' /\ SaturatedOK' /\ arc' \in node_adjacency(node) \union {NO_ARC}
<1>1. /\ arc \in node_adjacency(node)
      /\ node_adjacency_next(arc) \in node_adjacency(node) \union {NO_ARC}
      /\ arcs_from(node, node_adjacency_next(arc)) = arcs_from(node, arc) \ {arc}
  BY PassFacts
<1>2. arc' \in node_adjacency(node) \union {NO_ARC}
  BY <1>1
<1>3. Skipped(capacity', potential', position')
  <2>1. Skipped(capacity, potential, position) /\ node \in Node
    BY DEF PricesOK, Refining, TypeOK
  <2>2. \A n \in Node : position'[n] = IF n = node THEN arc' ELSE current_arc'[n]
    BY DEF position
  <2>3. \A a \in node_adjacency(node) \ arcs_from(node, arc) : ~ Down(capacity, potential, a)
    <3>1. position[node] = arc
      BY <2>1 DEF position
    <3> QED  BY <2>1, <3>1 DEF Skipped
  <2>4. \A a \in node_adjacency(node) \ arcs_from(node, arc') : ~ Down(capacity', potential', a)
    BY <1>1, <2>3
  <2> QED  BY <2>2, <2>4 DEF Skipped
<1>4. /\ NearOptimal(capacity, potential, epsilon)'
      /\ NoCycle(capacity, potential)' /\ Skipped(capacity, potential, position)'
  BY <1>3, NextFacts
<1>5. \A n : node_adjacency(n)' = node_adjacency(n)
  BY StaticFacts
<1>6. epsilon' >= 1 /\ \A n \in Node : (potential[n] >= 0)'
  BY DEF PricesOK, Started, Refining
<1>7. PricesOK' /\ SaturatedOK'
  BY <1>2, <1>4, <1>5, <1>6 DEF PricesOK, SaturatedOK
<1> QED  BY <1>2, <1>7

(* A push, the current arc of its head looked up first.                    *)
LEMMA PushStep ==
  ASSUME IInv, Push
  PROVE  IInv'
<1> DEFINE next == arc_head(arc)
           A == admissible_from_current(next)
<1>1. /\ pc = "scan" /\ pc' = "scan" /\ arc # NO_ARC /\ Scanning /\ admissible(arc)
      /\ UNCHANGED <<problem, potential, pc, loops, num_relabels, node, flood, result>>
      /\ push_along
      /\ \/ current_arc' = current_arc
         \/ A # {} /\ current_arc' = [current_arc EXCEPT ![next] = first(A)]
  BY DEF Push, Scanning
<1>2. /\ TypeOK /\ NetworkTypeOK /\ PricesOK /\ ExcessOK /\ UNCHANGED problem
      /\ potential \in [Node -> Int] /\ potential' = potential /\ epsilon' = epsilon
      /\ epsilon \in Nat /\ node' = node /\ order \in Orders
      /\ current_arc \in [Node -> Arc \union {NO_ARC}]
      /\ \A n \in Node : current_arc[n] \in node_adjacency(n) \union {NO_ARC}
  BY <1>1 DEF IInv, TypeOK, NetworkTypeOK, loops
<1>3. /\ arc \in node_adjacency(node) /\ arc \in Arc /\ arc_tail(arc) = node
      /\ next \in Node /\ Down(capacity, potential, arc)
      /\ NearOptimal(capacity, potential, epsilon)
      /\ NoCycle(capacity, potential) /\ Skipped(capacity, potential, position)
      /\ \A n \in Node : potential[n] >= 0
  BY <1>1, <1>2, PassFacts, DownFacts DEF PricesOK, Refining
<1>4. next # node
  BY <1>2, <1>3, NoLoop
<1>5. /\ capacity' \in [Arc -> Nat] /\ excess' \in [Node -> Int]
      /\ SumOver(excess', Node) = SumOver(excess, Node)
      /\ active' \in Seq(Node)
      /\ Keeps(capacity, potential, capacity', potential)
      /\ \/ arc' = arc
         \/ arc' = node_adjacency_next(arc) /\ ~ Down(capacity', potential, arc)
  BY <1>1, <1>2, <1>3, <1>4, PushAlong
<1>6. NearOptimal(capacity', potential, epsilon) /\ NoCycle(capacity', potential)
  BY <1>2, <1>3, <1>5, KeepsFacts
<1>7. \A a \in Arc : Down(capacity', potential, a) => Down(capacity, potential, a)
  BY <1>5 DEF Keeps
<1>8. \A n : node_adjacency(n) \subseteq Arc
  BY DEF node_adjacency
<1>9. \A n \in Node \ {node} : \A a \in node_adjacency(n) \ arcs_from(n, current_arc[n]) :
        ~ Down(capacity, potential, a)
  BY <1>3 DEF Skipped, position
<1>10. A # {} => /\ first(A) \in node_adjacency(next)
                 /\ \A a \in node_adjacency(next) \ arcs_from(next, first(A)) :
                      ~ Down(capacity, potential, a)
  <2>1. A \in SUBSET node_adjacency(next)
    BY DEF admissible_from_current, arcs_from
  <2>2. A # {} => first(A) \in node_adjacency(next) /\ A \subseteq arcs_from(next, first(A))
    <3> HIDE DEF A, next
    <3> QED  BY <1>2, <2>1, LoopFacts
  <2>3. \A a \in arcs_from(next, current_arc[next]) : Down(capacity, potential, a) => a \in A
    BY DownFacts DEF admissible_from_current
  <2> HIDE DEF A, next
  <2> QED  BY <1>3, <1>4, <1>9, <2>2, <2>3
<1>11. /\ \A n \in Node \ {node} : \A a \in node_adjacency(n) \ arcs_from(n, current_arc'[n]) :
            ~ Down(capacity', potential, a)
       /\ current_arc' \in [Node -> Arc \union {NO_ARC}]
       /\ \A n \in Node : current_arc'[n] \in node_adjacency(n) \union {NO_ARC}
  <2> HIDE DEF A, next
  <2>1. \A n \in Node : \/ current_arc'[n] = current_arc[n]
                        \/ n = next /\ A # {} /\ current_arc'[n] = first(A)
    <3>1. CASE current_arc' = current_arc
      BY <3>1
    <3>2. CASE A # {} /\ current_arc' = [current_arc EXCEPT ![next] = first(A)]
      BY <1>2, <3>2
    <3> QED  BY <1>1, <3>1, <3>2 DEF A, next
  <2>2. current_arc' \in [Node -> Arc \union {NO_ARC}]
    BY <1>1, <1>2, <1>3, <1>8, <1>10
  <2> QED  BY <1>2, <1>7, <1>8, <1>9, <1>10, <2>1, <2>2
<1>12. PricesOK' /\ SaturatedOK' /\ arc' \in node_adjacency(node) \union {NO_ARC}
  BY <1>1, <1>2, <1>3, <1>5, <1>6, <1>7, <1>8, <1>11, ScanPrices
<1>13. NetworkTypeOK' /\ \A n : node_adjacency(n)' = node_adjacency(n)
  BY <1>2, <1>5, NetworkFrame
<1>14. TypeOK'
  BY <1>1, <1>2, <1>5, <1>8, <1>11, <1>12, <1>13 DEF TypeOK, problem, loops, flood
<1>15. FloodOK' /\ TreeOK' /\ ExcessOK'
  BY <1>1, <1>2, <1>5, NoFlood DEF ExcessOK, Started, Refining
<1> QED  BY <1>12, <1>14, <1>15 DEF IInv
-----------------------------------------------------------------------------
(* The head is relabeled, and there may be a push.                         *)
LEMMA RelabelHeadStep ==
  ASSUME IInv, RelabelHead
  PROVE  IInv'
<1> DEFINE next == arc_head(arc)
           rcost_next == gt_cost(arc) + relabeled(next) - potential[node]
           q == potential'
<1>1. /\ pc = "scan" /\ pc' = "scan" /\ arc # NO_ARC /\ Scanning /\ admissible(arc)
      /\ admissible_from_current(next) = {}
      /\ num_relabels' = one_more_relabel
      /\ UNCHANGED <<problem, pc, loops, node, flood, result>>
      /\ q = [potential EXCEPT ![next] = relabeled(next)]
      /\ current_arc' = [current_arc EXCEPT ![next] = relabeled_arc(next)]
      /\ IF rcost_next < 0
         THEN push_along
         ELSE /\ arc' = node_adjacency_next(arc)
              /\ UNCHANGED <<flows, active>>
  BY DEF RelabelHead, Scanning
<1>2. /\ TypeOK /\ NetworkTypeOK /\ PricesOK /\ ExcessOK /\ UNCHANGED problem
      /\ potential \in [Node -> Int] /\ epsilon' = epsilon
      /\ epsilon \in Nat /\ epsilon >= 1 /\ node' = node /\ order \in Orders
      /\ capacity \in [Arc -> Nat] /\ excess \in [Node -> Int]
      /\ current_arc \in [Node -> Arc \union {NO_ARC}]
      /\ \A n \in Node : current_arc[n] \in node_adjacency(n) \union {NO_ARC}
  BY <1>1 DEF IInv, TypeOK, NetworkTypeOK, loops, PricesOK, Started, Refining
<1>3. /\ arc \in node_adjacency(node) /\ arc \in Arc /\ arc_tail(arc) = node
      /\ next \in Node /\ node \in Node /\ Down(capacity, potential, arc)
      /\ NearOptimal(capacity, potential, epsilon)
      /\ NoCycle(capacity, potential) /\ Skipped(capacity, potential, position)
      /\ \A n \in Node : potential[n] >= 0
  BY <1>1, <1>2, PassFacts, DownFacts DEF PricesOK, Refining, TypeOK
<1>4. next # node
  BY <1>2, <1>3, NoLoop
<1>5. \A n : node_adjacency(n) \subseteq Arc /\ \A a \in node_adjacency(n) : arc_tail(a) = n
  BY DEF node_adjacency
<1>6. \A n \in Node \ {node} : \A a \in node_adjacency(n) \ arcs_from(n, current_arc[n]) :
        ~ Down(capacity, potential, a)
  BY <1>3 DEF Skipped, position
<1>7. \A a \in node_adjacency(next) : ~ Down(capacity, potential, a)
  <2>1. \A a \in arcs_from(next, current_arc[next]) : ~ Down(capacity, potential, a)
    BY <1>1, DownFacts DEF admissible_from_current
  <2> HIDE DEF next
  <2> QED  BY <1>3, <1>4, <1>6, <2>1
<1>8. relabeled(next) \in Int
  <2> HIDE DEF next
  <2> QED  BY <1>2, <1>3, <1>7, RelabeledValue
<1>9. q \in [Node -> Int] /\ q[next] = relabeled(next) /\ \A n \in Node : n # next => q[n] = potential[n]
  <2> DEFINE r == relabeled(next)
  <2>1. q = [potential EXCEPT ![next] = r] /\ r \in Int
    BY <1>1, <1>8
  <2> HIDE DEF q, next, r
  <2>2. q \in [Node -> Int] /\ q[next] = r /\ \A n \in Node : n # next => q[n] = potential[n]
    BY <1>2, <1>3, <2>1
  <2> QED  BY <2>2 DEF r
<1> HIDE DEF q
<1>10. /\ \A m \in Node : q[m] >= potential[m]
       /\ NearOptimal(capacity, q, epsilon) /\ NoCycle(capacity, q)
       /\ \A a \in Arc : arc_tail(a) # next /\ Down(capacity, q, a) =>
            Down(capacity, potential, a)
       /\ \A a \in node_adjacency(next) \ arcs_from(next, relabeled_arc(next)) :
            ~ Down(capacity, q, a)
       /\ relabeled_arc(next) \in node_adjacency(next) \union {NO_ARC}
  <2> HIDE DEF next
  <2> QED  BY <1>2, <1>3, <1>7, <1>9, RelabelFacts
<1>11. /\ capacity' \in [Arc -> Nat] /\ excess' \in [Node -> Int]
       /\ SumOver(excess', Node) = SumOver(excess, Node)
       /\ active' \in Seq(Node)
       /\ NearOptimal(capacity', q, epsilon) /\ NoCycle(capacity', q)
       /\ \A a \in Arc : Down(capacity', q, a) => Down(capacity, q, a)
       /\ \/ arc' = arc
          \/ arc' = node_adjacency_next(arc) /\ ~ Down(capacity', q, arc)
  <2>1. rcost(q, arc) = rcost_next
    <3>1. q[arc_head(arc)] = relabeled(next) /\ q[arc_tail(arc)] = potential[node]
      BY <1>3, <1>4, <1>9
    <3> QED  BY <3>1 DEF rcost
  <2>2. CASE rcost_next < 0
    <3>1. Down(capacity, q, arc)
      BY <1>3, <2>1, <2>2 DEF Down
    <3>2. push_along
      BY <1>1, <2>2
    <3> HIDE DEF rcost_next
    <3>3. /\ capacity' \in [Arc -> Nat] /\ excess' \in [Node -> Int]
          /\ SumOver(excess', Node) = SumOver(excess, Node)
          /\ active' \in Seq(Node)
          /\ Keeps(capacity, q, capacity', q)
          /\ \/ arc' = arc
             \/ arc' = node_adjacency_next(arc) /\ ~ Down(capacity', q, arc)
      BY <1>1, <1>2, <1>3, <1>4, <1>9, <3>1, <3>2, PushAlong
    <3>4. NearOptimal(capacity', q, epsilon) /\ NoCycle(capacity', q)
      BY <1>2, <1>9, <1>10, <3>3, KeepsFacts
    <3> QED  BY <3>3, <3>4 DEF Keeps
  <2>3. CASE ~ (rcost_next < 0)
    <3>1. ~ Down(capacity, q, arc)
      BY <2>1, <2>3 DEF Down
    <3>2. arc' = node_adjacency_next(arc) /\ capacity' = capacity /\ excess' = excess /\ active' = active
      BY <1>1, <2>3 DEF flows
    <3>3. active \in Seq(Node)
      BY <1>2 DEF TypeOK
    <3> QED  BY <1>2, <1>10, <3>1, <3>2, <3>3
  <2> QED  BY <2>2, <2>3
<1>12. \A n \in Node : current_arc'[n] = IF n = next THEN relabeled_arc(next) ELSE current_arc[n]
  <2> HIDE DEF next
  <2> QED  BY <1>1, <1>2
<1>13. /\ current_arc' \in [Node -> Arc \union {NO_ARC}]
       /\ \A n \in Node : current_arc'[n] \in node_adjacency(n) \union {NO_ARC}
  <2>1. current_arc' \in [Node -> Arc \union {NO_ARC}]
    <3>1. relabeled_arc(next) \in Arc \union {NO_ARC}
      BY <1>5, <1>10
    <3> HIDE DEF next
    <3> QED  BY <1>1, <1>2, <3>1
  <2> HIDE DEF next
  <2> QED  BY <1>2, <1>10, <1>12, <2>1
<1>14. \A n \in Node \ {node} : \A a \in node_adjacency(n) \ arcs_from(n, current_arc'[n]) :
          ~ Down(capacity', q, a)
  <2> SUFFICES ASSUME NEW n \in Node \ {node}, NEW a \in node_adjacency(n) \ arcs_from(n, current_arc'[n])
               PROVE  ~ Down(capacity, q, a)
    BY <1>5, <1>11
  <2>1. CASE n = next
    BY <1>10, <1>12, <2>1
  <2>2. CASE n # next
    BY <1>5, <1>6, <1>10, <1>12, <2>2
  <2> QED  BY <2>1, <2>2
<1>15. \A a \in node_adjacency(node) : Down(capacity', q, a) => Down(capacity, potential, a)
  BY <1>4, <1>5, <1>10, <1>11
<1>16. \A n \in Node : q[n] >= 0
  BY <1>2, <1>3, <1>9, <1>10
<1>17. PricesOK' /\ SaturatedOK' /\ arc' \in node_adjacency(node) \union {NO_ARC}
  BY <1>1, <1>2, <1>11, <1>14, <1>15, <1>16, ScanPrices DEF q
<1>18. NetworkTypeOK' /\ \A n : node_adjacency(n)' = node_adjacency(n)
  BY <1>2, <1>9, <1>11, NetworkFrame DEF q
<1>19. num_relabels' \in 0 .. max_num_nodes
  BY <1>1, <1>2, Sizes DEF one_more_relabel, MIN, TypeOK
<1>20. TypeOK'
  BY <1>1, <1>2, <1>5, <1>11, <1>13, <1>17, <1>18, <1>19 DEF TypeOK, problem, loops, flood
<1>21. FloodOK' /\ TreeOK' /\ ExcessOK'
  BY <1>1, <1>2, <1>11, NoFlood DEF ExcessOK, Started, Refining
<1> QED  BY <1>17, <1>20, <1>21 DEF IInv

(* The end of a scan, with or without a relabel.                           *)
LEMMA EndScanStep ==
  ASSUME IInv, EndScan
  PROVE  IInv'
<1>1. /\ pc = "scan" /\ pc' = "discharge" /\ ~ Scanning
      /\ IF excess[node] > 0
         THEN /\ potential' = [potential EXCEPT ![node] = relabeled(node)]
              /\ current_arc' = [current_arc EXCEPT ![node] = relabeled_arc(node)]
              /\ num_relabels' = one_more_relabel
         ELSE /\ current_arc' = [current_arc EXCEPT ![node] = arc]
              /\ UNCHANGED <<potential, num_relabels>>
      /\ UNCHANGED <<problem, flows, loops, active, cursor, flood, result>>
  BY DEF EndScan
<1>2. /\ TypeOK /\ NetworkTypeOK /\ PricesOK /\ ExcessOK /\ UNCHANGED problem
      /\ potential \in [Node -> Int] /\ epsilon' = epsilon
      /\ epsilon \in Nat /\ epsilon >= 1 /\ node \in Node /\ order \in Orders
      /\ capacity \in [Arc -> Nat] /\ capacity' = capacity /\ excess' = excess
      /\ current_arc \in [Node -> Arc \union {NO_ARC}]
      /\ \A n \in Node : current_arc[n] \in node_adjacency(n) \union {NO_ARC}
  BY <1>1 DEF IInv, TypeOK, NetworkTypeOK, flows, loops, PricesOK, Started, Refining
<1>3. /\ NearOptimal(capacity, potential, epsilon)
      /\ NoCycle(capacity, potential) /\ Skipped(capacity, potential, position)
      /\ \A n \in Node : potential[n] >= 0
      /\ arc \in node_adjacency(node) \union {NO_ARC}
  BY <1>1, <1>2 DEF PricesOK, Refining
<1>4. \A n : node_adjacency(n) \subseteq Arc /\ \A a \in node_adjacency(n) : arc_tail(a) = n
  BY DEF node_adjacency
<1>5. /\ potential' \in [Node -> Int] /\ \A n \in Node : potential'[n] >= 0
      /\ NearOptimal(capacity, potential', epsilon) /\ NoCycle(capacity, potential')
      /\ Skipped(capacity, potential', current_arc')
      /\ current_arc' \in [Node -> Arc \union {NO_ARC}]
      /\ \A n \in Node : current_arc'[n] \in node_adjacency(n) \union {NO_ARC}
      /\ num_relabels' \in 0 .. max_num_nodes
  <2>1. CASE excess[node] > 0
    <3> DEFINE q == potential'
               r == relabeled(node)
               at == relabeled_arc(node)
    <3>1. arc = NO_ARC
      BY <1>1, <2>1 DEF Scanning
    <3>2. \A a \in node_adjacency(node) : ~ Down(capacity, potential, a)
      <4>1. position[node] = NO_ARC /\ arcs_from(node, NO_ARC) = {}
        BY <1>1, <1>2, <3>1, LoopFacts DEF position
      <4> QED  BY <1>2, <1>3, <4>1 DEF Skipped
    <3>3. r \in Int
      BY <1>2, <3>2, RelabeledValue
    <3>4. q = [potential EXCEPT ![node] = r] /\ current_arc' = [current_arc EXCEPT ![node] = at]
      BY <1>1, <2>1
    <3> HIDE DEF q, r, at
    <3>5. q \in [Node -> Int] /\ q[node] = r /\ \A n \in Node : n # node => q[n] = potential[n]
      BY <1>2, <3>3, <3>4
    <3>6. /\ \A m \in Node : q[m] >= potential[m]
          /\ NearOptimal(capacity, q, epsilon) /\ NoCycle(capacity, q)
          /\ \A a \in Arc : arc_tail(a) # node /\ Down(capacity, q, a) =>
               Down(capacity, potential, a)
          /\ \A a \in node_adjacency(node) \ arcs_from(node, at) : ~ Down(capacity, q, a)
          /\ at \in node_adjacency(node) \union {NO_ARC}
      <4>1. q[node] = relabeled(node)
        BY <3>5 DEF r
      <4> HIDE DEF r
      <4> QED  BY <1>2, <1>3, <3>2, <3>5, <4>1, RelabelFacts DEF at
    <3>7. \A n \in Node : current_arc'[n] = IF n = node THEN at ELSE current_arc[n]
      BY <1>2, <3>4
    <3>8. current_arc' \in [Node -> Arc \union {NO_ARC}]
      BY <1>2, <1>4, <3>4, <3>6
    <3>9. \A n \in Node : current_arc'[n] \in node_adjacency(n) \union {NO_ARC}
      BY <1>2, <3>6, <3>7
    <3>10. Skipped(capacity, q, current_arc')
      <4> SUFFICES ASSUME NEW n \in Node, NEW a \in node_adjacency(n) \ arcs_from(n, current_arc'[n])
                   PROVE  ~ Down(capacity, q, a)
        BY DEF Skipped
      <4>1. CASE n = node
        BY <3>6, <3>7, <4>1
      <4>2. CASE n # node
        <5>1. position[n] = current_arc[n] /\ current_arc'[n] = current_arc[n]
          BY <3>7, <4>2 DEF position
        <5>2. ~ Down(capacity, potential, a)
          BY <1>3, <5>1 DEF Skipped
        <5> QED  BY <1>4, <3>6, <4>2, <5>2
      <4> QED  BY <4>1, <4>2
    <3>11. \A n \in Node : q[n] >= 0
      BY <1>2, <1>3, <3>5, <3>6
    <3>12. num_relabels' \in 0 .. max_num_nodes
      BY <1>1, <1>2, <2>1, Sizes DEF one_more_relabel, MIN, TypeOK
    <3> QED  BY <3>5, <3>6, <3>8, <3>9, <3>10, <3>11, <3>12 DEF q
  <2>2. CASE ~ (excess[node] > 0)
    <3>1. /\ current_arc' = [current_arc EXCEPT ![node] = arc] /\ potential' = potential
          /\ num_relabels' = num_relabels
      BY <1>1, <2>2
    <3>2. \A n \in Node : current_arc'[n] = position[n] /\ current_arc'[n] = IF n = node THEN arc ELSE current_arc[n]
      BY <1>1, <1>2, <3>1 DEF position
    <3>3. Skipped(capacity, potential, current_arc')
      BY <1>3, <3>2 DEF Skipped
    <3>4. current_arc' \in [Node -> Arc \union {NO_ARC}]
      BY <1>2, <1>3, <1>4, <3>1
    <3>5. num_relabels \in 0 .. max_num_nodes
      BY <1>2 DEF TypeOK
    <3> QED  BY <1>2, <1>3, <3>1, <3>2, <3>3, <3>4, <3>5
  <2> QED  BY <2>1, <2>2
<1>6. NetworkTypeOK' /\ \A n : node_adjacency(n)' = node_adjacency(n)
  BY <1>2, <1>5, NetworkFrame
<1>7. TypeOK'
  BY <1>1, <1>2, <1>5, <1>6 DEF TypeOK, problem, flows, loops, cursor, flood
<1>8. PricesOK' /\ SaturatedOK'
  <2>1. Skipped(capacity, potential', position')
    <3>1. \A n \in Node : position'[n] = current_arc'[n]
      BY <1>1 DEF position
    <3> QED  BY <1>5, <3>1 DEF Skipped
  <2>2. /\ NearOptimal(capacity, potential, epsilon)'
        /\ NoCycle(capacity, potential)' /\ Skipped(capacity, potential, position)'
    BY <1>2, <1>5, <2>1, NextFacts
  <2> QED  BY <1>1, <1>2, <1>5, <2>2 DEF PricesOK, SaturatedOK
<1>9. FloodOK' /\ TreeOK' /\ ExcessOK'
  BY <1>1, <1>2, NoFlood DEF ExcessOK, Started, Refining
<1> QED  BY <1>7, <1>8, <1>9 DEF IInv
-----------------------------------------------------------------------------
(* So many levels make an arc lead down, and one level less does not.      *)
LEMMA LevelFacts ==
  ASSUME TypeOK, epsilon >= 1, NEW a \in Arc
  PROVE  /\ levels(a) \in Nat
         /\ rcost(potential, a) < levels(a) * epsilon
         /\ levels(a) = 0 \/ levels(a) * epsilon <= rcost(potential, a) + epsilon
<1> DEFINE x == rcost(potential, a)
           e == epsilon
<1>1. x \in Int /\ gt_reduced_cost(a) = x /\ e \in Nat /\ e >= 1
  <2>1. NetworkTypeOK /\ potential \in [Node -> Int] /\ epsilon \in Nat
    BY DEF TypeOK, NetworkTypeOK
  <2>2. x \in Int
    BY <2>1, CostFacts
  <2> QED  BY <2>1, <2>2 DEF gt_reduced_cost, rcost
<1>2. levels(a) = IF x < 0 THEN 0 ELSE 1 + x \div e
  BY <1>1 DEF levels
<1> HIDE DEF x, e
<1>3. CASE x < 0
  BY <1>1, <1>2, <1>3 DEF x, e
<1>4. CASE ~ (x < 0)
  <2> DEFINE k == x \div e
             m == x % e
  <2>1. x = e * k + m /\ k \in Int /\ m \in 0 .. e - 1
    BY <1>1, <1>4
  <2>2. k >= 0
    BY <1>1, <1>4
  <2>3. levels(a) = 1 + k
    BY <1>2, <1>4
  <2> HIDE DEF k, m
  <2>4. (1 + k) * e = e * k + e /\ e * k \in Int
    BY <1>1, <2>1
  <2>5. x < (1 + k) * e /\ (1 + k) * e <= x + e
    BY <1>1, <2>1, <2>4
  <2> QED  BY <1>1, <2>1, <2>2, <2>3, <2>5 DEF x, e
<1> QED  BY <1>3, <1>4

(* What a step of the flood sees of the network.                           *)
LEMMA FloodFacts ==
  ASSUME UNCHANGED problem, UNCHANGED flows, potential' = potential, epsilon' = epsilon
  PROVE  /\ excess' = excess /\ capacity' = capacity
         /\ \A a : arc_tail(a)' = arc_tail(a) /\ arc_head(a)' = arc_head(a)
         /\ \A n : node_adjacency(n)' = node_adjacency(n)
         /\ \A a : (residual(a)' <=> residual(a)) /\ levels(a)' = levels(a)
         /\ \A n : settled(n)' <=> n \notin pending' /\ distance'[n] < INFINITE
         /\ \A a : unscanned(a)' <=> /\ arc_head(a) = node'
                                     /\ pc' = "raise" \/ arc_dual(a) \in arcs_from(node', arc')
<1>1. /\ \A a : arc_tail(a)' = arc_tail(a) /\ arc_head(a)' = arc_head(a)
      /\ \A a : gt_cost(a)' = gt_cost(a)
      /\ \A n : node_adjacency(n)' = node_adjacency(n)
      /\ order' = order
  BY StaticFacts
<1>2. excess' = excess /\ capacity' = capacity
  BY DEF flows
<1>3. \A a : gt_reduced_cost(a)' = gt_reduced_cost(a)
  BY <1>1 DEF gt_reduced_cost
<1>4. \A a : (residual(a)' <=> residual(a)) /\ levels(a)' = levels(a)
  BY <1>2, <1>3 DEF residual, levels
<1>5. \A n : settled(n)' <=> n \notin pending' /\ distance'[n] < INFINITE
  BY DEF settled
<1>6. \A a : unscanned(a)' <=> /\ arc_head(a) = node'
                               /\ pc' = "raise" \/ arc_dual(a) \in arcs_from(node', arc')
  <2>1. \A a : arc_dual(a)' = arc_dual(a)
    BY DEF arc_dual
  <2>2. \A a : arc_dual(a) \in arcs_from(node, arc)' <=> arc_dual(a) \in arcs_from(node', arc')
    BY <1>1 DEF arcs_from
  <2> QED  BY <1>1, <2>1, <2>2 DEF unscanned
<1> QED  BY <1>1, <1>2, <1>4, <1>5, <1>6

(* The flood starts with the sinks, and with their excess.                 *)
LEMMA UpdatePricesStep ==
  ASSUME IInv, UpdatePrices
  PROVE  IInv'
<1> DEFINE sinks == {n \in Node : excess[n] < 0}
<1>1. /\ pc = "main" /\ pc' = "flood" /\ arc' = NO_ARC /\ num_relabels' = 0
      /\ pending' = sinks
      /\ distance' = [n \in Node |-> IF n \in sinks THEN 0 ELSE INFINITE]
      /\ maximum_distance' = 0
      /\ UNCHANGED <<problem, flows, potential, current_arc, loops, active, node, result>>
  BY DEF UpdatePrices
<1>2. /\ TypeOK /\ NetworkTypeOK /\ PricesOK /\ ExcessOK /\ UNCHANGED problem /\ UNCHANGED flows
      /\ potential' = potential /\ epsilon' = epsilon /\ current_arc' = current_arc
      /\ capacity' = capacity /\ excess' = excess /\ node' = node
      /\ capacity' \in [Arc -> Nat] /\ potential' \in [Node -> Int]
      /\ excess \in [Node -> Int]
  BY <1>1 DEF IInv, TypeOK, NetworkTypeOK, loops, flows
<1> HIDE DEF sinks
<1>3. sinks \in SUBSET Node /\ \A n \in Node : n \in sinks <=> excess[n] < 0
  BY DEF sinks
<1>4. set_excess' = SumOver(excess, sinks)
  <2>1. set_excess' = MapThenSumSet(LAMBDA n : excess[n], sinks)
    BY Zenon DEF UpdatePrices, sinks
  <2> QED  BY <2>1, Zenon DEF SumOver
<1>5. Integral(excess, Node) /\ IsFiniteSet(Node)
  BY <1>2, Sizes DEF Integral
<1>6. set_excess' \in Int
  BY <1>3, <1>4, <1>5, SumType
<1>7. NetworkTypeOK' /\ \A n : node_adjacency(n)' = node_adjacency(n)
  BY <1>2, NetworkFrame
<1>8. distance' \in [Node -> Nat] /\ \A n \in Node : distance'[n] = IF n \in sinks THEN 0 ELSE INFINITE
  BY <1>1, Sizes
<1>9. TypeOK'
  BY <1>1, <1>2, <1>3, <1>6, <1>7, <1>8, Sizes DEF TypeOK, problem, flows, loops
<1>10. PricesOK' /\ SaturatedOK'
  <2>1. position' = position
    BY <1>1, <1>2 DEF position
  <2> QED  BY <1>1, <1>2, <2>1, PricesFrame DEF Refining
<1>11. \A n \in Node : ~ settled(n)' /\ (distance'[n] < INFINITE => excess'[n] < 0)
  BY <1>1, <1>2, <1>3, <1>8, Sizes DEF settled
<1>12. FloodOK'
  <2>1. \A a \in Arc : arc_head(a)' \in Node
    BY <1>2, ArcFacts, FloodFacts
  <2>2. \A a \in Arc : ~ settled(arc_head(a))'
    BY <1>2, <1>11, <2>1, FloodFacts
  <2>3. /\ 0 <= INFINITE
        /\ \A n \in Node : distance'[n] <= INFINITE
        /\ \A n \in pending' : distance'[n] >= maximum_distance'
    BY <1>1, <1>3, <1>8, Sizes
  <2> QED  BY <1>1, <1>11, <2>2, <2>3 DEF FloodOK
<1>13. TreeOK'
  <2>1. \A n \in Node : distance'[n] < INFINITE => ~ (excess'[n] >= 0)
    BY <1>2, <1>11
  <2> QED  BY <2>1 DEF TreeOK
<1>14. ExcessOK'
  <2> DEFINE g == flooded'
  <2>1. \A n \in Node : g[n] = IF n \in sinks THEN excess[n] ELSE 0
    BY <1>2, <1>3, <1>11 DEF flooded
  <2>2. SumOver(flooded, Node)' = SumOver(g, Node)
    OBVIOUS
  <2> HIDE DEF g
  <2>3. SumOver(excess, sinks) = SumOver(g, Node)
    BY <1>3, <1>5, <2>1, SumSupport
  <2>4. SumOver(excess, Node)' = SumOver(excess', Node)
    OBVIOUS
  <2>5. SumOver(excess', Node) = 0
    BY <1>1, <1>2 DEF ExcessOK, Started, Refining
  <2>6. /\ \A n \in Node : excess'[n] < 0 => distance'[n] = 0
        /\ \A n \in pending' : excess'[n] < 0
    BY <1>1, <1>2, <1>3, <1>8
  <2> QED  BY <1>1, <1>4, <2>2, <2>3, <2>4, <2>5, <2>6 DEF ExcessOK
<1> QED  BY <1>9, <1>10, <1>12, <1>13, <1>14 DEF IInv

(* The nearest of the pending nodes is settled.                            *)
LEMMA FloodNodeStep ==
  ASSUME IInv, FloodNode
  PROVE  IInv'
<1>1. PICK n \in pending :
        /\ \A m \in pending : distance[n] <= distance[m]
        /\ pending' = pending \ {n} /\ node' = n
        /\ set_excess' = set_excess + counted(n)
        /\ maximum_distance' = distance[n]
        /\ IF set_excess' = 0
           THEN pc' = "raise" /\ UNCHANGED arc
           ELSE arc' = node_adjacency_begin(n) /\ UNCHANGED pc
  BY DEF FloodNode
<1>2. /\ pc = "flood" /\ arc = NO_ARC
      /\ UNCHANGED <<problem, flows, potential, current_arc, loops, queue, distance, result>>
  BY DEF FloodNode
<1>3. /\ TypeOK /\ NetworkTypeOK /\ PricesOK /\ FloodOK /\ TreeOK /\ ExcessOK
      /\ UNCHANGED problem /\ UNCHANGED flows
      /\ potential' = potential /\ epsilon' = epsilon /\ current_arc' = current_arc
      /\ capacity' = capacity /\ excess' = excess /\ distance' = distance
      /\ capacity' \in [Arc -> Nat] /\ potential' \in [Node -> Int]
      /\ excess \in [Node -> Int] /\ n \in Node /\ order \in Orders
      /\ distance \in [Node -> Nat] /\ set_excess \in Int /\ pending \subseteq Node
      /\ maximum_distance \in Nat
  BY <1>2 DEF IInv, TypeOK, NetworkTypeOK, loops, flows
<1>4. pc' \in {"flood", "raise"} /\ (pc' = "raise" => set_excess' = 0)
  BY <1>1, <1>2
<1>5. arc' \in node_adjacency(n) \union {NO_ARC} /\ (pc' = "flood" => arc' = node_adjacency_begin(n))
  BY <1>1, <1>2, <1>3, LoopFacts
<1>6. NetworkTypeOK' /\ \A m : node_adjacency(m)' = node_adjacency(m)
  BY <1>3, NetworkFrame
<1>7. counted(n) = (IF excess[n] > 0 THEN excess[n] ELSE 0) /\ counted(n) \in Int
  BY <1>3 DEF counted
<1>8. set_excess' \in Int
  BY <1>1, <1>3, <1>7
<1>9. TypeOK'
  <2>1. arc' \in Arc \union {NO_ARC} /\ pending' \subseteq Node /\ maximum_distance' \in Nat
    BY <1>1, <1>3, <1>5 DEF node_adjacency
  <2> QED  BY <1>1, <1>2, <1>3, <1>4, <1>6, <1>8, <2>1 DEF TypeOK, problem, flows, loops, queue
<1>10. PricesOK' /\ SaturatedOK'
  <2>1. position' = position
    BY <1>2, <1>3, <1>4 DEF position
  <2> QED  BY <1>2, <1>3, <1>4, <2>1, PricesFrame DEF Refining
<1>11. /\ maximum_distance <= INFINITE
       /\ \A m \in Node : distance[m] <= INFINITE
       /\ \A m \in pending : distance[m] >= maximum_distance
       /\ \A m \in Node : settled(m) => distance[m] <= maximum_distance
       /\ \A a \in Arc : residual(a) /\ settled(arc_head(a)) /\ ~ unscanned(a) =>
            distance[arc_tail(a)] <= distance[arc_head(a)] + levels(a)
  BY <1>2, <1>3 DEF FloodOK
<1>12. \A m \in Node : settled(m)' <=> settled(m) \/ (m = n /\ distance[n] < INFINITE)
  BY <1>1, <1>3, FloodFacts DEF settled
<1>13. FloodOK'
  <2>1. /\ maximum_distance' <= INFINITE
        /\ \A m \in Node : distance'[m] <= INFINITE
        /\ \A m \in pending' : distance'[m] >= maximum_distance'
        /\ n \notin pending' /\ distance'[n] = maximum_distance'
    BY <1>1, <1>3, <1>11
  <2>2. ASSUME NEW m \in Node, settled(m)' PROVE distance'[m] <= maximum_distance'
    <3>1. CASE settled(m)
      <4>1. distance[m] <= maximum_distance /\ maximum_distance <= distance[n]
        BY <1>11, <3>1
      <4>2. distance[m] \in Nat /\ distance[n] \in Nat
        BY <1>3
      <4> QED  BY <1>1, <1>3, <4>1, <4>2
    <3>2. CASE m = n
      BY <1>1, <1>3, <3>2
    <3> QED  BY <1>12, <2>2, <3>1, <3>2
  <2>3. ASSUME NEW a \in Arc, residual(a), settled(arc_head(a))', ~ unscanned(a)'
        PROVE  distance[arc_tail(a)] <= distance[arc_head(a)] + levels(a)
    <3>1. /\ arc_head(a) \in Node /\ arc_dual(a) \in Arc
          /\ arc_tail(arc_dual(a)) = arc_head(a) /\ arc_head(a)' = arc_head(a)
      BY <1>3, ArcFacts, FloodFacts
    <3>2. arc_head(a) # n
      <4> SUFFICES ASSUME arc_head(a) = n PROVE FALSE
        OBVIOUS
      <4>1. arc_dual(a) \in node_adjacency(n)
        BY <3>1 DEF node_adjacency
      <4>2. arc_dual(a) \in arcs_from(n, node_adjacency_begin(n))
        BY <1>3, <4>1, LoopFacts
      <4>3. unscanned(a)' <=> /\ arc_head(a) = node'
                              /\ pc' = "raise" \/ arc_dual(a) \in arcs_from(node', arc')
        BY <1>3, FloodFacts
      <4> QED  BY <1>1, <1>4, <1>5, <2>3, <4>2, <4>3
    <3>3. settled(arc_head(a))
      BY <1>12, <2>3, <3>1, <3>2
    <3>4. ~ unscanned(a)
      <4>1. arcs_from(node, NO_ARC) = {}
        BY <1>3, LoopFacts
      <4> QED  BY <1>2, <4>1 DEF unscanned
    <3> QED  BY <1>11, <2>3, <3>3, <3>4
  <2>4. \A a \in Arc : (residual(a) /\ settled(arc_head(a)) /\ ~ unscanned(a))' =>
          (distance[arc_tail(a)] <= distance[arc_head(a)] + levels(a))'
    <3>1. \A a : /\ arc_tail(a)' = arc_tail(a) /\ arc_head(a)' = arc_head(a)
                 /\ (residual(a)' <=> residual(a)) /\ levels(a)' = levels(a)
      BY <1>3, FloodFacts
    <3> QED  BY <1>3, <2>3, <3>1
  <2> QED  BY <1>1, <1>5, <1>6, <2>1, <2>2, <2>4 DEF FloodOK
<1>14. TreeOK'
  <2> SUFFICES ASSUME NEW m \in Node, (distance[m] < INFINITE /\ excess[m] >= 0)'
               PROVE  (\E a \in node_adjacency(m) :
                         /\ residual(a) /\ settled(arc_head(a))
                         /\ distance[m] = distance[arc_head(a)] + levels(a))'
    BY DEF TreeOK
  <2>1. PICK a \in node_adjacency(m) :
                         /\ residual(a) /\ settled(arc_head(a))
                         /\ distance[m] = distance[arc_head(a)] + levels(a)
    BY <1>2, <1>3 DEF TreeOK
  <2>2. a \in Arc /\ arc_head(a) \in Node
    BY <1>3, ArcFacts DEF node_adjacency
  <2>3. /\ arc_head(a)' = arc_head(a) /\ (residual(a)' <=> residual(a)) /\ levels(a)' = levels(a)
    BY <1>3, FloodFacts
  <2>4. (/\ residual(a) /\ settled(arc_head(a))
         /\ distance[m] = distance[arc_head(a)] + levels(a))'
    BY <1>3, <1>12, <2>1, <2>2, <2>3
  <2> QED  BY <1>6, <2>4
<1>15. ExcessOK'
  <2> DEFINE f == flooded
             g == flooded'
  <2>1. \A m \in Node : f[m] = IF excess[m] < 0 \/ settled(m) THEN excess[m] ELSE 0
    BY DEF flooded
  <2>2. \A m \in Node : g[m] = IF excess[m] < 0 \/ settled(m)' THEN excess[m] ELSE 0
    BY <1>3 DEF flooded
  <2>3. SumOver(flooded, Node)' = SumOver(g, Node) /\ SumOver(excess, Node)' = SumOver(excess', Node)
    OBVIOUS
  <2>4. /\ SumOver(excess, Node) = 0 /\ set_excess = SumOver(f, Node)
        /\ \A m \in Node : excess[m] < 0 => distance[m] = 0
        /\ \A m \in pending : excess[m] < 0 \/ distance[m] < INFINITE
    BY <1>2, <1>3 DEF ExcessOK, Started, Refining
  <2> HIDE DEF f, g
  <2>5. /\ Integral(f, Node) /\ Integral(g, Node) /\ IsFiniteSet(Node)
        /\ \A m \in Node \ {n} : f[m] = g[m]
    BY <1>3, <1>12, <2>1, <2>2, Sizes DEF Integral
  <2>6. f[n] \in Int /\ g[n] \in Int /\ g[n] = f[n] + counted(n)
    <3>1. ~ settled(n) /\ (excess[n] < 0 \/ settled(n)')
      BY <1>3, <1>12, <2>4 DEF settled
    <3>2. f[n] = IF excess[n] < 0 THEN excess[n] ELSE 0
      BY <1>3, <2>1, <3>1
    <3>3. g[n] = excess[n] /\ excess[n] \in Int
      BY <1>3, <2>2, <3>1
    <3> QED  BY <1>7, <3>2, <3>3
  <2>7. SumOver(g, Node) = SumOver(f, Node) + g[n] - f[n]
    BY <1>3, <2>5, SumChange
  <2>8. SumOver(f, Node) \in Int
    BY <2>5, SumType
  <2>9. set_excess' = SumOver(g, Node)
    BY <1>1, <1>7, <2>4, <2>6, <2>7, <2>8
  <2> QED  BY <1>1, <1>3, <1>4, <2>3, <2>4, <2>9 DEF ExcessOK
<1> QED  BY <1>9, <1>10, <1>13, <1>14, <1>15 DEF IInv

(* A residual arc into the settled node is relaxed.                        *)
LEMMA FloodArcStep ==
  ASSUME IInv, FloodArc
  PROVE  IInv'
<1> DEFINE b == arc_dual(arc)
           next == arc_head(arc)
           d == distance[node] + levels(b)
           relaxed == residual(b) /\ distance[next] > d
<1>1. /\ pc = "flood" /\ pc' = "flood" /\ arc # NO_ARC
      /\ arc' = node_adjacency_next(arc)
      /\ IF relaxed
         THEN /\ distance' = [distance EXCEPT ![next] = d]
              /\ pending' = pending \union {next}
         ELSE UNCHANGED <<distance, pending>>
      /\ UNCHANGED <<problem, flows, potential, current_arc, pc, loops, queue, node,
                     maximum_distance, set_excess, result>>
  BY DEF FloodArc
<1>2. /\ TypeOK /\ NetworkTypeOK /\ PricesOK /\ FloodOK /\ TreeOK /\ ExcessOK
      /\ UNCHANGED problem /\ UNCHANGED flows
      /\ potential' = potential /\ epsilon' = epsilon /\ current_arc' = current_arc
      /\ capacity' = capacity /\ excess' = excess /\ node' = node
      /\ capacity' \in [Arc -> Nat] /\ potential' \in [Node -> Int]
      /\ excess \in [Node -> Int] /\ node \in Node /\ order \in Orders
      /\ distance \in [Node -> Nat] /\ set_excess \in Int /\ pending \subseteq Node
      /\ maximum_distance \in Nat /\ maximum_distance' = maximum_distance
      /\ epsilon >= 1
  BY <1>1 DEF IInv, TypeOK, NetworkTypeOK, loops, flows, PricesOK, Started, Refining
<1>3. /\ maximum_distance <= INFINITE
      /\ \A n \in Node : distance[n] <= INFINITE
      /\ \A n \in pending : distance[n] >= maximum_distance
      /\ \A n \in Node : settled(n) => distance[n] <= maximum_distance
      /\ node \notin pending /\ distance[node] = maximum_distance
      /\ arc \in node_adjacency(node)
      /\ \A a \in Arc : (residual(a) /\ settled(arc_head(a)) /\ ~ unscanned(a)) =>
           distance[arc_tail(a)] <= distance[arc_head(a)] + levels(a)
  BY <1>1, <1>2 DEF FloodOK
<1>4. /\ arc \in Arc /\ b \in Arc /\ arc_dual(b) = arc
      /\ arc_tail(b) = next /\ arc_head(b) = node /\ next \in Node
      /\ node_adjacency_next(arc) \in node_adjacency(node) \union {NO_ARC}
      /\ arcs_from(node, node_adjacency_next(arc)) = arcs_from(node, arc) \ {arc}
  <2>1. arc \in Arc /\ arc_tail(arc) = node
    BY <1>3 DEF node_adjacency
  <2> QED  BY <1>2, <1>3, <2>1, ArcFacts, LoopFacts
<1>5. levels(b) \in Nat /\ d \in Nat /\ d >= maximum_distance /\ INFINITE \in Nat
  <2>1. levels(b) \in Nat
    <3> HIDE DEF b
    <3> QED  BY <1>2, <1>4, LevelFacts
  <2> QED  BY <1>2, <1>3, <2>1, Sizes
<1> HIDE DEF b, next, d
<1>6. relaxed => /\ next # node /\ ~ settled(next) /\ d < INFINITE
                 /\ distance[next] # 0
  <2> SUFFICES ASSUME relaxed PROVE /\ next # node /\ ~ settled(next) /\ d < INFINITE
                                    /\ distance[next] # 0
    OBVIOUS
  <2>1. distance[next] \in Nat /\ distance[next] > d /\ distance[next] <= INFINITE
    BY <1>2, <1>3, <1>4
  <2>2. d < INFINITE /\ distance[next] # 0 /\ ~ (distance[next] <= maximum_distance)
    BY <1>2, <1>5, <2>1
  <2>3. next # node
    BY <1>2, <1>3, <2>2
  <2> QED  BY <1>3, <1>4, <2>2, <2>3
<1>7. /\ \A n \in Node : distance'[n] = IF relaxed /\ n = next THEN d ELSE distance[n]
      /\ distance' \in [Node -> Nat]
      /\ pending' = IF relaxed THEN pending \union {next} ELSE pending
  <2>1. CASE relaxed
    <3>1. distance' = [distance EXCEPT ![next] = d] /\ pending' = pending \union {next}
      BY <1>1, <2>1
    <3>2. distance' \in [Node -> Nat] /\ \A n \in Node : distance'[n] = IF n = next THEN d ELSE distance[n]
      BY <1>2, <1>4, <1>5, <3>1
    <3> QED  BY <2>1, <3>1, <3>2
  <2>2. CASE ~ relaxed
    <3>1. distance' = distance /\ pending' = pending
      BY <1>1, <2>2
    <3> QED  BY <1>2, <2>2, <3>1
  <2> QED  BY <2>1, <2>2
<1>8. \A n \in Node : settled(n)' <=> settled(n)
  <2> SUFFICES ASSUME NEW n \in Node PROVE settled(n)' <=> settled(n)
    OBVIOUS
  <2>1. settled(n)' <=> n \notin pending' /\ distance'[n] < INFINITE
    BY <1>2, FloodFacts
  <2>2. CASE relaxed /\ n = next
    BY <1>6, <1>7, <2>1, <2>2
  <2>3. CASE ~ (relaxed /\ n = next)
    <3>1. distance'[n] = distance[n] /\ (n \in pending' <=> n \in pending)
      BY <1>7, <2>3
    <3> QED  BY <2>1, <3>1 DEF settled
  <2> QED  BY <2>2, <2>3
<1>9. NetworkTypeOK' /\ \A n : node_adjacency(n)' = node_adjacency(n)
  BY <1>2, NetworkFrame
<1>10. arc' \in node_adjacency(node) \union {NO_ARC}
  BY <1>1, <1>4
<1>11. TypeOK'
  <2>1. arc' \in Arc \union {NO_ARC} /\ pending' \subseteq Node
    BY <1>2, <1>4, <1>7, <1>10 DEF node_adjacency
  <2> QED  BY <1>1, <1>2, <1>7, <1>9, <2>1 DEF TypeOK, problem, flows, loops, queue
<1>12. PricesOK' /\ SaturatedOK'
  <2>1. position' = position
    BY <1>1, <1>2 DEF position
  <2> QED  BY <1>1, <1>2, <2>1, PricesFrame DEF Refining
<1>13. FloodOK'
  <2>1. \A n \in Node : distance'[n] <= INFINITE
    BY <1>3, <1>5, <1>6, <1>7
  <2>2. \A n \in pending' : distance'[n] >= maximum_distance'
    <3> SUFFICES ASSUME NEW n \in pending' PROVE distance'[n] >= maximum_distance
      BY <1>2
    <3>1. CASE relaxed /\ n = next
      BY <1>4, <1>5, <1>7, <3>1
    <3>2. CASE ~ (relaxed /\ n = next)
      <4>1. n \in pending /\ n \in Node
        BY <1>2, <1>7, <3>2
      <4> QED  BY <1>3, <1>7, <3>2, <4>1
    <3> QED  BY <3>1, <3>2
  <2>3. \A n \in Node : settled(n)' => distance'[n] <= maximum_distance'
    BY <1>2, <1>3, <1>6, <1>7, <1>8
  <2>4. node' \notin pending' /\ distance'[node'] = maximum_distance'
    BY <1>2, <1>3, <1>6, <1>7
  <2>5. ASSUME NEW a \in Arc, residual(a), settled(arc_head(a)), ~ unscanned(a)'
        PROVE  distance'[arc_tail(a)] <= distance'[arc_head(a)] + levels(a)
    <3>1. /\ arc_head(a) \in Node /\ arc_tail(a) \in Node /\ levels(a) \in Nat
          /\ arc_dual(arc_dual(a)) = a
      BY <1>2, <2>5, ArcFacts, LevelFacts
    <3>2. distance'[arc_head(a)] = distance[arc_head(a)] /\ distance[arc_head(a)] \in Nat
      BY <1>2, <1>6, <1>7, <2>5, <3>1
    <3>3. distance'[arc_tail(a)] <= distance[arc_tail(a)]
      <4>1. distance[arc_tail(a)] \in Nat /\ distance'[arc_tail(a)] \in Nat
        BY <1>2, <1>7, <3>1
      <4>2. CASE relaxed /\ arc_tail(a) = next
        BY <1>5, <1>7, <3>1, <4>1, <4>2
      <4>3. CASE ~ (relaxed /\ arc_tail(a) = next)
        BY <1>7, <3>1, <4>1, <4>3
      <4> QED  BY <4>2, <4>3
    <3>4. CASE ~ unscanned(a)
      <4>1. distance[arc_tail(a)] <= distance[arc_head(a)] + levels(a)
        BY <1>3, <2>5, <3>4
      <4>2. distance[arc_tail(a)] \in Nat /\ distance'[arc_tail(a)] \in Nat
        BY <1>2, <1>7, <3>1
      <4> QED  BY <3>1, <3>2, <3>3, <4>1, <4>2
    <3>5. CASE unscanned(a)
      <4>1. arc_head(a) = node /\ arc_dual(a) \in arcs_from(node, arc)
        BY <1>1, <3>5 DEF unscanned
      <4>2. unscanned(a)' <=> /\ arc_head(a) = node'
                              /\ pc' = "raise" \/ arc_dual(a) \in arcs_from(node', arc')
        BY <1>2, FloodFacts
      <4>3. arc_dual(a) \notin arcs_from(node, arc')
        BY <1>2, <2>5, <4>1, <4>2
      <4>4. a = b
        <5>1. arc_dual(a) = arc
          BY <1>1, <1>4, <4>1, <4>3
        <5> QED  BY <3>1, <5>1 DEF b
      <4>5. d = distance[arc_head(a)] + levels(a) /\ arc_tail(a) = next
        BY <1>4, <4>1, <4>4 DEF d
      <4>6. CASE relaxed
        BY <1>4, <1>5, <1>7, <3>2, <4>5, <4>6
      <4>7. CASE ~ relaxed
        <5>1. ~ (distance[next] > d) /\ distance[next] \in Nat
          BY <1>2, <1>4, <2>5, <4>4, <4>7
        <5> QED  BY <1>4, <1>5, <1>7, <3>2, <4>5, <4>7, <5>1
      <4> QED  BY <4>6, <4>7
    <3> QED  BY <3>4, <3>5
  <2>6. \A a \in Arc : (residual(a) /\ settled(arc_head(a)) /\ ~ unscanned(a))' =>
          (distance[arc_tail(a)] <= distance[arc_head(a)] + levels(a))'
    <3>1. \A a : /\ arc_tail(a)' = arc_tail(a) /\ arc_head(a)' = arc_head(a)
                 /\ (residual(a)' <=> residual(a)) /\ levels(a)' = levels(a)
      BY <1>2, FloodFacts
    <3>2. \A a \in Arc : arc_head(a) \in Node
      BY <1>2, ArcFacts
    <3>3. \A a \in Arc : settled(arc_head(a))' => settled(arc_head(a))
      BY <1>8, <3>1, <3>2
    <3> QED  BY <2>5, <3>1, <3>3
  <2> QED  BY <1>1, <1>2, <1>3, <1>9, <1>10, <2>1, <2>2, <2>3, <2>4, <2>6 DEF FloodOK
<1>14. TreeOK'
  <2> SUFFICES ASSUME NEW m \in Node, (distance[m] < INFINITE /\ excess[m] >= 0)'
               PROVE  (\E a \in node_adjacency(m) :
                         /\ residual(a) /\ settled(arc_head(a))
                         /\ distance[m] = distance[arc_head(a)] + levels(a))'
    BY DEF TreeOK
  <2>1. \A a : /\ arc_head(a)' = arc_head(a) /\ (residual(a)' <=> residual(a))
               /\ levels(a)' = levels(a)
    BY <1>2, FloodFacts
  <2>2. ASSUME NEW a \in node_adjacency(m), residual(a), settled(arc_head(a)),
               distance'[m] = distance[arc_head(a)] + levels(a)
        PROVE  (\E c \in node_adjacency(m) :
                         /\ residual(c) /\ settled(arc_head(c))
                         /\ distance[m] = distance[arc_head(c)] + levels(c))'
    <3>1. a \in Arc /\ arc_head(a) \in Node
      BY <1>2, ArcFacts DEF node_adjacency
    <3>2. distance'[arc_head(a)] = distance[arc_head(a)]
      BY <1>6, <1>7, <2>2, <3>1
    <3>3. (/\ residual(a) /\ settled(arc_head(a))
           /\ distance[m] = distance[arc_head(a)] + levels(a))'
      BY <1>8, <2>1, <2>2, <3>1, <3>2
    <3> QED  BY <1>9, <3>3
  <2>3. CASE relaxed /\ m = next
    <3>1. b \in node_adjacency(m) /\ arc_head(b) = node
      BY <1>4, <2>3 DEF node_adjacency
    <3>2. settled(node)
      <4>1. distance[node] < INFINITE
        BY <1>2, <1>3, <1>5, <1>6, <2>3
      <4> QED  BY <1>3, <4>1 DEF settled
    <3>3. distance'[m] = distance[node] + levels(b)
      BY <1>7, <2>3 DEF d
    <3> QED  BY <2>2, <2>3, <3>1, <3>2, <3>3
  <2>4. CASE ~ (relaxed /\ m = next)
    <3>1. distance'[m] = distance[m]
      BY <1>7, <2>4
    <3>2. PICK a \in node_adjacency(m) :
                         /\ residual(a) /\ settled(arc_head(a))
                         /\ distance[m] = distance[arc_head(a)] + levels(a)
      BY <1>1, <1>2, <3>1 DEF TreeOK
    <3> QED  BY <2>2, <3>1, <3>2
  <2> QED  BY <2>3, <2>4
<1>15. ExcessOK'
  <2>1. \A n \in Node : flooded'[n] = flooded[n]
    BY <1>2, <1>8 DEF flooded
  <2>2. SumOver(flooded, Node)' = SumOver(flooded', Node) /\ SumOver(excess, Node)' = SumOver(excess', Node)
    OBVIOUS
  <2>3. SumOver(flooded, Node) = SumOver(flooded', Node)
    <3>1. Integral(flooded, Node) /\ IsFiniteSet(Node)
      BY <1>2, Sizes DEF Integral, flooded
    <3> QED  BY <2>1, <3>1, SumEqual
  <2>4. /\ SumOver(excess, Node) = 0 /\ set_excess = SumOver(flooded, Node)
        /\ \A n \in Node : excess[n] < 0 => distance[n] = 0
        /\ \A n \in pending : excess[n] < 0 \/ distance[n] < INFINITE
    BY <1>1, <1>2 DEF ExcessOK, Started, Refining
  <2>5. \A n \in Node : excess[n] < 0 => distance'[n] = 0
    BY <1>6, <1>7, <2>4
  <2>6. \A n \in pending' : excess[n] < 0 \/ distance'[n] < INFINITE
    <3> SUFFICES ASSUME NEW n \in pending' PROVE excess[n] < 0 \/ distance'[n] < INFINITE
      OBVIOUS
    <3>1. CASE relaxed /\ n = next
      BY <1>4, <1>6, <1>7, <3>1
    <3>2. CASE ~ (relaxed /\ n = next)
      <4>1. n \in pending /\ n \in Node
        BY <1>2, <1>7, <3>2
      <4> QED  BY <1>7, <2>4, <3>2, <4>1
    <3> QED  BY <3>1, <3>2
  <2> QED  BY <1>1, <1>2, <2>2, <2>3, <2>4, <2>5, <2>6 DEF ExcessOK
<1> QED  BY <1>11, <1>12, <1>13, <1>14, <1>15 DEF IInv
-----------------------------------------------------------------------------
(* Products with a positive epsilon.                                       *)
LEMMA TimesFacts ==
  ASSUME NEW e \in Nat, NEW x \in Int, NEW y \in Int
  PROVE  /\ e * x \in Int
         /\ x <= y => e * x <= y * e
         /\ x <= 0 => e * x <= 0
         /\ x >= 0 => e * x >= 0
         /\ x <= -1 => e * x <= - e
<1>1. e * x \in Int /\ (x <= 0 => e * x <= 0) /\ (x >= 0 => e * x >= 0)
  OBVIOUS
<1>2. ASSUME x <= y PROVE e * x <= y * e
  <2>1. y - x \in Nat /\ e * (y - x) >= 0
    BY <1>2
  <2>2. e * (y - x) = y * e - e * x
    OBVIOUS
  <2> QED  BY <1>1, <2>1, <2>2
<1>3. ASSUME x <= -1 PROVE e * x <= - e
  <2>1. -1 - x \in Nat /\ e * (-1 - x) >= 0
    BY <1>3
  <2>2. e * (-1 - x) = - e - e * x
    OBVIOUS
  <2> QED  BY <1>1, <2>1, <2>2
<1> QED  BY <1>1, <1>2, <1>3

(* At the end of the flood the tail of a residual arc rises by no more     *)
(* than it takes to make the arc lead down from its head.                  *)
LEMMA RiseFacts ==
  ASSUME IInv, pc = "raise"
  PROVE  /\ \A n \in Node : rise(n) \in Nat
         /\ \A a \in Arc : residual(a) => rise(arc_tail(a)) <= rise(arc_head(a)) + levels(a)
<1>1. /\ TypeOK /\ NetworkTypeOK /\ FloodOK /\ PricesOK /\ distance \in [Node -> Nat]
      /\ maximum_distance \in Nat /\ epsilon >= 1
  BY DEF IInv, TypeOK, PricesOK, Started, Refining
<1>2. /\ maximum_distance <= INFINITE
      /\ \A n \in pending : distance[n] >= maximum_distance
      /\ distance[node] = maximum_distance
      /\ \A a \in Arc : (residual(a) /\ settled(arc_head(a)) /\ ~ unscanned(a)) =>
           distance[arc_tail(a)] <= distance[arc_head(a)] + levels(a)
  BY <1>1 DEF FloodOK
<1>3. \A n \in Node : /\ rise(n) \in Nat /\ rise(n) <= distance[n] /\ rise(n) <= maximum_distance
                      /\ rise(n) = distance[n] \/ rise(n) = maximum_distance
  BY <1>1 DEF rise, MIN
<1>4. ASSUME NEW a \in Arc, residual(a)
      PROVE  rise(arc_tail(a)) <= rise(arc_head(a)) + levels(a)
  <2> DEFINE u == arc_tail(a)
             v == arc_head(a)
  <2>1. u \in Node /\ v \in Node /\ levels(a) \in Nat
    BY <1>1, ArcFacts, LevelFacts
  <2>2. rise(u) \in Nat /\ rise(v) \in Nat /\ distance[u] \in Nat /\ distance[v] \in Nat
    BY <1>1, <1>3, <2>1
  <2>3. CASE rise(v) = maximum_distance
    BY <1>1, <1>3, <2>1, <2>2, <2>3
  <2>4. CASE distance[v] < maximum_distance
    <3>1. v \notin pending /\ v # node /\ distance[v] < INFINITE
      BY <1>1, <1>2, <2>2, <2>4, Sizes
    <3>2. settled(v) /\ ~ unscanned(a)
      BY <3>1 DEF settled, unscanned
    <3>3. distance[u] <= distance[v] + levels(a)
      BY <1>2, <1>4, <3>2
    <3>4. rise(u) <= distance[u] /\ rise(v) = distance[v]
      BY <1>1, <1>3, <2>1, <2>4
    <3>5. rise(u) <= rise(v) + levels(a)
      <4> HIDE DEF u, v
      <4> QED  BY <2>1, <2>2, <3>3, <3>4
    <3> QED  BY <3>5
  <2>5. rise(v) = maximum_distance \/ distance[v] < maximum_distance
    BY <1>1, <2>1, <2>2 DEF rise, MIN
  <2> QED  BY <2>3, <2>4, <2>5
<1> QED  BY <1>3, <1>4

(* Prices that rise like this stay optimal for epsilon, and only let arcs  *)
(* lead down from nodes that rise as much as the heads or more.            *)
LEMMA RaiseFacts ==
  ASSUME IInv, pc = "raise", NEW q \in [Node -> Int],
         \A n \in Node : q[n] = potential[n] + epsilon * rise(n)
  PROVE  /\ NearOptimal(capacity, q, epsilon)
         /\ \A a \in Arc : Down(capacity, q, a) =>
              \/ rise(arc_tail(a)) > rise(arc_head(a))
              \/ rise(arc_tail(a)) = rise(arc_head(a)) /\ Down(capacity, potential, a)
         /\ \A a \in Arc :
              (capacity[a] > 0 /\ rise(arc_tail(a)) = rise(arc_head(a)) + levels(a)) =>
                Down(capacity, q, a)
<1>1. /\ TypeOK /\ NetworkTypeOK /\ potential \in [Node -> Int] /\ epsilon \in Nat /\ epsilon >= 1
      /\ NearOptimal(capacity, potential, epsilon)
  BY DEF IInv, TypeOK, NetworkTypeOK, PricesOK, Started, Refining
<1>2. ASSUME NEW a \in Arc, capacity[a] > 0
      PROVE  /\ rcost(q, a) >= - epsilon
             /\ rcost(q, a) < 0 =>
                  \/ rise(arc_tail(a)) > rise(arc_head(a))
                  \/ rise(arc_tail(a)) = rise(arc_head(a)) /\ rcost(potential, a) < 0
             /\ rise(arc_tail(a)) = rise(arc_head(a)) + levels(a) => rcost(q, a) < 0
  <2> DEFINE u == arc_tail(a)
             v == arc_head(a)
             ru == rise(u)
             rv == rise(v)
             x == rcost(potential, a)
             y == rcost(q, a)
             l == levels(a)
             k == ru - rv
  <2>1. u \in Node /\ v \in Node /\ gt_cost(a) \in Int /\ x \in Int /\ y \in Int
    BY <1>1, ArcFacts, CostFacts
  <2>2. l \in Nat /\ x < l * epsilon /\ (l = 0 \/ l * epsilon <= x + epsilon)
    BY <1>1, LevelFacts
  <2>3. ru \in Nat /\ rv \in Nat /\ ru <= rv + l
    BY <1>2, <2>1, RiseFacts DEF residual
  <2>4. x >= - epsilon
    BY <1>1, <1>2 DEF NearOptimal
  <2>5. y = x - epsilon * k
    <3>1. /\ x = gt_cost(a) + potential[v] - potential[u]
          /\ y = gt_cost(a) + q[v] - q[u]
          /\ q[u] = potential[u] + epsilon * ru /\ q[v] = potential[v] + epsilon * rv
          /\ potential[u] \in Int /\ potential[v] \in Int
      BY <1>1, <2>1 DEF rcost
    <3> HIDE DEF u, v, ru, rv, x, y
    <3>2. epsilon * k = epsilon * ru - epsilon * rv /\ epsilon * ru \in Int /\ epsilon * rv \in Int
      BY <1>1, <2>3
    <3> HIDE DEF k
    <3>3. gt_cost(a) \in Int
      BY <2>1
    <3>4. epsilon * k \in Int
      BY <3>2
    <3> QED  BY <3>1, <3>2, <3>3, <3>4
  <2> HIDE DEF u, v, ru, rv, x, y, l
  <2>6. k \in Int /\ k <= l /\ (ru > rv <=> k > 0) /\ (ru = rv <=> k = 0) /\ (ru = rv + l <=> k = l)
    BY <2>2, <2>3
  <2> HIDE DEF k
  <2>7. /\ epsilon * k \in Int /\ l * epsilon \in Int
        /\ epsilon * k <= l * epsilon
        /\ k <= 0 => epsilon * k <= 0
        /\ k <= -1 => epsilon * k <= - epsilon
        /\ k = l => epsilon * k = l * epsilon
        /\ k = 0 => epsilon * k = 0
    BY <1>1, <2>2, <2>6, TimesFacts
  <2>8. y >= - epsilon
    <3>1. CASE l = 0
      BY <1>1, <2>1, <2>4, <2>5, <2>6, <2>7, <3>1
    <3>2. CASE l # 0
      BY <1>1, <2>1, <2>2, <2>5, <2>7, <3>2
    <3> QED  BY <3>1, <3>2
  <2>9. y < 0 => ru > rv \/ (ru = rv /\ x < 0)
    <3>1. k <= -1 \/ k = 0 \/ k > 0
      BY <2>6
    <3>2. CASE k <= -1
      <4>1. y >= 0
        BY <1>1, <2>1, <2>4, <2>5, <2>7, <3>2
      <4> QED  BY <2>1, <4>1
    <3>3. CASE k = 0
      <4>1. y = x /\ ru = rv
        BY <2>1, <2>5, <2>6, <2>7, <3>3
      <4> QED  BY <4>1
    <3>4. CASE k > 0
      BY <2>6, <3>4
    <3> QED  BY <3>1, <3>2, <3>3, <3>4
  <2>10. ru = rv + l => y < 0
    BY <2>1, <2>2, <2>5, <2>6, <2>7
  <2> QED  BY <2>8, <2>9, <2>10 DEF u, v, ru, rv, x, y, l
<1> QED  BY <1>2 DEF NearOptimal, Down

(* Rising by the levels of the flood opens no cycle.                       *)
LEMMA RaiseNoCycle ==
  ASSUME IInv, pc = "raise", NEW q \in [Node -> Int],
         \A n \in Node : q[n] = potential[n] + epsilon * rise(n)
  PROVE  NoCycle(capacity, q)
<1>1. NoCycle(capacity, potential) /\ NetworkTypeOK
  BY DEF IInv, TypeOK, PricesOK, Refining
<1>2. \A n \in Node : rise(n) \in Nat
  BY RiseFacts
<1>3. \A a \in Arc : Down(capacity, q, a) =>
           \/ rise(arc_tail(a)) > rise(arc_head(a))
           \/ rise(arc_tail(a)) = rise(arc_head(a)) /\ Down(capacity, potential, a)
  BY RaiseFacts
<1>4. \A n : node_adjacency(n) \subseteq Arc /\ \A a \in node_adjacency(n) : arc_tail(a) = n
  BY DEF node_adjacency
<1> SUFFICES ASSUME NEW S \in (SUBSET Node) \ {{}}
             PROVE  \E n \in S : \A a \in node_adjacency(n) :
                      Down(capacity, q, a) => arc_head(a) \notin S
  BY DEF NoCycle
<1> DEFINE h == [n \in Node |-> rise(n)]
           R == {h[n] : n \in S}
<1>5. S \subseteq Node /\ S # {} /\ IsFiniteSet(S)
  BY Sizes, FS_Subset
<1>6. R \subseteq Int /\ R # {}
  <2>1. \A n \in S : h[n] \in Int
    BY <1>2, <1>5
  <2> HIDE DEF h
  <2> QED  BY <1>5, <2>1
<1>7. IsFiniteSet(R)
  <2> HIDE DEF h
  <2> QED  BY <1>5, ImageFinite
<1>8. PICK r \in R : \A s \in R : r <= s
  <2> HIDE DEF R
  <2> QED  BY <1>6, <1>7, LeastOfFinite
<1>9. (\E n \in S : rise(n) = r) /\ \A n \in S : r <= rise(n)
  BY <1>5, <1>8
<1> DEFINE T == {n \in S : rise(n) = r}
<1>10. T \in (SUBSET Node) \ {{}}
  BY <1>5, <1>9
<1>11. PICK n \in T : \A a \in node_adjacency(n) : Down(capacity, potential, a) => arc_head(a) \notin T
  <2> HIDE DEF T
  <2> QED  BY <1>1, <1>10 DEF NoCycle
<1>12. n \in S /\ rise(n) = r /\ n \in Node
  BY <1>5
<1>13. ASSUME NEW a \in node_adjacency(n), Down(capacity, q, a), arc_head(a) \in S
      PROVE  FALSE
  <2>1. a \in Arc /\ arc_tail(a) = n /\ arc_head(a) \in Node
    BY <1>4, <1>5, <1>13
  <2>2. r <= rise(arc_head(a)) /\ rise(arc_head(a)) \in Nat /\ rise(n) \in Nat
    BY <1>2, <1>9, <1>12, <1>13, <2>1
  <2>3. rise(arc_head(a)) = r /\ Down(capacity, potential, a)
    BY <1>3, <1>12, <1>13, <2>1, <2>2
  <2> QED  BY <1>11, <1>13, <2>3
<1> QED  BY <1>12, <1>13

(* The end of a price update.                                              *)
LEMMA RaisePricesStep ==
  ASSUME IInv, RaisePrices
  PROVE  IInv'
<1> DEFINE q == potential'
<1>1. /\ pc = "raise" /\ pc' = "main"
      /\ q = [n \in Node |-> potential[n] + epsilon * rise(n)]
      /\ current_arc' = [n \in Node |-> IF rise(n) > 0 THEN node_adjacency_begin(n)
                                         ELSE current_arc[n]]
      /\ UNCHANGED <<problem, flows, loops, queue, cursor, flood, result>>
  BY DEF RaisePrices
<1>2. /\ TypeOK /\ NetworkTypeOK /\ PricesOK /\ ExcessOK
      /\ UNCHANGED problem /\ UNCHANGED flows /\ epsilon' = epsilon
      /\ capacity' = capacity /\ excess' = excess
      /\ capacity' \in [Arc -> Nat] /\ potential \in [Node -> Int]
      /\ order \in Orders /\ epsilon \in Nat /\ epsilon >= 1
      /\ current_arc \in [Node -> Arc \union {NO_ARC}]
      /\ \A n \in Node : current_arc[n] \in node_adjacency(n) \union {NO_ARC}
  BY <1>1 DEF IInv, TypeOK, NetworkTypeOK, loops, flows, PricesOK, Started, Refining
<1>3. /\ NoCycle(capacity, potential) /\ Skipped(capacity, potential, position)
      /\ \A n \in Node : potential[n] >= 0
  BY <1>1, <1>2 DEF PricesOK, Refining
<1>4. \A n \in Node : rise(n) \in Nat /\ epsilon * rise(n) \in Nat
  <2>1. \A n \in Node : rise(n) \in Nat
    BY <1>1, RiseFacts
  <2> QED  BY <1>2, <2>1
<1>5. /\ q \in [Node -> Int] /\ \A n \in Node : q[n] >= 0
      /\ \A n \in Node : q[n] = potential[n] + epsilon * rise(n)
  BY <1>1, <1>2, <1>3, <1>4
<1> HIDE DEF q
<1>6. /\ NearOptimal(capacity, q, epsilon)
      /\ \A a \in Arc : Down(capacity, q, a) =>
           \/ rise(arc_tail(a)) > rise(arc_head(a))
           \/ rise(arc_tail(a)) = rise(arc_head(a)) /\ Down(capacity, potential, a)
  BY <1>1, <1>5, RaiseFacts
<1>7. \A n : node_adjacency(n) \subseteq Arc /\ \A a \in node_adjacency(n) : arc_tail(a) = n
  BY DEF node_adjacency
<1>8. NoCycle(capacity, q)
  BY <1>1, <1>5, RaiseNoCycle
<1>9. \A n \in Node : current_arc'[n] = IF rise(n) > 0 THEN node_adjacency_begin(n) ELSE current_arc[n]
  BY <1>1
<1>10. Skipped(capacity, q, current_arc')
  <2> SUFFICES ASSUME NEW n \in Node, NEW a \in node_adjacency(n) \ arcs_from(n, current_arc'[n]),
                      Down(capacity, q, a)
               PROVE  FALSE
    BY DEF Skipped
  <2>1. CASE rise(n) > 0
    BY <1>2, <1>9, <2>1, LoopFacts
  <2>2. CASE ~ (rise(n) > 0)
    <3>1. a \in Arc /\ arc_tail(a) = n /\ arc_head(a) \in Node
      BY <1>2, <1>7, ArcFacts
    <3>2. Down(capacity, potential, a)
      BY <1>4, <1>6, <2>2, <3>1
    <3>3. position[n] = current_arc[n] /\ current_arc'[n] = current_arc[n]
      BY <1>1, <1>9, <2>2 DEF position
    <3> QED  BY <1>3, <3>2, <3>3 DEF Skipped
  <2> QED  BY <2>1, <2>2
<1>11. /\ current_arc' \in [Node -> Arc \union {NO_ARC}]
       /\ \A n \in Node : current_arc'[n] \in node_adjacency(n) \union {NO_ARC}
  <2>1. \A n \in Node : node_adjacency_begin(n) \in node_adjacency(n) \union {NO_ARC}
    BY <1>2, LoopFacts
  <2>2. \A n \in Node : current_arc'[n] \in node_adjacency(n) \union {NO_ARC}
    BY <1>2, <1>9, <2>1
  <2> QED  BY <1>1, <1>7, <2>2
<1>12. NetworkTypeOK' /\ \A n : node_adjacency(n)' = node_adjacency(n)
  BY <1>2, <1>5, NetworkFrame DEF q
<1>13. TypeOK'
  BY <1>1, <1>2, <1>11, <1>12 DEF TypeOK, problem, flows, loops, queue, cursor, flood
<1>14. PricesOK' /\ SaturatedOK'
  <2>1. Skipped(capacity', potential', position')
    <3>1. \A n \in Node : position'[n] = current_arc'[n]
      BY <1>1 DEF position
    <3> QED  BY <1>2, <1>10, <3>1 DEF Skipped, q
  <2>2. NearOptimal(capacity', potential', epsilon') /\ NoCycle(capacity', potential')
    BY <1>2, <1>6, <1>8 DEF q
  <2>3. /\ NearOptimal(capacity, potential, epsilon)'
        /\ NoCycle(capacity, potential)' /\ Skipped(capacity, potential, position)'
    BY <1>2, <2>1, <2>2, NextFacts
  <2>4. \A n \in Node : (potential[n] >= 0)'
    BY <1>5 DEF q
  <2> QED  BY <1>1, <1>2, <2>3, <2>4 DEF PricesOK, SaturatedOK
<1>15. FloodOK' /\ TreeOK' /\ ExcessOK'
  BY <1>1, <1>2, NoFlood DEF ExcessOK, Started, Refining
<1> QED  BY <1>13, <1>14, <1>15 DEF IInv
-----------------------------------------------------------------------------
(* Every step keeps the invariant.                                         *)
LEMMA NextIInv == IInv /\ [Next]_vars => IInv'
<1> SUFFICES ASSUME IInv, [Next]_vars
             PROVE  IInv'
  OBVIOUS
<1>1. CASE UNCHANGED vars
  <2>1. /\ UNCHANGED problem /\ UNCHANGED flows /\ potential' = potential
        /\ UNCHANGED loops /\ UNCHANGED queue /\ UNCHANGED cursor /\ UNCHANGED flood
        /\ current_arc' = current_arc /\ pc' = pc /\ result' = result
    BY <1>1 DEF vars
  <2>2. /\ graph' = graph /\ cost' = cost /\ order' = order
        /\ capacity' = capacity /\ excess' = excess
        /\ epsilon' = epsilon /\ arc_id' = arc_id /\ node_id' = node_id
        /\ active' = active /\ num_relabels' = num_relabels
        /\ node' = node /\ arc' = arc
        /\ pending' = pending /\ distance' = distance
        /\ maximum_distance' = maximum_distance /\ set_excess' = set_excess
    BY <2>1 DEF problem, flows, loops, queue, cursor, flood
  <2>3. /\ \A n : node_adjacency(n)' = node_adjacency(n)
        /\ \A n, a : arcs_from(n, a)' = arcs_from(n, a)
        /\ \A a : arc_head(a)' = arc_head(a) /\ arc_tail(a)' = arc_tail(a)
        /\ \A a : Down(capacity, potential, a)' <=> Down(capacity, potential, a)
    BY <2>1, <2>2, StaticFacts, NextFacts
  <2>4. TypeOK'
    <3>1. TypeOK /\ capacity' \in [Arc -> Nat] /\ potential' \in [Node -> Int]
      BY <2>1, <2>2 DEF IInv, TypeOK, NetworkTypeOK
    <3>2. NetworkTypeOK'
      BY <2>1, <3>1, NetworkFrame
    <3> QED  BY <2>1, <2>2, <2>3, <3>1, <3>2 DEF TypeOK
  <2>5. SaturatedOK'
    BY <2>1, <2>2, <2>3 DEF IInv, SaturatedOK
  <2>6. PricesOK'
    <3>1. position' = position
      BY <2>1, <2>2 DEF position
    <3>2. PricesOK
      BY DEF IInv
    <3>3. /\ NearOptimal(capacity, potential, epsilon) => NearOptimal(capacity, potential, epsilon)'
          /\ NoCycle(capacity, potential) => NoCycle(capacity, potential)'
          /\ Skipped(capacity, potential, position) => Skipped(capacity, potential, position)'
      BY <2>1, <2>2, <3>1, NextFacts
    <3> QED  BY <2>1, <2>2, <2>3, <3>2, <3>3 DEF PricesOK, Started, Refining
  <2>7. FloodOK' /\ TreeOK' /\ ExcessOK'
    <3>1. /\ \A a : (residual(a)' <=> residual(a)) /\ levels(a)' = levels(a)
          /\ \A n : settled(n)' <=> settled(n)
          /\ \A a : unscanned(a)' <=> unscanned(a)
      BY <2>1, <2>2, FloodFacts DEF settled, unscanned
    <3>2. FloodOK'
      BY <2>1, <2>2, <2>3, <3>1 DEF IInv, FloodOK
    <3>3. TreeOK'
      BY <2>1, <2>2, <2>3, <3>1 DEF IInv, TreeOK
    <3>4. flooded' = flooded
      BY <2>2, <3>1 DEF flooded
    <3>5. SumOver(excess, Node)' = SumOver(excess, Node) /\ SumOver(flooded, Node)' = SumOver(flooded, Node)
      BY <2>2, <3>4
    <3>6. ExcessOK'
      BY <2>1, <2>2, <3>5 DEF IInv, ExcessOK, Started, Refining
    <3> QED  BY <3>2, <3>3, <3>6
  <2> QED  BY <2>4, <2>5, <2>6, <2>7 DEF IInv
<1>2. ASSUME NEW supply \in Supplies, NEW c \in Costs, goldberg_tarjan_mcf(supply, c)
      PROVE  IInv'
  BY <1>2, CallStep
<1>3. CASE goldberg_tarjan_feasible
  BY <1>3, FeasibleStep
<1>4. CASE Fail \/ Return
  BY <1>4, ReturnSteps
<1>5. CASE Refine
  BY <1>5, RefineStep
<1>6. CASE Saturate
  BY <1>6, SaturateStep
<1>7. CASE Saturated \/ Enqueue
  BY <1>7, EnqueueSteps
<1>8. CASE Enqueued
  BY <1>8, EnqueuedStep
<1>9. CASE Pop \/ Refined \/ Discharged
  BY <1>9, QueueSteps
<1>10. CASE UpdatePrices
  BY <1>10, UpdatePricesStep
<1>11. CASE FloodNode
  BY <1>11, FloodNodeStep
<1>12. CASE FloodArc
  BY <1>12, FloodArcStep
<1>13. CASE RaisePrices
  BY <1>13, RaisePricesStep
<1>14. CASE BeginScan
  BY <1>14, BeginScanStep
<1>15. CASE PassArc
  BY <1>15, PassArcStep
<1>16. CASE Push
  BY <1>16, PushStep
<1>17. CASE RelabelHead
  BY <1>17, RelabelHeadStep
<1>18. CASE EndScan
  BY <1>18, EndScanStep
<1> QED  BY <1>1, <1>2, <1>3, <1>4, <1>5, <1>6, <1>7, <1>8, <1>9, <1>10, <1>11, <1>12,
            <1>13, <1>14, <1>15, <1>16, <1>17, <1>18 DEF Next, Running

(* The inductive invariant holds in every state of goldberg_tarjan_mcf.    *)
THEOREM Invariant == Spec => []IInv
<1>1. Init => IInv
  BY InitIInv
<1>2. IInv /\ [Next]_vars => IInv'
  BY NextIInv
<1> QED  BY <1>1, <1>2, PTL DEF Spec

(* Capacities never become negative, the current arc of a node is always   *)
(* one of its own or the end of its list, epsilon is never negative: the   *)
(* variables of goldberg_tarjan_mcf have their types in every state.       *)
THEOREM TypeCorrect == Spec => []TypeOK
<1>1. IInv => TypeOK
  BY DEF IInv
<1> QED  BY <1>1, Invariant, PTL

(* gt_check_optimality: through every push, relabel and price update of    *)
(* gt_refine the flow stays optimal up to epsilon.                         *)
THEOREM OptimalUpToEpsilon == Spec => []EpsilonOptimal
<1>1. IInv => EpsilonOptimal
  BY DEF IInv, PricesOK, EpsilonOptimal, NearOptimal, residual, gt_reduced_cost, rcost
<1> QED  BY <1>1, Invariant, PTL

(* The assertion of gt_mcf_relabel: no scan and no lookahead passes an arc *)
(* that could be pushed, and none that is behind becomes such an arc.      *)
THEOREM NothingSkipped == Spec => []CurrentArcSkipsNothing
<1>1. ASSUME IInv PROVE CurrentArcSkipsNothing
  <2> SUFFICES ASSUME Refining, NEW n \in Node
               PROVE  LET at == IF pc = "scan" /\ n = node THEN arc ELSE current_arc[n]
                      IN  \A a \in node_adjacency(n) \ arcs_from(n, at) : ~ admissible(a)
    BY Zenon DEF CurrentArcSkipsNothing
  <2>1. Skipped(capacity, potential, position)
    BY <1>1 DEF IInv, PricesOK
  <2>2. position[n] = IF pc = "scan" /\ n = node THEN arc ELSE current_arc[n]
    BY DEF position
  <2> QED  BY <2>1, <2>2, DownFacts DEF Skipped
<1> QED  BY <1>1, Invariant, PTL

(* The arcs along which flow may be pushed form no cycle, after any step   *)
(* of gt_refine: relabeling and updating prices open none.                 *)
THEOREM NoAdmissibleCycle == Spec => []AdmissibleAcyclic
<1>1. ASSUME IInv PROVE AdmissibleAcyclic
  BY <1>1, DownFacts DEF IInv, PricesOK, AdmissibleAcyclic, NoCycle
<1> QED  BY <1>1, Invariant, PTL

(* No price is ever negative: the lower half of PricesBounded, which needs *)
(* no more than the invariant.                                             *)
THEOREM PricesNonNegative == Spec => [](\A n \in Node : potential[n] >= 0)
<1>1. IInv => \A n \in Node : potential[n] >= 0
  BY DEF IInv, PricesOK
<1> QED  BY <1>1, Invariant, PTL

(* The flood ends when it has met as much excess as there are demands: it  *)
(* has then reached all nodes with excess.                                 *)
LEMMA AllReached ==
  ASSUME IInv, pc = "raise", NEW n \in Node, excess[n] > 0
  PROVE  settled(n)
<1>1. /\ excess \in [Node -> Int]
      /\ SumOver(excess, Node) = 0 /\ SumOver(flooded, Node) = 0
  BY DEF IInv, TypeOK, ExcessOK, Started, Refining
<1> DEFINE f == flooded
<1>2. \A m \in Node : f[m] = IF excess[m] < 0 \/ settled(m) THEN excess[m] ELSE 0
  BY DEF flooded
<1> HIDE DEF f
<1>3. /\ Integral(f, Node) /\ Integral(excess, Node) /\ IsFiniteSet(Node)
      /\ \A m \in Node : f[m] <= excess[m]
  BY <1>1, <1>2, Sizes DEF Integral
<1>4. SumOver(f, Node) = SumOver(excess, Node)
  BY <1>1 DEF f
<1>5. f[n] = excess[n]
  BY <1>3, <1>4, SumTight
<1>6. excess[n] \in Int
  BY <1>1
<1> QED  BY <1>2, <1>5, <1>6

(* gt_check_setlabel: after a price update the nodes with excess can send  *)
(* it down to the sinks.  Every set of nodes that holds one of them and no *)
(* sink is left by an arc that can be pushed.                              *)
LEMMA RaiseOpensPaths ==
  ASSUME IInv, RaisePrices, NEW S \in SUBSET Node, NEW n \in S, excess[n] > 0,
         \A m \in S : excess[m] >= 0
  PROVE  \E a \in Arc : arc_tail(a) \in S /\ arc_head(a) \notin S /\ admissible(a)'
<1> DEFINE q == potential'
<1>1. /\ pc = "raise" /\ pc' = "main" /\ UNCHANGED problem /\ UNCHANGED flows
      /\ q = [m \in Node |-> potential[m] + epsilon * rise(m)]
  BY DEF RaisePrices
<1>2. /\ IInv' /\ NetworkTypeOK /\ TypeOK /\ distance \in [Node -> Nat] /\ maximum_distance \in Nat
      /\ capacity' = capacity /\ potential \in [Node -> Int] /\ epsilon \in Nat /\ epsilon >= 1
      /\ excess \in [Node -> Int]
  BY <1>1, RaisePricesStep DEF IInv, TypeOK, NetworkTypeOK, flows, PricesOK, Started, Refining
<1>3. \A m \in Node : settled(m) => distance[m] <= maximum_distance /\ distance[m] < INFINITE
  BY <1>1 DEF IInv, FloodOK, settled
<1>4. n \in Node /\ distance[n] <= maximum_distance /\ distance[n] < INFINITE
  BY <1>1, <1>3, AllReached
<1>5. q \in [Node -> Int] /\ \A m \in Node : q[m] = potential[m] + epsilon * rise(m)
  <2>1. \A m \in Node : rise(m) \in Nat
    BY <1>1, RiseFacts
  <2>2. \A m \in Node : epsilon * rise(m) \in Int
    BY <1>2, <2>1
  <2> QED  BY <1>1, <1>2, <2>2
<1> HIDE DEF q
<1>6. \A a \in Arc : (capacity[a] > 0 /\ rise(arc_tail(a)) = rise(arc_head(a)) + levels(a)) =>
                       Down(capacity, q, a)
  BY <1>1, <1>5, RaiseFacts
<1>7. \A a : admissible(a)' <=> Down(capacity, q, a)
  <2>1. \A a : admissible(a)' <=> Down(capacity, potential, a)'
    BY DEF admissible, residual, gt_reduced_cost, Down, rcost
  <2> QED  BY <1>1, <1>2, <2>1, NextFacts DEF q
<1> DEFINE R == {distance[m] : m \in S}
<1>8. PICK r \in R : \A s \in R : r <= s
  <2>1. R \subseteq Int /\ R # {}
    BY <1>2
  <2>2. IsFiniteSet(R)
    <3>1. IsFiniteSet(S)
      BY Sizes, FS_Subset
    <3> QED  BY <3>1, ImageFinite
  <2> HIDE DEF R
  <2> QED  BY <2>1, <2>2, LeastOfFinite
<1>9. /\ (\E m \in S : distance[m] = r) /\ (\A m \in S : r <= distance[m]) /\ r \in Nat
      /\ r <= maximum_distance /\ r < INFINITE
  <2>1. (\E m \in S : distance[m] = r) /\ (\A m \in S : r <= distance[m]) /\ r \in Nat
    BY <1>2, <1>8
  <2> QED  BY <1>2, <1>4, <2>1, Sizes
<1> HIDE DEF R
<1> DEFINE T == {m \in S : distance[m] = r}
<1>10. T \in (SUBSET Node) \ {{}}
  BY <1>9
<1>11. NoCycle(capacity, q)
  BY <1>1, <1>5, RaiseNoCycle
<1>12. PICK m \in T : \A a \in node_adjacency(m) : Down(capacity, q, a) => arc_head(a) \notin T
  <2> HIDE DEF T
  <2> QED  BY <1>10, <1>11 DEF NoCycle
<1>13. m \in S /\ m \in Node /\ distance[m] = r
  OBVIOUS
<1>14. PICK a \in node_adjacency(m) :
         residual(a) /\ settled(arc_head(a)) /\ distance[m] = distance[arc_head(a)] + levels(a)
  <2>1. excess[m] >= 0 /\ distance[m] < INFINITE
    BY <1>9, <1>13
  <2> QED  BY <1>1, <1>13, <2>1 DEF IInv, TreeOK
<1>15. /\ a \in Arc /\ arc_tail(a) = m /\ arc_head(a) \in Node /\ levels(a) \in Nat
       /\ capacity[a] > 0
  <2>1. a \in Arc /\ arc_tail(a) = m
    BY DEF node_adjacency
  <2> QED  BY <1>2, <1>14, <2>1, ArcFacts, LevelFacts DEF residual
<1>16. rise(m) = r /\ rise(arc_head(a)) = distance[arc_head(a)] /\ distance[arc_head(a)] \in Nat
  <2>1. distance[arc_head(a)] <= maximum_distance /\ distance[arc_head(a)] \in Nat
    BY <1>2, <1>3, <1>14, <1>15
  <2> QED  BY <1>2, <1>9, <1>13, <2>1 DEF rise, MIN
<1>17. Down(capacity, q, a)
  BY <1>6, <1>13, <1>14, <1>15, <1>16
<1>18. arc_head(a) \notin S
  <2> SUFFICES ASSUME arc_head(a) \in S PROVE FALSE
    OBVIOUS
  <2>1. r <= distance[arc_head(a)]
    BY <1>9
  <2>2. distance[arc_head(a)] = r
    BY <1>9, <1>13, <1>14, <1>15, <1>16, <2>1
  <2> QED  BY <1>12, <1>17, <2>2
<1> QED  BY <1>7, <1>13, <1>15, <1>17, <1>18

(* After a price update an admissible arc leaves every set of nodes that   *)
(* has excess and no sink: gt_set_relabel raises enough to open a path.    *)
THEOREM PriceUpdatesOpenPaths == Spec => PriceUpdateOpensPaths
<1> DEFINE A == pc = "raise" =>
                  \A S \in SUBSET Node :
                    ((\E n \in S : excess[n] > 0) /\ (\A n \in S : excess[n] >= 0)) =>
                      \E a \in Arc : /\ arc_tail(a) \in S /\ arc_head(a) \notin S
                                     /\ admissible(a)'
<1>1. IInv /\ [Next]_vars => [A]_vars
  <2> SUFFICES ASSUME IInv, Next, pc = "raise", NEW S \in SUBSET Node,
                      NEW n \in S, excess[n] > 0, \A m \in S : excess[m] >= 0
               PROVE  \E a \in Arc : /\ arc_tail(a) \in S /\ arc_head(a) \notin S
                                     /\ admissible(a)'
    OBVIOUS
  <2>1. RaisePrices
    BY DEF Next, Running, goldberg_tarjan_mcf, goldberg_tarjan_feasible, Fail, Refine, Return,
           Saturate, Saturated, Enqueue, Enqueued, Pop, Refined, UpdatePrices, FloodNode, FloodArc,
           BeginScan, Discharged, PassArc, Push, RelabelHead, EndScan, Scanning
  <2> QED  BY <2>1, RaiseOpensPaths
<1> QED  BY <1>1, Invariant, PTL DEF Spec, PriceUpdateOpensPaths
-----------------------------------------------------------------------------
(* The queue after a push: a node that gets excess is put into it.         *)
LEMMA PushQueues ==
  ASSUME TypeOK, Scanning, QueueOK, arc \in Arc, arc_tail(arc) = node, push_along
  PROVE  \A n \in Node : excess'[n] > 0 => n = node \/ Queued(active', n)
<1> DEFINE h == arc_head(arc)
           x == amount(arc)
           q == active'
           e == excess'
<1>1. /\ h \in Node /\ node \in Node /\ excess \in [Node -> Int] /\ active \in Seq(Node)
      /\ pc = "scan"
  BY ArcFacts DEF TypeOK, Scanning
<1>2. /\ e = [excess EXCEPT ![node] = @ - x, ![h] = @ + x]
      /\ q = IF e[h] > 0 /\ excess[h] <= 0 THEN Append(active, h) ELSE active
  BY DEF push_along, gt_push, awakes
<1>3. \A n \in Node : n # node /\ n # h => e[n] = excess[n]
  <2> HIDE DEF h, x, e
  <2> QED  BY <1>1, <1>2
<1>4. \A n \in Node : excess[n] > 0 => n = node \/ Queued(active, n)
  BY <1>1 DEF QueueOK
<1>5. \A n : Queued(active, n) => Queued(q, n)
  <2> HIDE DEF h, e
  <2>1. q = active \/ q = Append(active, h)
    BY <1>2
  <2>2. \A n : Queued(active, n) => Queued(Append(active, h), n)
    BY <1>1, QueuedFacts
  <2> HIDE DEF q
  <2> QED  BY <2>1, <2>2
<1>6. e[h] > 0 /\ excess[h] <= 0 => Queued(q, h)
  <2> SUFFICES ASSUME e[h] > 0, excess[h] <= 0 PROVE Queued(q, h)
    OBVIOUS
  <2>1. q = Append(active, h)
    BY <1>2
  <2> HIDE DEF q, e, h
  <2> QED  BY <1>1, <2>1, QueuedFacts
<1>7. excess[h] \in Int
  BY <1>1
<1> HIDE DEF q, e, h
<1>8. \A n \in Node : e[n] > 0 => n = node \/ Queued(q, n)
  BY <1>1, <1>3, <1>4, <1>5, <1>6, <1>7
<1> QED  BY <1>8 DEF q, e

(* Every step keeps the nodes with excess in the queue.                    *)
LEMMA QueueStep ==
  ASSUME IInv, QueueOK, [Next]_vars
  PROVE  QueueOK'
<1>1. TypeOK /\ PricesOK /\ excess \in [Node -> Int] /\ active \in Seq(Node)
  BY DEF IInv, TypeOK
<1>2. CASE UNCHANGED vars
  <2>1. UNCHANGED <<pc, excess, active, node, node_id>>
    BY <1>2 DEF vars, flows, loops, queue, cursor
  <2> QED  BY <2>1 DEF QueueOK
<1>3. CASE pc' \in {"feasible", "fail", "idle", "scale", "saturate"}
  BY <1>3 DEF QueueOK
<1>4. ASSUME UNCHANGED <<excess, active>>,
             pc \in {"enqueue", "main", "flood", "raise", "discharge", "scan"},
             pc' \in {"main", "flood", "raise"} => pc \in {"main", "flood", "raise"} \/
               (pc = "enqueue" /\ node_id = max_num_nodes) \/
               (pc = "discharge" /\ ~ (excess[node] > 0)),
             pc' \in {"discharge", "scan"} => pc \in {"discharge", "scan"} /\ node' = node,
             pc' # "enqueue"
      PROVE  QueueOK'
  <2>1. \A n \in Node : n < max_num_nodes
    BY Sizes DEF Node
  <2> QED  BY <1>4, <2>1 DEF QueueOK
<1>5. CASE Saturated
  <2>1. pc' = "enqueue" /\ node_id' = 0 /\ \A n \in Node : ~ (n < 0)
    BY <1>5 DEF Saturated, Node
  <2> QED  BY <2>1 DEF QueueOK
<1>6. CASE Enqueue
  <2>1. /\ pc = "enqueue" /\ pc' = "enqueue" /\ node_id \in Node /\ node_id' = node_id + 1
        /\ active' = IF excess[node_id] > 0 THEN Append(active, node_id) ELSE active
        /\ excess' = excess
    BY <1>6 DEF Enqueue, flows
  <2>2. ASSUME NEW n \in Node, n < node_id + 1, excess[n] > 0
        PROVE  Queued(active', n)
    <3>1. CASE n = node_id
      <4>1. active' = Append(active, n)
        BY <2>1, <2>2, <3>1
      <4> QED  BY <1>1, <4>1, QueuedFacts
    <3>2. CASE n # node_id
      <4>1. n < node_id
        BY <2>1, <2>2, <3>2 DEF Node
      <4>2. Queued(active, n)
        BY <2>1, <2>2, <4>1 DEF QueueOK
      <4>3. active' = active \/ active' = Append(active, node_id)
        BY <2>1
      <4>4. Queued(Append(active, node_id), n)
        BY <1>1, <4>2, QueuedFacts
      <4> QED  BY <4>2, <4>3, <4>4
    <3> QED  BY <3>1, <3>2
  <2> QED  BY <2>1, <2>2 DEF QueueOK
<1>7. CASE Pop
  <2>1. /\ pc = "main" /\ pc' = "discharge" /\ active # << >>
        /\ node' = Head(active) /\ active' = Tail(active) /\ excess' = excess
    BY <1>7 DEF Pop, flows
  <2>2. ASSUME NEW n \in Node, excess[n] > 0
        PROVE  n = node' \/ Queued(active', n)
    <3>1. Queued(active, n)
      BY <2>1, <2>2 DEF QueueOK
    <3> QED  BY <1>1, <2>1, <3>1, QueuedFacts
  <2> QED  BY <2>1, <2>2 DEF QueueOK
<1>8. CASE Push \/ RelabelHead
  <2>1. /\ Scanning /\ UNCHANGED <<pc, node>> /\ pc = "scan" /\ arc # NO_ARC
        /\ push_along \/ UNCHANGED <<excess, active>>
    BY <1>8 DEF Push, RelabelHead, Scanning, flows
  <2>2. arc \in Arc /\ arc_tail(arc) = node
    BY <1>1, <2>1, PassFacts
  <2>3. \A n \in Node : excess'[n] > 0 => n = node \/ Queued(active', n)
    <3>1. CASE push_along
      BY <1>1, <2>1, <2>2, <3>1, PushQueues
    <3>2. CASE UNCHANGED <<excess, active>>
      BY <2>1, <3>2 DEF QueueOK
    <3> QED  BY <2>1, <3>1, <3>2
  <2> QED  BY <2>1, <2>3 DEF QueueOK
<1>9. CASE Enqueued \/ UpdatePrices \/ FloodNode \/ FloodArc \/ RaisePrices \/ BeginScan
           \/ Discharged \/ PassArc \/ EndScan
  <2>1. /\ UNCHANGED <<excess, active>> /\ pc' # "enqueue"
        /\ pc \in {"enqueue", "main", "flood", "raise", "discharge", "scan"}
    BY <1>9 DEF Enqueued, UpdatePrices, FloodNode, FloodArc, RaisePrices, BeginScan, Discharged,
       PassArc, EndScan, Scanning, flows, queue
  <2>2. pc' \in {"main", "flood", "raise"} =>
          pc \in {"main", "flood", "raise"} \/ (pc = "enqueue" /\ node_id = max_num_nodes)
          \/ (pc = "discharge" /\ ~ (excess[node] > 0))
    BY <1>9 DEF Enqueued, UpdatePrices, FloodNode, FloodArc, RaisePrices, BeginScan, Discharged,
       PassArc, EndScan, Scanning
  <2>3. pc' \in {"discharge", "scan"} => pc \in {"discharge", "scan"} /\ node' = node
    BY <1>9 DEF Enqueued, UpdatePrices, FloodNode, FloodArc, RaisePrices, BeginScan, Discharged,
       PassArc, EndScan, Scanning, cursor
  <2> QED  BY <1>4, <2>1, <2>2, <2>3
<1>10. CASE \/ \E supply \in Supplies, c \in Costs : goldberg_tarjan_mcf(supply, c)
            \/ goldberg_tarjan_feasible \/ Fail \/ Refine \/ Return \/ Saturate \/ Refined
  <2>1. pc' \in {"feasible", "fail", "idle", "scale", "saturate"}
    BY <1>10 DEF goldberg_tarjan_mcf, goldberg_tarjan_feasible, Fail, Refine, Return, Saturate, Refined
  <2> QED  BY <1>3, <2>1
<1> QED  BY <1>2, <1>5, <1>6, <1>7, <1>8, <1>9, <1>10 DEF Next, Running
-----------------------------------------------------------------------------

(* What the specification of the solvers calls the supply of a node.       *)
LEMMA SupplyValue ==
  \A n \in Node : Abstract!supply(n) = excess[n] - balance(capacity, n)
<1> SUFFICES ASSUME NEW n \in Node
             PROVE  Abstract!supply(n) = excess[n] - balance(capacity, n)
  OBVIOUS
<1>1. Abstract!node_balance(n) = balance(capacity, n)
  BY AbstractFacts, BalanceValue
<1> QED  BY <1>1 DEF Abstract!supply

(* What the specification calls total is the sum of an arc and its dual.   *)
LEMMA TotalValue ==
  \A a : Abstract!total(a) = capacity[a] + capacity[arc_dual(a)]
BY AbstractFacts

(* A step that keeps what arcs and their duals hold together, and changes  *)
(* the excess of every node by as much as its balance, moves flow.         *)
LEMMA WorkFacts ==
  ASSUME pc # "idle", pc' # "idle", graph' = graph, cost' = cost,
         capacity' \in [Arc -> Nat],
         \A a \in Arc : capacity'[a] + capacity'[arc_dual(a)] = capacity[a] + capacity[arc_dual(a)],
         \A n \in Node : excess'[n] - balance(capacity', n) = excess[n] - balance(capacity, n)
  PROVE  /\ Abstract!Work
         /\ \A a \in ProblemArc : Abstract!total(a)' = Abstract!total(a)
         /\ \A n \in Node : Abstract!supply(n)' = Abstract!supply(n)
<1>1. \A a \in Arc : Abstract!total(a)' = Abstract!total(a)
  <2>1. (\A a : Abstract!total(a) = capacity[a] + capacity[arc_dual(a)])'
    BY TotalValue, PTL
  <2>2. \A a : arc_dual(a)' = arc_dual(a)
    BY DEF arc_dual
  <2>3. \A a : Abstract!total(a)' = capacity'[a] + capacity'[arc_dual(a)]
    BY <2>1, <2>2
  <2> QED  BY <2>3, AbstractFacts
<1>2. \A n \in Node : Abstract!supply(n)' = Abstract!supply(n)
  <2>1. (\A n \in Node : Abstract!supply(n) = excess[n] - balance(capacity, n))'
    BY SupplyValue, PTL
  <2>2. \A n \in Node : Abstract!supply(n)' = excess'[n] - balance(capacity', n)
    BY <2>1, BalanceNext
  <2> QED  BY <2>2, SupplyValue
<1>3. \A a \in Arc : capacity'[a] >= 0
  OBVIOUS
<1>4. Abstract!Arc = Arc /\ Abstract!Node = Node
  BY AbstractFacts
<1>5. Abstract!Work
  BY <1>1, <1>2, <1>3, <1>4 DEF Abstract!Work
<1>6. \A a \in ProblemArc : a \in Arc
  BY SizesAssumption DEF ProblemArc, Arc
<1> QED  BY <1>1, <1>2, <1>5, <1>6

(* A push moves flow.                                                      *)
LEMMA PushWorks ==
  ASSUME TypeOK, TypeOK', pc # "idle", pc' # "idle", graph' = graph, cost' = cost,
         NEW a \in Arc, NEW x \in Nat, gt_push(a, x)
  PROVE  Abstract!Work
<1> DEFINE c == capacity
           d == capacity'
           e == excess
           g == excess'
<1>1. /\ c \in [Arc -> Nat] /\ d \in [Arc -> Nat]
      /\ e \in [Node -> Int] /\ g \in [Node -> Int] /\ NetworkTypeOK
  BY DEF TypeOK, NetworkTypeOK
<1>2. /\ d = [c EXCEPT ![a] = @ - x, ![arc_dual(a)] = @ + x]
      /\ g = [e EXCEPT ![arc_tail(a)] = @ - x, ![arc_head(a)] = @ + x]
  BY DEF gt_push
<1>3. Moved(c, e, d, g)
  <2> HIDE DEF c, d, e, g
  <2> QED  BY <1>1, <1>2, PushMoves
<1> QED  BY <1>1, <1>3, WorkFacts DEF Moved
-----------------------------------------------------------------------------
(* The flows that meet the supplies depend on the capacities of the arcs   *)
(* and on the supplies.                                                    *)
LEMMA FlowSums ==
  \A f, n : /\ Abstract!Inflow(f, n) = SumOver(f, {a \in ProblemArc : graph.to[a] = n})
            /\ Abstract!Outflow(f, n) = SumOver(f, {a \in ProblemArc : graph.from[a] = n})
BY AbstractFacts

(* Moving flow changes nothing in which flows are feasible.                *)
LEMMA FeasibleFlowsNext ==
  ASSUME graph' = graph,
         \A a \in ProblemArc : Abstract!total(a)' = Abstract!total(a),
         \A n \in Node : Abstract!supply(n)' = Abstract!supply(n)
  PROVE  Abstract!FeasibleFlows' = Abstract!FeasibleFlows
<1>1. Abstract!ProblemArc = ProblemArc /\ Abstract!Node = Node
  BY AbstractFacts
<1>2. Abstract!Flows' = Abstract!Flows
  <2> DEFINE T == {Abstract!total(a) : a \in Abstract!ProblemArc}
  <2>1. T' = T
    BY <1>1
  <2>2. Abstract!Max(T)' = Abstract!Max(T)
    <3> HIDE DEF T
    <3> QED  BY <2>1
  <2> HIDE DEF T
  <2>3. Abstract!Flows = {f \in [ProblemArc -> 0 .. Abstract!Max(T)] :
                            \A a \in ProblemArc : f[a] <= Abstract!total(a)}
    BY <1>1 DEF Abstract!Flows, T
  <2>4. Abstract!Flows' = {f \in [ProblemArc -> 0 .. Abstract!Max(T)'] :
                             \A a \in ProblemArc : f[a] <= Abstract!total(a)'}
    BY <1>1 DEF Abstract!Flows, T
  <2> QED  BY <2>2, <2>3, <2>4
<1>3. \A f : \A n \in Node : Abstract!Excess(f, n)' = Abstract!Excess(f, n)
  <2>1. (\A f, n : /\ Abstract!Inflow(f, n) = SumOver(f, {a \in ProblemArc : graph.to[a] = n})
                   /\ Abstract!Outflow(f, n) = SumOver(f, {a \in ProblemArc : graph.from[a] = n}))'
    BY FlowSums, PTL
  <2> SUFFICES ASSUME NEW f, NEW n \in Node
               PROVE  Abstract!Excess(f, n)' = Abstract!Excess(f, n)
    OBVIOUS
  <2>2. /\ Abstract!Inflow(f, n)' = SumOver(f, {a \in ProblemArc : graph'.to[a] = n})
        /\ Abstract!Outflow(f, n)' = SumOver(f, {a \in ProblemArc : graph'.from[a] = n})
    BY <2>1
  <2>3. /\ Abstract!Inflow(f, n)' = Abstract!Inflow(f, n)
        /\ Abstract!Outflow(f, n)' = Abstract!Outflow(f, n)
    BY <2>2, FlowSums
  <2> QED  BY <2>3 DEF Abstract!Excess
<1> QED  BY <1>1, <1>2, <1>3 DEF Abstract!FeasibleFlows

(* goldberg_tarjan_feasible moves flow; where it fails nothing is feasible.*)
LEMMA FeasibleWorks ==
  ASSUME IInv, goldberg_tarjan_feasible
  PROVE  Abstract!Work /\ (max_num_nodes > 1 => AnswerOK')
<1> DEFINE met == Abstract!FeasibleFlows # {}
<1>1. PICK f \in IF met THEN Abstract!FeasibleFlows ELSE Abstract!Flows :
        /\ capacity' = [a \in Arc |-> IF arc_is_dual(a) THEN f[arc_dual(a)]
                                      ELSE Abstract!total(a) - f[a]]
        /\ excess' = [n \in Node |-> Abstract!Excess(f, n)]
  BY DEF goldberg_tarjan_feasible
<1>2. /\ pc = "feasible"
      /\ IF met
         THEN /\ pc' = "scale"
              /\ epsilon' = scale_factor * Max({0} \union {cost[a] : a \in Arc})
         ELSE pc' = "fail" /\ UNCHANGED epsilon
      /\ graph' = graph /\ cost' = cost
  BY DEF goldberg_tarjan_feasible, problem
<1>3. TypeOK /\ NetworkTypeOK /\ excess \in [Node -> Int] /\ capacity \in [Arc -> Nat]
  BY DEF IInv, TypeOK, NetworkTypeOK
<1>4. f \in Abstract!Flows /\ (met => f \in Abstract!FeasibleFlows)
  BY <1>1 DEF Abstract!FeasibleFlows
<1> HIDE DEF met
<1>5. capacity' \in [Arc -> Nat]
  BY FeasibleStep DEF IInv, TypeOK, NetworkTypeOK
<1>6. \A a \in ProblemArc : /\ a \in Arc /\ arc_dual(a) \in Arc /\ arc_dual(arc_dual(a)) = a
                            /\ ~ arc_is_dual(a) /\ arc_is_dual(arc_dual(a))
  BY SizesAssumption DEF Arc, ProblemArc, arc_dual, arc_is_dual
<1>7. \A a \in Arc : a \in ProblemArc \/ (arc_dual(a) \in ProblemArc /\ arc_dual(arc_dual(a)) = a)
  BY SizesAssumption DEF Arc, ProblemArc, arc_dual
<1>8. \A a \in ProblemArc : /\ f[a] = capacity'[arc_dual(a)] /\ f[a] \in Nat
                            /\ capacity'[a] = capacity[a] + capacity[arc_dual(a)] - f[a]
  <2> SUFFICES ASSUME NEW a \in ProblemArc
               PROVE  /\ f[a] = capacity'[arc_dual(a)] /\ f[a] \in Nat
                      /\ capacity'[a] = capacity[a] + capacity[arc_dual(a)] - f[a]
    OBVIOUS
  <2>1. f[a] \in Nat
    BY <1>3, <1>4, FlowFacts
  <2>2. capacity'[a] = Abstract!total(a) - f[a]
    BY <1>1, <1>6
  <2>3. capacity'[arc_dual(a)] = f[a]
    BY <1>1, <1>6
  <2>4. Abstract!total(a) = capacity[a] + capacity[arc_dual(a)]
    BY TotalValue
  <2>5. capacity[a] \in Nat /\ capacity[arc_dual(a)] \in Nat
    BY <1>3, <1>6
  <2> QED  BY <2>1, <2>2, <2>3, <2>4, <2>5
<1>9. \A a \in Arc : capacity'[a] + capacity'[arc_dual(a)] = capacity[a] + capacity[arc_dual(a)]
  <2>1. ASSUME NEW a \in ProblemArc
        PROVE  capacity'[a] + capacity'[arc_dual(a)] = capacity[a] + capacity[arc_dual(a)]
    <3>1. capacity[a] \in Nat /\ capacity[arc_dual(a)] \in Nat
      BY <1>3, <1>6
    <3> QED  BY <1>8, <3>1
  <2>2. ASSUME NEW a \in Arc, arc_dual(a) \in ProblemArc, arc_dual(arc_dual(a)) = a
        PROVE  capacity'[a] + capacity'[arc_dual(a)] = capacity[a] + capacity[arc_dual(a)]
    <3>1. capacity'[arc_dual(a)] + capacity'[a] = capacity[arc_dual(a)] + capacity[a]
      BY <2>1, <2>2
    <3>2. /\ capacity[a] \in Nat /\ capacity[arc_dual(a)] \in Nat
          /\ capacity'[a] \in Nat /\ capacity'[arc_dual(a)] \in Nat
      BY <1>3, <1>5, <1>6, <2>2
    <3> QED  BY <3>1, <3>2
  <2> QED  BY <1>7, <2>1, <2>2
<1>10. \A n \in Node : excess'[n] - balance(capacity', n) = excess[n] - balance(capacity, n)
  <2> SUFFICES ASSUME NEW n \in Node
               PROVE  excess'[n] - balance(capacity', n) = excess[n] - balance(capacity, n)
    OBVIOUS
  <2> DEFINE In == SumOver(f, {a \in ProblemArc : graph.to[a] = n})
             Out == SumOver(f, {a \in ProblemArc : graph.from[a] = n})
             new == balance(capacity', n)
             old == balance(capacity, n)
  <2>1. new = In - Out
    <3> DEFINE d == capacity'
    <3>1. d \in [Arc -> Nat] /\ \A a \in ProblemArc : f[a] = d[arc_dual(a)]
      BY <1>5, <1>8
    <3> HIDE DEF d
    <3>2. balance(d, n) = In - Out
      BY <1>3, <3>1, BalanceSplit
    <3> QED  BY <3>2 DEF d
  <2>2. excess'[n] = excess[n] - old + In - Out
    <3>1. excess'[n] = Abstract!supply(n) + Abstract!Inflow(f, n) - Abstract!Outflow(f, n)
      BY <1>1 DEF Abstract!Excess
    <3> QED  BY <3>1, SupplyValue, FlowSums
  <2>3. In \in Int /\ Out \in Int /\ old \in Int /\ excess[n] \in Int
    <3>1. IsFiniteSet(ProblemArc) /\ Integral(f, ProblemArc)
      BY <1>8, Sizes DEF Integral
    <3>2. In \in Int /\ Out \in Int
      BY <3>1, SumType
    <3> QED  BY <1>3, <3>2, CarriedType
  <2> HIDE DEF In, Out, new, old
  <2>4. excess'[n] - new = excess[n] - old
    BY <2>1, <2>2, <2>3
  <2> QED  BY <2>4 DEF new, old
<1>11. /\ Abstract!Work
       /\ \A a \in ProblemArc : Abstract!total(a)' = Abstract!total(a)
       /\ \A n \in Node : Abstract!supply(n)' = Abstract!supply(n)
  <2>1. pc # "idle" /\ pc' # "idle"
    BY <1>2
  <2> QED  BY <1>2, <1>5, <1>9, <1>10, <2>1, WorkFacts
<1>12. pc' = "fail" => Abstract!FeasibleFlows' = {}
  BY <1>2, <1>11, FeasibleFlowsNext DEF met
<1>13. pc' = "scale" => \A n \in Node : excess'[n] = 0
  <2>1. SUFFICES ASSUME pc' = "scale" PROVE \A n \in Node : excess'[n] = 0
    OBVIOUS
  <2>2. \A n \in Node : Abstract!Excess(f, n) = 0
    BY <1>2, <1>4, <2>1, AbstractFacts DEF Abstract!FeasibleFlows
  <2> QED  BY <1>1, <2>2
<1>14. pc' = "scale" /\ max_num_nodes > 1 => epsilon' = 0 \/ epsilon' > 1
  <2> DEFINE m == Max({0} \union {cost[a] : a \in Arc})
  <2>1. m \in Nat
    BY <1>3, GreatestCost
  <2>2. pc' = "scale" => epsilon' = max_num_nodes * m
    BY <1>2 DEF scale_factor
  <2> HIDE DEF m
  <2>3. max_num_nodes > 1 => max_num_nodes * m = 0 \/ max_num_nodes * m > 1
    <3>1. CASE m = 0
      BY <3>1, Sizes
    <3>2. CASE m > 0
      <4>1. m - 1 \in Nat /\ max_num_nodes \in Nat
        BY <2>1, <3>2, Sizes
      <4>2. max_num_nodes * (m - 1) \in Nat
        BY <4>1
      <4>3. max_num_nodes * m = max_num_nodes * (m - 1) + max_num_nodes
        BY <2>1, <4>1
      <4> QED  BY <4>1, <4>2, <4>3
    <3> QED  BY <2>1, <3>1, <3>2
  <2> QED  BY <2>2, <2>3
<1>15. max_num_nodes > 1 => AnswerOK'
  BY <1>12, <1>13, <1>14 DEF AnswerOK
<1> QED  BY <1>11, <1>15
(* When the queue is empty no excess is left, and none is missing.         *)
LEMMA RefinedBalanced ==
  ASSUME IInv, QueueOK, Refined
  PROVE  \A n \in Node : excess[n] = 0
<1> DEFINE zero == [n \in Node |-> 0]
<1>1. pc = "main" /\ active = << >> /\ active \in Seq(Node)
  BY DEF Refined, IInv, TypeOK
<1>2. excess \in [Node -> Int] /\ SumOver(excess, Node) = 0
  BY <1>1 DEF IInv, TypeOK, ExcessOK, Started, Refining
<1>3. \A n \in Node : ~ (excess[n] > 0)
  BY <1>1, QueuedFacts DEF QueueOK
<1>4. /\ Integral(excess, Node) /\ Integral(zero, Node)
      /\ \A n \in Node : excess[n] <= zero[n] /\ zero[n] = 0
  BY <1>2, <1>3 DEF Integral
<1> HIDE DEF zero
<1>5. SumOver(zero, Node) = 0
  BY <1>4, Sizes, SumZero
<1>6. \A n \in Node : excess[n] = zero[n]
  BY <1>2, <1>4, <1>5, Sizes, SumTight
<1> QED  BY <1>4, <1>6

(* What the call knows at its ends is kept.                                *)
LEMMA AnswerStep ==
  ASSUME IInv, QueueOK, AnswerOK, [Next]_vars, max_num_nodes > 1
  PROVE  AnswerOK'
<1>1. CASE UNCHANGED vars
  <2>1. /\ UNCHANGED <<pc, excess, epsilon, capacity, potential, graph, cost>>
        /\ UNCHANGED problem
    BY <1>1 DEF vars, problem, flows, loops
  <2>2. pc' = "scale" => epsilon' = 0 \/ epsilon' > 1 \/ NoCycle(capacity, potential)'
    BY <2>1, NextFacts DEF AnswerOK
  <2>3. pc' = "fail" => Abstract!FeasibleFlows' = {}
    <3>1. SUFFICES ASSUME pc = "fail" PROVE Abstract!FeasibleFlows' = {}
      BY <2>1
    <3>2. /\ capacity' \in [Arc -> Nat] /\ excess' = excess /\ capacity' = capacity
          /\ graph' = graph /\ cost' = cost /\ pc # "idle" /\ pc' # "idle"
      BY <2>1, <3>1 DEF IInv, TypeOK, NetworkTypeOK
    <3>3. /\ \A a \in ProblemArc : Abstract!total(a)' = Abstract!total(a)
          /\ \A n \in Node : Abstract!supply(n)' = Abstract!supply(n)
      <4>1. \A n \in Node : excess'[n] - balance(capacity', n) = excess[n] - balance(capacity, n)
        BY <3>2
      <4>2. \A a \in Arc : capacity'[a] + capacity'[arc_dual(a)] = capacity[a] + capacity[arc_dual(a)]
        BY <3>2
      <4> QED  BY <3>2, <4>1, <4>2, WorkFacts
    <3> QED  BY <3>1, <3>2, <3>3, FeasibleFlowsNext DEF AnswerOK
  <2> QED  BY <2>1, <2>2, <2>3 DEF AnswerOK
<1>2. CASE goldberg_tarjan_feasible
  BY <1>2, FeasibleWorks
<1>3. CASE Refined
  <2>1. pc' = "scale" /\ UNCHANGED <<excess, capacity, potential>> /\ UNCHANGED problem
    BY <1>3 DEF Refined, flows
  <2>2. NoCycle(capacity', potential')
    BY <1>3, <2>1 DEF Refined, IInv, PricesOK, Refining
  <2>3. NoCycle(capacity, potential)'
    BY <2>1, <2>2, NextFacts
  <2>4. \A n \in Node : excess[n] = 0
    BY <1>3, RefinedBalanced
  <2> QED  BY <2>1, <2>3, <2>4 DEF AnswerOK
<1>4. CASE pc' \notin {"fail", "scale"}
  BY <1>4 DEF AnswerOK
<1>5. CASE \/ \E supply \in Supplies, c \in Costs : goldberg_tarjan_mcf(supply, c)
           \/ Fail \/ Refine \/ Return \/ Saturate \/ Saturated \/ Enqueue \/ Enqueued \/ Pop
           \/ UpdatePrices \/ FloodNode \/ FloodArc \/ RaisePrices
           \/ BeginScan \/ Discharged \/ PassArc \/ Push \/ RelabelHead \/ EndScan
  <2>1. pc' \notin {"fail", "scale"}
    BY <1>5 DEF goldberg_tarjan_mcf, Fail, Refine, Return, Saturate, Saturated, Enqueue,
       Enqueued, Pop, UpdatePrices, FloodNode, FloodArc, RaisePrices, BeginScan, Discharged,
       PassArc, Push, RelabelHead, EndScan, Scanning
  <2> QED  BY <1>4, <2>1
<1> QED  BY <1>1, <1>2, <1>3, <1>5 DEF Next, Running
-----------------------------------------------------------------------------
(* Division by the number of nodes.                                        *)
LEMMA DivFacts ==
  ASSUME NEW N \in Nat \ {0}, NEW x \in Int
  PROVE  /\ x \div N \in Int /\ x % N \in 0 .. N - 1
         /\ x = N * (x \div N) + (x % N)
OBVIOUS

(* Numbers that are nearer than N and both multiples of N are the same.    *)
LEMMA NearMultiples ==
  ASSUME NEW N \in Nat \ {0}, NEW x \in Int, NEW y \in Int,
         x % N = 0, y % N = 0, x - y < N, y - x < N
  PROVE  x = y
<1> DEFINE k == x \div N
           l == y \div N
<1>1. k \in Int /\ l \in Int /\ x = N * k /\ y = N * l
  BY DivFacts
<1> HIDE DEF k, l
<1>2. x - y = N * (k - l)
  BY <1>1
<1>3. CASE k - l >= 1
  <2>1. N * (k - l) >= N
    <3>1. N * (k - l - 1) >= 0
      BY <1>1, <1>3
    <3>2. N * (k - l - 1) = N * (k - l) - N
      BY <1>1
    <3>3. N * (k - l) \in Int
      BY <1>1
    <3> QED  BY <3>1, <3>2, <3>3
  <2> QED  BY <1>2, <2>1
<1>4. CASE l - k >= 1
  <2>1. N * (l - k) >= N
    <3>1. N * (l - k - 1) >= 0
      BY <1>1, <1>4
    <3>2. N * (l - k - 1) = N * (l - k) - N
      BY <1>1
    <3>3. N * (l - k) \in Int
      BY <1>1
    <3> QED  BY <3>1, <3>2, <3>3
  <2>2. y - x = N * (l - k)
    BY <1>1
  <2> QED  BY <2>1, <2>2
<1>5. CASE k = l
  BY <1>1, <1>5
<1> QED  BY <1>1, <1>3, <1>4, <1>5

(* Scaled costs and prices have a shift for which no price of a node that  *)
(* an arc leads down from becomes a multiple of the number of nodes: such  *)
(* nodes are fewer than the shifts.                                        *)
LEMMA Shift ==
  ASSUME NetworkTypeOK, NEW c, NEW p \in [Node -> Int], NoCycle(c, p)
  PROVE  \E s \in Node : \A a \in Arc :
           Down(c, p, a) => (p[arc_tail(a)] + s) % max_num_nodes # 0
<1> DEFINE N == max_num_nodes
           B == {n \in Node : \E a \in node_adjacency(n) : Down(c, p, a)}
           bad(s) == {n \in B : (p[n] + s) % N = 0}
           pick == [s \in Node |-> CHOOSE n \in B : n \in bad(s)]
<1>1. SUFFICES ASSUME \A s \in Node : bad(s) # {} PROVE FALSE
  <2>1. SUFFICES ASSUME NEW s \in Node, bad(s) = {}
                 PROVE  \A a \in Arc : Down(c, p, a) => (p[arc_tail(a)] + s) % max_num_nodes # 0
    OBVIOUS
  <2>2. \A a \in Arc : Down(c, p, a) => arc_tail(a) \in B
    BY ArcFacts DEF node_adjacency
  <2> QED  BY <2>1, <2>2
<1>2. PICK top \in Node : top \notin B
  <2>1. Node \in (SUBSET Node) \ {{}}
    BY Sizes
  <2>2. PICK n \in Node : \A a \in node_adjacency(n) : Down(c, p, a) => arc_head(a) \notin Node
    BY <2>1 DEF NoCycle
  <2>3. \A a \in node_adjacency(n) : arc_head(a) \in Node
    BY ArcFacts DEF node_adjacency
  <2>4. n \notin B
    BY <2>2, <2>3
  <2> QED  BY <2>4
<1>3. IsFiniteSet(B) /\ Cardinality(B) < Cardinality(Node)
  <2>1. B \in SUBSET Node /\ B # Node
    BY <1>2
  <2> HIDE DEF B
  <2>2. IsFiniteSet(B) /\ Cardinality(B) <= Cardinality(Node) /\ Cardinality(B) # Cardinality(Node)
    BY <2>1, Sizes, FS_Subset
  <2>3. Cardinality(B) \in Nat /\ Cardinality(Node) \in Nat
    BY <2>2, Sizes, FS_CardinalityType
  <2> QED  BY <2>2, <2>3
<1>4. \A s \in Node : pick[s] \in B /\ pick[s] \in bad(s)
  <2> SUFFICES ASSUME NEW s \in Node PROVE \E n \in B : n \in bad(s)
    OBVIOUS
  <2> QED  BY <1>1
<1>5. pick \in [Node -> B]
  BY <1>4
<1>6. PICK s \in Node, t \in Node : s # t /\ pick[s] = pick[t]
  <2> HIDE DEF pick, B
  <2> QED  BY <1>3, <1>5, Sizes, FS_PigeonHole
<1> DEFINE n == pick[s]
<1>7. n \in Node /\ (p[n] + s) % N = 0 /\ (p[n] + t) % N = 0
  <2>1. pick[s] \in bad(s) /\ pick[t] \in bad(t)
    BY <1>4
  <2> HIDE DEF pick
  <2> QED  BY <1>6, <2>1
<1> HIDE DEF n, N
<1>8. N \in Nat \ {0} /\ s \in 0 .. N - 1 /\ t \in 0 .. N - 1
  BY Sizes DEF Node, N
<1>9. p[n] \in Int
  BY <1>7
<1>10. /\ p[n] + s \in Int /\ p[n] + t \in Int
       /\ (p[n] + s) - (p[n] + t) < N /\ (p[n] + t) - (p[n] + s) < N
  BY <1>8, <1>9
<1>11. p[n] + s = p[n] + t
  BY <1>7, <1>8, <1>10, NearMultiples
<1> QED  BY <1>6, <1>8, <1>9, <1>11
(* An arc that is optimal up to 1 in scaled costs, and leads down only     *)
(* from a price that is no multiple of the number of nodes, is optimal for *)
(* the prices divided by that number.                                      *)
LEMMA Rounding ==
  ASSUME NetworkTypeOK, NEW p \in [Node -> Int], NEW s \in Node, NEW a \in Arc,
         NEW q, \A n \in Node : q[n] = (p[n] + s) \div max_num_nodes,
         rcost(p, a) >= -1,
         rcost(p, a) < 0 => (p[arc_tail(a)] + s) % max_num_nodes # 0
  PROVE  cost[a] + q[arc_head(a)] - q[arc_tail(a)] >= 0
<1> DEFINE N == max_num_nodes
           t == arc_tail(a)
           h == arc_head(a)
           P == p[t] + s
           H == p[h] + s
           C == cost[a]
           i == P \div N
           j == P % N
           k == H \div N
           l == H % N
           r == rcost(p, a)
<1>1. /\ t \in Node /\ h \in Node /\ N \in Nat \ {0} /\ s \in Int
      /\ C \in Int /\ p[t] \in Int /\ p[h] \in Int
  <2>1. t \in Node /\ h \in Node
    BY ArcFacts
  <2>2. N \in Nat \ {0} /\ s \in Int
    BY Sizes DEF Node
  <2>3. C \in Int
    BY DEF NetworkTypeOK
  <2> HIDE DEF t, h, N, C
  <2> QED  BY <2>1, <2>2, <2>3
<1>2. r = C * N + H - P /\ r \in Int
  <2>1. r = C * N + p[h] - p[t]
    BY DEF rcost, gt_cost, scale_factor
  <2>2. C * N \in Int
    BY <1>1
  <2> HIDE DEF r, C, t, h, N
  <2> QED  BY <1>1, <2>1, <2>2
<1>3. P \in Int /\ H \in Int
  BY <1>1
<1>4. q[t] = i /\ q[h] = k
  BY <1>1
<1>5. r >= -1 /\ (r < 0 => j # 0)
  OBVIOUS
<1> HIDE DEF N, C, t, h, P, H, r
<1>6. /\ i \in Int /\ j \in 0 .. N - 1 /\ P = N * i + j
      /\ k \in Int /\ l \in 0 .. N - 1 /\ H = N * k + l
  BY <1>1, <1>3, DivFacts
<1> HIDE DEF i, j, k, l
<1> DEFINE z == C + k - i
<1>7. N * z = r + j - l
  <2>1. N * z = N * C + N * k - N * i
    BY <1>1, <1>6
  <2>2. N * C = C * N /\ N * C \in Int /\ N * k \in Int /\ N * i \in Int
    BY <1>1, <1>6
  <2> HIDE DEF z
  <2> QED  BY <1>1, <1>2, <1>6, <2>1, <2>2
<1>8. z \in Int /\ N * z > - N
  <2>1. z \in Int
    BY <1>1, <1>6
  <2> HIDE DEF z
  <2> QED  BY <1>1, <1>2, <1>5, <1>6, <1>7, <2>1
<1> HIDE DEF z
<1>9. z >= 0
  <2> SUFFICES ASSUME z <= -1 PROVE FALSE
    BY <1>8
  <2>1. N * z <= - N
    BY <1>1, <1>8, TimesFacts
  <2>2. N * z \in Int
    BY <1>1, <1>8
  <2> QED  BY <1>1, <1>8, <2>1, <2>2
<1>10. C + q[h] - q[t] >= 0
  BY <1>4, <1>9 DEF z
<1> QED  BY <1>10 DEF C, t, h

(* A flow that is 1-optimal, in costs scaled by the number of nodes, with  *)
(* no cycle that leads down has prices that show it optimal.               *)
LEMMA Rounded ==
  ASSUME NetworkTypeOK, epsilon \in Nat, epsilon <= 1,
         NearOptimal(capacity, potential, epsilon),
         epsilon = 0 \/ NoCycle(capacity, potential)
  PROVE  \E q \in [Node -> Int] : \A a \in Arc : capacity[a] > 0 =>
           cost[a] + q[arc_head(a)] - q[arc_tail(a)] >= 0
<1>1. /\ max_num_nodes \in Nat \ {0} /\ potential \in [Node -> Int] /\ 0 \in Node
      /\ capacity \in [Arc -> Nat]
  BY Sizes DEF NetworkTypeOK
<1>2. \A a \in Arc : capacity[a] > 0 =>
        /\ rcost(potential, a) \in Int /\ rcost(potential, a) >= -1
        /\ epsilon = 0 => rcost(potential, a) >= 0
  <2> SUFFICES ASSUME NEW a \in Arc, capacity[a] > 0
               PROVE  /\ rcost(potential, a) \in Int /\ rcost(potential, a) >= -1
                      /\ epsilon = 0 => rcost(potential, a) >= 0
    OBVIOUS
  <2>1. rcost(potential, a) \in Int
    BY <1>1, CostFacts
  <2>2. rcost(potential, a) >= - epsilon
    BY DEF NearOptimal
  <2> QED  BY <2>1, <2>2
<1>3. PICK s \in Node : \A a \in Arc :
        Down(capacity, potential, a) => (potential[arc_tail(a)] + s) % max_num_nodes # 0
  <2>1. CASE epsilon = 0
    <3>1. \A a \in Arc : ~ Down(capacity, potential, a)
      BY <1>2, <2>1 DEF Down
    <3> QED  BY <1>1, <3>1
  <2>2. CASE NoCycle(capacity, potential)
    BY <1>1, <2>2, Shift
  <2> QED  BY <2>1, <2>2
<1> DEFINE q == [n \in Node |-> (potential[n] + s) \div max_num_nodes]
<1>4. q \in [Node -> Int]
  <2>1. \A n \in Node : (potential[n] + s) \div max_num_nodes \in Int
    <3>1. \A n \in Node : potential[n] + s \in Int
      BY <1>1 DEF Node
    <3> QED  BY <1>1, <3>1, DivFacts
  <2> QED  BY <2>1
<1>5. \A n \in Node : q[n] = (potential[n] + s) \div max_num_nodes
  OBVIOUS
<1> HIDE DEF q
<1>6. ASSUME NEW a \in Arc, capacity[a] > 0
      PROVE  cost[a] + q[arc_head(a)] - q[arc_tail(a)] >= 0
  <2>1. rcost(potential, a) >= -1
    BY <1>2, <1>6
  <2>2. rcost(potential, a) < 0 => (potential[arc_tail(a)] + s) % max_num_nodes # 0
    BY <1>3, <1>6 DEF Down
  <2> QED  BY <1>1, <1>5, <2>1, <2>2, Rounding
<1> QED  BY <1>4, <1>6
-----------------------------------------------------------------------------
(* The flows of the specification meet the supplies of the network.        *)
LEMMA FlowsMeet ==
  ASSUME TypeOK, NEW f \in Abstract!FeasibleFlows
  PROVE  Meets(f, capacity, excess)
<1>1. f \in Abstract!Flows /\ \A n \in Node : Abstract!Excess(f, n) = 0
  BY AbstractFacts DEF Abstract!FeasibleFlows
<1>2. ASSUME NEW a \in ProblemArc
      PROVE  f[a] \in Nat /\ f[a] <= capacity[a] + capacity[arc_dual(a)]
  <2>1. f[a] \in Nat /\ Abstract!total(a) - f[a] \in Nat /\ Abstract!total(a) \in Nat
    BY <1>1, FlowFacts
  <2>2. Abstract!total(a) = capacity[a] + capacity[arc_dual(a)]
    BY TotalValue
  <2> DEFINE t == Abstract!total(a)
  <2> HIDE DEF t
  <2>3. f[a] <= t
    BY <2>1 DEF t
  <2> QED  BY <2>1, <2>2, <2>3 DEF t
<1>3. ASSUME NEW n \in Node
      PROVE  excess[n] - balance(capacity, n)
               + SumOver(f, {a \in ProblemArc : graph.to[a] = n})
               - SumOver(f, {a \in ProblemArc : graph.from[a] = n}) = 0
  <2>1. Abstract!supply(n) + Abstract!Inflow(f, n) - Abstract!Outflow(f, n) = 0
    BY <1>1 DEF Abstract!Excess
  <2> QED  BY <2>1, SupplyValue, FlowSums
<1> QED  BY <1>2, <1>3 DEF Meets

(* What flows and the network cost, as the library writes it.              *)
LEMMA AbstractCosts ==
  /\ Abstract!flow_cost = spent(capacity, cost)
  /\ \A f : Abstract!FlowCost(f) = paid(f, cost)
<1>1. Abstract!flow_cost = spent(capacity, cost)
  BY ZenonT(30) DEF Abstract!flow_cost, spent, Abstract!MapThenSumSet, MapThenSumSet,
     Abstract!MapThenFoldSet, MapThenFoldSet, Abstract!ProblemArc, ProblemArc,
     Abstract!arc_dual, arc_dual
<1>2. ASSUME NEW f PROVE Abstract!FlowCost(f) = paid(f, cost)
  BY ZenonT(30) DEF Abstract!FlowCost, paid, Abstract!MapThenSumSet, MapThenSumSet,
     Abstract!MapThenFoldSet, MapThenFoldSet, Abstract!ProblemArc, ProblemArc
<1> QED  BY <1>1, <1>2

(* Prices that show every residual arc optimal show the flow optimal.      *)
LEMMA Duality ==
  ASSUME TypeOK, NEW q \in [Node -> Int],
         \A a \in Arc : capacity[a] > 0 => cost[a] + q[arc_head(a)] - q[arc_tail(a)] >= 0,
         \A n \in Node : excess[n] = 0
  PROVE  Abstract!Optimal
<1> SUFFICES ASSUME NEW f \in Abstract!FeasibleFlows
             PROVE  Abstract!flow_cost <= Abstract!FlowCost(f)
  BY DEF Abstract!Optimal
<1>1. /\ NetworkTypeOK /\ capacity \in [Arc -> Nat] /\ excess \in [Node -> Int]
      /\ Meets(f, capacity, excess)
  BY FlowsMeet DEF TypeOK, NetworkTypeOK
<1>2. spent(capacity, cost) <= paid(f, cost)
  BY <1>1, CheapestFlow
<1> QED  BY <1>2, AbstractCosts

(* No node with excess is forgotten: while gt_refine empties its queue,    *)
(* the node is in it or is the one that is discharged.  The flow that      *)
(* gt_refine leaves is therefore balanced.                                 *)
THEOREM ActiveNodesQueued == Spec => []QueueOK
<1>1. Init => IInv /\ QueueOK
  BY InitIInv DEF Init, QueueOK
<1>2. (IInv /\ QueueOK) /\ [Next]_vars => (IInv /\ QueueOK)'
  BY NextIInv, QueueStep
<1> QED  BY <1>1, <1>2, PTL DEF Spec

(* With two nodes or more, in every state that is reached: the invariant,  *)
(* no node with excess is forgotten, and the answer is right.              *)
LEMMA AnswerInvariant ==
  ASSUME max_num_nodes > 1
  PROVE  Spec => [](IInv /\ QueueOK /\ AnswerOK)
<1>1. Init => IInv /\ QueueOK /\ AnswerOK
  <2>1. Init => QueueOK /\ AnswerOK
    BY DEF Init, QueueOK, AnswerOK
  <2> QED  BY <2>1, InitIInv
<1>2. (IInv /\ QueueOK /\ AnswerOK) /\ [Next]_vars => (IInv /\ QueueOK /\ AnswerOK)'
  BY NextIInv, QueueStep, AnswerStep
<1> QED  BY <1>1, <1>2, PTL DEF Spec

(* The flow that Return hands back costs least.                            *)
LEMMA ReturnsOptimal ==
  ASSUME IInv, AnswerOK, pc = "scale", epsilon <= 1
  PROVE  Abstract!Balanced /\ Abstract!Optimal
<1>1. /\ TypeOK /\ NetworkTypeOK /\ epsilon \in Nat
      /\ NearOptimal(capacity, potential, epsilon)
      /\ \A n \in Node : excess[n] = 0
      /\ epsilon = 0 \/ NoCycle(capacity, potential)
  BY DEF IInv, TypeOK, PricesOK, AnswerOK
<1>2. PICK q \in [Node -> Int] : \A a \in Arc : capacity[a] > 0 =>
        cost[a] + q[arc_head(a)] - q[arc_tail(a)] >= 0
  BY <1>1, Rounded
<1>3. Abstract!Optimal
  BY <1>1, <1>2, Duality
<1>4. Abstract!Balanced
  BY <1>1, AbstractFacts DEF Abstract!Balanced
<1> QED  BY <1>3, <1>4

(* A step that leaves the flow alone, whatever it does to the prices.      *)
LEMMA PriceWorks ==
  ASSUME TypeOK, pc # "idle", pc' # "idle", graph' = graph, cost' = cost,
         capacity' = capacity, excess' = excess
  PROVE  Abstract!Work
<1>1. capacity' \in [Arc -> Nat]
  BY DEF TypeOK, NetworkTypeOK
<1>2. /\ \A a \in Arc : capacity'[a] + capacity'[arc_dual(a)] = capacity[a] + capacity[arc_dual(a)]
      /\ \A n \in Node : excess'[n] - balance(capacity', n) = excess[n] - balance(capacity, n)
  OBVIOUS
<1> QED  BY <1>1, <1>2, WorkFacts

(* The scan moves along its arc what the node has and the arc can carry.   *)
LEMMA PushAlongWorks ==
  ASSUME IInv, IInv', Scanning, pc' # "idle", graph' = graph, cost' = cost, push_along
  PROVE  Abstract!Work
<1>1. /\ TypeOK /\ TypeOK' /\ PricesOK /\ pc = "scan" /\ arc # NO_ARC /\ excess[node] > 0
      /\ excess \in [Node -> Int] /\ node \in Node /\ capacity \in [Arc -> Nat]
  BY DEF IInv, TypeOK, NetworkTypeOK, Scanning
<1>2. arc \in Arc
  BY <1>1, PassFacts
<1>3. amount(arc) \in Nat
  <2>1. excess[node] \in Nat /\ capacity[arc] \in Nat
    BY <1>1, <1>2
  <2> QED  BY <2>1 DEF amount, MIN
<1>4. gt_push(arc, amount(arc))
  BY DEF push_along
<1> DEFINE x == amount(arc)
<1> HIDE DEF x
<1>5. x \in Nat /\ gt_push(arc, x)
  BY <1>3, <1>4 DEF x
<1> QED  BY <1>1, <1>2, <1>5, PushWorks

(* Every step of the solver is one of the specification or changes nothing *)
(* that the specification speaks of.                                       *)
LEMMA StepWorks ==
  ASSUME IInv, AnswerOK, Next, IInv', max_num_nodes > 1
  PROVE  Abstract!Next
<1>1. TypeOK /\ TypeOK'
  BY DEF IInv
<1>2. CASE \E supply \in Supplies, c \in Costs : goldberg_tarjan_mcf(supply, c)
  <2>1. pc = "idle" /\ result = "none" /\ pc' = "feasible" /\ graph' = graph /\ capacity' = capacity
    BY <1>2 DEF goldberg_tarjan_mcf
  <2>2. Abstract!Call
    BY <2>1 DEF Abstract!Call
  <2> QED  BY <2>2 DEF Abstract!Next
<1>3. CASE goldberg_tarjan_feasible
  BY <1>3, FeasibleWorks DEF Abstract!Next
<1>4. CASE Fail
  <2>1. /\ pc = "fail" /\ pc' = "idle" /\ result' = "failed"
        /\ UNCHANGED <<graph, capacity, cost, potential, excess>>
    BY <1>4 DEF Fail, problem, flows
  <2>2. Abstract!FeasibleFlows = {}
    BY <2>1 DEF AnswerOK
  <2>3. Abstract!Fail
    BY <2>1, <2>2 DEF Abstract!Fail, Abstract!networkVars
  <2> QED  BY <2>3 DEF Abstract!Next
<1>5. CASE Return
  <2>1. /\ pc = "scale" /\ epsilon <= 1 /\ pc' = "idle" /\ result' = "solved"
        /\ UNCHANGED <<graph, capacity, cost, potential, excess>>
    BY <1>5 DEF Return, problem, flows
  <2>2. Abstract!Balanced /\ Abstract!Optimal
    BY <2>1, ReturnsOptimal
  <2>3. Abstract!Succeed
    BY <2>1, <2>2 DEF Abstract!Succeed, Abstract!networkVars
  <2> QED  BY <2>3 DEF Abstract!Next
<1>6. CASE Saturate
  <2>1. /\ pc = "saturate" /\ pc' = "saturate" /\ graph' = graph /\ cost' = cost /\ arc_id \in Arc
        /\ gt_push(arc_id, capacity[arc_id]) \/ UNCHANGED flows
    BY <1>6 DEF Saturate, problem
  <2>2. capacity[arc_id] \in Nat
    BY <1>1, <2>1 DEF TypeOK, NetworkTypeOK
  <2>3. CASE gt_push(arc_id, capacity[arc_id])
    <3> DEFINE x == capacity[arc_id]
    <3>1. x \in Nat /\ gt_push(arc_id, x)
      BY <2>2, <2>3
    <3> HIDE DEF x
    <3> QED  BY <1>1, <2>1, <3>1, PushWorks DEF Abstract!Next
  <2>4. CASE UNCHANGED flows
    BY <1>1, <2>1, <2>4, PriceWorks DEF flows, Abstract!Next
  <2> QED  BY <2>1, <2>3, <2>4
<1>7. CASE Push
  <2>1. Scanning /\ push_along /\ graph' = graph /\ cost' = cost /\ pc' # "idle"
    BY <1>7 DEF Push, problem, Scanning
  <2> QED  BY <2>1, PushAlongWorks DEF Abstract!Next
<1>8. CASE RelabelHead
  <2>1. /\ Scanning /\ graph' = graph /\ cost' = cost /\ pc # "idle" /\ pc' # "idle"
        /\ push_along \/ UNCHANGED flows
    BY <1>8 DEF RelabelHead, problem, Scanning
  <2>2. CASE push_along
    BY <2>1, <2>2, PushAlongWorks DEF Abstract!Next
  <2>3. CASE UNCHANGED flows
    BY <1>1, <2>1, <2>3, PriceWorks DEF flows, Abstract!Next
  <2> QED  BY <2>1, <2>2, <2>3
<1>9. CASE \/ Refine \/ Saturated \/ Enqueue \/ Enqueued \/ Pop \/ Refined
           \/ UpdatePrices \/ FloodNode \/ FloodArc \/ RaisePrices
           \/ BeginScan \/ Discharged \/ PassArc \/ EndScan
  <2>1. /\ UNCHANGED problem /\ UNCHANGED flows /\ pc # "idle" /\ pc' # "idle"
    BY <1>9 DEF Refine, Saturated, Enqueue, Enqueued, Pop, Refined, UpdatePrices, FloodNode,
       FloodArc, RaisePrices, BeginScan, Discharged, PassArc, EndScan, Scanning
  <2> QED  BY <1>1, <2>1, PriceWorks DEF problem, flows, Abstract!Next
<1> QED  BY <1>2, <1>3, <1>4, <1>5, <1>6, <1>7, <1>8, <1>9 DEF Next, Running

(* goldberg_tarjan_mcf solves the minimum cost flow problem: it moves flow *)
(* without creating or losing any, says failure only if nothing meets the  *)
(* supplies and demands, and success with a flow that meets them and costs *)
(* least.  All this with two nodes or more: with one the scaled costs are  *)
(* the costs, and the loop over epsilon may end before it began.           *)
THEOREM ImplementsMinCostFlow ==
  ASSUME max_num_nodes > 1
  PROVE  Spec => Implements
<1> DEFINE I == IInv /\ QueueOK /\ AnswerOK
<1>1. Init => Abstract!Init
  BY DEF Init, Abstract!Init
<1>2. I /\ I' /\ [Next]_vars => [Abstract!Next]_(Abstract!vars)
  <2> SUFFICES ASSUME IInv, AnswerOK, IInv', [Next]_vars
               PROVE  [Abstract!Next]_(Abstract!vars)
    OBVIOUS
  <2>1. CASE UNCHANGED vars
    <3>1. UNCHANGED <<graph, capacity, cost, potential, excess, pc, result>>
      BY <2>1 DEF vars, problem, flows
    <3> QED  BY <3>1 DEF Abstract!vars, Abstract!networkVars
  <2>2. CASE Next
    BY <2>2, StepWorks
  <2> QED  BY <2>1, <2>2
<1>3. Spec => []I
  BY AnswerInvariant
<1> QED  BY <1>1, <1>2, <1>3, PTL DEF Spec, Implements

(* Potentials that show the flow to be the cheapest: in them no arc of the *)
(* residual network has a negative reduced cost.                           *)
Certified ==
  \E q \in [Node -> Int] : \A a \in Arc :
    capacity[a] > 0 => cost[a] + q[arc_head(a)] - q[arc_tail(a)] >= 0

(* What stays true of the answer after the call has returned.              *)
SolvedOK ==
  result # "none" =>
    /\ pc = "idle"
    /\ result = "solved" => Certified /\ \A n \in Node : excess[n] = 0

(* Nothing changes the flow after the call has returned.                   *)
LEMMA SolvedStep ==
  ASSUME IInv, AnswerOK, SolvedOK, [Next]_vars
  PROVE  SolvedOK'
<1>1. ASSUME UNCHANGED <<graph, cost, capacity, excess>>, Certified
      PROVE  Certified'
  <2>1. \A a : arc_head(a)' = arc_head(a) /\ arc_tail(a)' = arc_tail(a)
    BY <1>1 DEF arc_head, arc_tail, arc_dual, arc_is_dual
  <2> QED  BY <1>1, <2>1 DEF Certified
<1>2. CASE UNCHANGED vars
  <2>1. UNCHANGED <<graph, capacity, cost, excess, pc, result>>
    BY <1>2 DEF vars, problem, flows
  <2> QED  BY <1>1, <2>1 DEF SolvedOK
<1>3. CASE Return
  <2>1. /\ pc = "scale" /\ epsilon <= 1 /\ pc' = "idle" /\ result' = "solved"
        /\ UNCHANGED <<graph, capacity, cost, excess>>
    BY <1>3 DEF Return, problem, flows
  <2>2. /\ NetworkTypeOK /\ epsilon \in Nat
        /\ NearOptimal(capacity, potential, epsilon)
        /\ \A n \in Node : excess[n] = 0
        /\ epsilon = 0 \/ NoCycle(capacity, potential)
    BY <2>1 DEF IInv, TypeOK, PricesOK, AnswerOK
  <2>3. Certified
    BY <2>1, <2>2, Rounded DEF Certified
  <2> QED  BY <1>1, <2>1, <2>2, <2>3 DEF SolvedOK
<1>4. CASE Fail
  BY <1>4 DEF Fail, SolvedOK
<1>5. CASE \/ \E supply \in Supplies, c \in Costs : goldberg_tarjan_mcf(supply, c)
           \/ goldberg_tarjan_feasible \/ Refine \/ Saturate \/ Saturated \/ Enqueue
           \/ Enqueued \/ Pop \/ Refined \/ UpdatePrices \/ FloodNode \/ FloodArc
           \/ RaisePrices \/ BeginScan \/ Discharged \/ PassArc \/ Push \/ RelabelHead
           \/ EndScan
  <2>1. result' = result /\ (pc # "idle" \/ result = "none")
    BY <1>5 DEF goldberg_tarjan_mcf, goldberg_tarjan_feasible, Refine, Saturate, Saturated,
       Enqueue, Enqueued, Pop, Refined, UpdatePrices, FloodNode, FloodArc, RaisePrices,
       BeginScan, Discharged, PassArc, Push, RelabelHead, EndScan, Scanning
  <2> QED  BY <2>1 DEF SolvedOK
<1> QED  BY <1>2, <1>3, <1>4, <1>5 DEF Next, Running

(* No flow that meets the supplies and demands costs less than the one     *)
(* that goldberg_tarjan_mcf returned, the promise "Minimum-Cost Flow" of   *)
(* algorithm.h; that needs two nodes or more, as above.                    *)
THEOREM ReturnedFlowIsOptimal ==
  ASSUME max_num_nodes > 1
  PROVE  Spec => []SolvedIsOptimal
<1> DEFINE I == IInv /\ QueueOK /\ AnswerOK
<1>1. Init => SolvedOK
  BY DEF Init, SolvedOK
<1>2. I /\ SolvedOK /\ [Next]_vars => SolvedOK'
  BY SolvedStep
<1>3. I /\ SolvedOK => SolvedIsOptimal
  <2> SUFFICES ASSUME IInv, SolvedOK, result = "solved" PROVE Abstract!Optimal
    BY DEF SolvedIsOptimal
  <2>1. TypeOK /\ Certified /\ \A n \in Node : excess[n] = 0
    BY DEF IInv, SolvedOK
  <2>2. PICK q \in [Node -> Int] : \A a \in Arc :
          capacity[a] > 0 => cost[a] + q[arc_head(a)] - q[arc_tail(a)] >= 0
    BY <2>1 DEF Certified
  <2> QED  BY <2>1, <2>2, Duality
<1>4. Spec => []I
  BY AnswerInvariant
<1> QED  BY <1>1, <1>2, <1>3, <1>4, PTL DEF Spec
-----------------------------------------------------------------------------
(* The epsilon that follows e.                                             *)
nextEpsilon(e) == Max({1, e \div GOLDBERG_PRICE_REFINEMENT})

(* It is at most half of e.                                                *)
LEMMA NextEpsilon ==
  ASSUME NEW e \in Nat, e > 1
  PROVE  nextEpsilon(e) \in Nat /\ nextEpsilon(e) >= 1 /\ 2 * nextEpsilon(e) <= e
<1> DEFINE S == {1, e \div GOLDBERG_PRICE_REFINEMENT}
<1>1. e \div GOLDBERG_PRICE_REFINEMENT \in Nat /\ 8 * (e \div GOLDBERG_PRICE_REFINEMENT) <= e
  BY DEF GOLDBERG_PRICE_REFINEMENT
<1>2. IsFiniteSet(S) /\ S \subseteq Int /\ S # {}
  <2>1. IsFiniteSet({1}) /\ S = {1} \union {e \div GOLDBERG_PRICE_REFINEMENT}
    BY FS_Singleton
  <2>2. IsFiniteSet({1} \union {e \div GOLDBERG_PRICE_REFINEMENT})
    BY <2>1, FS_AddElement
  <2>3. S \subseteq Int /\ S # {}
    BY <1>1
  <2> QED  BY <2>1, <2>2, <2>3
<1>3. Max(S) \in S /\ \A x \in S : x <= Max(S)
  <2> HIDE DEF S
  <2> QED  BY <1>2, MinMaxFacts
<1>4. Max(S) = 1 \/ Max(S) = e \div GOLDBERG_PRICE_REFINEMENT
  BY <1>3
<1> HIDE DEF S
<1>5. Max(S) >= 1 /\ Max(S) \in Nat /\ 2 * Max(S) <= e
  <2>1. 1 \in S
    BY DEF S
  <2> QED  BY <1>1, <1>3, <1>4, <2>1
<1> QED  BY <1>5 DEF S, nextEpsilon

(* The recursion of refinements has a solution, since epsilon decreases.   *)
LEMMA RefinementsFacts ==
  /\ refinements \in [Nat -> Nat]
  /\ \A e \in Nat : e > 1 => refinements[e] = 1 + refinements[nextEpsilon(e)]
<1> DEFINE Is(g) == g = [e \in Nat |-> IF e <= 1 THEN 0 ELSE 1 + g[nextEpsilon(e)]]
           S == [Nat -> Nat]
           A == [e \in Nat |-> 0]
           F == [h \in S |-> [e \in Nat |-> IF e <= 1 THEN 0 ELSE 1 + h[nextEpsilon(e)]]]
<1>1. \A e \in Nat : e > 1 => nextEpsilon(e) \in Nat /\ nextEpsilon(e) <= e - 1
  <2> SUFFICES ASSUME NEW e \in Nat, e > 1
               PROVE  nextEpsilon(e) \in Nat /\ nextEpsilon(e) <= e - 1
    OBVIOUS
  <2>1. nextEpsilon(e) \in Nat /\ nextEpsilon(e) >= 1 /\ 2 * nextEpsilon(e) <= e
    BY NextEpsilon
  <2> QED  BY <2>1
<1>2. A \in S /\ \A h \in S : F[h] \in S
  <2> SUFFICES ASSUME NEW h \in S PROVE F[h] \in S
    OBVIOUS
  <2>1. \A e \in Nat : e > 1 => h[nextEpsilon(e)] \in Nat
    BY <1>1
  <2> QED  BY <2>1
<1>3. PICK f : Iterates(f, S, A, F)
  <2> HIDE DEF A, F, S
  <2> QED  BY <1>2, Iteration
<1>4. f \in [Nat -> S] /\ f[0] = A /\ \A k \in Nat : f[k + 1] = F[f[k]]
  BY <1>3 DEF Iterates
<1>5. \A k, e \in Nat : /\ f[k][e] \in Nat
                        /\ e > 1 => f[k + 1][e] = 1 + f[k][nextEpsilon(e)]
                        /\ e <= 1 => f[k][e] = 0
  <2> SUFFICES ASSUME NEW k \in Nat, NEW e \in Nat
               PROVE  /\ f[k][e] \in Nat
                      /\ e > 1 => f[k + 1][e] = 1 + f[k][nextEpsilon(e)]
                      /\ e <= 1 => f[k][e] = 0
    OBVIOUS
  <2>1. f[k] \in S /\ f[k + 1] = F[f[k]]
    BY <1>4
  <2>2. f[k + 1] = [d \in Nat |-> IF d <= 1 THEN 0 ELSE 1 + f[k][nextEpsilon(d)]]
    BY <2>1
  <2>3. e <= 1 => f[k][e] = 0
    <3>1. CASE k = 0
      BY <1>4, <3>1
    <3>2. CASE k # 0
      <4>1. k - 1 \in Nat /\ (k - 1) + 1 = k
        BY <3>2
      <4>2. f[k - 1] \in S /\ f[k] = F[f[k - 1]]
        BY <1>4, <4>1
      <4>3. f[k] = [d \in Nat |-> IF d <= 1 THEN 0 ELSE 1 + f[k - 1][nextEpsilon(d)]]
        BY <4>2
      <4> QED  BY <4>3
    <3> QED  BY <3>1, <3>2
  <2> QED  BY <2>1, <2>2, <2>3
<1> HIDE DEF S, A, F
<1>6. \A k \in Nat : \A e \in Nat : e <= k => f[k + 1][e] = f[k][e]
  <2> DEFINE P == {k \in Nat : \A e \in Nat : e <= k => f[k + 1][e] = f[k][e]}
  <2>1. 0 \in P
    <3>1. \A e \in Nat : e <= 0 => f[0][e] = 0 /\ f[0 + 1][e] = 0
      BY <1>5
    <3> QED  BY <3>1
  <2>2. ASSUME NEW k \in P \intersect Nat PROVE k + 1 \in P
    <3> SUFFICES ASSUME NEW e \in Nat, e <= k + 1 PROVE f[(k + 1) + 1][e] = f[k + 1][e]
      BY <2>2
    <3>1. CASE e <= 1
      BY <1>5, <3>1
    <3>2. CASE e > 1
      <4>1. nextEpsilon(e) \in Nat /\ nextEpsilon(e) <= k
        BY <1>1, <3>2
      <4>2. f[k + 1][nextEpsilon(e)] = f[k][nextEpsilon(e)]
        BY <4>1
      <4> QED  BY <1>5, <3>2, <4>2
    <3> QED  BY <3>1, <3>2
  <2>3. Nat \subseteq P
    <3> HIDE DEF P
    <3> QED  BY <2>1, <2>2, SetInduction
  <2> QED  BY <2>3
<1>7. ASSUME NEW e \in Nat
      PROVE  \A k \in Nat : e <= k => f[k][e] = f[e][e]
  <2> DEFINE P == {k \in Nat : e <= k => f[k][e] = f[e][e]}
  <2>1. 0 \in P
    <3>1. e <= 0 => e = 0
      OBVIOUS
    <3> QED  BY <3>1
  <2>2. ASSUME NEW k \in P \intersect Nat PROVE k + 1 \in P
    <3>1. CASE e <= k
      BY <1>6, <2>2, <3>1
    <3>2. CASE ~ (e <= k)
      <4>1. e <= k + 1 => e = k + 1
        BY <3>2
      <4> QED  BY <4>1
    <3> QED  BY <3>1, <3>2
  <2>3. Nat \subseteq P
    <3> HIDE DEF P
    <3> QED  BY <2>1, <2>2, SetInduction
  <2> QED  BY <2>3
<1> DEFINE g == [e \in Nat |-> f[e][e]]
<1>8. ASSUME NEW e \in Nat
      PROVE  g[e] \in Nat /\ g[e] = IF e <= 1 THEN 0 ELSE 1 + g[nextEpsilon(e)]
  <2>1. CASE e <= 1
    BY <1>5, <2>1
  <2>2. CASE e > 1
    <3>1. e - 1 \in Nat /\ (e - 1) + 1 = e /\ nextEpsilon(e) \in Nat /\ nextEpsilon(e) <= e - 1
      BY <1>1, <2>2
    <3>2. f[e][e] = 1 + f[e - 1][nextEpsilon(e)]
      BY <1>5, <2>2, <3>1
    <3>3. f[e - 1][nextEpsilon(e)] = f[nextEpsilon(e)][nextEpsilon(e)]
      BY <1>7, <3>1
    <3> QED  BY <1>5, <2>2, <3>1, <3>2, <3>3
  <2> QED  BY <2>1, <2>2
<1>9. Is(g)
  <2> HIDE DEF g
  <2>1. g = [e \in Nat |-> g[e]]
    BY DEF g
  <2> QED  BY <1>8, <2>1
<1>10. Is(refinements)
  <2>1. \E h : Is(h)
    <3> HIDE DEF g, Is
    <3> QED  BY <1>9
  <2>2. refinements = CHOOSE h : Is(h)
    BY DEF refinements, nextEpsilon
  <2> HIDE DEF Is
  <2> QED  BY <2>1, <2>2
<1>11. \A e \in Nat : refinements[e] = IF e <= 1 THEN 0 ELSE 1 + refinements[nextEpsilon(e)]
  BY <1>10
<1>12. \A e \in Nat : refinements[e] \in Nat
  <2> DEFINE P == {k \in Nat : \A e \in Nat : e <= k => refinements[e] \in Nat}
  <2>1. 0 \in P
    BY <1>11
  <2>2. ASSUME NEW k \in P \intersect Nat PROVE k + 1 \in P
    <3> SUFFICES ASSUME NEW e \in Nat, e <= k + 1 PROVE refinements[e] \in Nat
      BY <2>2
    <3>1. CASE e <= 1
      BY <1>11, <3>1
    <3>2. CASE e > 1
      <4>1. nextEpsilon(e) \in Nat /\ nextEpsilon(e) <= k
        BY <1>1, <3>2
      <4>2. refinements[nextEpsilon(e)] \in Nat
        BY <4>1
      <4> QED  BY <1>11, <3>2, <4>2
    <3> QED  BY <3>1, <3>2
  <2>3. Nat \subseteq P
    <3> HIDE DEF P
    <3> QED  BY <2>1, <2>2, SetInduction
  <2> QED  BY <2>3
<1>13. refinements = [e \in Nat |-> refinements[e]]
  BY <1>10
<1> QED  BY <1>11, <1>12, <1>13
-----------------------------------------------------------------------------
(* What a node holds of the limit on prices, when the prices were p0 and   *)
(* at most b as the refinement began and are p: how far it has risen, up   *)
(* to the limit for nodes with excess, and once more w if it has got above *)
(* where such a node can be.                                               *)
limit(w) == (max_num_nodes - 1) * w
reach(b, w) == b + max_num_nodes * w

share(p0, p, b, w) ==
  [n \in Node |-> MIN(p[n] - p0[n], limit(w)) + (IF p[n] >= reach(b, w) THEN w ELSE 0)]

(* No price is higher than the nodes have paid for together.               *)
Within(p0, p, b, w) ==
  \A n \in Node : p[n] <= reach(b, w) + SumOver(share(p0, p, b, w), Node)

(* The types of these, and that an active node ends one w below reach.     *)
LEMMA ShareType ==
  ASSUME NEW p0 \in [Node -> Int], NEW p \in [Node -> Int], NEW b \in Int, NEW w \in Nat
  PROVE  /\ limit(w) \in Nat /\ reach(b, w) \in Int /\ b + limit(w) + w = reach(b, w)
         /\ \A n \in Node :
              /\ share(p0, p, b, w)[n] = MIN(p[n] - p0[n], limit(w))
                                         + (IF p[n] >= reach(b, w) THEN w ELSE 0)
              /\ MIN(p[n] - p0[n], limit(w)) \in Int
              /\ share(p0, p, b, w)[n] \in Int
         /\ Integral(share(p0, p, b, w), Node)
         /\ SumOver(share(p0, p, b, w), Node) \in Int
<1>1. max_num_nodes \in Nat \ {0} /\ IsFiniteSet(Node)
  BY Sizes
<1>2. limit(w) \in Nat /\ reach(b, w) \in Int /\ b + limit(w) + w = reach(b, w)
  <2> DEFINE y == max_num_nodes * w
  <2>1. y \in Nat /\ (max_num_nodes - 1) * w = y - w /\ (max_num_nodes - 1) * w \in Nat
    BY <1>1
  <2> HIDE DEF y
  <2>2. limit(w) = y - w /\ limit(w) \in Nat /\ reach(b, w) = b + y
    BY <2>1 DEF limit, reach, y
  <2> QED  BY <2>1, <2>2
<1>3. \A n \in Node :
        /\ share(p0, p, b, w)[n] = MIN(p[n] - p0[n], limit(w))
                                   + (IF p[n] >= reach(b, w) THEN w ELSE 0)
        /\ MIN(p[n] - p0[n], limit(w)) \in Int
        /\ share(p0, p, b, w)[n] \in Int
  <2> SUFFICES ASSUME NEW n \in Node
               PROVE  /\ share(p0, p, b, w)[n] = MIN(p[n] - p0[n], limit(w))
                                   + (IF p[n] >= reach(b, w) THEN w ELSE 0)
                      /\ MIN(p[n] - p0[n], limit(w)) \in Int
                      /\ share(p0, p, b, w)[n] \in Int
    OBVIOUS
  <2>1. share(p0, p, b, w)[n] = MIN(p[n] - p0[n], limit(w))
                                + (IF p[n] >= reach(b, w) THEN w ELSE 0)
    BY DEF share
  <2>2. MIN(p[n] - p0[n], limit(w)) \in Int
    BY <1>2 DEF MIN
  <2> QED  BY <2>1, <2>2
<1>4. Integral(share(p0, p, b, w), Node)
  BY <1>3 DEF Integral
<1> QED  BY <1>1, <1>2, <1>3, <1>4, SumType

(* Where prices rise no node holds less, and all together hold as much     *)
(* more as one of them does.                                               *)
LEMMA ShareGrows ==
  ASSUME NEW p0 \in [Node -> Int], NEW p \in [Node -> Int], NEW q \in [Node -> Int],
         NEW b \in Int, NEW w \in Nat, \A n \in Node : p[n] <= q[n],
         NEW v \in Node, NEW d \in Nat,
         share(p0, q, b, w)[v] >= share(p0, p, b, w)[v] + d
  PROVE  SumOver(share(p0, q, b, w), Node) >= SumOver(share(p0, p, b, w), Node) + d
<1> DEFINE f == share(p0, p, b, w)
           h == share(p0, q, b, w)
           g == [f EXCEPT ![v] = @ + d]
<1>1. limit(w) \in Nat /\ reach(b, w) \in Int
  BY ShareType
<1>2. ASSUME NEW n \in Node PROVE f[n] \in Int /\ h[n] \in Int /\ f[n] <= h[n]
  <2>1. /\ f[n] = MIN(p[n] - p0[n], limit(w)) + (IF p[n] >= reach(b, w) THEN w ELSE 0)
        /\ h[n] = MIN(q[n] - p0[n], limit(w)) + (IF q[n] >= reach(b, w) THEN w ELSE 0)
        /\ f[n] \in Int /\ h[n] \in Int
    BY ShareType
  <2>2. p[n] \in Int /\ q[n] \in Int /\ p0[n] \in Int /\ p[n] <= q[n]
    OBVIOUS
  <2>3. MIN(p[n] - p0[n], limit(w)) <= MIN(q[n] - p0[n], limit(w))
        /\ MIN(p[n] - p0[n], limit(w)) \in Int /\ MIN(q[n] - p0[n], limit(w)) \in Int
    BY <1>1, <2>2 DEF MIN
  <2>4. (IF p[n] >= reach(b, w) THEN w ELSE 0) <= (IF q[n] >= reach(b, w) THEN w ELSE 0)
    BY <1>1, <2>2
  <2> HIDE DEF f, h
  <2> QED  BY <2>1, <2>3, <2>4
<1>3. h[v] >= f[v] + d /\ f \in [Node -> Int] /\ IsFiniteSet(Node)
  BY <1>2, Sizes DEF share
<1> HIDE DEF f, h
<1>4. \A n \in Node : g[n] = IF n = v THEN f[n] + d ELSE f[n]
  BY <1>3
<1> HIDE DEF g
<1>5. \A n \in Node : g[n] \in Int /\ g[n] <= h[n]
  BY <1>2, <1>3, <1>4
<1>6. Integral(f, Node) /\ Integral(g, Node) /\ Integral(h, Node)
  BY <1>2, <1>5 DEF Integral
<1>7. SumOver(g, Node) = SumOver(f, Node) + g[v] - f[v]
  BY <1>3, <1>4, <1>6, SumChange
<1>8. SumOver(g, Node) <= SumOver(h, Node)
  BY <1>3, <1>5, <1>6, SumMonotone
<1>9. SumOver(f, Node) \in Int /\ SumOver(g, Node) \in Int /\ SumOver(h, Node) \in Int
  BY <1>3, <1>6, SumType
<1>10. g[v] = f[v] + d /\ f[v] \in Int
  BY <1>2, <1>4
<1>11. SumOver(h, Node) >= SumOver(f, Node) + d
  BY <1>7, <1>8, <1>9, <1>10
<1> QED  BY <1>11 DEF f, h

(* No node holds less than nothing or more than max_num_nodes * w.         *)
LEMMA ShareBounds ==
  ASSUME NEW p0 \in [Node -> Int], NEW p \in [Node -> Int], NEW b \in Int, NEW w \in Nat,
         \A n \in Node : p0[n] <= p[n]
  PROVE  /\ SumOver(share(p0, p, b, w), Node) >= 0
         /\ SumOver(share(p0, p, b, w), Node) <= max_num_nodes * (max_num_nodes * w)
<1> DEFINE f == share(p0, p, b, w)
           x == max_num_nodes * w
           zero == [n \in Node |-> 0]
           one == [n \in Node |-> 1]
           most == [n \in Node |-> x]
<1>1. /\ limit(w) \in Nat /\ reach(b, w) \in Int /\ limit(w) + w = x
      /\ x \in Nat /\ IsFiniteSet(Node) /\ Cardinality(Node) = max_num_nodes
      /\ max_num_nodes \in Nat
  <2>1. max_num_nodes \in Nat \ {0} /\ IsFiniteSet(Node) /\ Cardinality(Node) = max_num_nodes
    BY NetworkSizes
  <2>2. (max_num_nodes - 1) * w + w = x /\ x \in Nat
    BY <2>1
  <2> QED  BY <2>1, <2>2, ShareType DEF limit
<1>2. \A n \in Node : /\ zero[n] = 0 /\ one[n] = 1 /\ most[n] = x
                      /\ zero[n] \in Int /\ one[n] \in Int /\ most[n] \in Int
                      /\ most[n] = x * one[n]
  BY <1>1
<1> HIDE DEF x, zero, one, most
<1>3. ASSUME NEW n \in Node PROVE f[n] \in Int /\ zero[n] <= f[n] /\ f[n] <= most[n]
  <2>1. /\ f[n] = MIN(p[n] - p0[n], limit(w)) + (IF p[n] >= reach(b, w) THEN w ELSE 0)
        /\ f[n] \in Int
    BY ShareType
  <2>2. /\ MIN(p[n] - p0[n], limit(w)) \in Int
        /\ MIN(p[n] - p0[n], limit(w)) >= 0 /\ MIN(p[n] - p0[n], limit(w)) <= limit(w)
    <3>1. p[n] \in Int /\ p0[n] \in Int /\ p0[n] <= p[n]
      OBVIOUS
    <3> QED  BY <1>1, <3>1 DEF MIN
  <2> HIDE DEF f
  <2> QED  BY <1>1, <1>2, <2>1, <2>2
<1> HIDE DEF f
<1>4. /\ Integral(f, Node) /\ Integral(zero, Node) /\ Integral(one, Node)
      /\ Integral(most, Node)
  BY <1>2, <1>3 DEF Integral
<1>5. SumOver(zero, Node) <= SumOver(f, Node) /\ SumOver(f, Node) <= SumOver(most, Node)
  BY <1>1, <1>3, <1>4, SumMonotone
<1>6. SumOver(zero, Node) = 0
  BY <1>1, <1>2, SumZero
<1>7. SumOver(one, Node) = max_num_nodes
  <2>1. Node \in SUBSET Node /\ \A n \in Node \ Node : one[n] = 0
    OBVIOUS
  <2> QED  BY <1>1, <1>2, <2>1, SumCounts
<1>8. SumOver(most, Node) = x * max_num_nodes
  <2>1. x \in Int /\ \A n \in Node : most[n] = x * one[n]
    BY <1>1, <1>2
  <2>2. SumOver(most, Node) = x * SumOver(one, Node)
    BY <1>1, <1>4, <2>1, SumScale
  <2> QED  BY <1>7, <2>2
<1>9. SumOver(f, Node) >= 0 /\ SumOver(f, Node) <= max_num_nodes * x
  BY <1>1, <1>5, <1>6, <1>8
<1> QED  BY <1>9 DEF f, x

(* A refinement starts within the limit.                                   *)
LEMMA WithinStart ==
  ASSUME NEW p0 \in [Node -> Int], NEW p \in [Node -> Int], NEW b \in Int, NEW w \in Nat,
         \A n \in Node : p[n] = p0[n] /\ p0[n] <= b
  PROVE  Within(p0, p, b, w)
<1>1. SumOver(share(p0, p, b, w), Node) >= 0
  <2>1. \A n \in Node : p0[n] <= p[n]
    OBVIOUS
  <2> QED  BY <2>1, ShareBounds
<1>2. /\ SumOver(share(p0, p, b, w), Node) \in Int /\ reach(b, w) \in Int
      /\ reach(b, w) >= b
  BY ShareType
<1>3. \A n \in Node : p[n] \in Int /\ p[n] <= b
  OBVIOUS
<1> QED  BY <1>1, <1>2, <1>3 DEF Within

(* It ends within max_num_nodes + 1 times as much.                         *)
LEMMA WithinEnd ==
  ASSUME NEW p0 \in [Node -> Int], NEW p \in [Node -> Int], NEW b \in Int, NEW w \in Nat,
         \A n \in Node : p0[n] <= p[n], Within(p0, p, b, w), NEW n \in Node
  PROVE  p[n] <= b + max_num_nodes * (max_num_nodes + 1) * w
<1> DEFINE s == SumOver(share(p0, p, b, w), Node)
           x == max_num_nodes * w
<1>1. s \in Int /\ s <= max_num_nodes * x /\ reach(b, w) = b + x
      /\ p[n] <= reach(b, w) + s
  BY ShareType, ShareBounds DEF Within, reach
<1>2. x \in Nat /\ max_num_nodes \in Nat /\ p[n] \in Int
  BY Sizes
<1>3. max_num_nodes * (max_num_nodes + 1) * w = max_num_nodes * x + x
  BY Sizes
<1> DEFINE y == max_num_nodes * x
<1>4. y \in Int
  BY <1>2
<1> HIDE DEF s, x, y
<1>5. p[n] <= b + y + x
  BY <1>1, <1>2, <1>4 DEF y
<1> QED  BY <1>2, <1>3, <1>4, <1>5 DEF y

(* A node may rise alone as high as one with excess can be, or, from less  *)
(* than that, to w above another;                                          *)
LEMMA WithinAlone ==
  ASSUME NEW p0 \in [Node -> Int], NEW p \in [Node -> Int], NEW q \in [Node -> Int],
         NEW b \in Int, NEW w \in Nat,
         \A n \in Node : p0[n] <= p[n], Within(p0, p, b, w),
         NEW v \in Node, \A n \in Node : n # v => q[n] = p[n], p[v] <= q[v],
         q[v] <= reach(b, w) \/ (p[v] < reach(b, w) /\ \E m \in Node : q[v] <= p[m] + w)
  PROVE  Within(p0, q, b, w)
<1> DEFINE s == SumOver(share(p0, p, b, w), Node)
           t == SumOver(share(p0, q, b, w), Node)
<1>1. /\ reach(b, w) \in Int /\ limit(w) \in Nat /\ s \in Int /\ t \in Int /\ s >= 0
  BY ShareType, ShareBounds
<1>2. ASSUME NEW n \in Node PROVE p[n] <= q[n] /\ p[n] \in Int /\ q[n] \in Int /\ p0[n] \in Int
  <2>1. p[n] \in Int /\ q[n] \in Int /\ p0[n] \in Int
    OBVIOUS
  <2> QED  BY <2>1
<1>3. /\ share(p0, p, b, w)[v] = MIN(p[v] - p0[v], limit(w))
                                 + (IF p[v] >= reach(b, w) THEN w ELSE 0)
      /\ share(p0, q, b, w)[v] = MIN(q[v] - p0[v], limit(w))
                                 + (IF q[v] >= reach(b, w) THEN w ELSE 0)
      /\ share(p0, p, b, w)[v] \in Int /\ share(p0, q, b, w)[v] \in Int
      /\ MIN(p[v] - p0[v], limit(w)) <= MIN(q[v] - p0[v], limit(w))
      /\ MIN(p[v] - p0[v], limit(w)) \in Int /\ MIN(q[v] - p0[v], limit(w)) \in Int
  <2>1. MIN(p[v] - p0[v], limit(w)) <= MIN(q[v] - p0[v], limit(w))
    BY <1>1, <1>2 DEF MIN
  <2> QED  BY <2>1, ShareType
<1>4. ASSUME NEW d \in Nat,
             d = 0 \/ (d = w /\ p[v] < reach(b, w) /\ q[v] >= reach(b, w))
      PROVE  t >= s + d
  <2>1. share(p0, q, b, w)[v] >= share(p0, p, b, w)[v] + d
    BY <1>1, <1>2, <1>3, <1>4
  <2> QED  BY <1>2, <2>1, ShareGrows
<1>5. ASSUME NEW n \in Node PROVE p[n] <= reach(b, w) + s
  BY DEF Within
<1> HIDE DEF s, t
<1>6. t >= s
  <2>1. t >= s + 0
    BY <1>4
  <2> QED  BY <1>1, <2>1
<1>7. q[v] <= reach(b, w) + t
  <2>1. CASE q[v] <= reach(b, w)
    BY <1>1, <1>2, <1>6, <2>1
  <2>2. CASE ~ (q[v] <= reach(b, w))
    <3>1. PICK m \in Node : p[v] < reach(b, w) /\ q[v] <= p[m] + w
      BY <2>2
    <3>2. t >= s + w
      BY <1>1, <1>2, <1>4, <2>2, <3>1
    <3>3. p[m] <= reach(b, w) + s
      BY <1>5
    <3> QED  BY <1>1, <1>2, <3>1, <3>2, <3>3
  <2> QED  BY <2>1, <2>2
<1>8. ASSUME NEW n \in Node PROVE q[n] <= reach(b, w) + t
  <2>1. CASE n = v
    BY <1>7, <2>1
  <2>2. CASE n # v
    <3>1. q[n] = p[n] /\ p[n] <= reach(b, w) + s
      BY <1>5, <2>2
    <3> QED  BY <1>1, <1>2, <1>6, <3>1
  <2> QED  BY <2>1, <2>2
<1> QED  BY <1>8 DEF Within, t

(* and all nodes may rise by as much as one does that stays as low as a    *)
(* node with excess.                                                       *)
LEMMA WithinTogether ==
  ASSUME NEW p0 \in [Node -> Int], NEW p \in [Node -> Int], NEW q \in [Node -> Int],
         NEW b \in Int, NEW w \in Nat, Within(p0, p, b, w), NEW d \in Nat,
         \A n \in Node : p[n] <= q[n] /\ q[n] <= p[n] + d,
         NEW v \in Node, q[v] = p[v] + d, q[v] - p0[v] <= limit(w)
  PROVE  Within(p0, q, b, w)
<1> DEFINE s == SumOver(share(p0, p, b, w), Node)
           t == SumOver(share(p0, q, b, w), Node)
<1>1. reach(b, w) \in Int /\ limit(w) \in Nat /\ s \in Int /\ t \in Int
  BY ShareType
<1>2. \A n \in Node : p[n] \in Int /\ q[n] \in Int /\ p0[n] \in Int
  OBVIOUS
<1>3. share(p0, q, b, w)[v] >= share(p0, p, b, w)[v] + d
  <2>1. /\ share(p0, p, b, w)[v] = MIN(p[v] - p0[v], limit(w))
                                   + (IF p[v] >= reach(b, w) THEN w ELSE 0)
        /\ share(p0, q, b, w)[v] = MIN(q[v] - p0[v], limit(w))
                                   + (IF q[v] >= reach(b, w) THEN w ELSE 0)
    BY ShareType
  <2>2. MIN(p[v] - p0[v], limit(w)) = p[v] - p0[v] /\ MIN(q[v] - p0[v], limit(w)) = q[v] - p0[v]
    BY <1>1, <1>2 DEF MIN
  <2> QED  BY <1>1, <1>2, <2>1, <2>2
<1>4. t >= s + d
  BY <1>2, <1>3, ShareGrows
<1>5. ASSUME NEW n \in Node PROVE q[n] <= reach(b, w) + t
  <2>1. p[n] <= reach(b, w) + s
    BY DEF Within
  <2> HIDE DEF s, t
  <2> QED  BY <1>1, <1>2, <1>4, <2>1
<1> QED  BY <1>5 DEF Within
-----------------------------------------------------------------------------
(* The flood waits for a node as long as it has met too little excess, and *)
(* the one that it reaches last is active.                                 *)
LastOK ==
  /\ pc = "flood" => set_excess # 0 \/ (pending = {} /\ arc = NO_ARC)
  /\ pc = "raise" => excess[node] > 0

calm == [n \in Node |-> 0]

(* The difference of two prices that one arc may change in a refinement,   *)
(* and what prices are at most when the current refinement begins.         *)
width == 2 * first_epsilon
start == refinement_rise * (refinements[first_epsilon] - refinements[epsilon] - 1)

(* c0 and p0 are the capacities and the prices when the current refinement *)
(* began: flow has moved since and prices have risen, but not where a node *)
(* has a deficit.                                                          *)
Grown(c0, p0) ==
  /\ Moved(c0, calm, capacity, excess)
  /\ NearOptimal(c0, p0, first_epsilon)
  /\ \A n \in Node : /\ p0[n] <= start /\ p0[n] <= potential[n]
                     /\ excess[n] < 0 => potential[n] = p0[n]
  /\ pc \in {"saturate", "enqueue"} => \A n \in Node : potential[n] = p0[n]
  /\ Within(p0, potential, start, width)

HeightOK ==
  /\ pc \in {"feasible", "fail"} \/ (pc = "idle" /\ result = "none") =>
       \A n \in Node : potential[n] = 0
  /\ result # "none" =>
       /\ pc = "idle"
       /\ \A n \in Node : potential[n] <= refinements[first_epsilon] * refinement_rise
  /\ pc = "scale" =>
       /\ epsilon <= first_epsilon
       /\ refinements[epsilon] <= refinements[first_epsilon]
       /\ \A n \in Node :
            /\ excess[n] = 0
            /\ potential[n] <= refinement_rise
                                 * (refinements[first_epsilon] - refinements[epsilon])
  /\ Started =>
       /\ 2 * epsilon <= first_epsilon
       /\ refinements[epsilon] + 1 <= refinements[first_epsilon]
       /\ \E c0 \in [Arc -> Nat], p0 \in [Node -> Int] : Grown(c0, p0)

(* Costs are no greater than the first epsilon.                            *)
LEMMA FirstEpsilon ==
  ASSUME NetworkTypeOK
  PROVE  /\ first_epsilon \in Nat /\ width \in Nat /\ refinement_rise \in Nat
         /\ refinement_rise = max_num_nodes * (max_num_nodes + 1) * width
         /\ \A a \in Arc : /\ gt_cost(a) \in Int
                           /\ gt_cost(a) <= first_epsilon /\ gt_cost(a) >= - first_epsilon
<1> DEFINE m == Max({0} \union {cost[a] : a \in Arc})
<1>1. m \in Nat /\ \A a \in Arc : cost[a] <= m /\ cost[a] \in Int
  BY GreatestCost
<1>2. first_epsilon = max_num_nodes * m /\ max_num_nodes \in Nat \ {0}
  BY Sizes DEF first_epsilon, scale_factor
<1> HIDE DEF m
<1>3. first_epsilon \in Nat
  BY <1>1, <1>2
<1>4. width = 2 * first_epsilon /\ width \in Nat
  BY <1>3 DEF width
<1>5. /\ refinement_rise = max_num_nodes * (max_num_nodes + 1) * width
      /\ refinement_rise \in Nat
  <2>1. refinement_rise = 2 * max_num_nodes * (max_num_nodes + 1) * first_epsilon
    BY DEF refinement_rise
  <2> QED  BY <1>2, <1>3, <1>4, <2>1
<1>6. ASSUME NEW a \in Arc
      PROVE  gt_cost(a) \in Int /\ gt_cost(a) <= first_epsilon
  <2>1. gt_cost(a) = cost[a] * max_num_nodes /\ cost[a] \in Int /\ cost[a] <= m
    BY <1>1 DEF gt_cost, scale_factor
  <2>2. max_num_nodes * cost[a] <= m * max_num_nodes
    BY <1>1, <1>2, <2>1, TimesFacts
  <2> QED  BY <1>1, <1>2, <2>1, <2>2
<1>7. ASSUME NEW a \in Arc
      PROVE  gt_cost(a) >= - first_epsilon
  <2>1. arc_dual(a) \in Arc
    BY ArcFacts
  <2>2. gt_cost(arc_dual(a)) = - gt_cost(a) /\ gt_cost(arc_dual(a)) <= first_epsilon
    <3>1. potential \in [Node -> Int]
      BY DEF NetworkTypeOK
    <3> QED  BY <1>6, <2>1, <3>1, CostFacts
  <2> QED  BY <1>3, <1>6, <2>2
<1> QED  BY <1>3, <1>4, <1>5, <1>6, <1>7

(* A node with excess has not risen above the limit: a path of arcs that   *)
(* gained capacity leads from it to a deficit, which did not rise, and the *)
(* dual of every arc of the path had capacity when the refinement began.   *)
LEMMA ActiveLow ==
  ASSUME NetworkTypeOK, excess \in [Node -> Int], epsilon \in Nat, epsilon <= first_epsilon,
         NEW c0 \in [Arc -> Nat], NEW p0 \in [Node -> Int],
         Moved(c0, calm, capacity, excess), NearOptimal(c0, p0, first_epsilon),
         NEW q \in [Node -> Int], NearOptimal(capacity, q, epsilon),
         \A n \in Node : excess[n] < 0 => q[n] = p0[n],
         NEW v \in Node, excess[v] > 0
  PROVE  q[v] - p0[v] <= limit(width)
<1> DEFINE r == [n \in Node |-> q[n] - p0[n]]
<1>1. r \in [Node -> Int] /\ \A n \in Node : r[n] = q[n] - p0[n] /\ r[n] \in Int
  OBVIOUS
<1> HIDE DEF r
<1>2. /\ first_epsilon \in Nat /\ width \in Nat /\ width = 2 * first_epsilon
      /\ capacity \in [Arc -> Nat]
  BY FirstEpsilon DEF width, NetworkTypeOK
<1>3. calm \in [Node -> Int] /\ \A n \in Node : calm[n] = 0
  BY DEF calm
<1>4. ASSUME NEW a \in Arc, capacity[a] > c0[a]
      PROVE  r[arc_tail(a)] <= r[arc_head(a)] + width
  <2>1. /\ arc_dual(a) \in Arc /\ arc_tail(a) \in Node /\ arc_head(a) \in Node
    BY ArcFacts
  <2>2. capacity[a] + capacity[arc_dual(a)] = c0[a] + c0[arc_dual(a)]
    BY DEF Moved
  <2>3. /\ capacity[a] \in Nat /\ capacity[arc_dual(a)] \in Nat
        /\ c0[a] \in Nat /\ c0[arc_dual(a)] \in Nat
    BY <1>2, <2>1
  <2>4. c0[arc_dual(a)] > 0 /\ capacity[a] > 0
    BY <1>4, <2>2, <2>3
  <2>5. rcost(p0, arc_dual(a)) >= - first_epsilon /\ rcost(q, a) >= - epsilon
    BY <2>1, <2>4 DEF NearOptimal
  <2>6. /\ rcost(p0, arc_dual(a)) = - rcost(p0, a) /\ rcost(p0, a) \in Int
        /\ rcost(q, a) \in Int /\ gt_cost(a) \in Int
    BY CostFacts
  <2>7. /\ rcost(p0, a) = gt_cost(a) + p0[arc_head(a)] - p0[arc_tail(a)]
        /\ rcost(q, a) = gt_cost(a) + q[arc_head(a)] - q[arc_tail(a)]
    BY DEF rcost
  <2>8. /\ p0[arc_head(a)] \in Int /\ p0[arc_tail(a)] \in Int
        /\ q[arc_head(a)] \in Int /\ q[arc_tail(a)] \in Int
    BY <2>1
  <2>9. rcost(p0, a) <= first_epsilon /\ rcost(q, a) >= - first_epsilon
    BY <1>2, <2>5, <2>6
  <2>10. /\ r[arc_tail(a)] = q[arc_tail(a)] - p0[arc_tail(a)]
         /\ r[arc_head(a)] = q[arc_head(a)] - p0[arc_head(a)]
    BY <1>1, <2>1
  <2> QED  BY <1>2, <2>6, <2>7, <2>8, <2>9, <2>10
<1>5. \A n \in Node : excess[n] < 0 => r[n] <= 0
  BY <1>1
<1>6. r[v] <= (max_num_nodes - 1) * width
  BY <1>1, <1>2, <1>3, <1>4, <1>5, RiseBound
<1> QED  BY <1>1, <1>6 DEF limit

(* A relabel lifts no node by more than that above the others and itself.  *)
LEMMA RelabeledHigh ==
  ASSUME NetworkTypeOK, epsilon \in Nat, 2 * epsilon <= first_epsilon, NEW n \in Node
  PROVE  \E m \in Node : relabeled(n) <= potential[m] + width
<1> DEFINE R == residual_arcs(n)
           h == [a \in R |-> through(n, a)]
           T == {through(n, a) : a \in R}
<1>1. /\ R \subseteq Arc /\ potential \in [Node -> Int]
      /\ \A a \in R : arc_head(a) \in Node
  BY ArcFacts DEF residual_arcs, node_adjacency, NetworkTypeOK
<1>2. potential[n] \in Int /\ raised(n) = potential[n] + epsilon /\ raised(n) \in Int
  BY <1>1 DEF raised
<1>3. /\ first_epsilon \in Nat /\ width = 2 * first_epsilon
      /\ \A a \in Arc : gt_cost(a) \in Int /\ gt_cost(a) <= first_epsilon
  BY FirstEpsilon DEF width
<1>4. ASSUME NEW a \in R
      PROVE  /\ through(n, a) \in Int
             /\ \/ through(n, a) <= first_epsilon + potential[n] + epsilon
                \/ through(n, a) <= first_epsilon + potential[arc_head(a)]
  <2>1. gt_cost(a) \in Int /\ gt_cost(a) <= first_epsilon /\ potential[arc_head(a)] \in Int
    BY <1>1, <1>3
  <2>2. through(n, a) = gt_cost(a) + (IF arc_head(a) = n THEN raised(n) ELSE potential[arc_head(a)])
    BY DEF through
  <2> QED  BY <1>2, <1>3, <2>1, <2>2
<1> HIDE DEF R
<1>5. CASE lowered(n) # {} \/ R = {}
  <2>1. relabeled(n) = raised(n)
    BY <1>5 DEF relabeled, R
  <2> QED  BY <1>2, <1>3, <2>1
<1>6. CASE lowered(n) = {} /\ R # {}
  <2>1. relabeled(n) = Min(T) + epsilon
    BY <1>6 DEF relabeled, R
  <2>2. T = {h[a] : a \in R} /\ T \subseteq Int /\ T # {}
    BY <1>4, <1>6
  <2>3. IsFiniteSet(T)
    <3>1. IsFiniteSet(R)
      BY <1>1, Sizes, FS_Subset
    <3> HIDE DEF h, T
    <3> QED  BY <2>2, <3>1, ImageFinite
  <2>4. Min(T) \in T
    <3> HIDE DEF h, T
    <3> QED  BY <2>2, <2>3, MinMaxFacts
  <2>5. PICK b \in R : Min(T) = through(n, b)
    BY <2>4
  <2> HIDE DEF T, h
  <2>6. /\ through(n, b) \in Int
        /\ \/ through(n, b) <= first_epsilon + potential[n] + epsilon
           \/ through(n, b) <= first_epsilon + potential[arc_head(b)]
    BY <1>4
  <2>7. arc_head(b) \in Node /\ potential[arc_head(b)] \in Int
    BY <1>1
  <2>8. \/ relabeled(n) <= potential[n] + width
        \/ relabeled(n) <= potential[arc_head(b)] + width
    BY <1>2, <1>3, <2>1, <2>5, <2>6, <2>7
  <2> QED  BY <2>7, <2>8
<1> QED  BY <1>5, <1>6
-----------------------------------------------------------------------------
(* The node that the flood reaches last is active.                         *)
LEMMA LastStep ==
  ASSUME IInv, IInv', LastOK, [Next]_vars
  PROVE  LastOK'
<1>1. CASE UpdatePrices
  <2>1. /\ pc' = "flood" /\ arc' = NO_ARC /\ excess' = excess
        /\ pending' = {n \in Node : excess[n] < 0}
        /\ distance' = [n \in Node |-> IF n \in {m \in Node : excess[m] < 0} THEN 0 ELSE INFINITE]
    BY <1>1 DEF UpdatePrices, flows
  <2>2. /\ excess' \in [Node -> Int] /\ set_excess' = SumOver(flooded', Node)
        /\ flooded' \in [Node -> Int]
    <3>1. IInv' /\ pc' = "flood"
      BY <2>1
    <3>2. excess' \in [Node -> Int]
      BY <3>1 DEF IInv, TypeOK
    <3>3. set_excess' = SumOver(flooded', Node)
      BY <3>1 DEF IInv, ExcessOK
    <3> QED  BY <3>2, <3>3 DEF flooded
  <2>3. \A n \in Node : flooded'[n] = IF excess[n] < 0 THEN excess[n] ELSE 0
    <3>1. ASSUME NEW n \in Node, ~ (excess[n] < 0) PROVE ~ settled(n)'
      BY <2>1, <3>1, Sizes DEF settled
    <3> QED  BY <2>1, <3>1 DEF flooded
  <2>4. CASE pending' = {}
    BY <2>1, <2>4 DEF LastOK
  <2>5. CASE pending' # {}
    <3>1. PICK n \in Node : excess[n] < 0
      BY <2>1, <2>5
    <3>2. \A m \in Node : flooded'[m] <= 0
      BY <2>1, <2>2, <2>3
    <3>3. ~ (SumOver(flooded', Node) = 0)
      <4> SUFFICES ASSUME SumOver(flooded', Node) = 0 PROVE FALSE
        OBVIOUS
      <4> DEFINE g == flooded'
      <4>1. g \in [Node -> Int] /\ SumOver(g, Node) = 0 /\ \A m \in Node : g[m] <= 0
        BY <2>2, <3>2
      <4>2. g[n] < 0
        BY <2>3, <3>1
      <4> HIDE DEF g
      <4>3. \A m \in Node : g[m] = 0
        BY <4>1, NoneLeft
      <4> QED  BY <4>2, <4>3
    <3> QED  BY <2>1, <2>2, <3>3 DEF LastOK
  <2> QED  BY <2>4, <2>5
<1>2. CASE FloodNode
  <2>1. PICK n \in pending :
          /\ node' = n /\ set_excess' = set_excess + counted(n)
          /\ IF set_excess' = 0 THEN pc' = "raise" ELSE pc' = pc
    BY <1>2 DEF FloodNode
  <2>2. pc = "flood" /\ excess' = excess /\ set_excess # 0
    BY <1>2, <2>1 DEF FloodNode, flows, LastOK
  <2>3. set_excess \in Int /\ n \in Node /\ excess[n] \in Int
    BY <2>1 DEF IInv, TypeOK
  <2>4. CASE set_excess' = 0
    <3>1. counted(n) # 0
      BY <2>1, <2>2, <2>3, <2>4
    <3>2. excess[n] > 0
      BY <3>1 DEF counted
    <3> QED  BY <2>1, <2>2, <2>4, <3>2 DEF LastOK
  <2>5. CASE set_excess' # 0
    BY <2>1, <2>2, <2>5 DEF LastOK
  <2> QED  BY <2>4, <2>5
<1>3. CASE FloodArc
  BY <1>3 DEF FloodArc, LastOK
<1>4. CASE UNCHANGED vars
  BY <1>4 DEF vars, flows, cursor, flood, LastOK
<1>5. CASE \/ \E supply \in Supplies, c \in Costs : goldberg_tarjan_mcf(supply, c)
           \/ goldberg_tarjan_feasible \/ Fail \/ Refine \/ Return \/ Saturate \/ Saturated
           \/ Enqueue \/ Enqueued \/ Pop \/ Refined \/ RaisePrices
           \/ BeginScan \/ Discharged \/ PassArc \/ Push \/ RelabelHead \/ EndScan
  <2>1. pc' \notin {"flood", "raise"}
    BY <1>5 DEF goldberg_tarjan_mcf, goldberg_tarjan_feasible, Fail, Refine, Return, Saturate,
       Saturated, Enqueue, Enqueued, Pop, Refined, RaisePrices, BeginScan, Discharged, PassArc,
       Push, RelabelHead, EndScan, Scanning
  <2> QED  BY <2>1 DEF LastOK
<1> QED  BY <1>1, <1>2, <1>3, <1>4, <1>5 DEF Next, Running

(* What the costs and the network alone decide stays.                      *)
LEMMA HeightStatic ==
  ASSUME UNCHANGED problem
  PROVE  /\ first_epsilon' = first_epsilon /\ width' = width
         /\ refinement_rise' = refinement_rise
         /\ epsilon' = epsilon => start' = start
         /\ \A c, p, e : NearOptimal(c, p, e)' <=> NearOptimal(c, p, e)
<1>1. /\ cost' = cost /\ graph' = graph
      /\ \A a : arc_tail(a)' = arc_tail(a) /\ arc_head(a)' = arc_head(a)
      /\ \A a : gt_cost(a)' = gt_cost(a)
  BY StaticFacts
<1>2. first_epsilon' = first_epsilon
  BY <1>1 DEF first_epsilon, scale_factor
<1>3. refinement_rise' = refinement_rise /\ width' = width
  BY <1>2 DEF refinement_rise, width
<1>4. epsilon' = epsilon => start' = start
  BY <1>2, <1>3 DEF start
<1>5. \A c, p, e : NearOptimal(c, p, e)' <=> NearOptimal(c, p, e)
  BY <1>1 DEF NearOptimal, rcost
<1> QED  BY <1>2, <1>3, <1>4, <1>5

(* Flow that has moved since the refinement began moves on.                *)
LEMMA MovedOn ==
  ASSUME NetworkTypeOK, excess \in [Node -> Int], excess' \in [Node -> Int],
         capacity' \in [Arc -> Nat], graph' = graph, NEW c0 \in [Arc -> Nat],
         Moved(c0, calm, capacity, excess), Moved(capacity, excess, capacity', excess')
  PROVE  Moved(c0, calm, capacity, excess)'
<1>1. capacity \in [Arc -> Nat]
  BY DEF NetworkTypeOK
<1>2. /\ \A n \in Node : balance(c0, n)' = balance(c0, n)
      /\ \A n \in Node : balance(capacity, n)' = balance(capacity', n)
      /\ \A a : arc_dual(a)' = arc_dual(a)
  <2>1. \A n : node_adjacency(n)' = node_adjacency(n)
    BY SameGraph
  <2>2. \A n \in Node : balance(c0, n)' = balance(c0, n)
    BY <2>1 DEF balance, carried, arc_dual, arc_is_dual
  <2> QED  BY <2>2, BalanceNext DEF arc_dual
<1>3. ASSUME NEW n \in Node
      PROVE  excess'[n] - balance(capacity', n) = calm[n] - balance(c0, n)
  <2>1. /\ excess[n] - balance(capacity, n) = calm[n] - balance(c0, n)
        /\ excess'[n] - balance(capacity', n) = excess[n] - balance(capacity, n)
    BY DEF Moved
  <2> QED  BY <2>1
<1>4. ASSUME NEW a \in Arc
      PROVE  capacity'[a] + capacity'[arc_dual(a)] = c0[a] + c0[arc_dual(a)]
  BY DEF Moved
<1>5. calm' = calm
  BY DEF calm
<1> QED  BY <1>2, <1>3, <1>4, <1>5 DEF Moved

(* A step of a refinement that moves flow, if any, and lifts prices keeps  *)
(* what is known of its beginning, if the new prices are within the limit. *)
LEMMA GrownStep ==
  ASSUME IInv, IInv', UNCHANGED problem, epsilon' = epsilon,
         NEW c0 \in [Arc -> Nat], NEW p0 \in [Node -> Int], Grown(c0, p0),
         Moved(capacity, excess, capacity', excess'),
         \A n \in Node : potential[n] <= potential'[n],
         \A n \in Node : excess'[n] < 0 => potential'[n] = p0[n],
         pc' \in {"saturate", "enqueue"} => \A n \in Node : potential'[n] = p0[n],
         Within(p0, potential', start, width)
  PROVE  Grown(c0, p0)'
<1>1. /\ NetworkTypeOK /\ excess \in [Node -> Int] /\ excess' \in [Node -> Int]
      /\ capacity' \in [Arc -> Nat] /\ potential \in [Node -> Int] /\ potential' \in [Node -> Int]
  BY DEF IInv, TypeOK, NetworkTypeOK
<1>2. Moved(c0, calm, capacity, excess)'
  BY <1>1, MovedOn DEF Grown, problem
<1>3. /\ first_epsilon' = first_epsilon /\ width' = width /\ start' = start
      /\ NearOptimal(c0, p0, first_epsilon)' <=> NearOptimal(c0, p0, first_epsilon)
  <2>1. first_epsilon' = first_epsilon
    BY HeightStatic
  <2>2. NearOptimal(c0, p0, first_epsilon)' <=> NearOptimal(c0, p0, first_epsilon)
    BY <2>1, StaticFacts DEF NearOptimal, rcost
  <2> QED  BY <2>2, HeightStatic
<1>4. \A n \in Node : p0[n] <= start /\ p0[n] <= potential'[n]
  <2>1. \A n \in Node : p0[n] <= start /\ p0[n] <= potential[n]
    BY DEF Grown
  <2>2. \A n \in Node : p0[n] \in Int /\ potential[n] \in Int /\ potential'[n] \in Int
    BY <1>1
  <2> QED  BY <2>1, <2>2
<1>5. Within(p0, potential, start, width)'
  BY <1>3 DEF Within, share, reach, limit
<1> QED  BY <1>2, <1>3, <1>4, <1>5 DEF Grown

(* A step that leaves the flow alone moves none.                           *)
LEMMA NothingMoved ==
  ASSUME capacity' = capacity, excess' = excess
  PROVE  Moved(capacity, excess, capacity', excess')
BY DEF Moved

(* The types and bounds of what a refinement works with.                   *)
LEMMA GrownType ==
  ASSUME IInv, HeightOK, Started, NEW c0 \in [Arc -> Nat], NEW p0 \in [Node -> Int], Grown(c0, p0)
  PROVE  /\ NetworkTypeOK /\ excess \in [Node -> Int] /\ capacity \in [Arc -> Nat]
         /\ potential \in [Node -> Int]
         /\ epsilon \in Nat /\ epsilon >= 1 /\ epsilon <= first_epsilon
         /\ 2 * epsilon <= first_epsilon
         /\ first_epsilon \in Nat /\ width \in Nat /\ refinement_rise \in Nat /\ start \in Nat
         /\ refinements[epsilon] \in Nat /\ refinements[first_epsilon] \in Nat
         /\ refinements[epsilon] + 1 <= refinements[first_epsilon]
         /\ Moved(c0, calm, capacity, excess) /\ NearOptimal(c0, p0, first_epsilon)
         /\ \A n \in Node : p0[n] <= start /\ p0[n] <= potential[n]
         /\ Within(p0, potential, start, width)
<1>1. /\ NetworkTypeOK /\ excess \in [Node -> Int] /\ capacity \in [Arc -> Nat]
      /\ potential \in [Node -> Int] /\ epsilon \in Nat /\ epsilon >= 1
  BY DEF IInv, TypeOK, NetworkTypeOK, PricesOK
<1>2. /\ first_epsilon \in Nat /\ width \in Nat /\ refinement_rise \in Nat
  BY <1>1, FirstEpsilon
<1>3. 2 * epsilon <= first_epsilon /\ refinements[epsilon] + 1 <= refinements[first_epsilon]
  BY DEF HeightOK
<1>4. refinements[epsilon] \in Nat /\ refinements[first_epsilon] \in Nat
  BY <1>1, <1>2, RefinementsFacts
<1>5. start \in Nat
  <2> DEFINE k == refinements[first_epsilon] - refinements[epsilon] - 1
  <2>1. k \in Nat
    BY <1>3, <1>4
  <2> HIDE DEF k
  <2>2. refinement_rise * k \in Nat
    BY <1>2, <2>1
  <2> QED  BY <2>2 DEF start, k
<1>6. epsilon <= first_epsilon
  BY <1>1, <1>2, <1>3
<1> QED  BY <1>1, <1>2, <1>3, <1>4, <1>5, <1>6 DEF Grown
-----------------------------------------------------------------------------
(* It is enough that a step of a refinement keeps what is known of its     *)
(* beginning.                                                              *)
LEMMA RefiningStep ==
  ASSUME HeightOK, Started, Started', UNCHANGED problem, epsilon' = epsilon, result' = result,
         \A c0 \in [Arc -> Nat], p0 \in [Node -> Int] : Grown(c0, p0) => Grown(c0, p0)'
  PROVE  HeightOK'
<1>1. first_epsilon' = first_epsilon
  BY HeightStatic
<1>2. result' = "none" /\ pc' \notin {"feasible", "fail", "idle", "scale"}
  BY DEF HeightOK, Started, Refining
<1>3. \E c0 \in [Arc -> Nat], p0 \in [Node -> Int] : Grown(c0, p0)'
  BY DEF HeightOK
<1>4. /\ 2 * epsilon' <= first_epsilon'
      /\ refinements[epsilon'] + 1 <= refinements[first_epsilon']
  BY <1>1 DEF HeightOK
<1> QED  BY <1>2, <1>3, <1>4 DEF HeightOK

(* Steps that move no flow and change no price.                            *)
LEMMA QuietStep ==
  ASSUME IInv, IInv', HeightOK, Started, Started', UNCHANGED problem, UNCHANGED flows,
         potential' = potential, epsilon' = epsilon, result' = result,
         pc' \in {"saturate", "enqueue"} => pc \in {"saturate", "enqueue"}
  PROVE  HeightOK'
<1>1. ASSUME NEW c0 \in [Arc -> Nat], NEW p0 \in [Node -> Int], Grown(c0, p0)
      PROVE  Grown(c0, p0)'
  <2>1. capacity' = capacity /\ excess' = excess /\ potential \in [Node -> Int]
    BY DEF flows, IInv, TypeOK, NetworkTypeOK
  <2>2. Moved(capacity, excess, capacity', excess')
    BY <2>1, NothingMoved
  <2>3. /\ \A n \in Node : potential[n] <= potential'[n]
        /\ \A n \in Node : excess'[n] < 0 => potential'[n] = p0[n]
        /\ pc' \in {"saturate", "enqueue"} => \A n \in Node : potential'[n] = p0[n]
        /\ Within(p0, potential', start, width)
    BY <1>1, <2>1 DEF Grown
  <2> QED  BY <1>1, <2>2, <2>3, GrownStep
<1> QED  BY <1>1, RefiningStep

(* A push moves flow, and makes no deficit.                                *)
LEMMA AlongFacts ==
  ASSUME IInv, IInv', Scanning, push_along
  PROVE  /\ Moved(capacity, excess, capacity', excess')
         /\ \A n \in Node : excess'[n] < 0 => excess[n] < 0
<1>1. /\ TypeOK /\ PricesOK /\ pc = "scan" /\ arc # NO_ARC /\ excess[node] > 0
      /\ NetworkTypeOK /\ excess \in [Node -> Int] /\ node \in Node /\ capacity \in [Arc -> Nat]
      /\ excess' \in [Node -> Int] /\ capacity' \in [Arc -> Nat]
  BY DEF IInv, TypeOK, NetworkTypeOK, Scanning
<1>2. arc \in Arc /\ arc_tail(arc) = node /\ arc_head(arc) \in Node
  BY <1>1, PassFacts
<1> DEFINE x == amount(arc)
           next == arc_head(arc)
<1>3. x \in Nat /\ x <= excess[node]
  <2>1. excess[node] \in Nat /\ capacity[arc] \in Nat
    BY <1>1, <1>2
  <2> QED  BY <2>1 DEF amount, MIN
<1>4. /\ capacity' = [capacity EXCEPT ![arc] = @ - x, ![arc_dual(arc)] = @ + x]
      /\ excess' = [excess EXCEPT ![arc_tail(arc)] = @ - x, ![next] = @ + x]
  BY DEF push_along, gt_push
<1> HIDE DEF x
<1>5. Moved(capacity, excess, capacity', excess')
  <2> DEFINE c == capacity
             d == capacity'
             e == excess
             g == excess'
             a == arc
  <2>1. /\ c \in [Arc -> Nat] /\ d \in [Arc -> Nat] /\ e \in [Node -> Int]
        /\ g \in [Node -> Int] /\ a \in Arc
        /\ d = [c EXCEPT ![a] = @ - x, ![arc_dual(a)] = @ + x]
        /\ g = [e EXCEPT ![arc_tail(a)] = @ - x, ![arc_head(a)] = @ + x]
    BY <1>1, <1>2, <1>4
  <2>2. Moved(c, e, d, g)
    <3> HIDE DEF c, d, e, g, a
    <3> QED  BY <1>1, <1>3, <2>1, PushMoves
  <2> QED  BY <2>2
<1>6. ASSUME NEW n \in Node, excess'[n] < 0 PROVE excess[n] < 0
  <2>1. excess' = [excess EXCEPT ![node] = @ - x, ![next] = @ + x] /\ next \in Node
    BY <1>2, <1>4
  <2> HIDE DEF next
  <2>2. n # node /\ n # next => excess'[n] = excess[n]
    BY <1>1, <2>1
  <2>3. n = next => excess'[n] >= excess[n] + x \/ (next = node /\ excess'[n] = excess[n])
    BY <1>1, <1>3, <2>1
  <2>4. n = node => excess'[n] >= excess[node] - x
    BY <1>1, <1>3, <2>1
  <2> QED  BY <1>1, <1>3, <1>6, <2>2, <2>3, <2>4
<1> QED  BY <1>5, <1>6

(* Saturating arcs makes deficits, while no price has risen yet.           *)
LEMMA SaturateHeight ==
  ASSUME IInv, IInv', HeightOK, Saturate
  PROVE  HeightOK'
<1>1. /\ pc = "saturate" /\ pc' = pc /\ arc_id \in Arc /\ UNCHANGED problem
      /\ potential' = potential /\ epsilon' = epsilon /\ result' = result
      /\ gt_push(arc_id, capacity[arc_id]) \/ UNCHANGED flows
  BY DEF Saturate
<1>2. CASE UNCHANGED flows
  BY <1>1, <1>2, QuietStep DEF Started
<1>3. CASE gt_push(arc_id, capacity[arc_id])
  <2>1. Moved(capacity, excess, capacity', excess')
    <3> DEFINE c == capacity
               d == capacity'
               e == excess
               g == excess'
               a == arc_id
               x == capacity[arc_id]
    <3>1. /\ c \in [Arc -> Nat] /\ d \in [Arc -> Nat] /\ e \in [Node -> Int]
          /\ g \in [Node -> Int] /\ a \in Arc /\ x \in Nat /\ NetworkTypeOK
          /\ d = [c EXCEPT ![a] = @ - x, ![arc_dual(a)] = @ + x]
          /\ g = [e EXCEPT ![arc_tail(a)] = @ - x, ![arc_head(a)] = @ + x]
      BY <1>1, <1>3 DEF gt_push, IInv, TypeOK, NetworkTypeOK
    <3>2. Moved(c, e, d, g)
      <4> HIDE DEF c, d, e, g, a, x
      <4> QED  BY <3>1, PushMoves
    <3> QED  BY <3>2
  <2>2. ASSUME NEW c0 \in [Arc -> Nat], NEW p0 \in [Node -> Int], Grown(c0, p0)
        PROVE  Grown(c0, p0)'
    <3>1. potential \in [Node -> Int]
      BY DEF IInv, TypeOK, NetworkTypeOK
    <3>2. /\ \A n \in Node : potential[n] <= potential'[n]
          /\ \A n \in Node : potential'[n] = p0[n]
          /\ Within(p0, potential', start, width)
      BY <1>1, <2>2, <3>1 DEF Grown
    <3> QED  BY <1>1, <2>1, <2>2, <3>2, GrownStep
  <2> QED  BY <1>1, <2>2, RefiningStep DEF Started
<1> QED  BY <1>1, <1>2, <1>3

(* A push along the arc of the scan.                                       *)
LEMMA PushHeight ==
  ASSUME IInv, IInv', HeightOK, Push
  PROVE  HeightOK'
<1>1. /\ pc = "scan" /\ pc' = pc /\ Scanning /\ push_along /\ UNCHANGED problem
      /\ potential' = potential /\ epsilon' = epsilon /\ result' = result
  BY DEF Push, Scanning, loops
<1>2. /\ Moved(capacity, excess, capacity', excess')
      /\ \A n \in Node : excess'[n] < 0 => excess[n] < 0
  BY <1>1, AlongFacts
<1>3. ASSUME NEW c0 \in [Arc -> Nat], NEW p0 \in [Node -> Int], Grown(c0, p0)
      PROVE  Grown(c0, p0)'
  <2>1. potential \in [Node -> Int]
    BY DEF IInv, TypeOK, NetworkTypeOK
  <2>2. /\ \A n \in Node : potential[n] <= potential'[n]
        /\ \A n \in Node : excess'[n] < 0 => potential'[n] = p0[n]
        /\ Within(p0, potential', start, width)
    BY <1>1, <1>2, <1>3, <2>1 DEF Grown
  <2> QED  BY <1>1, <1>2, <1>3, <2>2, GrownStep
<1> QED  BY <1>1, <1>3, RefiningStep DEF Started, Refining
-----------------------------------------------------------------------------
LEMMA NearOptimalNext ==
  ASSUME UNCHANGED problem
  PROVE  NearOptimal(capacity, potential, epsilon)' => NearOptimal(capacity', potential', epsilon')
BY StaticFacts DEF NearOptimal, rcost

(* Lookahead relabels a node without excess that lies below one with       *)
(* excess, so that it has not risen above where such a node can be.        *)
LEMMA RelabelHeadHeight ==
  ASSUME IInv, IInv', HeightOK, RelabelHead
  PROVE  HeightOK'
<1> DEFINE next == arc_head(arc)
           q == potential'
<1>1. /\ pc = "scan" /\ pc' = pc /\ arc # NO_ARC /\ Scanning /\ admissible(arc)
      /\ UNCHANGED problem /\ epsilon' = epsilon /\ result' = result
      /\ excess[next] >= 0 /\ admissible_from_current(next) = {}
      /\ q = [potential EXCEPT ![next] = relabeled(next)]
      /\ push_along \/ (capacity' = capacity /\ excess' = excess)
  BY DEF RelabelHead, Scanning, loops, flows
<1>2. /\ TypeOK /\ NetworkTypeOK /\ PricesOK /\ potential \in [Node -> Int]
      /\ epsilon \in Nat /\ epsilon >= 1 /\ excess \in [Node -> Int] /\ q \in [Node -> Int]
  BY <1>1 DEF IInv, TypeOK, NetworkTypeOK, PricesOK, Started, Refining
<1>3. /\ arc \in Arc /\ arc_tail(arc) = node /\ next \in Node /\ node \in Node
      /\ Down(capacity, potential, arc) /\ NearOptimal(capacity, potential, epsilon)
      /\ NoCycle(capacity, potential) /\ Skipped(capacity, potential, position)
      /\ excess[node] > 0
  BY <1>1, <1>2, PassFacts, DownFacts DEF PricesOK, Refining, TypeOK, Scanning
<1>4. next # node
  BY <1>2, <1>3, NoLoop
<1>5. \A a \in node_adjacency(next) : ~ Down(capacity, potential, a)
  <2>1. \A a \in node_adjacency(next) \ arcs_from(next, current_arc[next]) :
          ~ Down(capacity, potential, a)
    BY <1>3, <1>4 DEF Skipped, position
  <2>2. \A a \in arcs_from(next, current_arc[next]) : ~ Down(capacity, potential, a)
    BY <1>1, DownFacts DEF admissible_from_current
  <2> QED  BY <2>1, <2>2
<1>6. relabeled(next) \in Int /\ relabeled(next) >= potential[next] + epsilon
  <2> HIDE DEF next
  <2> QED  BY <1>2, <1>3, <1>5, RelabeledValue
<1>7. q[next] = relabeled(next) /\ \A n \in Node : n # next => q[n] = potential[n]
  <2> HIDE DEF next, q
  <2> QED  BY <1>1, <1>2, <1>3
<1> HIDE DEF q
<1>8. \A n \in Node : potential[n] <= q[n]
  <2> HIDE DEF next
  <2> QED  BY <1>2, <1>3, <1>6, <1>7
<1>9. /\ Moved(capacity, excess, capacity', excess')
      /\ \A n \in Node : excess'[n] < 0 => excess[n] < 0
  BY <1>1, AlongFacts, NothingMoved
<1>10. ASSUME NEW c0 \in [Arc -> Nat], NEW p0 \in [Node -> Int], Grown(c0, p0)
       PROVE  Grown(c0, p0)'
  <2>1. /\ epsilon <= first_epsilon /\ 2 * epsilon <= first_epsilon
        /\ first_epsilon \in Nat /\ width \in Nat /\ start \in Nat
        /\ Moved(c0, calm, capacity, excess) /\ NearOptimal(c0, p0, first_epsilon)
        /\ \A n \in Node : p0[n] <= start /\ p0[n] <= potential[n]
        /\ Within(p0, potential, start, width)
    BY <1>1, <1>10, GrownType DEF Started, Refining
  <2>2. \A n \in Node : excess[n] < 0 => potential[n] = p0[n]
    BY <1>10 DEF Grown
  <2>3. potential[node] - p0[node] <= limit(width)
    BY <1>2, <1>3, <2>1, <2>2, ActiveLow
  <2>4. potential[next] < reach(start, width)
    <3>1. /\ potential[next] \in Int /\ potential[node] \in Int /\ p0[node] \in Int
          /\ p0[node] <= start
      BY <1>2, <1>3, <2>1
    <3>2. /\ gt_cost(arc) \in Int /\ gt_cost(arc) >= - first_epsilon
          /\ width = 2 * first_epsilon
      BY <1>2, <1>3, FirstEpsilon DEF width
    <3>3. gt_cost(arc) + potential[next] - potential[node] < 0
      BY <1>3 DEF Down, rcost
    <3>4. limit(width) \in Nat /\ reach(start, width) = start + limit(width) + width
      BY <2>1, ShareType
    <3> HIDE DEF next
    <3> QED  BY <2>1, <2>3, <3>1, <3>2, <3>3, <3>4
  <2>5. \E m \in Node : q[next] <= potential[m] + width
    <3> HIDE DEF next
    <3> QED  BY <1>2, <1>3, <1>7, <2>1, RelabeledHigh
  <2>6. Within(p0, q, start, width)
    <3> HIDE DEF next
    <3>1. /\ start \in Int /\ \A n \in Node : p0[n] <= potential[n]
          /\ potential[next] <= q[next]
      BY <1>3, <1>8, <2>1
    <3> QED  BY <1>2, <1>3, <1>7, <2>1, <2>4, <2>5, <3>1, WithinAlone
  <2>7. \A n \in Node : excess'[n] < 0 => q[n] = p0[n]
    <3> SUFFICES ASSUME NEW n \in Node, excess'[n] < 0 PROVE q[n] = p0[n]
      OBVIOUS
    <3>1. excess[n] < 0 /\ excess[n] \in Int
      BY <1>2, <1>9
    <3>2. n # next
      BY <1>1, <3>1
    <3> QED  BY <1>7, <2>2, <3>1, <3>2
  <2> QED  BY <1>1, <1>8, <1>9, <1>10, <2>6, <2>7, GrownStep DEF q
<1> QED  BY <1>1, <1>10, RefiningStep DEF Started, Refining

(* A node with excess is relabeled and does not get above the limit.       *)
LEMMA EndScanHeight ==
  ASSUME IInv, IInv', HeightOK, EndScan
  PROVE  HeightOK'
<1>1. /\ pc = "scan" /\ pc' = "discharge" /\ ~ Scanning /\ UNCHANGED problem /\ UNCHANGED flows
      /\ epsilon' = epsilon /\ result' = result
      /\ IF excess[node] > 0
         THEN potential' = [potential EXCEPT ![node] = relabeled(node)]
         ELSE potential' = potential
  BY DEF EndScan, loops
<1>2. CASE ~ (excess[node] > 0)
  BY <1>1, <1>2, QuietStep DEF Started, Refining
<1>3. CASE excess[node] > 0
  <2> DEFINE q == potential'
  <2>1. /\ TypeOK /\ NetworkTypeOK /\ PricesOK /\ PricesOK' /\ potential \in [Node -> Int]
        /\ epsilon \in Nat /\ epsilon >= 1 /\ excess \in [Node -> Int] /\ q \in [Node -> Int]
        /\ node \in Node /\ order \in Orders /\ capacity' = capacity /\ excess' = excess
    BY <1>1 DEF IInv, TypeOK, NetworkTypeOK, PricesOK, Started, Refining, flows
  <2>2. \A a \in node_adjacency(node) : ~ Down(capacity, potential, a)
    <3>1. arc = NO_ARC
      BY <1>1, <1>3 DEF Scanning
    <3>2. position[node] = NO_ARC /\ arcs_from(node, NO_ARC) = {}
      BY <1>1, <2>1, <3>1, LoopFacts DEF position
    <3>3. Skipped(capacity, potential, position)
      BY <1>1, <2>1 DEF PricesOK, Refining
    <3> QED  BY <2>1, <3>2, <3>3 DEF Skipped
  <2>3. relabeled(node) \in Int /\ relabeled(node) >= potential[node] + epsilon
    BY <2>1, <2>2, RelabeledValue
  <2>4. q = [potential EXCEPT ![node] = relabeled(node)]
    BY <1>1, <1>3
  <2>5. NearOptimal(capacity, q, epsilon)
    <3>1. NearOptimal(capacity, potential, epsilon)'
      BY <1>1, <2>1 DEF PricesOK, Refining
    <3> QED  BY <1>1, <2>1, <3>1, NearOptimalNext
  <2> HIDE DEF q
  <2>6. q[node] = relabeled(node) /\ \A n \in Node : n # node => q[n] = potential[n]
    BY <2>1, <2>4
  <2>7. \A n \in Node : potential[n] <= q[n]
    BY <2>1, <2>3, <2>6
  <2>8. ASSUME NEW c0 \in [Arc -> Nat], NEW p0 \in [Node -> Int], Grown(c0, p0)
        PROVE  Grown(c0, p0)'
    <3>1. /\ epsilon <= first_epsilon /\ width \in Nat /\ start \in Nat
          /\ Moved(c0, calm, capacity, excess) /\ NearOptimal(c0, p0, first_epsilon)
          /\ \A n \in Node : p0[n] <= start /\ p0[n] <= potential[n]
          /\ Within(p0, potential, start, width)
      BY <1>1, <2>8, GrownType DEF Started, Refining
    <3>2. \A n \in Node : excess[n] < 0 => q[n] = p0[n]
      <4> SUFFICES ASSUME NEW n \in Node, excess[n] < 0 PROVE q[n] = p0[n]
        OBVIOUS
      <4>1. n # node /\ potential[n] = p0[n]
        BY <1>3, <2>1, <2>8 DEF Grown
      <4> QED  BY <2>6, <4>1
    <3>3. q[node] - p0[node] <= limit(width)
      BY <1>3, <2>1, <2>5, <3>1, <3>2, ActiveLow
    <3>4. q[node] <= reach(start, width)
      <4>1. limit(width) \in Nat /\ reach(start, width) = start + limit(width) + width
        BY <3>1, ShareType
      <4>2. p0[node] <= start /\ p0[node] \in Int /\ q[node] \in Int
        BY <2>1, <3>1
      <4> QED  BY <3>1, <3>3, <4>1, <4>2
    <3>5. Within(p0, q, start, width)
      <4>1. start \in Int /\ potential[node] <= q[node] /\ \A n \in Node : p0[n] <= potential[n]
        BY <2>1, <2>7, <3>1
      <4> QED  BY <2>1, <2>6, <3>1, <3>4, <4>1, WithinAlone
    <3>6. Moved(capacity, excess, capacity', excess')
      BY <2>1, NothingMoved
    <3>7. \A n \in Node : excess'[n] < 0 => q[n] = p0[n]
      BY <2>1, <3>2
    <3> QED  BY <1>1, <2>7, <2>8, <3>5, <3>6, <3>7, GrownStep DEF q
  <2> QED  BY <1>1, <2>8, RefiningStep DEF Started, Refining
<1> QED  BY <1>2, <1>3

(* A price update lifts no node by more than the last that the flood       *)
(* reached, which has excess and does not get above the limit.             *)
LEMMA RaiseHeight ==
  ASSUME IInv, IInv', HeightOK, LastOK, RaisePrices
  PROVE  HeightOK'
<1> DEFINE q == potential'
           d == epsilon * maximum_distance
<1>1. /\ pc = "raise" /\ pc' = "main" /\ UNCHANGED problem /\ UNCHANGED flows
      /\ epsilon' = epsilon /\ result' = result
      /\ q = [n \in Node |-> potential[n] + epsilon * rise(n)]
  BY DEF RaisePrices, loops
<1>2. /\ TypeOK /\ NetworkTypeOK /\ PricesOK' /\ potential \in [Node -> Int]
      /\ epsilon \in Nat /\ excess \in [Node -> Int] /\ q \in [Node -> Int]
      /\ node \in Node /\ capacity' = capacity /\ excess' = excess
      /\ maximum_distance \in Nat /\ distance \in [Node -> Nat]
  BY <1>1 DEF IInv, TypeOK, NetworkTypeOK, flows
<1>3. /\ excess[node] > 0 /\ distance[node] = maximum_distance
      /\ \A n \in Node : excess[n] < 0 => distance[n] = 0
  BY <1>1 DEF LastOK, IInv, FloodOK, ExcessOK
<1>4. NearOptimal(capacity, q, epsilon)
  <2>1. NearOptimal(capacity, potential, epsilon)'
    BY <1>1, <1>2 DEF PricesOK, Refining
  <2> QED  BY <1>1, <1>2, <2>1, NearOptimalNext
<1>5. ASSUME NEW n \in Node
      PROVE  /\ rise(n) \in Nat /\ rise(n) <= maximum_distance
             /\ distance[n] = 0 => rise(n) = 0
             /\ n = node => rise(n) = maximum_distance
  <2>1. distance[n] \in Nat
    BY <1>2
  <2> QED  BY <1>2, <1>3, <2>1 DEF rise, MIN
<1>6. ASSUME NEW n \in Node
      PROVE  /\ potential[n] <= q[n] /\ q[n] <= potential[n] + d
             /\ distance[n] = 0 => q[n] = potential[n]
             /\ n = node => q[n] = potential[n] + d
  <2> DEFINE x == epsilon * rise(n)
  <2>1. q[n] = potential[n] + x /\ potential[n] \in Int
    BY <1>1, <1>2
  <2>2. x \in Int /\ x >= 0 /\ x <= d
    <3>1. rise(n) \in Int /\ maximum_distance \in Int /\ rise(n) <= maximum_distance /\ rise(n) >= 0
      BY <1>2, <1>5
    <3>2. epsilon * rise(n) <= maximum_distance * epsilon
      BY <1>2, <3>1, TimesFacts
    <3> QED  BY <1>2, <3>1, <3>2, TimesFacts
  <2>3. distance[n] = 0 => x = 0
    BY <1>2, <1>5
  <2>4. n = node => x = d
    BY <1>5
  <2>5. d \in Int
    BY <1>2
  <2> HIDE DEF x, d, q
  <2> QED  BY <2>1, <2>2, <2>3, <2>4, <2>5
<1>7. d \in Nat
  BY <1>2
<1> HIDE DEF q, d
<1>8. ASSUME NEW c0 \in [Arc -> Nat], NEW p0 \in [Node -> Int], Grown(c0, p0)
      PROVE  Grown(c0, p0)'
  <2>1. /\ epsilon <= first_epsilon /\ width \in Nat /\ start \in Nat
        /\ Moved(c0, calm, capacity, excess) /\ NearOptimal(c0, p0, first_epsilon)
        /\ Within(p0, potential, start, width)
    BY <1>1, <1>8, GrownType DEF Started, Refining
  <2>2. \A n \in Node : excess[n] < 0 => q[n] = p0[n]
    BY <1>3, <1>6, <1>8 DEF Grown
  <2>3. q[node] - p0[node] <= limit(width)
    BY <1>2, <1>3, <1>4, <2>1, <2>2, ActiveLow
  <2>4. Within(p0, q, start, width)
    <3>1. start \in Int /\ q[node] = potential[node] + d
          /\ \A n \in Node : potential[n] <= q[n] /\ q[n] <= potential[n] + d
      BY <1>2, <1>6, <2>1
    <3> QED  BY <1>2, <1>7, <2>1, <2>3, <3>1, WithinTogether
  <2>5. Moved(capacity, excess, capacity', excess')
    BY <1>2, NothingMoved
  <2>6. /\ \A n \in Node : potential[n] <= q[n]
        /\ \A n \in Node : excess'[n] < 0 => q[n] = p0[n]
    BY <1>2, <1>6, <2>2
  <2> QED  BY <1>1, <1>8, <2>4, <2>5, <2>6, GrownStep DEF q
<1> QED  BY <1>1, <1>8, RefiningStep DEF Started, Refining
-----------------------------------------------------------------------------
(* A refinement begins with the prices and the flow of the one before.     *)
LEMMA RefineHeight ==
  ASSUME IInv, IInv', HeightOK, Refine
  PROVE  HeightOK'
<1>1. /\ pc = "scale" /\ epsilon > 1 /\ epsilon' = nextEpsilon(epsilon) /\ pc' = "saturate"
      /\ UNCHANGED problem /\ potential' = potential /\ result' = result
      /\ capacity' = capacity /\ excess' = excess
  BY DEF Refine, nextEpsilon, flows
<1>2. /\ NetworkTypeOK /\ epsilon \in Nat /\ capacity \in [Arc -> Nat]
      /\ potential \in [Node -> Int] /\ excess \in [Node -> Int]
      /\ NearOptimal(capacity, potential, epsilon)
  BY <1>1 DEF IInv, TypeOK, NetworkTypeOK, PricesOK
<1>3. /\ first_epsilon \in Nat /\ width \in Nat /\ refinement_rise \in Nat
      /\ first_epsilon' = first_epsilon /\ width' = width /\ refinement_rise' = refinement_rise
  BY <1>1, <1>2, FirstEpsilon, HeightStatic
<1>4. /\ epsilon <= first_epsilon /\ refinements[epsilon] <= refinements[first_epsilon]
      /\ \A n \in Node : /\ excess[n] = 0
                         /\ potential[n] <= refinement_rise
                              * (refinements[first_epsilon] - refinements[epsilon])
  BY <1>1 DEF HeightOK
<1>5. /\ epsilon' \in Nat /\ 2 * epsilon' <= epsilon
      /\ refinements[epsilon] = 1 + refinements[epsilon']
      /\ refinements[epsilon] \in Nat /\ refinements[epsilon'] \in Nat
      /\ refinements[first_epsilon] \in Nat
  BY <1>1, <1>2, <1>3, NextEpsilon, RefinementsFacts
<1>6. start' = refinement_rise * (refinements[first_epsilon] - refinements[epsilon])
  <2>1. refinements[first_epsilon] - refinements[epsilon'] - 1
          = refinements[first_epsilon] - refinements[epsilon]
    BY <1>5
  <2>2. start' = refinement_rise * (refinements[first_epsilon] - refinements[epsilon'] - 1)
    BY <1>3 DEF start
  <2> QED  BY <2>1, <2>2
<1>7. PICK c0 \in [Arc -> Nat], p0 \in [Node -> Int] : c0 = capacity /\ p0 = potential
  BY <1>2
<1>8. Moved(c0, calm, capacity, excess)'
  <2>1. /\ \A n : node_adjacency(n)' = node_adjacency(n)
        /\ \A n \in Node : calm'[n] = 0 /\ excess'[n] = 0
    BY <1>1, <1>4, StaticFacts DEF calm
  <2>2. capacity' = c0
    BY <1>1, <1>7
  <2>3. \A n \in Node : (balance(capacity, n))' = balance(c0, n)'
    BY <2>1, <2>2 DEF balance, carried, arc_dual, arc_is_dual
  <2>4. \A a \in Arc : capacity'[a] + capacity'[arc_dual(a)] = c0[a] + c0[arc_dual(a)]
    BY <2>2
  <2>5. \A a : arc_dual(a)' = arc_dual(a)
    BY DEF arc_dual
  <2> QED  BY <2>1, <2>3, <2>4, <2>5 DEF Moved
<1>9. NearOptimal(c0, p0, first_epsilon)'
  <2>1. ASSUME NEW a \in Arc, c0[a] > 0 PROVE rcost(p0, a) >= - first_epsilon
    <3>1. rcost(p0, a) >= - epsilon
      BY <1>2, <1>7, <2>1 DEF NearOptimal
    <3>2. rcost(p0, a) \in Int
      BY <1>2, CostFacts
    <3> QED  BY <1>2, <1>3, <1>4, <3>1, <3>2
  <2>2. \A a : rcost(p0, a)' = rcost(p0, a)
    BY <1>1, StaticFacts DEF rcost
  <2> QED  BY <1>3, <2>1, <2>2 DEF NearOptimal
<1>10. start' \in Int /\ \A n \in Node : p0[n] <= start'
  <2> DEFINE k == refinements[first_epsilon] - refinements[epsilon]
  <2>1. k \in Int
    BY <1>5
  <2> HIDE DEF k
  <2>2. refinement_rise * k \in Int
    BY <1>3, <2>1
  <2> QED  BY <1>4, <1>6, <1>7, <2>2 DEF k
<1>11. Within(p0, potential, start, width)'
  <2>1. Within(p0, potential', start', width')
    <3>1. potential' \in [Node -> Int] /\ \A n \in Node : potential'[n] = p0[n]
      BY <1>1, <1>2, <1>7
    <3> QED  BY <1>3, <1>10, <3>1, WithinStart
  <2> QED  BY <2>1 DEF Within, share, reach, limit
<1>12. Grown(c0, p0)'
  <2>1. \A n \in Node : p0[n] <= potential'[n] /\ potential'[n] = p0[n]
    BY <1>1, <1>2, <1>7
  <2> QED  BY <1>8, <1>9, <1>10, <1>11, <2>1 DEF Grown
<1>13. result' = "none"
  BY <1>1 DEF HeightOK
<1>14. /\ 2 * epsilon' <= first_epsilon'
       /\ refinements[epsilon'] + 1 <= refinements[first_epsilon']
  <2>1. 2 * epsilon' <= first_epsilon
    <3>1. 2 * epsilon' <= epsilon /\ epsilon <= first_epsilon
      BY <1>4, <1>5
    <3>2. epsilon' \in Nat /\ epsilon \in Nat /\ first_epsilon \in Nat
      BY <1>2, <1>3, <1>5
    <3>3. \A x, y, z \in Nat : 2 * x <= y /\ y <= z => 2 * x <= z
      OBVIOUS
    <3> QED  BY <3>1, <3>2, <3>3
  <2>2. refinements[epsilon'] + 1 <= refinements[first_epsilon]
    BY <1>4, <1>5
  <2> QED  BY <1>3, <2>1, <2>2
<1> QED  BY <1>1, <1>12, <1>13, <1>14 DEF HeightOK, Started

(* It ends no more than refinement_rise above where it began.              *)
LEMMA RefinedHeight ==
  ASSUME IInv, IInv', QueueOK, HeightOK, Refined
  PROVE  HeightOK'
<1>1. /\ pc = "main" /\ pc' = "scale" /\ UNCHANGED problem /\ potential' = potential
      /\ epsilon' = epsilon /\ result' = result /\ excess' = excess
  BY DEF Refined, flows, loops
<1>2. \A n \in Node : excess[n] = 0
  BY RefinedBalanced
<1>3. PICK c0 \in [Arc -> Nat], p0 \in [Node -> Int] : Grown(c0, p0)
  BY <1>1 DEF HeightOK, Started, Refining
<1>4. /\ NetworkTypeOK /\ potential \in [Node -> Int] /\ epsilon <= first_epsilon
      /\ width \in Nat /\ refinement_rise \in Nat /\ start \in Nat
      /\ refinements[epsilon] \in Nat /\ refinements[first_epsilon] \in Nat
      /\ refinements[epsilon] + 1 <= refinements[first_epsilon]
      /\ \A n \in Node : p0[n] <= potential[n]
      /\ Within(p0, potential, start, width)
  BY <1>1, <1>3, GrownType DEF Started, Refining
<1>5. start + refinement_rise
        = refinement_rise * (refinements[first_epsilon] - refinements[epsilon])
  <2> DEFINE k == refinements[first_epsilon] - refinements[epsilon]
  <2>1. k \in Int /\ start = refinement_rise * (k - 1)
    BY <1>4 DEF start
  <2> HIDE DEF k
  <2>2. start + refinement_rise = refinement_rise * k
    BY <1>4, <2>1
  <2> QED  BY <2>2 DEF k
<1>6. ASSUME NEW n \in Node
      PROVE  potential[n] <= refinement_rise
                               * (refinements[first_epsilon] - refinements[epsilon])
  <2>1. potential[n] <= start + max_num_nodes * (max_num_nodes + 1) * width
    BY <1>4, WithinEnd
  <2>2. refinement_rise = max_num_nodes * (max_num_nodes + 1) * width
    BY <1>4, FirstEpsilon
  <2> QED  BY <1>5, <2>1, <2>2
<1>7. first_epsilon' = first_epsilon /\ refinement_rise' = refinement_rise
  BY <1>1, HeightStatic
<1>8. result' = "none"
  BY <1>1 DEF HeightOK
<1> QED  BY <1>1, <1>2, <1>4, <1>6, <1>7, <1>8 DEF HeightOK, Started, Refining

(* Where the number of refinements left is subtracted, prices are lower.   *)
LEMMA UpperHalf ==
  ASSUME NetworkTypeOK, epsilon \in Nat, potential \in [Node -> Int], NEW n \in Node,
         \/ potential[n] = 0
         \/ /\ refinements[epsilon] <= refinements[first_epsilon]
            /\ potential[n] <= refinement_rise
                                 * (refinements[first_epsilon] - refinements[epsilon])
  PROVE  potential[n] <= refinements[first_epsilon] * refinement_rise
<1>1. first_epsilon \in Nat /\ refinement_rise \in Nat
  BY FirstEpsilon
<1>2. refinements[first_epsilon] \in Nat /\ refinements[epsilon] \in Nat
  BY <1>1, RefinementsFacts
<1> DEFINE x == refinements[first_epsilon]
           y == refinements[first_epsilon] - refinements[epsilon]
<1>3. x \in Int /\ y \in Int /\ y <= x /\ x >= 0
  BY <1>2
<1> HIDE DEF x, y
<1>4. refinement_rise * y <= x * refinement_rise
  BY <1>1, <1>3, TimesFacts
<1>5. refinement_rise * x >= 0 /\ refinement_rise * x = x * refinement_rise
      /\ refinement_rise * x \in Int /\ refinement_rise * y \in Int
  BY <1>1, <1>3, TimesFacts
<1>6. potential[n] = 0 \/ potential[n] <= refinement_rise * y
  BY DEF y
<1>7. potential[n] <= x * refinement_rise
  BY <1>4, <1>5, <1>6
<1> QED  BY <1>7 DEF x

(* The steps at the two ends of a call.                                    *)
LEMMA EndsHeight ==
  ASSUME IInv, IInv', HeightOK,
         \/ \E supply \in Supplies, c \in Costs : goldberg_tarjan_mcf(supply, c)
         \/ goldberg_tarjan_feasible \/ Fail \/ Return
  PROVE  HeightOK'
<1>1. CASE \E supply \in Supplies, c \in Costs : goldberg_tarjan_mcf(supply, c)
  <2>1. pc = "idle" /\ result = "none" /\ pc' = "feasible" /\ result' = result
        /\ potential' = potential
    BY <1>1 DEF goldberg_tarjan_mcf
  <2> QED  BY <2>1 DEF HeightOK, Started, Refining
<1>2. CASE goldberg_tarjan_feasible
  <2> DEFINE met == Abstract!FeasibleFlows # {}
  <2>1. PICK f \in IF met THEN Abstract!FeasibleFlows ELSE Abstract!Flows :
          excess' = [n \in Node |-> Abstract!Excess(f, n)]
    BY <1>2 DEF goldberg_tarjan_feasible
  <2>2. /\ pc = "feasible" /\ UNCHANGED problem /\ result' = result
        /\ IF met THEN pc' = "scale" /\ epsilon' = first_epsilon ELSE pc' = "fail"
        /\ potential' = [n \in Node |-> 0]
    BY <1>2 DEF goldberg_tarjan_feasible, first_epsilon
  <2>3. result' = "none"
    BY <2>2 DEF HeightOK
  <2>4. \A n \in Node : potential'[n] = 0
    BY <2>2
  <2>5. CASE ~ met
    <3>1. pc' = "fail"
      BY <2>2, <2>5
    <3> QED  BY <2>3, <2>4, <3>1 DEF HeightOK, Started, Refining
  <2>6. CASE met
    <3>1. pc' = "scale" /\ epsilon' = first_epsilon /\ first_epsilon' = first_epsilon
      BY <2>2, <2>6, HeightStatic
    <3>2. \A n \in Node : excess'[n] = 0
      <4>1. f \in Abstract!FeasibleFlows
        BY <2>1, <2>6
      <4>2. \A n \in Node : Abstract!Excess(f, n) = 0
        BY <4>1, AbstractFacts DEF Abstract!FeasibleFlows
      <4> QED  BY <2>1, <4>2
    <3>3. first_epsilon \in Nat /\ refinement_rise' = refinement_rise /\ refinement_rise \in Nat
      BY <2>2, FirstEpsilon, HeightStatic DEF IInv, TypeOK
    <3>4. refinements[first_epsilon] \in Nat
      BY <3>3, RefinementsFacts
    <3>5. 0 <= refinement_rise * (refinements[first_epsilon] - refinements[first_epsilon])
      BY <3>3, <3>4
    <3>6. /\ epsilon' <= first_epsilon' /\ refinements[epsilon'] <= refinements[first_epsilon']
          /\ 0 <= refinement_rise' * (refinements[first_epsilon'] - refinements[epsilon'])
      BY <3>1, <3>3, <3>4, <3>5
    <3> QED  BY <2>3, <2>4, <3>1, <3>2, <3>6 DEF HeightOK, Started, Refining
  <2> QED  BY <2>5, <2>6
<1>3. CASE Fail \/ Return
  <2>1. /\ pc \in {"fail", "scale"} /\ pc' = "idle" /\ result' # "none"
        /\ UNCHANGED problem /\ potential' = potential
    BY <1>3 DEF Fail, Return
  <2>2. NetworkTypeOK /\ epsilon \in Nat /\ potential \in [Node -> Int]
    BY DEF IInv, TypeOK, NetworkTypeOK
  <2>3. \A n \in Node : potential[n] <= refinements[first_epsilon] * refinement_rise
    BY <2>1, <2>2, UpperHalf DEF HeightOK
  <2>4. first_epsilon' = first_epsilon /\ refinement_rise' = refinement_rise
    BY <2>1, HeightStatic
  <2> QED  BY <2>1, <2>3, <2>4 DEF HeightOK, Started, Refining
<1> QED  BY <1>1, <1>2, <1>3

(* Every step keeps prices within their limits.                            *)
LEMMA HeightStep ==
  ASSUME IInv, IInv', QueueOK, LastOK, HeightOK, [Next]_vars
  PROVE  HeightOK'
<1>1. CASE UNCHANGED vars
  <2>1. /\ UNCHANGED problem /\ UNCHANGED flows /\ potential' = potential
        /\ epsilon' = epsilon /\ pc' = pc /\ result' = result /\ excess' = excess
    BY <1>1 DEF vars, loops, flows
  <2>2. first_epsilon' = first_epsilon /\ refinement_rise' = refinement_rise
    BY <2>1, HeightStatic
  <2>3. CASE Started
    BY <2>1, <2>3, QuietStep DEF Started, Refining
  <2>4. CASE ~ Started
    BY <2>1, <2>2, <2>4 DEF HeightOK, Started, Refining
  <2> QED  BY <2>3, <2>4
<1>2. CASE \/ \E supply \in Supplies, c \in Costs : goldberg_tarjan_mcf(supply, c)
           \/ goldberg_tarjan_feasible \/ Fail \/ Return
  BY <1>2, EndsHeight
<1>3. CASE Refine
  BY <1>3, RefineHeight
<1>4. CASE Refined
  BY <1>4, RefinedHeight
<1>5. CASE Saturate
  BY <1>5, SaturateHeight
<1>6. CASE Push
  BY <1>6, PushHeight
<1>7. CASE RelabelHead
  BY <1>7, RelabelHeadHeight
<1>8. CASE EndScan
  BY <1>8, EndScanHeight
<1>9. CASE RaisePrices
  BY <1>9, RaiseHeight
<1>10. CASE \/ Saturated \/ Enqueue \/ Enqueued \/ Pop \/ UpdatePrices \/ FloodNode
            \/ FloodArc \/ BeginScan \/ Discharged \/ PassArc
  <2>1. /\ UNCHANGED problem /\ UNCHANGED flows /\ potential' = potential
        /\ epsilon' = epsilon /\ result' = result /\ Started /\ Started'
        /\ pc' \in {"saturate", "enqueue"} => pc \in {"saturate", "enqueue"}
    BY <1>10 DEF Saturated, Enqueue, Enqueued, Pop, UpdatePrices, FloodNode, FloodArc,
       BeginScan, Discharged, PassArc, Scanning, loops, Started, Refining
  <2> QED  BY <2>1, QuietStep
<1> QED  BY <1>1, <1>2, <1>3, <1>4, <1>5, <1>6, <1>7, <1>8, <1>9, <1>10 DEF Next, Running

(* In every state that is reached.                                         *)
LEMMA HeightBounds ==
  ASSUME IInv, HeightOK
  PROVE  PricesBounded
<1>1. /\ NetworkTypeOK /\ epsilon \in Nat /\ potential \in [Node -> Int]
      /\ \A n \in Node : potential[n] >= 0
  BY DEF IInv, TypeOK, NetworkTypeOK, PricesOK
<1>2. ASSUME NEW n \in Node
      PROVE  potential[n] <= refinements[first_epsilon] * refinement_rise
  <2>1. CASE ~ Started
    <3>1. pc \in {"idle", "feasible", "fail", "scale"}
      BY <2>1 DEF IInv, TypeOK, Started, Refining
    <3> QED  BY <1>1, <3>1, UpperHalf DEF HeightOK
  <2>2. CASE Started
    <3>1. PICK c0 \in [Arc -> Nat], p0 \in [Node -> Int] : Grown(c0, p0)
      BY <2>2 DEF HeightOK
    <3>2. /\ width \in Nat /\ refinement_rise \in Nat /\ start \in Nat
          /\ refinements[epsilon] \in Nat /\ refinements[first_epsilon] \in Nat
          /\ refinements[epsilon] + 1 <= refinements[first_epsilon]
          /\ \A m \in Node : p0[m] <= potential[m]
          /\ Within(p0, potential, start, width)
      BY <2>2, <3>1, GrownType
    <3>3. potential[n] <= start + refinement_rise
      <4>1. potential[n] <= start + max_num_nodes * (max_num_nodes + 1) * width
        BY <1>1, <3>2, WithinEnd
      <4> QED  BY <1>1, <4>1, FirstEpsilon
    <3>4. start + refinement_rise
            = refinement_rise * (refinements[first_epsilon] - refinements[epsilon])
      <4> DEFINE k == refinements[first_epsilon] - refinements[epsilon]
      <4>1. k \in Int /\ start = refinement_rise * (k - 1)
        BY <3>2 DEF start
      <4> HIDE DEF k
      <4>2. start + refinement_rise = refinement_rise * k
        BY <3>2, <4>1
      <4> QED  BY <4>2 DEF k
    <3>5. refinements[epsilon] <= refinements[first_epsilon]
      BY <3>2
    <3> QED  BY <1>1, <3>3, <3>4, <3>5, UpperHalf
  <2> QED  BY <2>1, <2>2
<1> QED  BY <1>1, <1>2 DEF PricesBounded

(* Prices never become negative, and stay below a multiple of the first    *)
(* epsilon that only the numbers of nodes and of refinements decide,       *)
(* through every relabel, lookahead and price update.                      *)
THEOREM PricesStayBounded == Spec => []PricesBounded
<1> DEFINE I == IInv /\ QueueOK /\ LastOK /\ HeightOK
<1>1. Init => I
  <2>1. Init => QueueOK /\ LastOK
    BY DEF Init, QueueOK, LastOK
  <2>2. Init => HeightOK
    BY DEF Init, HeightOK, Started, Refining
  <2> QED  BY <2>1, <2>2, InitIInv
<1>2. I /\ [Next]_vars => I'
  BY NextIInv, QueueStep, LastStep, HeightStep
<1>3. I => PricesBounded
  BY HeightBounds
<1> QED  BY <1>1, <1>2, <1>3, PTL DEF Spec
=============================================================================
