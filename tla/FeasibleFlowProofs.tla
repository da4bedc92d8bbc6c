------------------------- MODULE FeasibleFlowProofs -------------------------
(* Proofs about FeasibleFlow, for every network: the assertions of         *)
(* BFS_path, get_augmenting_flow and simple_feasibleflow never fail, and   *)
(* BFS_path finds shortest paths exactly to what can be reached.           *)
EXTENDS FeasibleFlow, ResidualNetworkProofs

(* What the callers of simple_feasibleflow have to respect: there is       *)
(* something to send, and the ends are different ones.                     *)
CallsAllowed == 0 \notin Amounts /\ \A ends \in Terminals : ends[1] # ends[2]

Searched == {"search", "found", "missed", "measure"}

(* The nodes in the array are different ones that were seen, and an arc    *)
(* that led to a node leaves another that was seen and carries enough.     *)
TreeOK ==
  pc \in Searched =>
    /\ \A i, j \in 1 .. Len(queue) : queue[i] = queue[j] => i = j
    /\ \A i \in 1 .. Len(queue) : seen(queue[i])
    /\ \A n \in Node : prev[n] # NO_ARC =>
         seen(arc_tail(prev[n])) /\ traversable(prev[n])
    /\ \A a \in todo : seen(arc_tail(a)) /\ traversable(a)

(* An arc and its dual never hold INT64_MAX together.                      *)
PairsOK == \A a \in Arc : capacity[a] + capacity[arc_dual(a)] < INFINITE

(* What the place in the code says about the call.                         *)
CallOK ==
  /\ pc = "idle" /\ result = "none" => asked = 0
  /\ pc \in {"next", "measure", "commit"} => asked > 0
  /\ pc = "found" => destination \in Node /\ seen(destination)
  /\ asked > 0 =>
       /\ asked < INFINITE /\ cap_threshold = 1 /\ destination \in Node
       /\ CallsAllowed => source # destination

(* The walk back stays on nodes that were seen, and what it measures is    *)
(* finite as soon as there was an arc.                                     *)
MeasureOK ==
  pc \in {"measure", "commit"} =>
    /\ seen(walk) /\ flow > 0
    /\ \A a \in path : flow <= capacity[a]
    /\ walk = destination \/ flow < INFINITE

SafeOK == CallsAllowed => AssertionsHold

IInv == TypeOK /\ TreeOK /\ PairsOK /\ CallOK /\ MeasureOK /\ SafeOK
-----------------------------------------------------------------------------
LEMMA Sizes ==
  /\ max_num_nodes \in Nat \ {0} /\ num_arcs \in Nat /\ INFINITE \in Nat
  /\ 0 \in Node /\ NO_ARC \notin Arc /\ NO_NODE \notin Node
  /\ IsFiniteSet(Node) /\ Cardinality(Node) = max_num_nodes
BY NetworkSizes, NetworksAssumption

(* The types of what one arc holds.                                        *)
LEMMA CapacityFacts ==
  ASSUME TypeOK, PairsOK, NEW a \in Arc
  PROVE  capacity[a] \in Nat /\ capacity[a] < INFINITE
<1>1. NetworkTypeOK /\ capacity \in [Arc -> Nat] /\ INFINITE \in Nat
  BY Sizes DEF TypeOK, NetworkTypeOK
<1>2. arc_dual(a) \in Arc
  BY <1>1, ArcFacts
<1>3. capacity[a] \in Nat /\ capacity[arc_dual(a)] \in Nat
  BY <1>1, <1>2
<1> QED  BY <1>1, <1>3 DEF PairsOK

(* Steps that leave the network and its capacities alone.                  *)
LEMMA SameNetwork ==
  ASSUME UNCHANGED networkVars
  PROVE  /\ NetworkTypeOK => NetworkTypeOK'
         /\ PairsOK => PairsOK'
         /\ \A a : arc_tail(a)' = arc_tail(a)
BY DEF networkVars, NetworkTypeOK, PairsOK, arc_tail

(* "A maximum size of max_num_nodes is sufficient": a node that is not in  *)
(* the array finds a place in it.                                          *)
LEMMA RoomInQueue ==
  ASSUME NEW q \in Seq(Node), NEW n \in Node,
         \A i, j \in 1 .. Len(q) : q[i] = q[j] => i = j,
         \A i \in 1 .. Len(q) : q[i] # n
  PROVE  Len(q) < max_num_nodes
<1> SUFFICES ASSUME max_num_nodes <= Len(q) PROVE FALSE
  BY Sizes
<1>1. /\ IsFiniteSet(1 .. Len(q)) /\ Cardinality(1 .. Len(q)) = Len(q)
      /\ Len(q) \in Nat
  <2> DEFINE last == Len(q)
  <2>1. last \in Nat
    OBVIOUS
  <2> HIDE DEF last
  <2>2. 1 \in Int /\ last \in Int /\ last - 1 + 1 = last /\ (1 > last => last = 0)
    BY <2>1
  <2>3. IsFiniteSet(1 .. last) /\ Cardinality(1 .. last) = last
    BY <2>2, FS_Interval
  <2> QED  BY <2>1, <2>3 DEF last
<1>2. /\ IsFiniteSet(Node \ {n})
      /\ Cardinality(Node \ {n}) = max_num_nodes - 1
  BY Sizes, FS_RemoveElement
<1>3. [i \in 1 .. Len(q) |-> q[i]] \in [1 .. Len(q) -> Node \ {n}]
  OBVIOUS
<1>4. Cardinality(Node \ {n}) < Cardinality(1 .. Len(q))
  BY <1>1, <1>2, Sizes
<1>5. \E i, j \in 1 .. Len(q) :
        i # j /\ [k \in 1 .. Len(q) |-> q[k]][i] = [k \in 1 .. Len(q) |-> q[k]][j]
  BY <1>1, <1>2, <1>3, <1>4, FS_PigeonHole
<1> QED  BY <1>5
-----------------------------------------------------------------------------
LEMMA InitIInv == Init => IInv
<1> SUFFICES ASSUME Init PROVE IInv
  OBVIOUS
<1> USE Sizes
<1>1. NetworkTypeOK
  <2>1. \A a \in Arc : arc_dual(a) \in Arc
    BY DEF Arc, arc_dual
  <2>2. \A a \in Arc : cost[a] = 0 /\ cost[arc_dual(a)] = 0
    BY <2>1 DEF Init
  <2>3. \A a \in Arc : cost[arc_dual(a)] = - cost[a]
    BY <2>2
  <2>4. /\ graph \in [from : [ProblemArc -> Node], to : [ProblemArc -> Node]]
        /\ capacity \in [Arc -> Nat] /\ cost \in [Arc -> Int]
        /\ potential \in [Node -> Int]
    BY NetworksAssumption DEF Init
  <2> QED  BY <2>3, <2>4 DEF NetworkTypeOK
<1>2. /\ << >> \in Seq(Node) /\ Len(<< >>) = 0 /\ INFINITE \in 0 .. INFINITE
      /\ 0 \in 0 .. 0
  OBVIOUS
<1>3. TypeOK
  BY <1>1, <1>2 DEF Init, TypeOK
<1>4. PairsOK
  BY NetworksAssumption DEF Init, PairsOK
<1> QED
  BY <1>3, <1>4
  DEF Init, IInv, TreeOK, CallOK, MeasureOK, SafeOK, AssertionsHold, Searched

(* What begin_search leaves: the source alone is seen.                     *)
LEMMA BeginOK ==
  ASSUME NEW s \in Node, source' = s, begin_search(s)
  PROVE  /\ TreeOK' /\ queue' \in Seq(Node) /\ queue_start' \in 0 .. Len(queue')
         /\ todo' \subseteq Arc /\ prev' \in [Node -> Arc \union {NO_ARC}]
         /\ pc' = "search"
<1>1. /\ queue' = <<s>> /\ queue_start' = 0 /\ todo' = {} /\ pc' = "search"
      /\ prev' = [n \in Node |-> NO_ARC]
  BY DEF begin_search
<1>2. <<s>> \in Seq(Node) /\ Len(<<s>>) = 1 /\ <<s>>[1] = s /\ 0 \in 0 .. 1
  OBVIOUS
<1>3. 1 .. Len(queue') = {1} /\ queue'[1] = s
  BY <1>1, <1>2
<1>4. \A n \in Node : prev'[n] = NO_ARC
  BY <1>1
<1>5. TreeOK'
  BY <1>1, <1>3, <1>4 DEF TreeOK, seen
<1> QED  BY <1>1, <1>2, <1>5
-----------------------------------------------------------------------------
LEMMA BFSPathKeeps ==
  ASSUME IInv, NEW s \in Node, NEW d \in Node \union {NO_NODE},
         NEW t \in Thresholds, BFS_path(s, d, t)
  PROVE  IInv'
<1>1. /\ UNCHANGED networkVars /\ UNCHANGED <<asked, amount, measured, result>>
      /\ source' = s /\ destination' = d /\ cap_threshold' = t
      /\ begin_search(s) /\ pc = "idle" /\ result = "none"
  BY DEF BFS_path, networkVars
<1>2. /\ TreeOK' /\ queue' \in Seq(Node) /\ queue_start' \in 0 .. Len(queue')
      /\ todo' \subseteq Arc /\ prev' \in [Node -> Arc \union {NO_ARC}]
      /\ pc' = "search"
  BY <1>1, BeginOK
<1>3. NetworkTypeOK' /\ PairsOK'
  BY <1>1, SameNetwork DEF IInv, TypeOK
<1>4. TypeOK'
  BY <1>1, <1>2, <1>3 DEF IInv, TypeOK, measured
<1>5. asked' = 0
  BY <1>1 DEF IInv, CallOK
<1> QED
  BY <1>2, <1>3, <1>4, <1>5 DEF IInv, CallOK, MeasureOK, SafeOK, AssertionsHold

LEMMA SimpleFeasibleflowKeeps ==
  ASSUME IInv, NEW ends \in Terminals, NEW x \in Amounts,
         simple_feasibleflow(ends[1], ends[2], x)
  PROVE  IInv'
<1>1. /\ UNCHANGED networkVars /\ UNCHANGED <<search, measured, result>>
      /\ source' = ends[1] /\ destination' = ends[2] /\ cap_threshold' = 1
      /\ asked' = x /\ amount' = x
      /\ pc' = IF x > 0 THEN "next" ELSE "aborted"
  BY DEF simple_feasibleflow, networkVars
<1>2. /\ ends[1] \in Node /\ ends[2] \in Node
      /\ x \in Nat /\ x < INFINITE /\ x \in 0 .. x
  BY NetworksAssumption
<1>3. NetworkTypeOK' /\ PairsOK'
  BY <1>1, SameNetwork DEF IInv, TypeOK
<1>4. TypeOK'
  BY <1>1, <1>2, <1>3 DEF IInv, TypeOK, search, measured
<1>5. CallsAllowed => x > 0 /\ ends[1] # ends[2]
  BY <1>2 DEF CallsAllowed
<1>6. pc' \in {"next", "aborted"} /\ (pc' = "next" => x > 0)
  BY <1>1
<1>7. TreeOK' /\ MeasureOK'
  BY <1>6 DEF TreeOK, MeasureOK, Searched
<1>8. CallOK' /\ SafeOK'
  BY <1>1, <1>2, <1>5, <1>6 DEF CallOK, SafeOK, AssertionsHold
<1> QED  BY <1>3, <1>4, <1>7, <1>8 DEF IInv

LEMMA NextPathKeeps ==
  ASSUME IInv, NextPath
  PROVE  IInv'
<1>1. /\ UNCHANGED networkVars /\ pc = "next"
      /\ UNCHANGED <<source, destination, cap_threshold, asked, amount, measured>>
  BY DEF NextPath, networkVars, arguments
<1>2. NetworkTypeOK' /\ PairsOK' /\ source \in Node
  BY <1>1, SameNetwork DEF IInv, TypeOK
<1>3. CASE amount > 0
  <2>1. begin_search(source) /\ UNCHANGED result
    BY <1>3 DEF NextPath
  <2>2. /\ TreeOK' /\ queue' \in Seq(Node) /\ queue_start' \in 0 .. Len(queue')
        /\ todo' \subseteq Arc /\ prev' \in [Node -> Arc \union {NO_ARC}]
        /\ pc' = "search"
    BY <1>1, <1>2, <2>1, BeginOK
  <2>3. TypeOK'
    BY <1>1, <1>2, <2>1, <2>2 DEF IInv, TypeOK, measured
  <2> QED
    BY <1>1, <1>2, <2>2, <2>3
    DEF IInv, CallOK, MeasureOK, SafeOK, AssertionsHold
<1>4. CASE ~ (amount > 0)
  <2>1. pc' = "idle" /\ result' = "true" /\ UNCHANGED search
    BY <1>4 DEF NextPath, Return
  <2>2. TypeOK'
    BY <1>1, <1>2, <2>1 DEF IInv, TypeOK, measured, search
  <2> QED
    BY <1>1, <1>2, <2>1, <2>2
    DEF IInv, TreeOK, Searched, CallOK, MeasureOK, SafeOK, AssertionsHold
<1> QED  BY <1>3, <1>4
-----------------------------------------------------------------------------
LEMMA VisitKeeps ==
  ASSUME IInv, Visit
  PROVE  IInv'
<1> DEFINE cur == queue[queue_start + 1]
<1>1. /\ pc = "search" /\ queue_start < Len(queue)
      /\ queue_start' = queue_start + 1
      /\ UNCHANGED networkVars /\ UNCHANGED <<arguments, amount, measured, result>>
      /\ queue' = queue /\ prev' = prev
      /\ \/ cur = destination /\ pc' = "found" /\ todo' = todo
         \/ pc' = pc /\ todo' = {a \in node_adjacency(cur) : traversable(a)}
  BY DEF Visit, networkVars, arguments
<1>2. NetworkTypeOK' /\ PairsOK'
  BY <1>1, SameNetwork DEF IInv, TypeOK
<1>3. /\ queue \in Seq(Node) /\ queue_start \in 0 .. Len(queue)
      /\ queue_start + 1 \in 1 .. Len(queue)
  BY <1>1 DEF IInv, TypeOK
<1>4. cur \in Node /\ seen(cur)
  BY <1>1, <1>3 DEF IInv, TreeOK, Searched
<1>5. \A n : seen(n)' = seen(n)
  BY <1>1 DEF seen, arguments
<1>6. \A a : traversable(a)' = traversable(a) /\ arc_tail(a)' = arc_tail(a)
  BY <1>1, SameNetwork DEF traversable, arguments, networkVars
<1>7. \A a \in todo' : seen(arc_tail(a)) /\ traversable(a) /\ a \in Arc
  BY <1>1, <1>4 DEF IInv, TypeOK, TreeOK, Searched, node_adjacency
<1>8. TypeOK'
  BY <1>1, <1>2, <1>3, <1>7 DEF IInv, TypeOK, arguments, measured
<1>9. TreeOK'
  BY <1>1, <1>5, <1>6, <1>7 DEF IInv, TreeOK, Searched
<1>10. CallOK' /\ SafeOK' /\ MeasureOK'
  BY <1>1, <1>4, <1>5
  DEF IInv, CallOK, SafeOK, AssertionsHold, MeasureOK, arguments
<1> QED  BY <1>2, <1>8, <1>9, <1>10 DEF IInv

(* The place for a node that was not seen is there: the assertion on the   *)
(* array never fails.                                                      *)
LEMMA DiscoverKeeps ==
  ASSUME IInv, NEW arc \in todo, Discover(arc)
  PROVE  IInv'
<1> DEFINE next == arc_head(arc)
<1>1. /\ pc = "search" /\ todo' = todo \ {arc} /\ queue_start' = queue_start
      /\ UNCHANGED networkVars /\ UNCHANGED <<arguments, amount, measured, result>>
  BY DEF Discover, networkVars, arguments
<1>2. NetworkTypeOK' /\ PairsOK'
  BY <1>1, SameNetwork DEF IInv, TypeOK
<1>3. arc \in Arc /\ next \in Node /\ arc # NO_ARC
  BY ArcFacts, Sizes DEF IInv, TypeOK
<1>4. \A a : traversable(a)' = traversable(a) /\ arc_tail(a)' = arc_tail(a)
  BY <1>1, SameNetwork DEF traversable, arguments, networkVars
<1>5. CASE seen(next)
  <2>1. UNCHANGED <<pc, queue, prev>>
    BY <1>5 DEF Discover
  <2>2. \A n : seen(n)' = seen(n)
    BY <1>1, <2>1 DEF seen, arguments
  <2>3. TypeOK'
    BY <1>1, <1>2, <2>1 DEF IInv, TypeOK, arguments, measured
  <2>4. TreeOK'
    BY <1>1, <1>4, <2>1, <2>2 DEF IInv, TreeOK, Searched
  <2>5. CallOK' /\ SafeOK' /\ MeasureOK'
    BY <1>1, <2>1, <2>2
    DEF IInv, CallOK, SafeOK, AssertionsHold, MeasureOK, arguments
  <2> QED  BY <1>2, <2>3, <2>4, <2>5 DEF IInv
<1>6. CASE ~ seen(next)
  <2>1. /\ queue \in Seq(Node) /\ prev \in [Node -> Arc \union {NO_ARC}]
        /\ queue_start \in 0 .. Len(queue)
        /\ \A i, j \in 1 .. Len(queue) : queue[i] = queue[j] => i = j
        /\ \A i \in 1 .. Len(queue) : seen(queue[i])
    BY <1>1 DEF IInv, TypeOK, TreeOK, Searched
  <2>2. \A i \in 1 .. Len(queue) : queue[i] # next
    BY <1>6, <2>1
  <2>3. Len(queue) < max_num_nodes
    <3> HIDE DEF next
    <3> QED  BY <1>3, <2>1, <2>2, RoomInQueue
  <2>4. /\ prev' = [prev EXCEPT ![next] = arc] /\ pc' = pc
        /\ queue' = Append(queue, next)
    BY <1>6, <2>3 DEF Discover
  <2> HIDE DEF next
  <2>5. /\ queue' \in Seq(Node) /\ Len(queue') = Len(queue) + 1
        /\ Len(queue) \in Nat
        /\ \A i \in 1 .. Len(queue) : queue'[i] = queue[i]
        /\ queue'[Len(queue) + 1] = next
    BY <1>3, <2>1, <2>4
  <2>6. \A i \in 1 .. Len(queue') : i \in 1 .. Len(queue) \/ i = Len(queue) + 1
    BY <2>5
  <2>7. /\ prev' \in [Node -> Arc \union {NO_ARC}] /\ prev'[next] = arc
        /\ \A n \in Node : n # next => prev'[n] = prev[n]
        /\ source' = source
    BY <1>1, <1>3, <2>1, <2>4 DEF arguments
  <2> DEFINE known(n) == prev'[n] # NO_ARC \/ n = source
  <2>8. known(next) /\ \A n \in Node : seen(n) => known(n)
    BY <1>3, <2>7 DEF seen
  <2>9. \A a \in Arc : seen(arc_tail(a)) => known(arc_tail(a))
    <3> HIDE DEF known
    <3> QED  BY <2>8, ArcFacts DEF IInv, TypeOK
  <2>10. \A i, j \in 1 .. Len(queue') : queue'[i] = queue'[j] => i = j
    BY <2>1, <2>2, <2>5, <2>6
  <2>11. \A i \in 1 .. Len(queue') : known(queue'[i])
    <3> HIDE DEF known
    <3>1. \A i \in 1 .. Len(queue) : known(queue'[i])
      BY <2>1, <2>5, <2>8
    <3> QED  BY <2>5, <2>6, <2>8, <3>1
  <2>12. \A n \in Node : prev'[n] # NO_ARC =>
           known(arc_tail(prev'[n])) /\ traversable(prev'[n])
    <3> HIDE DEF known
    <3> SUFFICES ASSUME NEW n \in Node, prev'[n] # NO_ARC
                 PROVE  known(arc_tail(prev'[n])) /\ traversable(prev'[n])
      OBVIOUS
    <3>1. CASE n = next
      BY <1>1, <1>3, <2>7, <2>9, <3>1 DEF IInv, TreeOK, Searched
    <3>2. CASE n # next
      <4>1. prev'[n] = prev[n] /\ prev[n] \in Arc
        BY <2>1, <2>7, <3>2
      <4>2. seen(arc_tail(prev[n])) /\ traversable(prev[n])
        BY <1>1, <4>1 DEF IInv, TreeOK, Searched
      <4> QED  BY <2>9, <4>1, <4>2
    <3> QED  BY <3>1, <3>2
  <2>13. \A a \in todo' : known(arc_tail(a)) /\ traversable(a)
    <3> HIDE DEF known
    <3> QED  BY <1>1, <2>9 DEF IInv, TypeOK, TreeOK, Searched
  <2>14. TypeOK'
    BY <1>1, <1>2, <2>1, <2>4, <2>5, <2>7 DEF IInv, TypeOK, arguments, measured
  <2>15. TreeOK'
    <3>1. /\ graph' = graph /\ capacity' = capacity
          /\ source' = source /\ cap_threshold' = cap_threshold
      BY <1>1 DEF networkVars, arguments
    <3> QED
      BY <2>10, <2>11, <2>12, <2>13, <3>1
      DEF TreeOK, seen, traversable, arc_tail, arc_is_dual, arc_dual
  <2>16. CallOK' /\ SafeOK' /\ MeasureOK'
    BY <1>1, <2>4 DEF IInv, CallOK, SafeOK, AssertionsHold, MeasureOK, arguments
  <2> QED  BY <1>2, <2>14, <2>15, <2>16 DEF IInv
<1> QED  BY <1>5, <1>6

LEMMA ReturnsKeep ==
  ASSUME IInv, Exhausted \/ PathReturned \/ NoPath
  PROVE  IInv'
<1>1. /\ UNCHANGED networkVars /\ UNCHANGED <<arguments, amount, search, measured>>
      /\ \/ pc = "search" /\ pc' = "missed" /\ result' = result
         \/ pc' = "idle" /\ result' \in {"true", "false"}
  BY DEF Exhausted, PathReturned, NoPath, Return, networkVars, arguments
<1>2. NetworkTypeOK' /\ PairsOK'
  BY <1>1, SameNetwork DEF IInv, TypeOK
<1>3. TypeOK'
  BY <1>1, <1>2 DEF IInv, TypeOK, arguments, search, measured
<1>4. \A n : seen(n)' = seen(n)
  BY <1>1 DEF seen, arguments, search
<1>5. \A a : traversable(a)' = traversable(a) /\ arc_tail(a)' = arc_tail(a)
  BY <1>1, SameNetwork DEF traversable, arguments, networkVars
<1>6. TreeOK'
  BY <1>1, <1>4, <1>5 DEF IInv, TreeOK, Searched, search
<1>7. CallOK' /\ SafeOK' /\ MeasureOK'
  BY <1>1 DEF IInv, CallOK, SafeOK, AssertionsHold, MeasureOK, arguments
<1> QED  BY <1>2, <1>3, <1>6, <1>7 DEF IInv
-----------------------------------------------------------------------------
(* Steps of get_augmenting_flow leave what the search found alone.         *)
LEMMA SameTree ==
  ASSUME IInv, UNCHANGED networkVars, UNCHANGED <<arguments, amount, search>>,
         pc \in Searched
  PROVE  /\ NetworkTypeOK' /\ PairsOK' /\ TreeOK'
         /\ \A n : seen(n)' = seen(n)
<1>1. NetworkTypeOK' /\ PairsOK'
  BY SameNetwork DEF IInv, TypeOK
<1>2. \A n : seen(n)' = seen(n)
  BY DEF seen, arguments, search
<1>3. \A a : traversable(a)' = traversable(a) /\ arc_tail(a)' = arc_tail(a)
  BY SameNetwork DEF traversable, arguments, networkVars
<1>4. TreeOK'
  BY <1>2, <1>3 DEF IInv, TreeOK, search
<1> QED  BY <1>1, <1>2, <1>4

LEMMA BeginMeasureKeeps ==
  ASSUME IInv, BeginMeasure
  PROVE  IInv'
<1>1. /\ UNCHANGED networkVars /\ UNCHANGED <<arguments, amount, search, result>>
      /\ asked > 0 /\ pc = "found" /\ pc' = "measure"
      /\ walk' = destination /\ path' = {} /\ flow' = INFINITE
  BY DEF BeginMeasure, networkVars, arguments
<1>2. NetworkTypeOK' /\ PairsOK' /\ TreeOK' /\ \A n : seen(n)' = seen(n)
  BY <1>1, SameTree DEF Searched
<1>3. destination \in Node /\ seen(destination) /\ asked < INFINITE /\ asked \in Nat
  BY <1>1 DEF IInv, CallOK, TypeOK
<1>4. INFINITE > 0 /\ INFINITE \in 0 .. INFINITE
  BY <1>1, <1>3, Sizes
<1>5. TypeOK'
  BY <1>1, <1>2, <1>3, <1>4 DEF IInv, TypeOK, arguments, search
<1>6. MeasureOK'
  <2>1. seen(walk)'
    BY <1>1, <1>3 DEF seen, arguments, search
  <2> QED  BY <1>1, <1>4, <2>1 DEF MeasureOK, arguments
<1>7. CallOK' /\ SafeOK'
  BY <1>1 DEF IInv, CallOK, SafeOK, AssertionsHold, arguments
<1> QED  BY <1>2, <1>5, <1>6, <1>7 DEF IInv

(* A node that was seen and is not the source has an arc that leads to it, *)
(* from a node that was seen.                                              *)
LEMMA MeasureKeeps ==
  ASSUME IInv, Measure
  PROVE  IInv'
<1> DEFINE arc == prev[walk]
<1>1. /\ UNCHANGED networkVars /\ UNCHANGED <<arguments, pc, amount, search, result>>
      /\ pc = "measure" /\ walk # source
      /\ flow' = MIN(flow, capacity[arc])
      /\ path' = path \union {arc} /\ walk' = arc_tail(arc)
  BY DEF Measure, networkVars, arguments
<1>2. NetworkTypeOK' /\ PairsOK' /\ TreeOK' /\ \A n : seen(n)' = seen(n)
  BY <1>1, SameTree DEF Searched
<1>3. arc \in Arc /\ seen(arc_tail(arc)) /\ traversable(arc)
  BY <1>1 DEF IInv, TypeOK, MeasureOK, TreeOK, Searched, seen
<1> HIDE DEF arc
<1>4. /\ capacity[arc] \in Nat /\ capacity[arc] < INFINITE /\ capacity[arc] > 0
      /\ arc_tail(arc) \in Node
  BY <1>1, <1>3, CapacityFacts, ArcFacts
  DEF IInv, TypeOK, CallOK, traversable
<1>5. flow \in 0 .. INFINITE /\ flow > 0 /\ path \subseteq Arc
      /\ \A a \in path : flow <= capacity[a]
  BY <1>1 DEF IInv, TypeOK, MeasureOK
<1>6. /\ flow' \in 0 .. INFINITE /\ flow' > 0 /\ flow' < INFINITE
      /\ flow' <= flow /\ flow' <= capacity[arc]
  BY <1>1, <1>4, <1>5, Sizes DEF MIN
<1>7. \A a \in path' : flow' <= capacity'[a]
  <2>1. capacity' = capacity
    BY <1>1 DEF networkVars
  <2>2. \A a \in path : capacity[a] \in Nat
    BY <1>5, CapacityFacts DEF IInv
  <2> QED  BY <1>1, <1>5, <1>6, <2>1, <2>2
<1>8. seen(walk)'
  <2>1. prev[arc_tail(arc)] # NO_ARC \/ arc_tail(arc) = source
    BY <1>3 DEF seen
  <2> QED  BY <1>1, <2>1 DEF seen, search, arguments
<1>9. TypeOK'
  BY <1>1, <1>2, <1>3, <1>4, <1>5, <1>6 DEF IInv, TypeOK, arguments, search
<1>10. MeasureOK'
  BY <1>6, <1>7, <1>8 DEF MeasureOK
<1>11. CallOK' /\ SafeOK'
  BY <1>1 DEF IInv, CallOK, SafeOK, AssertionsHold, arguments
<1> QED  BY <1>2, <1>9, <1>10, <1>11 DEF IInv

(* The walk has left the destination when it arrives at the source, which  *)
(* is another node: the assertions on the flow do not fail.                *)
LEMMA MeasuredKeeps ==
  ASSUME IInv, Measured
  PROVE  IInv'
<1>1. /\ UNCHANGED networkVars
      /\ UNCHANGED <<arguments, amount, search, measured, result>>
      /\ pc = "measure" /\ walk = source
      /\ pc' = IF flow < INFINITE /\ flow > 0 THEN "commit" ELSE "aborted"
  BY DEF Measured, networkVars, arguments
<1>2. NetworkTypeOK' /\ PairsOK' /\ \A n : seen(n)' = seen(n)
  BY <1>1, SameTree DEF Searched
<1>3. pc' \in {"commit", "aborted"}
  BY <1>1
<1>4. TypeOK'
  BY <1>1, <1>2, <1>3 DEF IInv, TypeOK, arguments, search, measured
<1>5. CallsAllowed => pc' = "commit"
  BY <1>1 DEF IInv, CallOK, MeasureOK
<1>6. TreeOK' /\ SafeOK'
  BY <1>3, <1>5 DEF TreeOK, Searched, SafeOK, AssertionsHold
<1>7. CallOK'
  BY <1>1, <1>3 DEF IInv, CallOK, arguments
<1>8. MeasureOK'
  BY <1>1, <1>2 DEF IInv, MeasureOK, measured, networkVars, arguments, search, seen
<1> QED  BY <1>2, <1>4, <1>6, <1>7, <1>8 DEF IInv

(* What is sent fits, and an arc and its dual hold together what they did. *)
LEMMA AugmentKeeps ==
  ASSUME IInv, Augment
  PROVE  IInv'
<1>1. /\ UNCHANGED <<arguments, search, measured, result>>
      /\ pc = "commit" /\ pc' = "next"
      /\ capacity' = [a \in Arc |-> augmented(a)] /\ amount' = amount - delta
  BY DEF Augment
<1>2. /\ amount \in 0 .. asked /\ asked \in Nat /\ flow \in 0 .. INFINITE
      /\ path \subseteq Arc /\ \A a \in path : flow <= capacity[a]
  BY <1>1 DEF IInv, TypeOK, MeasureOK
<1>3. /\ delta \in Nat /\ delta <= flow /\ amount - delta \in 0 .. asked
  BY <1>2, Sizes DEF delta, MIN
<1>4. ASSUME NEW a \in Arc
      PROVE  /\ augmented(a) \in Nat
             /\ augmented(a) + augmented(arc_dual(a))
                  = capacity[a] + capacity[arc_dual(a)]
  <2>1. arc_dual(a) \in Arc /\ arc_dual(arc_dual(a)) = a
    BY ArcFacts DEF IInv, TypeOK
  <2>2. capacity[a] \in Nat /\ capacity[arc_dual(a)] \in Nat
    BY <2>1, CapacityFacts DEF IInv
  <2>3. a \in path => delta <= capacity[a]
    BY <1>2, <1>3, <2>2
  <2> QED  BY <1>3, <2>1, <2>2, <2>3 DEF augmented
<1>5. PairsOK'
  <2> SUFFICES ASSUME NEW a \in Arc
               PROVE  capacity'[a] + capacity'[arc_dual(a)] < INFINITE
    BY DEF PairsOK, arc_dual
  <2>1. arc_dual(a) \in Arc
    BY ArcFacts DEF IInv, TypeOK
  <2>2. capacity[a] + capacity[arc_dual(a)] < INFINITE
    BY DEF IInv, PairsOK
  <2> QED  BY <1>1, <1>4, <2>1, <2>2
<1>6. capacity' \in [Arc -> Nat]
  BY <1>1, <1>4
<1>7. TypeOK'
  BY <1>1, <1>3, <1>6
  DEF IInv, TypeOK, NetworkTypeOK, arguments, search, measured
<1>8. TreeOK' /\ MeasureOK' /\ SafeOK'
  BY <1>1 DEF TreeOK, Searched, MeasureOK, SafeOK, AssertionsHold
<1>9. CallOK'
  BY <1>1 DEF IInv, CallOK, arguments
<1> QED  BY <1>5, <1>7, <1>8, <1>9 DEF IInv
-----------------------------------------------------------------------------
LEMMA StutterKeeps ==
  ASSUME IInv, UNCHANGED vars
  PROVE  IInv'
<1>1. /\ UNCHANGED networkVars
      /\ UNCHANGED <<arguments, amount, search, measured, result, pc>>
  BY DEF vars, networkVars, arguments
<1>2. NetworkTypeOK' /\ PairsOK'
  BY <1>1, SameNetwork DEF IInv, TypeOK
<1>3. TreeOK'
  BY <1>1, SameTree DEF IInv, TreeOK
<1>4. TypeOK'
  BY <1>1, <1>2 DEF IInv, TypeOK, arguments, search, measured
<1>5. CallOK' /\ SafeOK' /\ MeasureOK'
  BY <1>1
  DEF IInv, CallOK, SafeOK, AssertionsHold, MeasureOK, seen, networkVars,
      arguments, search, measured
<1> QED  BY <1>2, <1>3, <1>4, <1>5 DEF IInv

LEMMA InductiveInvariant == Spec => []IInv
<1>1. IInv /\ [Next]_vars => IInv'
  <2> SUFFICES ASSUME IInv, Next PROVE IInv'
    BY StutterKeeps
  <2>1. ASSUME NEW s \in Node, NEW d \in Node \union {NO_NODE},
               NEW t \in Thresholds, BFS_path(s, d, t)
        PROVE  IInv'
    BY <2>1, BFSPathKeeps
  <2>2. ASSUME NEW ends \in Terminals, NEW x \in Amounts,
               simple_feasibleflow(ends[1], ends[2], x)
        PROVE  IInv'
    BY <2>2, SimpleFeasibleflowKeeps
  <2>3. CASE NextPath
    BY <2>3, NextPathKeeps
  <2>4. CASE Visit
    BY <2>4, VisitKeeps
  <2>5. ASSUME NEW arc \in todo, Discover(arc) PROVE IInv'
    BY <2>5, DiscoverKeeps
  <2>6. CASE Exhausted \/ PathReturned \/ NoPath
    BY <2>6, ReturnsKeep
  <2>7. CASE BeginMeasure
    BY <2>7, BeginMeasureKeeps
  <2>8. CASE Measure
    BY <2>8, MeasureKeeps
  <2>9. CASE Measured
    BY <2>9, MeasuredKeeps
  <2>10. CASE Augment
    BY <2>10, AugmentKeeps
  <2> QED
    BY <2>1, <2>2, <2>3, <2>4, <2>5, <2>6, <2>7, <2>8, <2>9, <2>10
    DEF Next, Running
<1> QED  BY InitIInv, <1>1, PTL DEF Spec

(* Capacities never become negative and no index leaves its array, whether *)
(* or not the call is one that the assertions allow.                       *)
THEOREM TypeCorrect == Spec => []TypeOK
<1>1. IInv => TypeOK
  BY DEF IInv
<1> QED  BY InductiveInvariant, <1>1, PTL

(* The assertions of BFS_path, get_augmenting_flow and simple_feasibleflow *)
(* never fail when there is something to send between two different nodes. *)
THEOREM NoAssertionFails ==
  ASSUME CallsAllowed
  PROVE  Spec => []AssertionsHold
<1>1. IInv => AssertionsHold
  BY DEF IInv, SafeOK
<1> QED  BY InductiveInvariant, <1>1, PTL
-----------------------------------------------------------------------------
(* The breadth of the search.  L is the level of every place in the array: *)
(* how many arcs lead from the source to the node there.                   *)

(* A node entered the array behind the one from which an arc led to it.    *)
LevelTree(L, q, p) ==
  /\ L \in [1 .. Len(q) -> Nat] /\ 1 \in 1 .. Len(q)
  /\ q[1] = source /\ L[1] = 0
  /\ \A i \in 1 .. Len(q) : i # 1 =>
       /\ p[q[i]] \in Arc /\ arc_head(p[q[i]]) = q[i]
       /\ \E j \in 1 .. i - 1 : q[j] = arc_tail(p[q[i]]) /\ L[i] = L[j] + 1

(* Levels do not fall along the array, nor are there more than the one of  *)
(* the node read last and the next.                                        *)
LevelOrder(L, q, s) ==
  /\ \A i, j \in 1 .. Len(q) : i <= j => L[i] <= L[j]
  /\ \A i \in 1 .. Len(q) : L[i] <= (IF s = 0 THEN 0 ELSE L[s]) + 1

(* Other arcs of the nodes that were read have led to where they lead.     *)
ArcsRead(L, q, s, t) ==
  /\ \A a \in t : s > 0 /\ arc_tail(a) = q[s]
  /\ \A i \in 1 .. s : \A a \in Arc \ t :
       (arc_tail(a) = q[i] /\ traversable(a) /\ q[i] # destination) =>
         \E k \in 1 .. Len(q) : q[k] = arc_head(a) /\ L[k] <= L[i] + 1

Levels(L, q, s, t, p) ==
  LevelTree(L, q, p) /\ LevelOrder(L, q, s) /\ ArcsRead(L, q, s, t)

(* The search ends at the destination or at the end of the array.          *)
ReadOK ==
  /\ \A n \in Node : seen(n) => \E k \in 1 .. Len(queue) : queue[k] = n
  /\ pc # "found" => \A i \in 1 .. queue_start : queue[i] # destination
  /\ pc = "found" =>
       queue_start > 0 /\ queue[queue_start] = destination /\ todo = {}
  /\ pc = "missed" => queue_start = Len(queue) /\ todo = {}

BreadthOK ==
  pc \in {"search", "found", "missed"} =>
    ReadOK /\ \E L : Levels(L, queue, queue_start, todo, prev)

(* A search begins with the source at level 0.                             *)
LEMMA BeginBreadth ==
  ASSUME NEW s \in Node, source' = s, begin_search(s)
  PROVE  BreadthOK'
<1>1. /\ queue' = <<s>> /\ queue_start' = 0 /\ todo' = {} /\ pc' = "search"
      /\ prev' = [n \in Node |-> NO_ARC]
  BY DEF begin_search
<1> DEFINE L == [i \in 1 .. 1 |-> 0]
<1>2. Len(queue') = 1 /\ queue'[1] = s
  BY <1>1
<1>3. /\ L \in [1 .. 1 -> Nat] /\ L[1] = 0 /\ \A i \in 1 .. 1 : i = 1
      /\ 1 \in 1 .. 1 /\ ~ \E i : i \in 1 .. 0
  OBVIOUS
<1> HIDE DEF L
<1>4. Levels(L, queue, queue_start, todo, prev)'
  <2>1. LevelTree(L, queue, prev)'
    BY <1>2, <1>3 DEF LevelTree
  <2>2. LevelOrder(L, queue, queue_start)'
    BY <1>1, <1>2, <1>3 DEF LevelOrder
  <2>3. ArcsRead(L, queue, queue_start, todo)'
    BY <1>1, <1>3 DEF ArcsRead
  <2> QED  BY <2>1, <2>2, <2>3 DEF Levels
<1>5. ReadOK'
  BY <1>1, <1>2, <1>3 DEF ReadOK, seen
<1> QED  BY <1>4, <1>5 DEF BreadthOK

(* What the steps of a search leave alone.                                 *)
LEMMA SameArcs ==
  ASSUME UNCHANGED networkVars, UNCHANGED arguments
  PROVE  /\ source' = source /\ destination' = destination
         /\ \A a : /\ arc_tail(a)' = arc_tail(a) /\ arc_head(a)' = arc_head(a)
                   /\ traversable(a)' = traversable(a)
BY DEF networkVars, arguments, arc_tail, arc_head, traversable

(* Levels depend on the network and the arguments only by what SameArcs    *)
(* says is the same.                                                       *)
LEMMA SameLevels ==
  ASSUME UNCHANGED networkVars, UNCHANGED arguments,
         NEW L, NEW q, NEW s, NEW t, NEW p, Levels(L, q, s, t, p),
         queue' = q, queue_start' = s, todo' = t, prev' = p
  PROVE  Levels(L, queue, queue_start, todo, prev)'
<1>1. /\ source' = source /\ destination' = destination
      /\ \A a : /\ arc_tail(a)' = arc_tail(a) /\ arc_head(a)' = arc_head(a)
                /\ traversable(a)' = traversable(a)
  BY SameArcs
<1>2. LevelTree(L, queue, prev)'
  <2>1. LevelTree(L, q, p)
    BY DEF Levels
  <2> QED  BY <1>1, <2>1 DEF LevelTree
<1>3. LevelOrder(L, queue, queue_start)'
  <2>1. LevelOrder(L, q, s)
    BY DEF Levels
  <2> QED  BY <2>1 DEF LevelOrder
<1>4. ArcsRead(L, queue, queue_start, todo)'
  <2>1. ArcsRead(L, q, s, t)
    BY DEF Levels
  <2> QED  BY <1>1, <2>1 DEF ArcsRead
<1> QED  BY <1>2, <1>3, <1>4 DEF Levels

LEMMA VisitBreadth ==
  ASSUME IInv, BreadthOK, Visit
  PROVE  BreadthOK'
<1> DEFINE s == queue_start + 1
           t == todo'
<1>1. /\ pc = "search" /\ todo = {} /\ queue_start < Len(queue)
      /\ queue_start' = s /\ queue' = queue /\ prev' = prev
      /\ UNCHANGED networkVars /\ UNCHANGED arguments
      /\ \/ queue[s] = destination /\ pc' = "found" /\ t = {}
         \/ /\ queue[s] # destination /\ pc' = "search"
            /\ t = {a \in node_adjacency(queue[s]) : traversable(a)}
  BY DEF Visit, networkVars, arguments
<1>2. /\ queue \in Seq(Node) /\ queue_start \in 0 .. Len(queue)
      /\ s \in 1 .. Len(queue)
  BY <1>1 DEF IInv, TypeOK
<1>3. PICK L : Levels(L, queue, queue_start, todo, prev)
  BY <1>1 DEF BreadthOK
<1>4. ReadOK
  BY <1>1 DEF BreadthOK
<1> HIDE DEF t
<1>5. LevelTree(L, queue, prev)
  BY <1>3 DEF Levels
<1>6. LevelOrder(L, queue, s)
  <2>1. /\ \A i \in 1 .. Len(queue) : L[i] \in Nat
        /\ \A i, j \in 1 .. Len(queue) : i <= j => L[i] <= L[j]
        /\ \A i \in 1 .. Len(queue) :
             L[i] <= (IF queue_start = 0 THEN 0 ELSE L[queue_start]) + 1
    BY <1>3 DEF Levels, LevelTree, LevelOrder
  <2>2. (IF queue_start = 0 THEN 0 ELSE L[queue_start]) <= L[s]
    BY <1>2, <2>1
  <2>3. (IF queue_start = 0 THEN 0 ELSE L[queue_start]) \in Nat
    BY <1>2, <2>1
  <2> HIDE DEF s
  <2>4. s # 0
    BY <1>2
  <2>5. ASSUME NEW i \in 1 .. Len(queue) PROVE L[i] <= L[s] + 1
    BY <1>2, <2>1, <2>2, <2>3
  <2> QED  BY <2>1, <2>4, <2>5 DEF LevelOrder
<1>7. ArcsRead(L, queue, s, t)
  <2>1. \A a \in t : s > 0 /\ arc_tail(a) = queue[s]
    BY <1>1, <1>2 DEF node_adjacency
  <2>2. ASSUME NEW i \in 1 .. s, NEW a \in Arc \ t,
               arc_tail(a) = queue[i], traversable(a), queue[i] # destination
        PROVE  \E k \in 1 .. Len(queue) :
                 queue[k] = arc_head(a) /\ L[k] <= L[i] + 1
    <3>1. i # s
      BY <1>1, <2>2 DEF node_adjacency
    <3>2. i \in 1 .. queue_start /\ a \in Arc \ todo
      BY <1>1, <1>2, <3>1
    <3> QED  BY <1>3, <2>2, <3>2 DEF Levels, ArcsRead
  <2> QED  BY <2>1, <2>2 DEF ArcsRead
<1>8. Levels(L, queue, s, t, prev)
  BY <1>5, <1>6, <1>7 DEF Levels
<1>9. Levels(L, queue, queue_start, todo, prev)'
  BY <1>1, <1>8, SameLevels DEF t
<1>10. ReadOK'
  <2>1. \A n : seen(n)' = seen(n)
    BY <1>1, SameArcs DEF seen
  <2>2. destination' = destination
    BY <1>1, SameArcs
  <2>3. \A i \in 1 .. s : i = s \/ i \in 1 .. queue_start
    BY <1>2
  <2> HIDE DEF s
  <2>4. s > 0
    BY <1>2
  <2> QED  BY <1>1, <1>4, <2>1, <2>2, <2>3, <2>4 DEF ReadOK, t
<1> QED  BY <1>9, <1>10 DEF BreadthOK

(* A node that is discovered is one level below the one that is read.      *)
LEMMA DiscoverBreadth ==
  ASSUME IInv, BreadthOK, NEW arc \in todo, Discover(arc)
  PROVE  BreadthOK'
<1> DEFINE next == arc_head(arc)
           t == todo \ {arc}
           s == queue_start
<1>1. /\ pc = "search" /\ todo' = t /\ queue_start' = s
      /\ UNCHANGED networkVars /\ UNCHANGED arguments
  BY DEF Discover, networkVars, arguments
<1>2. arc \in Arc /\ next \in Node /\ arc # NO_ARC
  BY ArcFacts, Sizes DEF IInv, TypeOK
<1>3. PICK L : Levels(L, queue, s, todo, prev)
  BY <1>1 DEF BreadthOK
<1>4. ReadOK
  BY <1>1 DEF BreadthOK
<1>5. /\ queue \in Seq(Node) /\ prev \in [Node -> Arc \union {NO_ARC}]
      /\ s \in 0 .. Len(queue)
      /\ \A i, j \in 1 .. Len(queue) : queue[i] = queue[j] => i = j
      /\ \A i \in 1 .. Len(queue) : seen(queue[i]) /\ queue[i] \in Node
  BY <1>1 DEF IInv, TypeOK, TreeOK, Searched
<1>6. /\ L \in [1 .. Len(queue) -> Nat] /\ queue[1] = source /\ L[1] = 0
      /\ 1 \in 1 .. Len(queue)
      /\ \A i, j \in 1 .. Len(queue) : i <= j => L[i] <= L[j]
      /\ s > 0 /\ arc_tail(arc) = queue[s]
      /\ \A i \in 1 .. Len(queue) : L[i] <= L[s] + 1
      /\ \A a \in t : arc_tail(a) = queue[s]
  <2>1. s > 0 /\ arc_tail(arc) = queue[s] /\ \A a \in t : arc_tail(a) = queue[s]
    BY <1>3 DEF Levels, ArcsRead
  <2>2. s # 0
    BY <2>1
  <2> QED  BY <1>3, <2>1, <2>2 DEF Levels, LevelTree, LevelOrder
<1>7. \A i \in 1 .. s : \A a \in Arc \ todo :
        (arc_tail(a) = queue[i] /\ traversable(a) /\ queue[i] # destination) =>
          \E k \in 1 .. Len(queue) : queue[k] = arc_head(a) /\ L[k] <= L[i] + 1
  BY <1>3 DEF Levels, ArcsRead
<1>8. s \in 1 .. Len(queue) /\ L[s] \in Nat /\ Len(queue) \in Nat
  BY <1>5, <1>6
<1> HIDE DEF next, t, s
<1>9. CASE seen(next)
  <2>1. UNCHANGED <<pc, queue, prev>>
    BY <1>9 DEF Discover, next
  <2>2. ArcsRead(L, queue, s, t)
    <3> SUFFICES ASSUME NEW i \in 1 .. s, NEW a \in Arc \ t,
                        arc_tail(a) = queue[i], traversable(a),
                        queue[i] # destination
                 PROVE  \E k \in 1 .. Len(queue) :
                          queue[k] = arc_head(a) /\ L[k] <= L[i] + 1
      BY <1>6 DEF ArcsRead
    <3>1. CASE a = arc
      <4>1. i = s
        BY <1>5, <1>6, <1>8, <3>1
      <4>2. PICK k \in 1 .. Len(queue) : queue[k] = next
        BY <1>2, <1>4, <1>9 DEF ReadOK
      <4> QED  BY <1>6, <3>1, <4>1, <4>2 DEF next
    <3>2. CASE a # arc
      BY <1>7, <3>2 DEF t
    <3> QED  BY <3>1, <3>2
  <2>3. Levels(L, queue, s, t, prev)
    BY <1>3, <2>2 DEF Levels
  <2>4. Levels(L, queue, queue_start, todo, prev)'
    BY <1>1, <2>1, <2>3, SameLevels
  <2>5. ReadOK'
    BY <1>1, <1>4, <2>1, SameArcs DEF ReadOK, seen, s
  <2> QED  BY <2>4, <2>5 DEF BreadthOK
<1>10. CASE ~ seen(next)
  <2>1. \A i \in 1 .. Len(queue) : queue[i] # next
    BY <1>5, <1>10
  <2>2. Len(queue) < max_num_nodes
    BY <1>2, <1>5, <2>1, RoomInQueue
  <2> DEFINE l == Len(queue) + 1
             q == Append(queue, next)
             p == [prev EXCEPT ![next] = arc]
             M == [i \in 1 .. l |-> IF i = l THEN L[s] + 1 ELSE L[i]]
  <2>3. /\ prev' = p /\ pc' = pc /\ queue' = q
    BY <1>10, <2>2 DEF Discover, next
  <2>4. /\ q \in Seq(Node) /\ Len(q) = l /\ l \in Nat /\ q[l] = next
        /\ \A i \in 1 .. Len(queue) : q[i] = queue[i]
        /\ \A i \in 1 .. l : i \in 1 .. Len(queue) \/ i = l
        /\ \A i \in 1 .. Len(queue) : i \in 1 .. l /\ i # l /\ i \in 1 .. l - 1
        /\ l \in 1 .. l
    BY <1>2, <1>5
  <2>5. /\ p[next] = arc /\ p \in [Node -> Arc \union {NO_ARC}]
        /\ \A n \in Node : n # next => p[n] = prev[n]
    BY <1>2, <1>5
  <2>6. /\ M \in [1 .. l -> Nat] /\ M[l] = L[s] + 1
        /\ \A i \in 1 .. Len(queue) : M[i] = L[i]
    BY <1>6, <1>8, <2>4
  <2> HIDE DEF l, q, p, M
  <2>7. LevelTree(M, q, p)
    <3>1. q[1] = source /\ M[1] = 0 /\ 1 \in 1 .. l
      BY <1>6, <2>4, <2>6
    <3>2. ASSUME NEW i \in 1 .. l, i # 1
          PROVE  /\ p[q[i]] \in Arc /\ arc_head(p[q[i]]) = q[i]
                 /\ \E j \in 1 .. i - 1 :
                      q[j] = arc_tail(p[q[i]]) /\ M[i] = M[j] + 1
      <4>1. CASE i = l
        <5>1. /\ q[i] = next /\ p[q[i]] = arc /\ arc_head(arc) = next
              /\ M[i] = M[s] + 1 /\ s \in 1 .. i - 1 /\ q[s] = queue[s]
          BY <1>8, <2>4, <2>5, <2>6, <4>1 DEF next
        <5> QED  BY <1>2, <1>6, <5>1
      <4>2. CASE i # l
        <5>1. i \in 1 .. Len(queue) /\ q[i] = queue[i] /\ M[i] = L[i]
          BY <2>4, <2>6, <4>2
        <5>2. p[q[i]] = prev[queue[i]]
          BY <1>5, <2>1, <2>5, <5>1
        <5>3. /\ prev[queue[i]] \in Arc /\ arc_head(prev[queue[i]]) = queue[i]
              /\ \E j \in 1 .. i - 1 :
                   queue[j] = arc_tail(prev[queue[i]]) /\ L[i] = L[j] + 1
          BY <1>3, <3>2, <5>1 DEF Levels, LevelTree
        <5>4. PICK j \in 1 .. i - 1 :
                queue[j] = arc_tail(prev[queue[i]]) /\ L[i] = L[j] + 1
          BY <5>3
        <5>5. j \in 1 .. Len(queue)
          BY <1>8, <5>1
        <5>6. q[j] = queue[j] /\ M[j] = L[j]
          BY <2>4, <2>6, <5>5
        <5> QED  BY <5>1, <5>2, <5>3, <5>4, <5>6
      <4> QED  BY <4>1, <4>2
    <3> QED  BY <2>4, <2>6, <3>1, <3>2 DEF LevelTree
  <2>8. LevelOrder(M, q, s)
    <3>1. ASSUME NEW i \in 1 .. l
          PROVE  M[i] \in Nat /\ M[i] <= L[s] + 1
      <4>1. CASE i = l
        BY <1>8, <2>6, <4>1
      <4>2. CASE i # l
        BY <1>6, <2>4, <2>6, <4>2
      <4> QED  BY <4>1, <4>2
    <3>2. ASSUME NEW i \in 1 .. l, NEW j \in 1 .. l, i <= j PROVE M[i] <= M[j]
      <4>1. CASE j = l
        BY <2>6, <3>1, <4>1
      <4>2. CASE j # l
        <5>1. i # l
          BY <2>4, <3>2, <4>2
        <5>2. i \in 1 .. Len(queue) /\ j \in 1 .. Len(queue)
          BY <2>4, <4>2, <5>1
        <5> QED  BY <1>6, <2>6, <3>2, <5>2
      <4> QED  BY <4>1, <4>2
    <3>3. M[s] = L[s] /\ s # 0
      BY <1>8, <2>6
    <3> QED  BY <2>4, <3>1, <3>2, <3>3 DEF LevelOrder
  <2>9. ArcsRead(M, q, s, t)
    <3>1. q[s] = queue[s] /\ \A i \in 1 .. s : i \in 1 .. Len(queue)
      BY <1>8, <2>4
    <3> SUFFICES ASSUME NEW i \in 1 .. s, NEW a \in Arc \ t,
                        arc_tail(a) = q[i], traversable(a), q[i] # destination
                 PROVE  \E k \in 1 .. Len(q) :
                          q[k] = arc_head(a) /\ M[k] <= M[i] + 1
      BY <1>6, <3>1 DEF ArcsRead
    <3>2. q[i] = queue[i] /\ M[i] = L[i] /\ i \in 1 .. Len(queue)
      BY <2>4, <2>6, <3>1
    <3>3. CASE a = arc
      <4>1. i = s
        BY <1>5, <1>6, <1>8, <3>2, <3>3
      <4>2. M[l] <= M[i] + 1 /\ q[l] = arc_head(a) /\ l \in 1 .. Len(q)
        BY <1>8, <2>4, <2>6, <3>2, <3>3, <4>1 DEF next
      <4> QED  BY <4>2
    <3>4. CASE a # arc
      <4>1. a \in Arc \ todo
        BY <3>4 DEF t
      <4>2. PICK k \in 1 .. Len(queue) :
              queue[k] = arc_head(a) /\ L[k] <= L[i] + 1
        BY <1>7, <3>2, <4>1
      <4>3. k \in 1 .. Len(q) /\ q[k] = queue[k] /\ M[k] = L[k]
        BY <2>4, <2>6
      <4> QED  BY <3>2, <4>2, <4>3
    <3> QED  BY <3>3, <3>4
  <2>10. Levels(M, q, s, t, p)
    BY <2>7, <2>8, <2>9 DEF Levels
  <2>11. \E K : Levels(K, queue, queue_start, todo, prev)'
    <3>1. PICK K : Levels(K, q, s, t, p)
      BY <2>10
    <3>2. Levels(K, queue, queue_start, todo, prev)'
      <4>1. queue' = q /\ queue_start' = s /\ todo' = t /\ prev' = p
        BY <1>1, <2>3
      <4> HIDE DEF q, p
      <4> QED
        BY <1>1, <3>1, <4>1, SameLevels
    <3> QED  BY <3>2
  <2>12. ReadOK'
    <3>1. ASSUME NEW n \in Node, p[n] # NO_ARC \/ n = source
          PROVE  \E k \in 1 .. Len(q) : q[k] = n
      <4>1. CASE n = next
        BY <2>4, <4>1
      <4>2. CASE n # next
        <5>1. seen(n)
          BY <2>5, <3>1, <4>2 DEF seen
        <5>2. PICK k \in 1 .. Len(queue) : queue[k] = n
          BY <1>4, <5>1 DEF ReadOK
        <5> QED  BY <2>4, <5>2
      <4> QED  BY <4>1, <4>2
    <3>2. \A i \in 1 .. s : i \in 1 .. Len(queue)
      BY <1>8
    <3>3. \A i \in 1 .. s : q[i] # destination
      BY <1>1, <1>4, <2>4, <3>2 DEF ReadOK, s
    <3>4. /\ source' = source /\ destination' = destination
          /\ pc' = "search"
      BY <1>1, <2>3, SameArcs
    <3> QED  BY <1>1, <2>3, <3>1, <3>3, <3>4 DEF ReadOK, seen
  <2> QED  BY <2>11, <2>12 DEF BreadthOK
<1> QED  BY <1>9, <1>10

LEMMA ExhaustedBreadth ==
  ASSUME BreadthOK, Exhausted
  PROVE  BreadthOK'
<1>1. /\ pc = "search" /\ pc' = "missed" /\ todo = {} /\ queue_start = Len(queue)
      /\ UNCHANGED networkVars /\ UNCHANGED arguments
      /\ UNCHANGED <<queue, queue_start, todo, prev>>
  BY DEF Exhausted, networkVars, arguments, search
<1>2. PICK L : Levels(L, queue, queue_start, todo, prev)
  BY <1>1 DEF BreadthOK
<1>3. Levels(L, queue, queue_start, todo, prev)'
  BY <1>1, <1>2, SameLevels
<1>4. ReadOK'
  BY <1>1, SameArcs DEF BreadthOK, ReadOK, seen
<1> QED  BY <1>3, <1>4 DEF BreadthOK

LEMMA StutterBreadth ==
  ASSUME BreadthOK, UNCHANGED vars
  PROVE  BreadthOK'
<1> SUFFICES ASSUME pc \in {"search", "found", "missed"} PROVE BreadthOK'
  BY DEF BreadthOK, vars
<1>1. /\ UNCHANGED networkVars /\ UNCHANGED arguments
      /\ UNCHANGED <<pc, queue, queue_start, todo, prev>>
  BY DEF vars, networkVars, arguments, search
<1>2. PICK L : Levels(L, queue, queue_start, todo, prev)
  BY DEF BreadthOK
<1>3. Levels(L, queue, queue_start, todo, prev)'
  BY <1>1, <1>2, SameLevels
<1>4. ReadOK'
  BY <1>1, SameArcs DEF BreadthOK, ReadOK, seen
<1> QED  BY <1>3, <1>4 DEF BreadthOK

LEMMA BreadthInvariant == Spec => []BreadthOK
<1>1. Init => BreadthOK
  BY DEF Init, BreadthOK
<1>2. IInv /\ BreadthOK /\ [Next]_vars => BreadthOK'
  <2> SUFFICES ASSUME IInv, BreadthOK, Next PROVE BreadthOK'
    BY StutterBreadth
  <2>1. ASSUME NEW s \in Node, NEW d \in Node \union {NO_NODE},
               NEW t \in Thresholds, BFS_path(s, d, t)
        PROVE  BreadthOK'
    BY <2>1, BeginBreadth DEF BFS_path
  <2>2. ASSUME NEW ends \in Terminals, NEW x \in Amounts,
               simple_feasibleflow(ends[1], ends[2], x)
        PROVE  BreadthOK'
    BY <2>2 DEF simple_feasibleflow, BreadthOK
  <2>3. CASE NextPath
    <3>1. CASE amount > 0
      <4>1. begin_search(source) /\ source' = source /\ source \in Node
        BY <2>3, <3>1 DEF NextPath, arguments, IInv, TypeOK
      <4> QED  BY <4>1, BeginBreadth
    <3>2. CASE ~ (amount > 0)
      BY <2>3, <3>2 DEF NextPath, Return, BreadthOK
    <3> QED  BY <3>1, <3>2
  <2>4. CASE Visit
    BY <2>4, VisitBreadth
  <2>5. ASSUME NEW arc \in todo, Discover(arc) PROVE BreadthOK'
    BY <2>5, DiscoverBreadth
  <2>6. CASE Exhausted
    BY <2>6, ExhaustedBreadth
  <2>7. CASE \/ PathReturned \/ NoPath \/ BeginMeasure \/ Measure \/ Measured
             \/ Augment
    BY <2>7
    DEF PathReturned, NoPath, BeginMeasure, Measure, Measured, Augment, Return,
        BreadthOK
  <2> QED
    BY <2>1, <2>2, <2>3, <2>4, <2>5, <2>6, <2>7 DEF Next, Running
<1> QED  BY InductiveInvariant, <1>1, <1>2, PTL DEF Spec
-----------------------------------------------------------------------------
(* The reference: the rounds of spread, whose recursive definition has a   *)
(* solution since sets of nodes can be iterated on.                        *)
LEMMA WithinFacts ==
  ASSUME TypeOK
  PROVE  /\ within[0] = {source}
         /\ \A k \in 0 .. max_num_nodes - 1 : within[k + 1] = spread(within[k])
         /\ \A k \in 0 .. max_num_nodes : within[k] \subseteq Node
<1> DEFINE Is(w) == w = [k \in Nat |-> IF k = 0 THEN {source} ELSE spread(w[k - 1])]
           w == CHOOSE w : Is(w)
           S == SUBSET Node
           A == {source}
           F == [x \in S |-> spread(x)]
<1>1. A \in S /\ \A x \in S : F[x] \in S /\ F[x] = spread(x)
  BY ArcFacts DEF TypeOK, spread
<1>2. \E f : Is(f)
  <2>1. PICK f : Iterates(f, S, A, F)
    <3> HIDE DEF A, F, S
    <3> QED  BY <1>1, Iteration
  <2>2. \A k \in Nat : f[k] = IF k = 0 THEN A ELSE spread(f[k - 1])
    <3> SUFFICES ASSUME NEW k \in Nat, k # 0 PROVE f[k] = spread(f[k - 1])
      BY <2>1 DEF Iterates
    <3>1. k - 1 \in Nat /\ (k - 1) + 1 = k
      OBVIOUS
    <3> HIDE DEF S, F
    <3>2. f[k - 1] \in S /\ f[(k - 1) + 1] = F[f[k - 1]]
      BY <2>1, <3>1 DEF Iterates
    <3> QED  BY <1>1, <3>1, <3>2
  <2>3. Is(f)
    <3> HIDE DEF S, F
    <3> QED  BY <2>1, <2>2 DEF Iterates
  <2> HIDE DEF Is
  <2> QED  BY <2>3
<1>3. Is(w)
  <2> HIDE DEF Is
  <2> QED  BY <1>2
<1>4. within = [k \in 0 .. max_num_nodes |-> w[k]]
  BY DEF within
<1> HIDE DEF w
<1>5. w[0] = A /\ \A k \in Nat : w[k + 1] = spread(w[k])
  <2>1. \A k \in Nat : w[k] = IF k = 0 THEN A ELSE spread(w[k - 1])
    BY <1>3
  <2> HIDE DEF A
  <2>2. ASSUME NEW k \in Nat PROVE w[k + 1] = spread(w[k])
    <3>1. k + 1 \in Nat /\ k + 1 # 0 /\ (k + 1) - 1 = k
      OBVIOUS
    <3>2. w[k + 1] = spread(w[(k + 1) - 1])
      BY <2>1, <3>1
    <3> QED  BY <3>1, <3>2
  <2> QED  BY <2>1, <2>2
<1>6. \A k \in Nat : w[k] \in S
  <2> DEFINE P == {k \in Nat : w[k] \in S}
  <2> HIDE DEF S
  <2>1. 0 \in P
    BY <1>1, <1>5
  <2>2. \A k \in P \intersect Nat : k + 1 \in P
    BY <1>1, <1>5
  <2>3. Nat \subseteq P
    <3> HIDE DEF P
    <3> QED  BY <2>1, <2>2, SetInduction
  <2> QED  BY <2>3
<1>7. /\ \A k \in 0 .. max_num_nodes : within[k] = w[k] /\ k \in Nat
      /\ \A k \in 0 .. max_num_nodes - 1 : k + 1 \in 0 .. max_num_nodes
                                           /\ k \in 0 .. max_num_nodes
      /\ 0 \in 0 .. max_num_nodes
  BY <1>4, Sizes
<1> HIDE DEF Is
<1> QED  BY <1>5, <1>6, <1>7

LEMMA WithinGrows ==
  ASSUME TypeOK, NEW k \in 0 .. max_num_nodes, NEW m \in 0 .. max_num_nodes,
         k <= m
  PROVE  within[k] \subseteq within[m]
<1> DEFINE P == {j \in Nat : k <= j /\ j <= max_num_nodes =>
                               within[k] \subseteq within[j]}
<1>1. 0 \in P
  BY Sizes
<1>2. ASSUME NEW j \in P PROVE j + 1 \in P
  <2> SUFFICES ASSUME k <= j + 1, j + 1 <= max_num_nodes
               PROVE  within[k] \subseteq within[j + 1]
    OBVIOUS
  <2>1. CASE k = j + 1
    BY <2>1
  <2>2. CASE k # j + 1
    <3>1. within[k] \subseteq within[j]
      BY <2>2, Sizes
    <3>2. j \in 0 .. max_num_nodes - 1
      BY Sizes
    <3>3. within[j + 1] = spread(within[j])
      BY <3>2, WithinFacts
    <3> QED  BY <3>1, <3>3 DEF spread
  <2> QED  BY <2>1, <2>2
<1>3. Nat \subseteq P
  <2> HIDE DEF P
  <2> QED  BY <1>1, <1>2, SetInduction
<1> QED  BY <1>3, Sizes
-----------------------------------------------------------------------------
(* The array has room for every node, and no more.                         *)
LEMMA ArrayFits ==
  ASSUME NEW q \in Seq(Node), \A i, j \in 1 .. Len(q) : q[i] = q[j] => i = j
  PROVE  Len(q) <= max_num_nodes
<1> SUFFICES ASSUME ~ (Len(q) <= max_num_nodes) PROVE FALSE
  OBVIOUS
<1>1. /\ IsFiniteSet(1 .. Len(q)) /\ Cardinality(1 .. Len(q)) = Len(q)
      /\ Len(q) \in Nat
  <2> DEFINE last == Len(q)
  <2>1. last \in Nat
    OBVIOUS
  <2> HIDE DEF last
  <2>2. 1 \in Int /\ last \in Int /\ last - 1 + 1 = last /\ (1 > last => last = 0)
    BY <2>1
  <2>3. IsFiniteSet(1 .. last) /\ Cardinality(1 .. last) = last
    BY <2>2, FS_Interval
  <2> QED  BY <2>1, <2>3 DEF last
<1>2. [i \in 1 .. Len(q) |-> q[i]] \in [1 .. Len(q) -> Node]
  <2>1. \A i \in 1 .. Len(q) : q[i] \in Node
    OBVIOUS
  <2> QED  BY <2>1
<1>3. Cardinality(Node) < Cardinality(1 .. Len(q))
  BY <1>1, Sizes
<1>4. \E i, j \in 1 .. Len(q) :
        i # j /\ [k \in 1 .. Len(q) |-> q[k]][i] = [k \in 1 .. Len(q) |-> q[k]][j]
  BY <1>1, <1>2, <1>3, Sizes, FS_PigeonHole
<1> QED  BY <1>4

(* What a search that is over has found out.                               *)
LEMMA SearchOverFacts ==
  ASSUME IInv, BreadthOK, SearchOver
  PROVE  /\ TypeOK /\ ReadOK /\ queue \in Seq(Node)
         /\ queue_start \in 0 .. Len(queue) /\ Len(queue) <= max_num_nodes
         /\ \A i, j \in 1 .. Len(queue) : queue[i] = queue[j] => i = j
         /\ \A i \in 1 .. Len(queue) : queue[i] \in Node
         /\ \A n \in Node : prev[n] # NO_ARC => traversable(prev[n])
         /\ \E L : Levels(L, queue, queue_start, todo, prev)
<1>1. pc \in Searched /\ pc \in {"search", "found", "missed"}
  BY DEF SearchOver, Searched
<1>2. /\ TypeOK /\ queue \in Seq(Node) /\ queue_start \in 0 .. Len(queue)
      /\ \A i, j \in 1 .. Len(queue) : queue[i] = queue[j] => i = j
      /\ \A n \in Node : prev[n] # NO_ARC => traversable(prev[n])
  BY <1>1 DEF IInv, TypeOK, TreeOK
<1>3. Len(queue) <= max_num_nodes
  BY <1>2, ArrayFits
<1>4. ReadOK /\ \E L : Levels(L, queue, queue_start, todo, prev)
  BY <1>1 DEF BreadthOK
<1> QED  BY <1>2, <1>3, <1>4

(* Levels count arcs: a node is no farther from the source than its level. *)
LEMMA LevelFacts ==
  ASSUME IInv, BreadthOK, SearchOver,
         NEW L, Levels(L, queue, queue_start, todo, prev)
  PROVE  \A i \in 1 .. Len(queue) : /\ L[i] \in 0 .. max_num_nodes
                                    /\ queue[i] \in within[L[i]]
<1>1. /\ TypeOK /\ Len(queue) \in Nat /\ Len(queue) <= max_num_nodes
      /\ \A n \in Node : prev[n] # NO_ARC => traversable(prev[n])
      /\ \A i \in 1 .. Len(queue) : queue[i] \in Node
  BY SearchOverFacts
<1>2. /\ L \in [1 .. Len(queue) -> Nat] /\ queue[1] = source /\ L[1] = 0
      /\ \A i \in 1 .. Len(queue) : i # 1 =>
           /\ prev[queue[i]] \in Arc /\ arc_head(prev[queue[i]]) = queue[i]
           /\ \E j \in 1 .. i - 1 :
                queue[j] = arc_tail(prev[queue[i]]) /\ L[i] = L[j] + 1
  BY DEF Levels, LevelTree
<1> DEFINE Good(i) == L[i] <= i - 1 /\ queue[i] \in within[L[i]]
           Bad == {i \in 1 .. Len(queue) : ~ Good(i)}
<1>3. Bad = {}
  <2> SUFFICES ASSUME Bad # {} PROVE FALSE
    OBVIOUS
  <2>1. IsFiniteSet(Bad) /\ Bad \subseteq Int
    <3>1. IsFiniteSet(1 .. Len(queue))
      BY <1>1, FS_Interval
    <3> QED  BY <3>1, FS_Subset
  <2>2. PICK i \in Bad : \A j \in Bad : i <= j
    <3> HIDE DEF Bad
    <3> QED  BY <2>1, LeastOfFinite
  <2>3. i \in 1 .. Len(queue) /\ ~ Good(i)
    OBVIOUS
  <2>4. CASE i = 1
    BY <1>1, <1>2, <2>3, <2>4, WithinFacts
  <2>5. CASE i # 1
    <3> DEFINE a == prev[queue[i]]
    <3>1. /\ i \in 1 .. Len(queue) /\ a \in Arc /\ arc_head(a) = queue[i]
          /\ \E j \in 1 .. i - 1 : queue[j] = arc_tail(a) /\ L[i] = L[j] + 1
      BY <1>2, <2>3, <2>5
    <3>2. PICK j \in 1 .. i - 1 : queue[j] = arc_tail(a) /\ L[i] = L[j] + 1
      BY <3>1
    <3>3. j \in 1 .. Len(queue) /\ ~ (i <= j)
      BY <1>1, <3>1
    <3>4. Good(j)
      BY <2>2, <3>3
    <3>5. traversable(a)
      BY <1>1, <3>1, Sizes
    <3>6. L[j] \in Nat /\ L[i] <= i - 1 /\ L[j] \in 0 .. max_num_nodes - 1
      <4>1. L[j] \in Nat /\ L[j] <= j - 1 /\ i \in 1 .. Len(queue)
        BY <1>2, <2>3, <3>3, <3>4
      <4> HIDE DEF a, Bad, Good
      <4>2. j \in 1 .. i - 1 /\ i <= max_num_nodes /\ max_num_nodes \in Nat
        BY <1>1, <4>1, Sizes
      <4> QED  BY <1>1, <3>2, <4>1, <4>2
    <3>7. within[L[i]] = spread(within[L[j]])
      BY <1>1, <3>2, <3>6, WithinFacts
    <3>8. queue[i] \in within[L[i]]
      <4> HIDE DEF a
      <4> QED  BY <3>1, <3>2, <3>4, <3>5, <3>7 DEF spread, traversable
    <3> QED  BY <2>3, <3>6, <3>8
  <2> QED  BY <2>4, <2>5
<1>4. ASSUME NEW i \in 1 .. Len(queue)
      PROVE  L[i] \in 0 .. max_num_nodes /\ queue[i] \in within[L[i]]
  <2>1. Good(i)
    BY <1>3
  <2> QED  BY <1>1, <1>2, <2>1, Sizes
<1> QED  BY <1>4

(* And no nearer: as far as the search has read, what can be reached with  *)
(* k arcs is in the array at a level of at most k.                         *)
LEMMA NothingNearer ==
  ASSUME IInv, BreadthOK, SearchOver,
         NEW L, Levels(L, queue, queue_start, todo, prev),
         NEW m \in 0 .. max_num_nodes, pc = "found" => m <= L[queue_start],
         NEW n \in within[m]
  PROVE  \E i \in 1 .. Len(queue) : queue[i] = n /\ L[i] <= m
<1>1. /\ TypeOK /\ ReadOK /\ Len(queue) \in Nat /\ queue_start \in 0 .. Len(queue)
      /\ \A i, j \in 1 .. Len(queue) : queue[i] = queue[j] => i = j
  BY SearchOverFacts
<1>2. /\ L \in [1 .. Len(queue) -> Nat] /\ queue[1] = source /\ L[1] = 0
      /\ 1 \in 1 .. Len(queue)
      /\ \A i, j \in 1 .. Len(queue) : i <= j => L[i] <= L[j]
  BY DEF Levels, LevelTree, LevelOrder
<1>3. todo = {} /\ (pc = "missed" => queue_start = Len(queue))
      /\ pc \in {"found", "missed"}
  BY <1>1 DEF ReadOK, SearchOver
<1>4. \A i \in 1 .. queue_start : \A a \in Arc :
        (arc_tail(a) = queue[i] /\ traversable(a) /\ queue[i] # destination) =>
          \E k \in 1 .. Len(queue) : queue[k] = arc_head(a) /\ L[k] <= L[i] + 1
  BY <1>3 DEF Levels, ArcsRead
<1> DEFINE P == {k \in Nat : k <= m =>
                   \A x \in within[k] :
                     \E i \in 1 .. Len(queue) : queue[i] = x /\ L[i] <= k}
<1>5. 0 \in P
  <2>1. \A x \in within[0] : x = source
    BY <1>1, WithinFacts
  <2> QED  BY <1>2, <2>1
<1>6. ASSUME NEW k \in P PROVE k + 1 \in P
  <2> SUFFICES ASSUME k + 1 <= m, NEW x \in within[k + 1]
               PROVE  \E i \in 1 .. Len(queue) : queue[i] = x /\ L[i] <= k + 1
    OBVIOUS
  <2>1. /\ k \in Nat /\ k <= m /\ k \in 0 .. max_num_nodes - 1
        /\ \A y \in within[k] :
             \E i \in 1 .. Len(queue) : queue[i] = y /\ L[i] <= k
    BY Sizes
  <2>2. x \in spread(within[k])
    BY <1>1, <2>1, WithinFacts
  <2>3. CASE x \in within[k]
    <3>1. PICK i \in 1 .. Len(queue) : queue[i] = x /\ L[i] <= k
      BY <2>1, <2>3
    <3> QED  BY <1>2, <2>1, <3>1
  <2>4. CASE x \notin within[k]
    <3>1. PICK a \in Arc : /\ traversable(a) /\ arc_tail(a) \in within[k]
                           /\ x = arc_head(a)
      BY <2>2, <2>4 DEF spread, traversable
    <3>2. PICK i \in 1 .. Len(queue) : queue[i] = arc_tail(a) /\ L[i] <= k
      BY <2>1, <3>1
    <3>3. i \in 1 .. queue_start /\ queue[i] # destination
      <4>1. CASE pc = "missed"
        BY <1>1, <1>3, <3>2, <4>1 DEF ReadOK
      <4>2. CASE pc = "found"
        <5>1. /\ queue_start > 0 /\ queue[queue_start] = destination
              /\ queue_start \in 1 .. Len(queue)
          BY <1>1, <4>2 DEF ReadOK
        <5>2. L[i] \in Nat /\ L[queue_start] \in Nat /\ m <= L[queue_start]
          BY <1>2, <4>2, <5>1
        <5>3. ~ (queue_start <= i)
          BY <1>2, <2>1, <3>2, <5>1, <5>2
        <5> QED  BY <1>1, <3>2, <5>1, <5>3
      <4> QED  BY <1>3, <4>1, <4>2
    <3>4. PICK j \in 1 .. Len(queue) : queue[j] = arc_head(a) /\ L[j] <= L[i] + 1
      BY <1>4, <3>1, <3>2, <3>3
    <3>5. L[i] \in Nat /\ L[j] \in Nat /\ L[i] <= k /\ k \in Nat
      BY <1>2, <2>1, <3>2
    <3>6. queue[j] = x /\ L[j] <= k + 1
      BY <3>1, <3>4, <3>5
    <3> QED  BY <3>6
  <2> QED  BY <2>3, <2>4
<1>7. Nat \subseteq P
  <2> HIDE DEF P
  <2> QED  BY <1>5, <1>6, SetInduction
<1> QED  BY <1>7

(* hops are the levels: both satisfy the recursion along prev.             *)
LEMMA HopsAreLevels ==
  ASSUME IInv, BreadthOK, SearchOver,
         NEW L, Levels(L, queue, queue_start, todo, prev)
  PROVE  \A i \in 1 .. Len(queue) : hops[i] = L[i]
<1> DEFINE back(i) == CHOOSE j \in 1 .. i - 1 : queue[j] = arc_tail(prev[queue[i]])
           Is(h) == h = [i \in 1 .. Len(queue) |->
                           IF queue[i] = source THEN 0 ELSE 1 + h[back(i)]]
           h == CHOOSE h : Is(h)
<1>1. /\ Len(queue) \in Nat
      /\ \A i, j \in 1 .. Len(queue) : queue[i] = queue[j] => i = j
  BY SearchOverFacts
<1>2. /\ L \in [1 .. Len(queue) -> Nat] /\ queue[1] = source /\ L[1] = 0
      /\ 1 \in 1 .. Len(queue)
      /\ \A i \in 1 .. Len(queue) : i # 1 =>
           \E j \in 1 .. i - 1 :
             queue[j] = arc_tail(prev[queue[i]]) /\ L[i] = L[j] + 1
  BY DEF Levels, LevelTree
<1>3. ASSUME NEW i \in 1 .. Len(queue), i # 1
      PROVE  /\ back(i) \in 1 .. i - 1 /\ back(i) \in 1 .. Len(queue)
             /\ L[i] = 1 + L[back(i)] /\ queue[i] # source
  <2>1. PICK j \in 1 .. i - 1 :
          queue[j] = arc_tail(prev[queue[i]]) /\ L[i] = L[j] + 1
    BY <1>2, <1>3
  <2>2. back(i) \in 1 .. i - 1 /\ queue[back(i)] = arc_tail(prev[queue[i]])
    BY <2>1
  <2> HIDE DEF back
  <2>3. back(i) \in 1 .. Len(queue) /\ j \in 1 .. Len(queue)
    BY <1>1, <2>1, <2>2
  <2>4. back(i) = j
    BY <1>1, <2>1, <2>2, <2>3
  <2>5. L[j] \in Nat
    BY <1>2, <2>3
  <2> QED  BY <1>1, <1>2, <1>3, <2>1, <2>2, <2>3, <2>4, <2>5
<1>4. hops = h
  BY DEF hops
<1> HIDE DEF back
<1>5. Is(L)
  <2>1. \A i \in 1 .. Len(queue) :
          L[i] = IF queue[i] = source THEN 0 ELSE 1 + L[back(i)]
    BY <1>1, <1>2, <1>3
  <2>2. L = [i \in 1 .. Len(queue) |-> L[i]]
    BY <1>2
  <2> QED  BY <2>1, <2>2
<1>6. Is(h)
  <2> HIDE DEF Is
  <2> QED  BY <1>5
<1> HIDE DEF h
<1> DEFINE Bad == {i \in 1 .. Len(queue) : h[i] # L[i]}
<1>7. Bad = {}
  <2> SUFFICES ASSUME Bad # {} PROVE FALSE
    OBVIOUS
  <2>1. IsFiniteSet(Bad) /\ Bad \subseteq Int
    <3>1. IsFiniteSet(1 .. Len(queue))
      BY <1>1, FS_Interval
    <3> QED  BY <3>1, FS_Subset
  <2>2. PICK i \in Bad : \A j \in Bad : i <= j
    <3> HIDE DEF Bad
    <3> QED  BY <2>1, LeastOfFinite
  <2>3. i \in 1 .. Len(queue) /\ h[i] # L[i]
    OBVIOUS
  <2>4. h[i] = IF queue[i] = source THEN 0 ELSE 1 + h[back(i)]
    BY <1>6, <2>3
  <2>5. i # 1
    BY <1>2, <2>3, <2>4
  <2>6. back(i) \notin Bad
    BY <1>3, <2>2, <2>3, <2>5
  <2> QED  BY <1>3, <2>3, <2>4, <2>5, <2>6
<1> QED  BY <1>4, <1>7

(* Breadth first search finds paths with as few arcs as possible: a node   *)
(* of the array is as many arcs away from the source as prev says.         *)
THEOREM ShortestDiscoveryTree == Spec => []DiscoveryTreeShortest
<1>1. IInv /\ BreadthOK => DiscoveryTreeShortest
  <2> SUFFICES ASSUME IInv, BreadthOK, SearchOver, NEW i \in DOMAIN queue
               PROVE  /\ queue[i] \in within[hops[i]]
                      /\ hops[i] > 0 => queue[i] \notin within[hops[i] - 1]
    BY DEF DiscoveryTreeShortest
  <2>1. /\ queue \in Seq(Node) /\ Len(queue) \in Nat
        /\ queue_start \in 0 .. Len(queue) /\ ReadOK
        /\ \A a, b \in 1 .. Len(queue) : queue[a] = queue[b] => a = b
        /\ i \in 1 .. Len(queue)
    BY SearchOverFacts
  <2>2. PICK L : Levels(L, queue, queue_start, todo, prev)
    BY SearchOverFacts
  <2>3. hops[i] = L[i] /\ queue[i] \in within[L[i]] /\ L[i] \in 0 .. max_num_nodes
    BY <2>1, <2>2, HopsAreLevels, LevelFacts
  <2>4. ASSUME L[i] > 0, queue[i] \in within[L[i] - 1] PROVE FALSE
    <3>1. pc = "found" => L[i] - 1 <= L[queue_start]
      <4>1. pc = "found" => queue_start # 0 /\ queue_start \in 1 .. Len(queue)
        BY <2>1 DEF ReadOK
      <4>2. L[i] <= (IF queue_start = 0 THEN 0 ELSE L[queue_start]) + 1
        BY <2>1, <2>2 DEF Levels, LevelOrder
      <4>3. queue_start \in 1 .. Len(queue) => L[queue_start] \in Nat
        BY <2>2 DEF Levels, LevelTree
      <4> QED  BY <2>3, <4>1, <4>2, <4>3
    <3>2. L[i] - 1 \in 0 .. max_num_nodes
      BY <2>3, <2>4, Sizes
    <3>3. PICK j \in 1 .. Len(queue) : queue[j] = queue[i] /\ L[j] <= L[i] - 1
      BY <2>2, <2>4, <3>1, <3>2, NothingNearer
    <3> QED  BY <2>1, <2>3, <3>3
  <2> QED  BY <2>3, <2>4
<1> QED  BY InductiveInvariant, BreadthInvariant, <1>1, PTL

(* BFS_path returns true exactly when the destination can be reached, and  *)
(* when it returns false the array holds all nodes that can be.            *)
THEOREM AnswersExact == Spec => []AnswerExact
<1>1. IInv /\ BreadthOK => AnswerExact
  <2> SUFFICES ASSUME IInv, BreadthOK, SearchOver
               PROVE  /\ pc = "found" <=> destination \in within[max_num_nodes]
                      /\ pc = "missed" => {queue[i] : i \in DOMAIN queue}
                                            = within[max_num_nodes]
    BY DEF AnswerExact
  <2>1. /\ TypeOK /\ queue \in Seq(Node) /\ Len(queue) \in Nat
        /\ DOMAIN queue = 1 .. Len(queue)
        /\ queue_start \in 0 .. Len(queue) /\ ReadOK
        /\ pc \in {"found", "missed"}
    BY SearchOverFacts DEF SearchOver
  <2>2. PICK L : Levels(L, queue, queue_start, todo, prev)
    BY SearchOverFacts
  <2>3. \A i \in 1 .. Len(queue) : queue[i] \in within[max_num_nodes]
    <3> SUFFICES ASSUME NEW i \in 1 .. Len(queue)
                 PROVE  queue[i] \in within[max_num_nodes]
      OBVIOUS
    <3>1. L[i] \in 0 .. max_num_nodes /\ queue[i] \in within[L[i]]
      BY <2>2, LevelFacts
    <3>2. max_num_nodes \in 0 .. max_num_nodes /\ L[i] <= max_num_nodes
      BY <3>1, Sizes
    <3> QED  BY <2>1, <3>1, <3>2, WithinGrows
  <2>4. pc = "found" => destination \in within[max_num_nodes]
    BY <2>1, <2>3 DEF ReadOK
  <2>5. ASSUME pc = "missed", NEW n \in within[max_num_nodes]
        PROVE  \E i \in 1 .. Len(queue) : queue[i] = n
    <3>1. max_num_nodes \in 0 .. max_num_nodes
      BY Sizes
    <3> QED  BY <2>2, <2>5, <3>1, NothingNearer
  <2>6. pc = "missed" => \A i \in 1 .. Len(queue) : queue[i] # destination
    BY <2>1 DEF ReadOK
  <2> QED  BY <2>1, <2>3, <2>4, <2>5, <2>6
<1> QED  BY InductiveInvariant, BreadthInvariant, <1>1, PTL
-----------------------------------------------------------------------------
(* The array keeps the order of discovery: prev leads a node of it, but    *)
(* for the source, back to one that stands before it.                      *)
DiscoveryOrder ==
  /\ \A i, j \in 1 .. Len(queue) : queue[i] = queue[j] => i = j
  /\ queue[1] = source
  /\ \A i \in 1 .. Len(queue) : i # 1 =>
       /\ prev[queue[i]] \in Arc /\ arc_head(prev[queue[i]]) = queue[i]
       /\ \E j \in 1 .. i - 1 : queue[j] = arc_tail(prev[queue[i]])

(* The walk goes back through the array, so that no arc is taken twice,    *)
(* and what it has collected leads from where it stands to the             *)
(* destination.                                                            *)
RouteOK ==
  pc \in {"measure", "commit"} =>
    /\ DiscoveryOrder
    /\ \E k \in 1 .. Len(queue) :
         /\ queue[k] = walk
         /\ \A a \in path : \E j \in k + 1 .. Len(queue) : queue[j] = arc_head(a)
    /\ Leads(path, walk, destination)
    /\ pc = "commit" => walk = source

(* Nothing costs anything, and paths are looked for as long as something   *)
(* is left to be sent.                                                     *)
NothingPaid ==
  /\ cost = [a \in Arc |-> 0]
  /\ asked > 0 /\ pc \in Searched \union {"commit"} => amount > 0

(* The walk begins at the destination, which the search has read last.     *)
LEMMA BeginMeasureRoute ==
  ASSUME IInv, BreadthOK, BeginMeasure
  PROVE  RouteOK'
<1>1. /\ UNCHANGED networkVars /\ UNCHANGED arguments
      /\ UNCHANGED <<queue, queue_start, todo, prev>>
      /\ pc = "found" /\ pc' = "measure" /\ walk' = destination /\ path' = {}
  BY DEF BeginMeasure, networkVars, arguments, search
<1>2. /\ queue \in Seq(Node) /\ queue_start \in 0 .. Len(queue) /\ ReadOK
      /\ \A i, j \in 1 .. Len(queue) : queue[i] = queue[j] => i = j
  BY <1>1, SearchOverFacts DEF SearchOver
<1>3. queue_start \in 1 .. Len(queue) /\ queue[queue_start] = destination
  BY <1>1, <1>2 DEF ReadOK
<1>4. DiscoveryOrder
  <2>1. PICK L : Levels(L, queue, queue_start, todo, prev)
    BY <1>1 DEF BreadthOK
  <2>2. /\ queue[1] = source
        /\ \A i \in 1 .. Len(queue) : i # 1 =>
             /\ prev[queue[i]] \in Arc /\ arc_head(prev[queue[i]]) = queue[i]
             /\ \E j \in 1 .. i - 1 : queue[j] = arc_tail(prev[queue[i]])
    BY <2>1 DEF Levels, LevelTree
  <2> QED  BY <1>2, <2>2 DEF DiscoveryOrder
<1>5. DiscoveryOrder'
  BY <1>1, <1>4, SameArcs DEF DiscoveryOrder
<1>6. Leads(path, walk, destination)'
  <2>1. \A n : {a \in {} : arc_head(a)' = n} = {} /\ {a \in {} : arc_tail(a)' = n} = {}
    OBVIOUS
  <2>2. \A n : entering(path, n)' = 0 /\ leaving(path, n)' = 0
    BY <1>1, <2>1, FS_EmptySet DEF entering, leaving
  <2>3. walk' = destination'
    BY <1>1, SameArcs
  <2> QED  BY <2>2, <2>3 DEF Leads
<1> QED  BY <1>1, <1>3, <1>5, <1>6 DEF RouteOK

(* One arc back: it ends where the walk stands and begins at a node that   *)
(* was discovered before.                                                  *)
LEMMA MeasureRoute ==
  ASSUME IInv, RouteOK, Measure
  PROVE  RouteOK'
<1> DEFINE arc == prev[walk]
           P == path \union {arc}
<1>1. /\ UNCHANGED networkVars /\ UNCHANGED arguments /\ UNCHANGED <<queue, prev>>
      /\ pc = "measure" /\ pc' = "measure" /\ walk # source
      /\ path' = P /\ walk' = arc_tail(arc)
  BY DEF Measure, networkVars, arguments, search
<1>2. /\ DiscoveryOrder /\ Leads(path, walk, destination)
      /\ NetworkTypeOK /\ path \in SUBSET Arc /\ walk \in Node /\ queue \in Seq(Node)
  BY <1>1 DEF RouteOK, IInv, TypeOK
<1>3. PICK k \in 1 .. Len(queue) :
        /\ queue[k] = walk
        /\ \A a \in path : \E j \in k + 1 .. Len(queue) : queue[j] = arc_head(a)
  BY <1>1 DEF RouteOK
<1>4. k # 1
  BY <1>1, <1>2, <1>3 DEF DiscoveryOrder
<1>5. /\ arc \in Arc /\ arc_head(arc) = walk
      /\ \E i \in 1 .. k - 1 : queue[i] = arc_tail(arc)
  BY <1>2, <1>3, <1>4 DEF DiscoveryOrder
<1> HIDE DEF arc
<1>6. PICK i \in 1 .. k - 1 : queue[i] = arc_tail(arc)
  BY <1>5
<1>7. i \in 1 .. Len(queue) /\ k \in i + 1 .. Len(queue)
      /\ \A j \in k + 1 .. Len(queue) : j \in i + 1 .. Len(queue)
  BY <1>2, <1>3
<1>8. \A a \in P : \E j \in i + 1 .. Len(queue) : queue[j] = arc_head(a)
  BY <1>3, <1>5, <1>7
<1>9. arc \notin path
  <2> SUFFICES ASSUME arc \in path PROVE FALSE
    OBVIOUS
  <2>1. PICK j \in k + 1 .. Len(queue) : queue[j] = walk
    BY <1>3, <1>5
  <2>2. j \in 1 .. Len(queue) /\ j # k
    BY <1>2, <1>3
  <2> QED  BY <1>2, <1>3, <2>1, <2>2 DEF DiscoveryOrder
<1>10. Leads(P, arc_tail(arc), destination)
  <2> SUFFICES ASSUME NEW n \in Node
               PROVE  entering(P, n) - leaving(P, n)
                        = (IF n = destination THEN 1 ELSE 0)
                          - (IF n = arc_tail(arc) THEN 1 ELSE 0)
    BY DEF Leads
  <2>1. /\ entering(P, n) = entering(path, n) + (IF n = walk THEN 1 ELSE 0)
        /\ leaving(P, n) = leaving(path, n) + (IF n = arc_tail(arc) THEN 1 ELSE 0)
    BY <1>2, <1>5, <1>9, OneArcMore
  <2>2. entering(path, n) \in Nat /\ leaving(path, n) \in Nat
    BY <1>2, CountsType
  <2>3. entering(path, n) - leaving(path, n)
          = (IF n = destination THEN 1 ELSE 0) - (IF n = walk THEN 1 ELSE 0)
    BY <1>2 DEF Leads
  <2> HIDE DEF P
  <2> QED  BY <2>1, <2>2, <2>3
<1>11. DiscoveryOrder'
  BY <1>1, <1>2, SameArcs DEF DiscoveryOrder
<1>12. Leads(path, walk, destination)'
  BY <1>1, <1>10, SameArcs DEF Leads, entering, leaving
<1>13. \A a \in path' : \E j \in i + 1 .. Len(queue') : queue'[j] = arc_head(a)'
  BY <1>1, <1>8, SameArcs
<1>14. queue'[i] = walk' /\ i \in 1 .. Len(queue')
  BY <1>1, <1>6, <1>7
<1> QED  BY <1>1, <1>11, <1>12, <1>13, <1>14 DEF RouteOK

(* Steps that leave the walk where it is.                                  *)
LEMMA SameRoute ==
  ASSUME RouteOK, UNCHANGED networkVars, UNCHANGED arguments,
         UNCHANGED <<queue, prev, walk, path>>, pc \in {"measure", "commit"},
         pc' = "commit" => walk = source
  PROVE  RouteOK'
<1>1. DiscoveryOrder'
  BY SameArcs DEF RouteOK, DiscoveryOrder
<1>2. Leads(path, walk, destination)'
  BY SameArcs DEF RouteOK, Leads, entering, leaving
<1>3. \E k \in 1 .. Len(queue') :
        /\ queue'[k] = walk'
        /\ \A a \in path' : \E j \in k + 1 .. Len(queue') : queue'[j] = arc_head(a)'
  BY SameArcs DEF RouteOK
<1>4. pc' = "commit" => walk' = source'
  BY SameArcs
<1> QED  BY <1>1, <1>2, <1>3, <1>4 DEF RouteOK

LEMMA RouteInvariant == Spec => [](RouteOK /\ NothingPaid)
<1>1. Init => RouteOK /\ NothingPaid
  BY DEF Init, RouteOK, NothingPaid, Searched
<1>2. IInv /\ BreadthOK /\ RouteOK /\ [Next]_vars => RouteOK'
  <2> SUFFICES ASSUME IInv, BreadthOK, RouteOK, [Next]_vars PROVE RouteOK'
    OBVIOUS
  <2>1. CASE BeginMeasure
    BY <2>1, BeginMeasureRoute
  <2>2. CASE Measure
    BY <2>2, MeasureRoute
  <2>3. CASE Measured
    <3>1. /\ UNCHANGED networkVars /\ UNCHANGED arguments
          /\ UNCHANGED <<queue, prev, walk, path>>
          /\ pc = "measure" /\ walk = source
      BY <2>3 DEF Measured, networkVars, arguments, search, measured
    <3> QED  BY <3>1, SameRoute
  <2>4. CASE UNCHANGED vars
    <3>1. /\ UNCHANGED networkVars /\ UNCHANGED arguments
          /\ UNCHANGED <<queue, prev, walk, path, pc>>
      BY <2>4 DEF vars, networkVars, arguments, search, measured
    <3>2. CASE pc \in {"measure", "commit"}
      BY <3>1, <3>2, SameRoute DEF RouteOK
    <3>3. CASE pc \notin {"measure", "commit"}
      BY <3>1, <3>3 DEF RouteOK
    <3> QED  BY <3>2, <3>3
  <2>5. CASE \/ \E s \in Node, d \in Node \union {NO_NODE}, t \in Thresholds :
                  BFS_path(s, d, t)
             \/ NextPath
    BY <2>5 DEF BFS_path, NextPath, begin_search, Return, RouteOK
  <2>6. CASE \E ends \in Terminals, x \in Amounts :
               simple_feasibleflow(ends[1], ends[2], x)
    BY <2>6 DEF simple_feasibleflow, RouteOK
  <2>7. CASE Visit \/ (\E arc \in todo : Discover(arc))
    BY <2>7 DEF Visit, Discover, RouteOK
  <2>8. CASE Exhausted \/ PathReturned \/ NoPath \/ Augment
    BY <2>8 DEF Exhausted, PathReturned, NoPath, Augment, Return, RouteOK
  <2> QED
    BY <2>1, <2>2, <2>3, <2>4, <2>5, <2>6, <2>7, <2>8 DEF Next, Running
<1>3. IInv /\ NothingPaid /\ [Next]_vars => NothingPaid'
  <2> SUFFICES ASSUME IInv, NothingPaid, [Next]_vars PROVE NothingPaid'
    OBVIOUS
  <2>1. cost' = cost
    BY DEF Next, Running, vars, arguments, BFS_path, simple_feasibleflow, NextPath, Visit,
       Discover, Exhausted, PathReturned, NoPath, BeginMeasure, Measure, Measured, Augment
  <2>2. ASSUME asked' > 0, pc' \in Searched \union {"commit"} PROVE amount' > 0
    <3>1. CASE \E s \in Node, d \in Node \union {NO_NODE}, t \in Thresholds :
                 BFS_path(s, d, t)
      BY <2>2, <3>1 DEF BFS_path, IInv, CallOK
    <3>2. CASE \E ends \in Terminals, x \in Amounts :
                 simple_feasibleflow(ends[1], ends[2], x)
      BY <2>2, <3>2 DEF simple_feasibleflow, Searched
    <3>3. CASE NextPath
      BY <2>2, <3>3 DEF NextPath, Return, Searched, begin_search
    <3>4. CASE PathReturned \/ NoPath \/ Augment
      BY <2>2, <3>4 DEF PathReturned, NoPath, Augment, Return, Searched
    <3>5. CASE \/ Visit \/ (\E arc \in todo : Discover(arc)) \/ Exhausted
               \/ BeginMeasure \/ Measure \/ Measured \/ UNCHANGED vars
      <4>1. /\ asked' = asked /\ amount' = amount
            /\ pc \in Searched \union {"commit"}
        <5>1. CASE Visit \/ (\E arc \in todo : Discover(arc)) \/ Exhausted
          BY <5>1 DEF Visit, Discover, Exhausted, Searched, arguments
        <5>2. CASE BeginMeasure \/ Measure \/ Measured
          BY <5>2 DEF BeginMeasure, Measure, Measured, Searched, arguments
        <5>3. CASE UNCHANGED vars
          BY <2>2, <5>3 DEF vars, arguments
        <5> QED  BY <3>5, <5>1, <5>2, <5>3
      <4> QED  BY <2>2, <4>1 DEF NothingPaid
    <3> QED  BY <3>1, <3>2, <3>3, <3>4, <3>5 DEF Next, Running
  <2> QED  BY <2>1, <2>2 DEF NothingPaid
<1> QED  BY InductiveInvariant, BreadthInvariant, <1>1, <1>2, <1>3, PTL DEF Spec
-----------------------------------------------------------------------------
(* What remains to be sent, as excess of the source and deficit of the     *)
(* destination.                                                            *)
surplus ==
  [n \in Node |-> (IF n = source THEN amount ELSE 0)
                  - (IF n = destination THEN amount ELSE 0)]

(* The specification of the solvers sees the same network.                 *)
LEMMA AbstractFacts ==
  /\ Abstract!Node = Node /\ Abstract!ProblemArc = ProblemArc /\ Abstract!Arc = Arc
  /\ \A a : Abstract!arc_dual(a) = arc_dual(a)
  /\ \A a : Abstract!total(a) = capacity[a] + capacity[arc_dual(a)]
  /\ \A S : Abstract!Max(S) = Max(S)
  /\ \A n : Abstract!node_balance(n) = node_balance(n)
  /\ \A f, n : Abstract!Inflow(f, n) = SumOver(f, {a \in ProblemArc : graph.to[a] = n})
  /\ \A f, n : Abstract!Outflow(f, n) = SumOver(f, {a \in ProblemArc : graph.from[a] = n})
  /\ Abstract!flow_cost = spent(capacity, cost)
  /\ \A f : Abstract!FlowCost(f) = paid(f, cost)
<1>1. Abstract!Node = Node /\ Abstract!ProblemArc = ProblemArc /\ Abstract!Arc = Arc
  BY DEF Abstract!Node, Node, Abstract!ProblemArc, ProblemArc, Abstract!Arc, Arc
<1>2. \A a : Abstract!arc_dual(a) = arc_dual(a)
  BY DEF Abstract!arc_dual, arc_dual
<1>3. \A a : Abstract!total(a) = capacity[a] + capacity[arc_dual(a)]
  BY <1>2 DEF Abstract!total
<1>4. \A S : Abstract!Max(S) = Max(S)
  BY Zenon DEF Abstract!Max, Max
<1>5. ASSUME NEW n PROVE Abstract!node_balance(n) = node_balance(n)
  BY ZenonT(30) DEF Abstract!node_balance, node_balance, Abstract!MapThenSumSet, MapThenSumSet,
     Abstract!MapThenFoldSet, MapThenFoldSet, Abstract!node_adjacency, node_adjacency,
     Abstract!arc_tail, arc_tail, Abstract!arc_is_dual, arc_is_dual, Abstract!arc_dual, arc_dual,
     Abstract!Arc, Arc
<1>6. ASSUME NEW f, NEW n
      PROVE  Abstract!Inflow(f, n) = SumOver(f, {a \in ProblemArc : graph.to[a] = n})
  BY ZenonT(30) DEF Abstract!Inflow, SumOver, Abstract!MapThenSumSet, MapThenSumSet,
     Abstract!MapThenFoldSet, MapThenFoldSet, Abstract!ProblemArc, ProblemArc
<1>7. ASSUME NEW f, NEW n
      PROVE  Abstract!Outflow(f, n) = SumOver(f, {a \in ProblemArc : graph.from[a] = n})
  BY ZenonT(30) DEF Abstract!Outflow, SumOver, Abstract!MapThenSumSet, MapThenSumSet,
     Abstract!MapThenFoldSet, MapThenFoldSet, Abstract!ProblemArc, ProblemArc
<1>8. Abstract!flow_cost = spent(capacity, cost)
  BY ZenonT(30) DEF Abstract!flow_cost, spent, Abstract!MapThenSumSet, MapThenSumSet,
     Abstract!MapThenFoldSet, MapThenFoldSet, Abstract!ProblemArc, ProblemArc,
     Abstract!arc_dual, arc_dual
<1>9. ASSUME NEW f PROVE Abstract!FlowCost(f) = paid(f, cost)
  BY ZenonT(30) DEF Abstract!FlowCost, paid, Abstract!MapThenSumSet, MapThenSumSet,
     Abstract!MapThenFoldSet, MapThenFoldSet, Abstract!ProblemArc, ProblemArc
<1> QED  BY <1>1, <1>2, <1>3, <1>4, <1>5, <1>6, <1>7, <1>8, <1>9

LEMMA SupplyValue ==
  \A n \in Node : Abstract!supply(n) = surplus[n] - balance(capacity, n)
<1> SUFFICES ASSUME NEW n \in Node
             PROVE  Abstract!supply(n) = surplus[n] - balance(capacity, n)
  OBVIOUS
<1>1. Abstract!node_balance(n) = balance(capacity, n)
  BY AbstractFacts, BalanceValue
<1> QED  BY <1>1 DEF Abstract!supply, surplus

LEMMA TotalValue ==
  \A a : Abstract!total(a) = capacity[a] + capacity[arc_dual(a)]
BY AbstractFacts

(* A step of the call that moves flow is one of the specification.         *)
LEMMA WorkFacts ==
  ASSUME pc # "idle", pc' # "idle", asked > 0, asked' = asked,
         graph' = graph, cost' = cost, capacity' \in [Arc -> Nat],
         Moved(capacity, surplus, capacity', surplus')
  PROVE  Abstract!Work
<1>1. \A a \in Arc : Abstract!total(a)' = Abstract!total(a)
  <2>1. (\A a : Abstract!total(a) = capacity[a] + capacity[arc_dual(a)])'
    BY TotalValue, PTL
  <2>2. \A a : arc_dual(a)' = arc_dual(a)
    BY DEF arc_dual
  <2>3. \A a : Abstract!total(a)' = capacity'[a] + capacity'[arc_dual(a)]
    BY <2>1, <2>2
  <2> QED  BY <2>3, AbstractFacts DEF Moved
<1>2. \A n \in Node : Abstract!supply(n)' = Abstract!supply(n)
  <2>1. (\A n \in Node : Abstract!supply(n) = surplus[n] - balance(capacity, n))'
    BY SupplyValue, PTL
  <2>2. \A n \in Node : Abstract!supply(n)' = surplus'[n] - balance(capacity', n)
    BY <2>1, BalanceNext
  <2> QED  BY <2>2, SupplyValue DEF Moved
<1>3. \A a \in Arc : capacity'[a] >= 0
  OBVIOUS
<1>4. Abstract!Arc = Arc /\ Abstract!Node = Node
  BY AbstractFacts
<1> QED  BY <1>1, <1>2, <1>3, <1>4 DEF Abstract!Work

(* What the source has too much of and the destination too little.         *)
LEMMA SurplusFacts ==
  ASSUME TypeOK
  PROVE  /\ surplus \in [Node -> Int]
         /\ \A n \in Node : surplus[n] = (IF n = source THEN amount ELSE 0)
                                         - (IF n = destination THEN amount ELSE 0)
         /\ \A n \in Node : n # destination => surplus[n] >= 0
<1>1. amount \in Nat
  BY DEF TypeOK
<1> QED  BY <1>1 DEF surplus

(* The flows of the specification meet the supplies of the network.        *)
LEMMA FlowsMeet ==
  ASSUME TypeOK, NEW f \in Abstract!FeasibleFlows
  PROVE  Meets(f, capacity, surplus)
<1>1. f \in Abstract!Flows /\ \A n \in Node : Abstract!Excess(f, n) = 0
  BY AbstractFacts DEF Abstract!FeasibleFlows
<1>2. ASSUME NEW a \in ProblemArc
      PROVE  f[a] \in Nat /\ f[a] <= capacity[a] + capacity[arc_dual(a)]
  <2> DEFINE m == Abstract!Max({Abstract!total(b) : b \in Abstract!ProblemArc})
  <2>1. f[a] \in 0 .. m /\ f[a] <= Abstract!total(a)
    BY <1>1, AbstractFacts DEF Abstract!Flows
  <2> HIDE DEF m
  <2>2. f[a] \in Nat
    BY <2>1, IntervalNat
  <2> QED  BY <2>1, <2>2, TotalValue
<1>3. ASSUME NEW n \in Node
      PROVE  surplus[n] - balance(capacity, n)
               + SumOver(f, {a \in ProblemArc : graph.to[a] = n})
               - SumOver(f, {a \in ProblemArc : graph.from[a] = n}) = 0
  <2>1. Abstract!supply(n) + Abstract!Inflow(f, n) - Abstract!Outflow(f, n) = 0
    BY <1>1 DEF Abstract!Excess
  <2> QED  BY <2>1, SupplyValue, AbstractFacts
<1> QED  BY <1>2, <1>3 DEF Meets

(* A search that misses the destination has found a cut: what is left at   *)
(* the source cannot get out of the array, and no flow can send it.        *)
LEMMA NothingFeasible ==
  ASSUME IInv, BreadthOK, NothingPaid, pc = "missed", asked > 0
  PROVE  Abstract!FeasibleFlows = {}
<1> SUFFICES ASSUME NEW f \in Abstract!FeasibleFlows PROVE FALSE
  OBVIOUS
<1> DEFINE S == {queue[i] : i \in 1 .. Len(queue)}
<1>1. /\ NetworkTypeOK /\ capacity \in [Arc -> Nat] /\ Meets(f, capacity, surplus)
      /\ surplus \in [Node -> Int] /\ IsFiniteSet(Node)
      /\ cap_threshold = 1 /\ amount > 0 /\ source \in Node /\ amount \in Nat
  <2>1. TypeOK /\ CallOK /\ NothingPaid
    BY DEF IInv
  <2>2. NetworkTypeOK /\ capacity \in [Arc -> Nat] /\ source \in Node /\ amount \in Nat
    BY <2>1 DEF TypeOK, NetworkTypeOK
  <2>3. cap_threshold = 1 /\ amount > 0
    BY <2>1 DEF CallOK, NothingPaid, Searched
  <2>4. Meets(f, capacity, surplus) /\ surplus \in [Node -> Int]
    BY <2>1, FlowsMeet, SurplusFacts
  <2> QED  BY <2>2, <2>3, <2>4, Sizes
<1>2. /\ ReadOK /\ queue \in Seq(Node) /\ Len(queue) \in Nat
      /\ \A i \in 1 .. Len(queue) : queue[i] \in Node
  BY SearchOverFacts DEF SearchOver
<1>3. /\ queue_start = Len(queue) /\ todo = {}
      /\ \A i \in 1 .. Len(queue) : queue[i] # destination
  BY <1>2 DEF ReadOK
<1>4. PICK L : Levels(L, queue, queue_start, todo, prev)
  BY DEF BreadthOK
<1>5. S \in SUBSET Node /\ source \in S /\ destination \notin S
  BY <1>1, <1>2, <1>3 DEF ReadOK, seen
<1>6. ASSUME NEW a \in Arc, arc_tail(a) \in S, arc_head(a) \notin S
      PROVE  capacity[a] = 0
  <2>1. PICK i \in 1 .. Len(queue) : queue[i] = arc_tail(a)
    BY <1>6
  <2>2. i \in 1 .. queue_start /\ a \in Arc \ todo
    BY <1>3
  <2>3. ~ traversable(a)
    BY <1>3, <1>4, <1>6, <2>1, <2>2 DEF Levels, ArcsRead
  <2>4. capacity[a] \in Nat
    BY <1>1
  <2> QED  BY <1>1, <2>3, <2>4 DEF traversable
<1> HIDE DEF S
<1>7. SumOver(surplus, S) <= 0
  BY <1>1, <1>5, <1>6, CutExcess
<1>8. SumOver(surplus, S) > 0
  <2>1. IsFiniteSet(S) /\ Integral(surplus, S)
    BY <1>1, <1>5, FS_Subset DEF Integral
  <2>2. surplus[source] > 0 /\ \A n \in S : surplus[n] >= 0
    BY <1>1, <1>5, SurplusFacts DEF IInv
  <2> QED  BY <1>5, <2>1, <2>2, SumPositive
<1>9. SumOver(surplus, S) \in Int
  <2>1. Integral(surplus, Node)
    BY <1>1 DEF Integral
  <2> QED  BY <1>1, <1>5, <2>1, SumType
<1> QED  BY <1>7, <1>8, <1>9

(* Without costs every flow that meets the supplies is the cheapest.       *)
LEMMA FreeIsOptimal ==
  ASSUME TypeOK, NothingPaid
  PROVE  Abstract!Optimal
<1> SUFFICES ASSUME NEW f \in Abstract!FeasibleFlows
             PROVE  Abstract!flow_cost <= Abstract!FlowCost(f)
  BY DEF Abstract!Optimal
<1>1. Meets(f, capacity, surplus) /\ capacity \in [Arc -> Nat]
  BY FlowsMeet DEF TypeOK, NetworkTypeOK
<1>2. \A a \in ProblemArc : f[a] \in Int /\ capacity[arc_dual(a)] \in Int /\ cost[a] = 0
  BY <1>1, DualFacts DEF Meets, NothingPaid
<1>3. spent(capacity, cost) = 0 /\ paid(f, cost) = 0
  BY <1>2, FreeOfCharge
<1> QED  BY <1>3, AbstractFacts

(* What augment_flow sends along the path arrives at the destination.      *)
LEMMA AugmentMoves ==
  ASSUME IInv, IInv', RouteOK, Augment
  PROVE  Moved(capacity, surplus, capacity', surplus')
<1> DEFINE c == capacity
           d == capacity'
           x == delta
           e == surplus
           g == surplus'
           left == amount'
<1>1. /\ d = [a \in Arc |-> augmented(a)] /\ left = amount - x
      /\ source' = source /\ destination' = destination /\ pc = "commit"
  BY DEF Augment, arguments
<1>2. /\ NetworkTypeOK /\ c \in [Arc -> Nat] /\ d \in [Arc -> Nat]
      /\ path \in SUBSET Arc /\ amount \in Nat /\ flow \in Nat
  <2>1. TypeOK /\ TypeOK'
    BY DEF IInv
  <2>2. NetworkTypeOK /\ c \in [Arc -> Nat]
    BY <2>1 DEF TypeOK, NetworkTypeOK
  <2>3. d \in [Arc -> Nat]
    BY <2>1 DEF TypeOK, NetworkTypeOK
  <2>4. path \in SUBSET Arc /\ amount \in Nat /\ flow \in Nat
    BY <2>1 DEF TypeOK
  <2> QED  BY <2>2, <2>3, <2>4
<1>3. x \in Nat
  BY <1>2 DEF delta, MIN
<1>4. d = along(c, path, x)
  BY <1>1 DEF along, augmented
<1>5. Leads(path, source, destination)
  BY <1>1 DEF RouteOK
<1>6. \A n \in Node : e[n] = (IF n = source THEN amount ELSE 0)
                             - (IF n = destination THEN amount ELSE 0)
  BY DEF surplus
<1>7. \A n \in Node : g[n] = (IF n = source THEN left ELSE 0)
                             - (IF n = destination THEN left ELSE 0)
  BY <1>1 DEF surplus
<1> HIDE DEF c, d, x, e, g, left
<1>8. ASSUME NEW a \in Arc
      PROVE  d[a] + d[arc_dual(a)] = c[a] + c[arc_dual(a)]
  <2>1. arc_dual(a) \in Arc /\ arc_dual(arc_dual(a)) = a
    BY <1>2, ArcFacts
  <2>2. c[a] \in Nat /\ c[arc_dual(a)] \in Nat
    BY <1>2, <2>1
  <2>3. /\ d[a] = c[a] - (IF a \in path THEN x ELSE 0)
                       + (IF arc_dual(a) \in path THEN x ELSE 0)
        /\ d[arc_dual(a)] = c[arc_dual(a)] - (IF arc_dual(a) \in path THEN x ELSE 0)
                                           + (IF a \in path THEN x ELSE 0)
    BY <1>4, <2>1 DEF along
  <2> QED  BY <1>3, <2>2, <2>3
<1>9. ASSUME NEW n \in Node
      PROVE  g[n] - balance(d, n) = e[n] - balance(c, n)
  <2> DEFINE in == entering(path, n)
             out == leaving(path, n)
  <2>1. balance(d, n) = balance(c, n) + x * in - x * out
    BY <1>2, <1>3, <1>4, BalanceAlong
  <2>2. in \in Nat /\ out \in Nat
    BY <1>2, CountsType
  <2>3. in - out = (IF n = destination THEN 1 ELSE 0) - (IF n = source THEN 1 ELSE 0)
    BY <1>5 DEF Leads
  <2>4. balance(c, n) \in Int
    BY <1>2, CarriedType
  <2> HIDE DEF in, out
  <2>5. x * in - x * out = (IF n = destination THEN x ELSE 0) - (IF n = source THEN x ELSE 0)
    <3>1. x * in - x * out = x * (in - out)
      BY <1>3, <2>2
    <3> QED  BY <1>3, <2>2, <2>3, <3>1
  <2>6. balance(d, n) = balance(c, n) + (IF n = destination THEN x ELSE 0)
                                      - (IF n = source THEN x ELSE 0)
    <3>1. x * in \in Int /\ x * out \in Int
      BY <1>3, <2>2
    <3> QED  BY <1>3, <2>1, <2>4, <2>5, <3>1
  <2> QED  BY <1>1, <1>2, <1>3, <1>6, <1>7, <2>4, <2>6
<1> QED  BY <1>8, <1>9 DEF Moved, c, d, e, g

(* Steps that leave the network and the call alone.                        *)
LEMMA QuietStep ==
  ASSUME IInv, IInv', UNCHANGED arguments, UNCHANGED <<capacity, amount>>,
         asked > 0 => pc # "idle" /\ pc' # "idle"
  PROVE  [Abstract!Next]_(Abstract!vars)
<1>1. /\ UNCHANGED <<graph, cost, potential, capacity, source, destination, asked, amount>>
      /\ asked \in Nat
  BY DEF arguments, IInv, TypeOK
<1>2. CASE asked > 0
  <2>1. surplus' = surplus
    BY <1>1 DEF surplus
  <2>2. Moved(capacity, surplus, capacity', surplus')
    BY <1>1, <2>1 DEF Moved
  <2>3. capacity' \in [Arc -> Nat]
    BY DEF IInv, TypeOK, NetworkTypeOK
  <2> QED  BY <1>1, <1>2, <2>2, <2>3, WorkFacts DEF Abstract!Next
<1>3. CASE asked = 0
  BY <1>1, <1>3 DEF Abstract!vars, Abstract!networkVars
<1> QED  BY <1>1, <1>2, <1>3

(* simple_feasibleflow sends the amount whenever it can be sent: every     *)
(* path moves flow without creating or losing any, success leaves nothing  *)
(* to send, and failure means that no flow would have sent it.             *)
THEOREM ImplementsMinCostFlow == Spec => Implements
<1> DEFINE I == IInv /\ BreadthOK /\ RouteOK /\ NothingPaid
<1>1. Init => Abstract!Init
  BY DEF Init, Abstract!Init
<1>2. I /\ I' /\ [Next]_vars => [Abstract!Next]_(Abstract!vars)
  <2> SUFFICES ASSUME IInv, BreadthOK, RouteOK, NothingPaid, IInv', [Next]_vars
               PROVE  [Abstract!Next]_(Abstract!vars)
    OBVIOUS
  <2>0. TypeOK /\ asked \in Nat /\ amount \in 0 .. asked
    BY DEF IInv, TypeOK
  <2>1. CASE UNCHANGED vars
    BY <2>1 DEF vars, arguments, Abstract!vars, Abstract!networkVars
  <2>2. CASE \E s \in Node, d \in Node \union {NO_NODE}, t \in Thresholds :
               BFS_path(s, d, t)
    <3>1. /\ UNCHANGED <<graph, cost, potential, capacity, asked, amount, result>>
          /\ asked = 0 /\ amount = 0
      BY <2>0, <2>2 DEF BFS_path, IInv, CallOK
    <3>2. [n \in Node |-> (IF n = source THEN amount ELSE 0)
                          - (IF n = destination THEN amount ELSE 0)]'
            = [n \in Node |-> (IF n = source THEN amount ELSE 0)
                              - (IF n = destination THEN amount ELSE 0)]
      BY <3>1
    <3> QED  BY <3>1, <3>2, AbstractFacts DEF Abstract!vars, Abstract!networkVars
  <2>3. CASE \E ends \in Terminals, x \in Amounts :
               simple_feasibleflow(ends[1], ends[2], x)
    <3>1. PICK ends \in Terminals, x \in Amounts :
            simple_feasibleflow(ends[1], ends[2], x)
      BY <2>3
    <3>2. /\ pc = "idle" /\ result = "none" /\ asked = 0 /\ amount = 0
          /\ UNCHANGED <<graph, cost, potential, capacity, result>>
          /\ asked' = x /\ amount' = x
          /\ pc' = IF x > 0 THEN "next" ELSE "aborted"
          /\ x \in Nat
      BY <2>0, <3>1, NetworksAssumption DEF simple_feasibleflow, IInv, CallOK
    <3>3. CASE x > 0
      <4>1. Abstract!Call
        BY <3>2, <3>3 DEF Abstract!Call
      <4> QED  BY <4>1 DEF Abstract!Next
    <3>4. CASE x = 0
      <4>1. [n \in Node |-> (IF n = source THEN amount ELSE 0)
                            - (IF n = destination THEN amount ELSE 0)]'
              = [n \in Node |-> (IF n = source THEN amount ELSE 0)
                                - (IF n = destination THEN amount ELSE 0)]
        BY <3>2, <3>4
      <4> QED  BY <3>2, <3>4, <4>1, AbstractFacts DEF Abstract!vars, Abstract!networkVars
    <3> QED  BY <3>2, <3>3, <3>4
  <2>4. CASE NextPath /\ amount > 0
    BY <2>4, QuietStep DEF NextPath, begin_search
  <2>5. CASE NextPath /\ ~ (amount > 0)
    <3>1. /\ pc = "next" /\ asked > 0 /\ pc' = "idle" /\ result' = "true" /\ amount = 0
          /\ UNCHANGED arguments /\ UNCHANGED <<capacity, amount>>
      BY <2>0, <2>5 DEF NextPath, Return, IInv, CallOK
    <3>2. UNCHANGED <<graph, cost, potential, capacity, source, destination, asked, amount>>
      BY <3>1 DEF arguments
    <3>3. Abstract!Balanced /\ Abstract!Optimal
      BY <2>0, <3>1, AbstractFacts, FreeIsOptimal DEF Abstract!Balanced
    <3>4. Abstract!Succeed
      BY <3>1, <3>2, <3>3 DEF Abstract!Succeed, Abstract!networkVars
    <3> QED  BY <3>4 DEF Abstract!Next
  <2>6. CASE Visit \/ (\E arc \in todo : Discover(arc)) \/ Exhausted
    BY <2>6, QuietStep DEF Visit, Discover, Exhausted
  <2>7. CASE BeginMeasure \/ Measure \/ Measured
    BY <2>7, QuietStep DEF BeginMeasure, Measure, Measured
  <2>8. CASE PathReturned
    BY <2>8, QuietStep DEF PathReturned
  <2>9. CASE NoPath
    <3>1. /\ pc = "missed" /\ asked > 0 /\ pc' = "idle" /\ result' = "false"
          /\ UNCHANGED <<graph, cost, potential, capacity, source, destination, asked, amount>>
      BY <2>9 DEF NoPath, Return, arguments
    <3>2. Abstract!FeasibleFlows = {}
      BY <3>1, NothingFeasible
    <3>3. Abstract!Fail
      BY <3>1, <3>2 DEF Abstract!Fail, Abstract!networkVars
    <3> QED  BY <3>3 DEF Abstract!Next
  <2>10. CASE Augment
    <3>1. /\ pc = "commit" /\ pc' = "next" /\ asked > 0
          /\ UNCHANGED <<graph, cost, asked>>
      BY <2>10 DEF Augment, arguments, IInv, CallOK
    <3>2. capacity' \in [Arc -> Nat]
      BY DEF IInv, TypeOK, NetworkTypeOK
    <3>3. Moved(capacity, surplus, capacity', surplus')
      BY <2>10, AugmentMoves
    <3> QED  BY <3>1, <3>2, <3>3, WorkFacts DEF Abstract!Next
  <2> QED
    BY <2>1, <2>2, <2>3, <2>4, <2>5, <2>6, <2>7, <2>8, <2>9, <2>10 DEF Next, Running
<1> QED
  BY <1>1, <1>2, InductiveInvariant, BreadthInvariant, RouteInvariant, PTL
  DEF Spec, Implements
=============================================================================
