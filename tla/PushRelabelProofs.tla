------------------------- MODULE PushRelabelProofs -------------------------
(* Theorems about goldberg_tarjan_feasible, for every network and every    *)
(* supplies: no arc carries more than it can, the labels are valid, and a  *)
(* node whose label reached max_label is cut off from the sinks.           *)
EXTENDS PushRelabel, ResidualNetworkProofs

(* The sources get their labels before any other node does.                *)
EnqueueOK == pc = "enqueue" => \A n \in Node : potential[n] <= 1

(* The scan of a node that still has excess: an arc that was visited and   *)
(* is not saturated leads neither below the node nor below min_label.      *)
ScanOK ==
  pc = "scan" =>
    /\ todo \subseteq node_adjacency(node)
    /\ excess[node] >= 0
    /\ excess[node] > 0 =>
         \A a \in node_adjacency(node) \ todo : capacity[a] > 0 =>
           /\ potential[node] <= potential[arc_head(a)]
           /\ min_label <= potential[arc_head(a)]

(* The inductive invariant.                                                *)
IInv == TypeOK /\ LabelsValid /\ EnqueueOK /\ ScanOK

LEMMA Sizes == /\ max_num_nodes \in Nat \ {0} /\ num_arcs \in Nat
               /\ 0 \in Node /\ \A n \in Node : n \in Int
               /\ INFINITE \in Nat /\ INFINITE > 0
  BY SizesAssumption, InfiniteAssumption DEF Node

(* Steps that change neither capacities nor excess nor labels.             *)
LEMMA SameLabels ==
  ASSUME LabelsValid, UNCHANGED <<graph, capacity, potential, excess>>
  PROVE  LabelsValid'
  BY SameGraph DEF LabelsValid
-----------------------------------------------------------------------------
LEMMA InitInvariant == Init => IInv
<1> SUFFICES ASSUME Init PROVE IInv
  OBVIOUS
<1> USE Sizes
<1>1. NetworkTypeOK
  <2>1. \A a \in Arc : arc_dual(a) \in Arc
    BY DEF Arc, arc_dual
  <2>2. \A a \in Arc : cost[a] = 0 /\ cost[arc_dual(a)] = 0
    BY <2>1 DEF Init
  <2>3. \A a \in Arc : cost[arc_dual(a)] = - cost[a]
    BY <2>2
  <2> QED
    BY <2>3, NetworksAssumption DEF Init, NetworkTypeOK
<1>2. /\ << >> \in Seq(Node) /\ 0 \in 0 .. max_num_nodes
      /\ INFINITE \in 0 .. INFINITE
  OBVIOUS
<1>3. TypeOK
  BY <1>1, <1>2 DEF Init, TypeOK
<1>4. LabelsValid
  <2>1. \A a \in Arc : potential[arc_tail(a)] = 0 /\ potential[arc_head(a)] = 0
    BY <1>1, ArcFacts DEF Init
  <2> QED
    BY <2>1 DEF Init, LabelsValid
<1> QED
  BY <1>3, <1>4 DEF Init, IInv, EnqueueOK, ScanOK

LEMMA CallKeeps ==
  ASSUME IInv, NEW supply \in Supplies, goldberg_tarjan_feasible(supply)
  PROVE  IInv'
<1> USE Sizes DEF IInv, goldberg_tarjan_feasible
<1>1. TypeOK'
  <2>1. excess' \in [Node -> Int]
    BY NetworksAssumption
  <2>2. potential' \in [Node -> Nat] /\ potential' \in [Node -> Int]
    OBVIOUS
  <2>3. NetworkTypeOK'
    BY <2>2 DEF TypeOK, NetworkTypeOK, arc_dual
  <2>4. active' \in Seq(Node) /\ node_id' \in 0 .. max_num_nodes
    OBVIOUS
  <2> QED
    BY <2>1, <2>2, <2>3, <2>4 DEF TypeOK
<1>2. LabelsValid'
  <2>1. \A a \in Arc : arc_tail(a) \in Node /\ arc_head(a) \in Node
    BY ArcFacts DEF TypeOK
  <2> QED
    BY <2>1, SameGraph DEF LabelsValid
<1> QED
  BY <1>1, <1>2 DEF EnqueueOK, ScanOK

LEMMA EnqueueKeeps ==
  ASSUME IInv, Enqueue
  PROVE  IInv'
<1> USE Sizes DEF IInv, Enqueue
<1>1. /\ potential' \in [Node -> Nat] /\ potential' \in [Node -> Int]
      /\ \A n \in Node : potential'[n] <= 1
      /\ \A n \in Node : excess[n] < 0 => potential'[n] = potential[n]
  <2>1. /\ potential \in [Node -> Nat] /\ excess \in [Node -> Int]
        /\ node_id \in Node /\ \A n \in Node : potential[n] <= 1
    BY DEF TypeOK, EnqueueOK
  <2>2. \/ excess[node_id] > 0 /\ potential' = [potential EXCEPT ![node_id] = 1]
        \/ potential' = potential
    OBVIOUS
  <2> HIDE DEF IInv, Enqueue
  <2>3. CASE excess[node_id] > 0 /\ potential' = [potential EXCEPT ![node_id] = 1]
    <3>1. ASSUME NEW n \in Node
          PROVE  potential'[n] = IF n = node_id THEN 1 ELSE potential[n]
      BY <2>1, <2>3
    <3>2. potential' \in [Node -> Nat] /\ potential' \in [Node -> Int]
      BY <2>1, <2>3
    <3> QED
      BY <2>1, <2>3, <3>1, <3>2
  <2>4. CASE potential' = potential
    BY <2>1, <2>4
  <2> QED
    BY <2>2, <2>3, <2>4
<1>2. TypeOK'
  <2>1. NetworkTypeOK'
    BY <1>1 DEF TypeOK, NetworkTypeOK, arc_dual
  <2>2. active' \in Seq(Node)
    <3>1. active \in Seq(Node)
      BY DEF TypeOK
    <3>2. Append(active, node_id) \in Seq(Node)
      BY <3>1
    <3> QED
      BY <3>1, <3>2
  <2>3. node_id' \in 0 .. max_num_nodes
    BY DEF TypeOK, Node
  <2> QED
    BY <1>1, <2>1, <2>2, <2>3 DEF TypeOK
<1>3. LabelsValid'
  <2>1. \A a \in Arc : arc_tail(a) \in Node /\ arc_head(a) \in Node
    BY ArcFacts DEF TypeOK
  <2>2. \A a \in Arc : potential'[arc_tail(a)] <= potential'[arc_head(a)] + 1
    BY <1>1, <2>1
  <2> QED
    BY <1>1, <2>2, SameGraph DEF LabelsValid
<1>4. EnqueueOK' /\ ScanOK'
  BY <1>1 DEF EnqueueOK, ScanOK
<1> QED
  BY <1>2, <1>3, <1>4

(* The steps of the loops that touch neither the flow nor the labels.      *)
LEMMA ControlKeeps ==
  ASSUME IInv, AllEnqueued \/ Pop \/ BeginScan \/ Discharged \/ Return
  PROVE  IInv'
<1> USE Sizes DEF IInv
<1>1. UNCHANGED <<networkVars, excess>>
  BY DEF AllEnqueued, Pop, BeginScan, Discharged, Return
<1>2. UNCHANGED <<graph, capacity, cost, potential, excess>>
  BY <1>1 DEF networkVars
<1>3. LabelsValid'
  BY <1>2, SameLabels
<1>4. NetworkTypeOK'
  BY <1>2 DEF TypeOK, NetworkTypeOK, arc_dual
<1>5. TypeOK' /\ EnqueueOK' /\ ScanOK'
  <2>1. CASE AllEnqueued
    BY <1>2, <1>4, <2>1 DEF AllEnqueued, TypeOK, EnqueueOK, ScanOK
  <2>2. CASE Pop
    <3>1. node' \in Node /\ active' \in Seq(Node)
      BY <2>2 DEF Pop, TypeOK
    <3> QED
      BY <1>2, <1>4, <2>2, <3>1 DEF Pop, TypeOK, EnqueueOK, ScanOK
  <2>3. CASE BeginScan
    <3>1. todo' = node_adjacency(node)' /\ todo' \subseteq Arc
      BY <1>2, <2>3, SameGraph DEF BeginScan, node_adjacency
    <3>2. node' = node /\ excess'[node'] > 0 /\ excess'[node'] \in Int
      BY <1>2, <2>3 DEF BeginScan, Discharging, TypeOK
    <3>3. ScanOK'
      BY <3>1, <3>2 DEF ScanOK
    <3> QED
      BY <1>2, <1>4, <2>3, <3>1, <3>3 DEF BeginScan, TypeOK, EnqueueOK
  <2>4. CASE Discharged
    BY <1>2, <1>4, <2>4 DEF Discharged, TypeOK, EnqueueOK, ScanOK
  <2>5. CASE Return
    BY <1>2, <1>4, <2>5 DEF Return, TypeOK, EnqueueOK, ScanOK
  <2> QED
    BY <2>1, <2>2, <2>3, <2>4, <2>5
<1> QED
  BY <1>3, <1>5
-----------------------------------------------------------------------------
(* A push along an arc that is not saturated and leads to a lower label.   *)
Pushes(arc) == capacity[arc] > 0 /\ potential[node] > potential[arc_head(arc)]

(* What a push does to the capacities and the excess.                      *)
LEMMA PushEffect ==
  ASSUME IInv, NEW arc \in todo, Scan(arc), Pushes(arc)
  PROVE  LET next == arc_head(arc)
             d == amount(arc)
         IN  /\ arc \in Arc /\ arc_tail(arc) = node /\ next # node
             /\ d \in Nat \ {0} /\ d <= excess[node] /\ d <= capacity[arc]
             /\ capacity' = [capacity EXCEPT ![arc] = @ - d,
                                             ![arc_dual(arc)] = @ + d]
             /\ excess' = [excess EXCEPT ![node] = @ - d, ![next] = @ + d]
             /\ excess[node] - d > 0 => capacity[arc] - d = 0
<1> DEFINE next == arc_head(arc)
           d == amount(arc)
<1>1. /\ pc = "scan" /\ excess[node] > 0 /\ arc \in Arc /\ arc_tail(arc) = node
  BY DEF Scan, IInv, TypeOK, ScanOK, node_adjacency
<1>2. NetworkTypeOK /\ capacity[arc] \in Nat /\ excess[node] \in Int
  BY <1>1 DEF IInv, TypeOK, NetworkTypeOK
<1>3. /\ node \in Node /\ potential[node] \in Nat
      /\ next \in Node /\ potential[next] \in Nat
  BY <1>1, <1>2, ArcFacts DEF IInv, TypeOK
<1>4. next # node
  BY <1>3 DEF Pushes
<1>5. /\ d \in Nat \ {0} /\ d <= excess[node] /\ d <= capacity[arc]
      /\ excess[node] - d > 0 => capacity[arc] - d = 0
  BY <1>1, <1>2 DEF Pushes, amount, MIN
<1>6. gt_push(arc, d)
  BY DEF Scan, Pushes
<1> QED
  BY <1>1, <1>4, <1>5, <1>6 DEF gt_push

LEMMA PushKeeps ==
  ASSUME IInv, NEW arc \in todo, Scan(arc), Pushes(arc)
  PROVE  IInv'
<1> DEFINE next == arc_head(arc)
           d == amount(arc)
<1> USE Sizes
<1>1. /\ arc \in Arc /\ arc_tail(arc) = node /\ next # node
      /\ d \in Nat \ {0} /\ d <= excess[node] /\ d <= capacity[arc]
      /\ capacity' = [capacity EXCEPT ![arc] = @ - d, ![arc_dual(arc)] = @ + d]
      /\ excess' = [excess EXCEPT ![node] = @ - d, ![next] = @ + d]
      /\ excess[node] - d > 0 => capacity[arc] - d = 0
  BY PushEffect
<1>2. /\ pc = "scan" /\ todo' = todo \ {arc}
      /\ UNCHANGED <<graph, cost, potential, pc, node_id, node, min_label, result>>
      /\ active' = active \/ active' = Append(active, next)
  BY DEF Scan, Pushes
<1>3. NetworkTypeOK /\ capacity \in [Arc -> Nat] /\ excess \in [Node -> Int]
      /\ potential \in [Node -> Nat] /\ node \in Node /\ active \in Seq(Node)
  BY DEF IInv, TypeOK, NetworkTypeOK
<1>4. /\ arc_dual(arc) \in Arc /\ arc_dual(arc) # arc /\ next \in Node
      /\ arc_tail(arc_dual(arc)) = next /\ arc_head(arc_dual(arc)) = node
  BY <1>1, <1>3, ArcFacts
<1>5. /\ capacity' \in [Arc -> Nat]
      /\ capacity'[arc] = capacity[arc] - d
      /\ \A b \in Arc \ {arc, arc_dual(arc)} : capacity'[b] = capacity[b]
  <2> HIDE DEF d
  <2>1. capacity[arc] - d \in Nat
    BY <1>1, <1>3
  <2>2. capacity[arc_dual(arc)] + d \in Nat
    <3>1. capacity[arc_dual(arc)] \in Nat
      BY <1>3, <1>4
    <3>2. d \in Nat
      BY <1>1
    <3> QED
      BY <3>1, <3>2
  <2> DEFINE b == arc_dual(arc)
  <2>3. b \in Arc /\ b # arc /\ capacity[b] + d \in Nat
    BY <1>4, <2>2
  <2>4. capacity' = [capacity EXCEPT ![arc] = capacity[arc] - d,
                                    ![b] = capacity[b] + d]
    <3>1. capacity' = [capacity EXCEPT ![arc] = @ - d, ![b] = @ + d]
      BY <1>1
    <3>2. b # arc
      BY <2>3
    <3> HIDE DEF b
    <3> QED
      BY <3>1, <3>2
  <2> HIDE DEF b
  <2>5. /\ capacity' \in [Arc -> Nat]
        /\ capacity'[arc] = capacity[arc] - d
        /\ \A e \in Arc \ {arc, b} : capacity'[e] = capacity[e]
    <3> DEFINE x == capacity[arc] - d
               y == capacity[b] + d
    <3>1. /\ x \in Nat /\ y \in Nat /\ capacity \in [Arc -> Nat]
          /\ arc \in Arc /\ b \in Arc /\ b # arc
          /\ capacity' = [capacity EXCEPT ![arc] = x, ![b] = y]
      BY <1>1, <1>3, <2>1, <2>3, <2>4
    <3>2. x = capacity[arc] - d
      OBVIOUS
    <3> HIDE DEF x, y
    <3> QED
      BY <3>1, <3>2
  <2> QED
    BY <2>5 DEF b
<1>6. /\ excess' \in [Node -> Int]
      /\ excess'[node] = excess[node] - d /\ excess'[next] = excess[next] + d
      /\ \A n \in Node \ {node, next} : excess'[n] = excess[n]
  <2>1. d \in Int /\ next \in Node /\ node \in Node /\ next # node
    BY <1>1, <1>3, <1>4
  <2>2. excess \in [Node -> Int]
    BY <1>3
  <2>3. excess' = [excess EXCEPT ![node] = @ - d, ![next] = @ + d]
    BY <1>1
  <2> HIDE DEF d, next
  <2>4. excess[node] \in Int /\ excess[next] \in Int
    BY <2>1, <2>2
  <2>5. excess[node] - d \in Int /\ excess[next] + d \in Int
    BY <2>1, <2>4
  <2> QED
    BY <2>1, <2>2, <2>3, <2>5
<1>7. TypeOK'
  <2>1. NetworkTypeOK'
    BY <1>2, <1>3, <1>5 DEF NetworkTypeOK, arc_dual
  <2>2. active' \in Seq(Node)
    <3>1. Append(active, next) \in Seq(Node)
      BY <1>3, <1>4
    <3> QED
      BY <1>2, <1>3, <3>1
  <2> QED
    BY <1>2, <1>6, <2>1, <2>2 DEF IInv, TypeOK
<1>8. LabelsValid'
  <2>1. \A b \in Arc : capacity'[b] > 0 =>
          potential[arc_tail(b)] <= potential[arc_head(b)] + 1
    <3> SUFFICES ASSUME NEW b \in Arc, capacity'[b] > 0
                 PROVE  potential[arc_tail(b)] <= potential[arc_head(b)] + 1
      OBVIOUS
    <3>1. CASE b = arc_dual(arc)
      BY <1>3, <1>4, <3>1 DEF Pushes
    <3>2. CASE b # arc_dual(arc)
      <4>1. capacity[b] > 0
        BY <1>5, <3>2 DEF Pushes
      <4> QED
        BY <4>1 DEF IInv, LabelsValid
    <3> QED
      BY <3>1, <3>2
  <2>2. \A n \in Node : excess'[n] < 0 => potential[n] = 0
    <3> SUFFICES ASSUME NEW n \in Node, excess'[n] < 0
                 PROVE  excess[n] < 0
      BY DEF IInv, LabelsValid
    <3>1. n # node
      <4>1. excess'[node] = excess[node] - d
        BY <1>6
      <4>2. d \in Nat /\ d <= excess[node] /\ excess[node] \in Int
        BY <1>1, <1>3
      <4> HIDE DEF d
      <4> QED
        BY <4>1, <4>2
    <3>2. CASE n = next
      <4>1. excess[next] \in Int /\ excess'[next] = excess[next] + d /\ d \in Nat
        BY <1>1, <1>3, <1>4, <1>6
      <4> HIDE DEF d, next
      <4> QED
        BY <3>2, <4>1
    <3>3. CASE n # next
      BY <1>6, <3>1, <3>3
    <3> QED
      BY <3>2, <3>3
  <2> QED
    BY <1>2, <2>1, <2>2, SameGraph DEF LabelsValid
<1>9. ScanOK'
  <2>1. todo' \subseteq node_adjacency(node) /\ excess'[node] >= 0
    <3> HIDE DEF d
    <3>1. todo' \subseteq node_adjacency(node)
      BY <1>2 DEF IInv, ScanOK
    <3>2. excess'[node] >= 0
      BY <1>1, <1>2, <1>3, <1>6
    <3> QED
      BY <3>1, <3>2
  <2>2. ASSUME excess'[node] > 0, NEW b \in node_adjacency(node) \ todo',
               capacity'[b] > 0
        PROVE  /\ potential[node] <= potential[arc_head(b)]
               /\ min_label <= potential[arc_head(b)]
    <3>1. b \in Arc /\ arc_tail(b) = node
      BY DEF node_adjacency
    <3>2. b # arc /\ b # arc_dual(arc)
      BY <1>1, <1>4, <1>5, <1>6, <2>2, <3>1
    <3>3. b \in node_adjacency(node) \ todo /\ capacity[b] > 0
      BY <1>2, <1>5, <2>2, <3>1, <3>2
    <3>4. excess[node] > 0
      BY DEF Scan
    <3> QED
      BY <1>2, <3>3, <3>4 DEF IInv, ScanOK
  <2> QED
    BY <1>2, <2>1, <2>2, SameGraph DEF ScanOK
<1> QED
  BY <1>2, <1>7, <1>8, <1>9 DEF IInv, EnqueueOK

(* An arc that is not pushed along.                                        *)
LEMMA PassKeeps ==
  ASSUME IInv, NEW arc \in todo, Scan(arc), ~ Pushes(arc)
  PROVE  IInv'
<1> DEFINE next == arc_head(arc)
<1> USE Sizes
<1>1. /\ pc = "scan" /\ todo' = todo \ {arc} /\ excess[node] > 0
      /\ UNCHANGED <<graph, capacity, cost, potential, excess, active, pc,
                     node_id, node, result>>
      /\ min_label' = IF capacity[arc] > 0 THEN label_met(arc) ELSE min_label
  BY DEF Scan, Pushes
<1>2. /\ NetworkTypeOK /\ arc \in Arc /\ node \in Node
      /\ todo \subseteq node_adjacency(node)
  BY <1>1 DEF IInv, TypeOK, ScanOK
<1>3. /\ next \in Node /\ potential[next] \in Nat /\ potential[node] \in Nat
      /\ min_label \in 0 .. INFINITE
  BY <1>2, ArcFacts DEF IInv, TypeOK
<1>4. /\ min_label' \in 0 .. INFINITE /\ min_label' <= min_label
      /\ capacity[arc] > 0 => min_label' <= potential[next]
  BY <1>1, <1>3 DEF label_met, MIN
<1>5. NetworkTypeOK'
  BY <1>1, <1>2 DEF NetworkTypeOK, arc_dual
<1>6. TypeOK'
  BY <1>1, <1>4, <1>5 DEF IInv, TypeOK
<1>7. LabelsValid'
  BY <1>1, SameLabels DEF IInv
<1>8. ScanOK'
  <2>1. ASSUME NEW b \in node_adjacency(node) \ todo', capacity[b] > 0
        PROVE  /\ potential[node] <= potential[arc_head(b)]
               /\ min_label' <= potential[arc_head(b)]
    <3>1. CASE b = arc
      BY <1>3, <1>4, <2>1, <3>1 DEF Pushes
    <3>2. CASE b # arc
      <4>1. /\ potential[node] <= potential[arc_head(b)]
            /\ min_label <= potential[arc_head(b)]
        BY <1>1, <2>1, <3>2 DEF IInv, ScanOK
      <4>2. potential[arc_head(b)] \in Nat
        BY <1>2, ArcFacts DEF node_adjacency, IInv, TypeOK
      <4> QED
        BY <1>3, <1>4, <4>1, <4>2
    <3> QED
      BY <3>1, <3>2
  <2>2. excess'[node'] >= 0 /\ todo' \subseteq node_adjacency(node)
    BY <1>1, <1>2 DEF IInv, ScanOK
  <2> QED
    BY <1>1, <2>1, <2>2, SameGraph DEF ScanOK
<1> QED
  BY <1>1, <1>6, <1>7, <1>8 DEF IInv, EnqueueOK

LEMMA RelabelKeeps ==
  ASSUME IInv, Relabel
  PROVE  IInv'
<1> USE Sizes
<1>1. /\ pc = "scan" /\ pc' = "discharge" /\ (todo = {} \/ excess[node] <= 0)
      /\ UNCHANGED <<graph, capacity, cost, excess, node_id, active, node, todo,
                     min_label, result>>
      /\ potential' = IF excess[node] > 0
                      THEN [potential EXCEPT ![node] = new_label] ELSE potential
  BY DEF Relabel
<1>2. /\ NetworkTypeOK /\ node \in Node /\ excess[node] \in Int
      /\ potential \in [Node -> Nat] /\ min_label \in 0 .. INFINITE
  BY DEF IInv, TypeOK
<1>3. \A a \in Arc : arc_tail(a) \in Node /\ arc_head(a) \in Node
  BY <1>2, ArcFacts
<1>4. new_label \in Nat /\ new_label > potential[node]
  BY <1>2 DEF new_label
<1>5. /\ potential' \in [Node -> Nat] /\ potential' \in [Node -> Int]
      /\ \A n \in Node : potential[n] <= potential'[n]
      /\ \A n \in Node : n # node \/ excess[n] <= 0 => potential'[n] = potential[n]
  BY <1>1, <1>2, <1>4
<1>6. TypeOK'
  <2>1. NetworkTypeOK'
    BY <1>1, <1>2, <1>5 DEF NetworkTypeOK, arc_dual
  <2> QED
    BY <1>1, <1>5, <2>1 DEF IInv, TypeOK
<1>7. ASSUME NEW a \in Arc, capacity[a] > 0
      PROVE  potential'[arc_tail(a)] <= potential'[arc_head(a)] + 1
  <2>1. /\ arc_tail(a) \in Node /\ arc_head(a) \in Node
        /\ potential[arc_tail(a)] <= potential[arc_head(a)] + 1
    BY <1>3, <1>7 DEF IInv, LabelsValid
  <2>2. CASE arc_tail(a) = node /\ excess[node] > 0
    <3>1. /\ potential[node] <= potential[arc_head(a)]
          /\ min_label <= potential[arc_head(a)]
      BY <1>1, <1>2, <1>7, <2>2 DEF IInv, ScanOK, node_adjacency
    <3>2. new_label <= potential[arc_head(a)] + 1
      BY <1>2, <2>1, <3>1 DEF new_label
    <3> QED
      BY <1>1, <1>2, <1>4, <1>5, <2>1, <2>2, <3>2
  <2>3. CASE arc_tail(a) # node \/ excess[node] <= 0
    <3>1. potential'[arc_tail(a)] = potential[arc_tail(a)]
      BY <1>1, <1>2, <1>5, <2>1, <2>3
    <3> QED
      BY <1>2, <1>5, <2>1, <3>1
  <2> QED
    BY <1>2, <2>2, <2>3
<1>8. LabelsValid'
  <2>1. \A n \in Node : excess[n] < 0 => potential'[n] = 0
    <3> SUFFICES ASSUME NEW n \in Node, excess[n] < 0 PROVE potential'[n] = 0
      OBVIOUS
    <3>1. excess[n] <= 0
      BY DEF IInv, TypeOK
    <3> QED
      BY <1>5, <3>1 DEF IInv, LabelsValid
  <2> QED
    BY <1>1, <1>7, <2>1, SameGraph DEF LabelsValid
<1> QED
  BY <1>1, <1>6, <1>8 DEF IInv, EnqueueOK, ScanOK

(* The invariant is inductive.                                             *)
LEMMA Invariant == Spec => []IInv
<1>1. ASSUME IInv, [Next]_vars PROVE IInv'
  <2>1. CASE \E supply \in Supplies : goldberg_tarjan_feasible(supply)
    BY <1>1, <2>1, CallKeeps
  <2>2. CASE Enqueue
    BY <1>1, <2>2, EnqueueKeeps
  <2>3. CASE AllEnqueued \/ Pop \/ BeginScan \/ Discharged \/ Return
    BY <1>1, <2>3, ControlKeeps
  <2>4. CASE \E arc \in todo : Scan(arc)
    BY <1>1, <2>4, PushKeeps, PassKeeps
  <2>5. CASE Relabel
    BY <1>1, <2>5, RelabelKeeps
  <2>6. CASE UNCHANGED vars
    <3>1. UNCHANGED <<graph, capacity, cost, potential, excess, pc, node_id,
                      active, node, todo, min_label, result>>
      BY <2>6 DEF vars, networkVars, solverVars
    <3>2. NetworkTypeOK'
      BY <1>1, <3>1 DEF IInv, TypeOK, NetworkTypeOK, arc_dual
    <3>3. LabelsValid'
      BY <1>1, <3>1, SameLabels DEF IInv
    <3> QED
      BY <1>1, <3>1, <3>2, <3>3, SameGraph DEF IInv, TypeOK, EnqueueOK, ScanOK
  <2> QED
    BY <1>1, <2>1, <2>2, <2>3, <2>4, <2>5, <2>6 DEF Next, Running
<1> QED
  BY InitInvariant, <1>1, PTL DEF Spec
-----------------------------------------------------------------------------
(* Every variable keeps its type; above all, no push of                    *)
(* goldberg_tarjan_feasible takes more than the capacity of an arc, for    *)
(* any network and any supplies.                                           *)
THEOREM TypeCorrect == Spec => []TypeOK
<1>1. IInv => TypeOK
  BY DEF IInv
<1> QED
  BY Invariant, <1>1, PTL

(* Pushes and relabels of gt_discharge keep the labels valid: the least    *)
(* label that was met in a scan is still right when the scan is over.      *)
THEOREM LabelsCorrect == Spec => []LabelsValid
<1>1. IInv => LabelsValid
  BY DEF IInv
<1> QED
  BY Invariant, <1>1, PTL

(* A node that reaches max_label leaves one of the labels below it to no   *)
(* node.                                                                   *)
LEMMA EmptyLabel ==
  ASSUME potential \in [Node -> Nat], NEW n \in Node, potential[n] >= max_label
  PROVE  \E l \in Node : \A m \in Node : potential[m] # l
<1> SUFFICES ASSUME \A l \in Node : \E m \in Node : potential[m] = l
             PROVE  FALSE
  OBVIOUS
<1> DEFINE others == Node \ {n}
           f == [l \in Node |-> CHOOSE m \in Node : potential[m] = l]
<1>1. \A l \in Node : f[l] \in Node /\ potential[f[l]] = l
  OBVIOUS
<1>2. \A l \in Node : l < max_label /\ l \in Nat
  BY Sizes DEF Node, max_label
<1>3. f \in [Node -> others]
  <2>1. \A l \in Node : f[l] # n
    BY <1>1, <1>2, Sizes DEF max_label
  <2> QED
    BY <1>1, <2>1
<1>4. IsFiniteSet(Node) /\ Cardinality(Node) = max_num_nodes
  BY FS_Interval, Sizes DEF Node
<1>5. IsFiniteSet(others) /\ Cardinality(others) = max_num_nodes - 1
  BY <1>4, FS_RemoveElement
<1>6. \E k, l \in Node : k # l /\ f[k] = f[l]
  <2> HIDE DEF f, others
  <2> QED
    BY <1>3, <1>4, <1>5, Sizes, FS_PigeonHole
<1> QED
  BY <1>1, <1>6

(* "if a node reaches this label number, then it cannot possibly reach any *)
(* sink": when gt_discharge gives a node up, no flow could have helped it. *)
THEOREM CutOff == Spec => []MaxLabelMeansCutOff
<1>1. ASSUME IInv PROVE MaxLabelMeansCutOff
  <2> SUFFICES ASSUME NEW n \in Node, potential[n] >= max_label
               PROVE  \E S \in SUBSET Node :
                        n \in S /\ Saturated(S) /\ \A m \in S : excess[m] >= 0
    BY DEF MaxLabelMeansCutOff
  <2>1. /\ NetworkTypeOK /\ potential \in [Node -> Nat]
        /\ excess \in [Node -> Int] /\ capacity \in [Arc -> Nat]
    BY <1>1 DEF IInv, TypeOK, NetworkTypeOK
  <2>2. PICK l \in Node : \A m \in Node : potential[m] # l
    BY <2>1, EmptyLabel
  <2>3. l \in Nat /\ l < max_label
    BY Sizes DEF Node, max_label
  <2> DEFINE S == {m \in Node : potential[m] > l}
  <2>4. n \in S
    BY <2>1, <2>3, Sizes DEF max_label
  <2>5. Saturated(S)
    <3> SUFFICES ASSUME NEW a \in Arc, arc_tail(a) \in S, arc_head(a) \notin S
                 PROVE  capacity[a] = 0
      BY DEF Saturated
    <3>1. arc_tail(a) \in Node /\ arc_head(a) \in Node /\ capacity[a] \in Nat
      BY <2>1, ArcFacts
    <3> DEFINE t == arc_tail(a)
               h == arc_head(a)
    <3>2. potential[t] > l /\ ~ (potential[h] > l) /\ potential[h] # l
      BY <2>2, <3>1
    <3> HIDE DEF t, h
    <3>3. potential[t] \in Nat /\ potential[h] \in Nat
      BY <2>1, <3>1 DEF t, h
    <3>4. ~ (potential[t] <= potential[h] + 1)
      BY <2>3, <3>2, <3>3
    <3> QED
      BY <1>1, <3>1, <3>4 DEF IInv, LabelsValid, t, h
  <2>6. \A m \in S : excess[m] >= 0
    <3> SUFFICES ASSUME NEW m \in S, excess[m] < 0 PROVE FALSE
      BY <2>1
    <3>1. potential[m] = 0
      BY <1>1 DEF IInv, LabelsValid
    <3> QED
      BY <2>3, <3>1
  <2> QED
    BY <2>4, <2>5, <2>6
<1> QED
  BY Invariant, <1>1, PTL
-----------------------------------------------------------------------------
(* The specification of the solvers sees the same network, without costs.  *)
free == [arc \in Arc |-> 0]

LEMMA AbstractFacts ==
  /\ Abstract!Node = Node /\ Abstract!ProblemArc = ProblemArc /\ Abstract!Arc = Arc
  /\ \A a : Abstract!arc_dual(a) = arc_dual(a)
  /\ \A a : Abstract!total(a) = capacity[a] + capacity[arc_dual(a)]
  /\ \A S : Abstract!Max(S) = Max(S)
  /\ \A n : Abstract!node_balance(n) = node_balance(n)
  /\ \A f, n : Abstract!Inflow(f, n) = SumOver(f, {a \in ProblemArc : graph.to[a] = n})
  /\ \A f, n : Abstract!Outflow(f, n) = SumOver(f, {a \in ProblemArc : graph.from[a] = n})
  /\ Abstract!flow_cost = spent(capacity, free)
  /\ \A f : Abstract!FlowCost(f) = paid(f, free)
<1>1. Abstract!Node = Node /\ Abstract!ProblemArc = ProblemArc /\ Abstract!Arc = Arc
  BY DEF Abstract!Node, Node, Abstract!ProblemArc, ProblemArc, Abstract!Arc, Arc
<1>2. \A a : Abstract!arc_dual(a) = arc_dual(a)
  BY DEF Abstract!arc_dual, arc_dual
<1>3. \A a : Abstract!total(a) = capacity[a] + capacity[arc_dual(a)]
  BY <1>2 DEF Abstract!total
<1>4. \A S : Abstract!Max(S) = Max(S)
  BY Zenon DEF Abstract!Max, Max
<1>5. ASSUME NEW n PROVE Abstract!node_balance(n) = node_balance(n)
  BY ZenonT(30) DEF Abstract!node_balance, node_balance, Abstract!MapThenSumSet, MapThenSumSet,
     Abstract!MapThenFoldSet, MapThenFoldSet, Abstract!node_adjacency, node_adjacency,
     Abstract!arc_tail, arc_tail, Abstract!arc_is_dual, arc_is_dual, Abstract!arc_dual, arc_dual,
     Abstract!Arc, Arc
<1>6. ASSUME NEW f, NEW n
      PROVE  Abstract!Inflow(f, n) = SumOver(f, {a \in ProblemArc : graph.to[a] = n})
  BY ZenonT(30) DEF Abstract!Inflow, SumOver, Abstract!MapThenSumSet, MapThenSumSet,
     Abstract!MapThenFoldSet, MapThenFoldSet, Abstract!ProblemArc, ProblemArc
<1>7. ASSUME NEW f, NEW n
      PROVE  Abstract!Outflow(f, n) = SumOver(f, {a \in ProblemArc : graph.from[a] = n})
  BY ZenonT(30) DEF Abstract!Outflow, SumOver, Abstract!MapThenSumSet, MapThenSumSet,
     Abstract!MapThenFoldSet, MapThenFoldSet, Abstract!ProblemArc, ProblemArc
<1>8. Abstract!flow_cost = spent(capacity, free)
  BY ZenonT(30) DEF Abstract!flow_cost, spent, Abstract!MapThenSumSet, MapThenSumSet,
     Abstract!MapThenFoldSet, MapThenFoldSet, Abstract!ProblemArc, ProblemArc,
     Abstract!arc_dual, arc_dual, free
<1>9. ASSUME NEW f PROVE Abstract!FlowCost(f) = paid(f, free)
  BY ZenonT(30) DEF Abstract!FlowCost, paid, Abstract!MapThenSumSet, MapThenSumSet,
     Abstract!MapThenFoldSet, MapThenFoldSet, Abstract!ProblemArc, ProblemArc, free
<1> QED  BY <1>1, <1>2, <1>3, <1>4, <1>5, <1>6, <1>7, <1>8, <1>9

LEMMA SupplyValue ==
  \A n \in Node : Abstract!supply(n) = excess[n] - balance(capacity, n)
<1> SUFFICES ASSUME NEW n \in Node
             PROVE  Abstract!supply(n) = excess[n] - balance(capacity, n)
  OBVIOUS
<1>1. Abstract!node_balance(n) = balance(capacity, n)
  BY AbstractFacts, BalanceValue
<1> QED  BY <1>1 DEF Abstract!supply

LEMMA TotalValue ==
  \A a : Abstract!total(a) = capacity[a] + capacity[arc_dual(a)]
BY AbstractFacts

(* A step of the solver that moves flow is one of the specification.       *)
LEMMA WorkFacts ==
  ASSUME pc # "idle", pc' # "idle", graph' = graph, capacity' \in [Arc -> Nat],
         Moved(capacity, excess, capacity', excess')
  PROVE  Abstract!Work
<1>1. \A a \in Arc : Abstract!total(a)' = Abstract!total(a)
  <2>1. (\A a : Abstract!total(a) = capacity[a] + capacity[arc_dual(a)])'
    BY TotalValue, PTL
  <2>2. \A a : arc_dual(a)' = arc_dual(a)
    BY DEF arc_dual
  <2>3. \A a : Abstract!total(a)' = capacity'[a] + capacity'[arc_dual(a)]
    BY <2>1, <2>2
  <2> QED  BY <2>3, AbstractFacts DEF Moved
<1>2. \A n \in Node : Abstract!supply(n)' = Abstract!supply(n)
  <2>1. (\A n \in Node : Abstract!supply(n) = excess[n] - balance(capacity, n))'
    BY SupplyValue, PTL
  <2>2. \A n \in Node : Abstract!supply(n)' = excess'[n] - balance(capacity', n)
    BY <2>1, BalanceNext
  <2> QED  BY <2>2, SupplyValue DEF Moved
<1>3. \A a \in Arc : capacity'[a] >= 0
  OBVIOUS
<1>4. Abstract!Arc = Arc /\ Abstract!Node = Node
  BY AbstractFacts
<1> QED  BY <1>1, <1>2, <1>3, <1>4 DEF Abstract!Work

(* The flows of the specification meet the supplies of the network.        *)
LEMMA FlowsMeet ==
  ASSUME TypeOK, NEW f \in Abstract!FeasibleFlows
  PROVE  Meets(f, capacity, excess)
<1>1. f \in Abstract!Flows /\ \A n \in Node : Abstract!Excess(f, n) = 0
  BY AbstractFacts DEF Abstract!FeasibleFlows
<1>2. ASSUME NEW a \in ProblemArc
      PROVE  f[a] \in Nat /\ f[a] <= capacity[a] + capacity[arc_dual(a)]
  <2> DEFINE m == Abstract!Max({Abstract!total(b) : b \in Abstract!ProblemArc})
  <2>1. f[a] \in 0 .. m /\ f[a] <= Abstract!total(a)
    BY <1>1, AbstractFacts DEF Abstract!Flows
  <2> HIDE DEF m
  <2>2. f[a] \in Nat
    BY <2>1, IntervalNat
  <2> QED  BY <2>1, <2>2, TotalValue
<1>3. ASSUME NEW n \in Node
      PROVE  excess[n] - balance(capacity, n)
               + SumOver(f, {a \in ProblemArc : graph.to[a] = n})
               - SumOver(f, {a \in ProblemArc : graph.from[a] = n}) = 0
  <2>1. Abstract!supply(n) + Abstract!Inflow(f, n) - Abstract!Outflow(f, n) = 0
    BY <1>1 DEF Abstract!Excess
  <2> QED  BY <2>1, SupplyValue, AbstractFacts
<1> QED  BY <1>2, <1>3 DEF Meets
-----------------------------------------------------------------------------
(* A node with excess that was not given up waits in the queue or is being *)
(* discharged.                                                             *)
QueueOK ==
  /\ pc = "enqueue" =>
       \A n \in Node : n < node_id /\ excess[n] > 0 => Queued(active, n)
  /\ pc \in {"main", "discharge", "scan"} =>
       \A n \in Node : excess[n] > 0 /\ potential[n] < max_label =>
         Queued(active, n) \/ (pc # "main" /\ n = node)

(* The queue after a push: a node that gets excess is put into it.         *)
LEMMA PushQueues ==
  ASSUME IInv, QueueOK, NEW arc \in todo, Scan(arc), Pushes(arc)
  PROVE  QueueOK'
<1> DEFINE next == arc_head(arc)
           d == amount(arc)
           q == active'
           e == excess'
<1>1. /\ arc \in Arc /\ arc_tail(arc) = node /\ next # node /\ d \in Nat
      /\ e = [excess EXCEPT ![node] = @ - d, ![next] = @ + d]
  BY PushEffect
<1>2. /\ q = IF e[next] > 0 /\ awakes(arc) THEN Append(active, next) ELSE active
      /\ pc = "scan" /\ pc' = "scan" /\ node' = node /\ potential' = potential
  BY DEF Scan, Pushes
<1>3. /\ next \in Node /\ node \in Node /\ excess \in [Node -> Int] /\ active \in Seq(Node)
  BY <1>1, ArcFacts DEF IInv, TypeOK
<1>4. \A n \in Node : n # node /\ n # next => e[n] = excess[n]
  <2> HIDE DEF d, e, next
  <2> QED  BY <1>1, <1>3
<1>5. \A n \in Node : excess[n] > 0 /\ potential[n] < max_label => Queued(active, n) \/ n = node
  BY <1>2 DEF QueueOK
<1>6. \A n : Queued(active, n) => Queued(q, n)
  <2> HIDE DEF next, e
  <2>1. q = active \/ q = Append(active, next)
    BY <1>2
  <2>2. \A n : Queued(active, n) => Queued(Append(active, next), n)
    BY <1>3, QueuedFacts
  <2> HIDE DEF q
  <2> QED  BY <2>1, <2>2
<1>7. e[next] > 0 /\ excess[next] <= 0 /\ potential[next] < max_label => Queued(q, next)
  <2> SUFFICES ASSUME e[next] > 0, excess[next] <= 0, potential[next] < max_label
               PROVE  Queued(q, next)
    OBVIOUS
  <2>1. q = Append(active, next)
    BY <1>2 DEF awakes
  <2> HIDE DEF q, e, next
  <2> QED  BY <1>3, <2>1, QueuedFacts
<1>8. excess[next] \in Int
  BY <1>3
<1>9. \A n \in Node : e[n] > 0 /\ potential[n] < max_label => Queued(q, n) \/ n = node
  <2> HIDE DEF q, e, next
  <2> QED  BY <1>3, <1>4, <1>5, <1>6, <1>7, <1>8
<1> QED  BY <1>2, <1>9 DEF QueueOK, max_label

(* Every step keeps the nodes with excess in the queue.                    *)
LEMMA QueueStep ==
  ASSUME IInv, QueueOK, [Next]_vars
  PROVE  QueueOK'
<1>1. /\ active \in Seq(Node) /\ potential \in [Node -> Nat] /\ excess \in [Node -> Int]
      /\ node \in Node /\ node_id \in 0 .. max_num_nodes
  BY DEF IInv, TypeOK
<1>2. CASE UNCHANGED vars
  BY <1>2 DEF vars, networkVars, solverVars, QueueOK
<1>3. CASE \E supply \in Supplies : goldberg_tarjan_feasible(supply)
  <2>1. pc' = "enqueue" /\ node_id' = 0
    BY <1>3 DEF goldberg_tarjan_feasible
  <2>2. \A n \in Node : ~ (n < 0)
    BY Sizes DEF Node
  <2> QED  BY <2>1, <2>2 DEF QueueOK
<1>4. CASE Enqueue
  <2> DEFINE q == active'
  <2>1. /\ pc = "enqueue" /\ pc' = "enqueue" /\ node_id \in Node /\ node_id' = node_id + 1
        /\ excess' = excess
        /\ q = IF excess[node_id] > 0 THEN Append(active, node_id) ELSE active
    BY <1>4 DEF Enqueue
  <2>2. \A n \in Node : n < node_id + 1 => n < node_id \/ n = node_id
    BY <1>1, Sizes
  <2>3. \A n : Queued(active, n) => Queued(q, n)
    <3>1. q = active \/ q = Append(active, node_id)
      BY <2>1
    <3>2. \A n : Queued(active, n) => Queued(Append(active, node_id), n)
      BY <1>1, QueuedFacts
    <3> HIDE DEF q
    <3> QED  BY <3>1, <3>2
  <2>4. excess[node_id] > 0 => Queued(q, node_id)
    <3> HIDE DEF q
    <3> QED  BY <1>1, <2>1, QueuedFacts
  <2> QED  BY <2>1, <2>2, <2>3, <2>4 DEF QueueOK
<1>5. CASE AllEnqueued
  <2>1. /\ pc = "enqueue" /\ pc' = "main" /\ node_id = max_num_nodes
        /\ excess' = excess /\ active' = active
    BY <1>5 DEF AllEnqueued
  <2>2. \A n \in Node : n < max_num_nodes
    BY Sizes DEF Node
  <2> QED  BY <2>1, <2>2 DEF QueueOK
<1>6. CASE Pop
  <2>1. /\ pc = "main" /\ pc' = "discharge" /\ active # << >>
        /\ node' = Head(active) /\ active' = Tail(active)
        /\ excess' = excess /\ potential' = potential
    BY <1>6 DEF Pop, networkVars
  <2>2. \A m : Queued(active, m) => m = Head(active) \/ Queued(Tail(active), m)
    BY <1>1, <2>1, QueuedFacts
  <2> QED  BY <2>1, <2>2 DEF QueueOK, max_label
<1>7. CASE BeginScan \/ Discharged
  <2>1. /\ pc = "discharge"
        /\ pc' = "scan" \/ (pc' = "main" /\ ~ Discharging)
        /\ UNCHANGED <<excess, potential, active, node>>
    BY <1>7 DEF BeginScan, Discharged, networkVars
  <2> QED  BY <2>1 DEF QueueOK, Discharging, max_label
<1>8. CASE \E arc \in todo : Scan(arc)
  <2>1. PICK arc \in todo : Scan(arc)
    BY <1>8
  <2>2. CASE Pushes(arc)
    BY <2>1, <2>2, PushQueues
  <2>3. CASE ~ Pushes(arc)
    <3>1. pc = "scan" /\ pc' = "scan" /\ UNCHANGED <<excess, potential, active, node>>
      BY <2>1, <2>3 DEF Scan, Pushes
    <3> QED  BY <3>1 DEF QueueOK, max_label
  <2> QED  BY <2>2, <2>3
<1>9. CASE Relabel
  <2>1. /\ pc = "scan" /\ pc' = "discharge" /\ UNCHANGED <<excess, active, node>>
        /\ \A n \in Node : n # node => potential'[n] = potential[n]
    BY <1>1, <1>9 DEF Relabel
  <2> QED  BY <2>1 DEF QueueOK, max_label
<1>10. CASE Return
  BY <1>10 DEF Return, QueueOK
<1> QED
  BY <1>2, <1>3, <1>4, <1>5, <1>6, <1>7, <1>8, <1>9, <1>10 DEF Next, Running

(* No node with excess is forgotten: while gt_discharge can still do       *)
(* something for it, it is in the queue or is the one discharged.          *)
THEOREM ActiveNodesQueued == Spec => []QueueOK
<1>1. Init => QueueOK
  BY DEF Init, QueueOK
<1>2. IInv /\ QueueOK /\ [Next]_vars => QueueOK'
  BY QueueStep
<1> QED  BY <1>1, <1>2, Invariant, PTL DEF Spec
-----------------------------------------------------------------------------
(* Excess that is left when the queue is empty is excess that no flow can  *)
(* take away: a source left over is cut off from the sinks, and without    *)
(* sources a sink left over lacks supply.                                  *)
LEMMA NothingFeasible ==
  ASSUME IInv, QueueOK, MaxLabelMeansCutOff, pc = "main", active = << >>,
         NEW m \in Node, excess[m] # 0
  PROVE  Abstract!FeasibleFlows = {}
<1> SUFFICES ASSUME NEW f \in Abstract!FeasibleFlows PROVE FALSE
  OBVIOUS
<1>1. /\ NetworkTypeOK /\ capacity \in [Arc -> Nat] /\ excess \in [Node -> Int]
      /\ potential \in [Node -> Nat] /\ Meets(f, capacity, excess)
      /\ IsFiniteSet(Node)
  BY FlowsMeet, NetworkSizes DEF IInv, TypeOK, NetworkTypeOK
<1>2. CASE \E n \in Node : excess[n] > 0
  <2>1. PICK n \in Node : excess[n] > 0
    BY <1>2
  <2>2. potential[n] >= max_label
    <3>1. ~ Queued(active, n)
      <4>1. << >> \in Seq(Node)
        OBVIOUS
      <4> QED  BY <4>1, QueuedFacts
    <3>2. ~ (potential[n] < max_label)
      BY <2>1, <3>1 DEF QueueOK
    <3>3. potential[n] \in Int /\ max_label \in Int
      BY <1>1, Sizes DEF max_label
    <3> QED  BY <3>2, <3>3
  <2>3. PICK S \in SUBSET Node : n \in S /\ Saturated(S) /\ \A k \in S : excess[k] >= 0
    BY <2>2 DEF MaxLabelMeansCutOff
  <2>4. SumOver(excess, S) <= 0
    BY <1>1, <2>3, CutExcess DEF Saturated
  <2>5. SumOver(excess, S) > 0
    <3>1. IsFiniteSet(S) /\ Integral(excess, S)
      BY <1>1, FS_Subset DEF Integral
    <3> QED  BY <2>1, <2>3, <3>1, SumPositive
  <2>6. SumOver(excess, S) \in Int
    <3>1. Integral(excess, Node)
      BY <1>1 DEF Integral
    <3> QED  BY <1>1, <3>1, SumType
  <2> QED  BY <2>4, <2>5, <2>6
<1>3. CASE \A n \in Node : ~ (excess[n] > 0)
  <2> DEFINE minus == -1
             less == [n \in Node |-> minus * excess[n]]
  <2>1. minus \in Int /\ \A n \in Node : excess[n] \in Int /\ less[n] = minus * excess[n]
    BY <1>1
  <2> HIDE DEF less, minus
  <2>2. \A n \in Node : less[n] \in Int /\ less[n] >= 0 /\ less[n] = - excess[n]
    BY <1>3, <2>1 DEF minus
  <2>3. less[m] > 0
    BY <2>1, <2>2
  <2>4. Integral(less, Node) /\ Integral(excess, Node)
    BY <2>1, <2>2 DEF Integral
  <2>5. SumOver(less, Node) > 0
    BY <1>1, <2>2, <2>3, <2>4, SumPositive
  <2>6. SumOver(less, Node) = minus * SumOver(excess, Node)
    BY <1>1, <2>1, <2>4, SumScale
  <2>7. SumOver(excess, Node) = 0
    BY <1>1, TotalExcess
  <2> QED  BY <2>5, <2>6, <2>7 DEF minus
<1> QED  BY <1>2, <1>3

(* Without costs every flow that meets the supplies is the cheapest.       *)
LEMMA FreeIsOptimal ==
  ASSUME TypeOK
  PROVE  Abstract!Optimal
<1> SUFFICES ASSUME NEW f \in Abstract!FeasibleFlows
             PROVE  Abstract!flow_cost <= Abstract!FlowCost(f)
  BY DEF Abstract!Optimal
<1>1. Meets(f, capacity, excess) /\ capacity \in [Arc -> Nat]
  BY FlowsMeet DEF TypeOK, NetworkTypeOK
<1>2. \A a \in ProblemArc : f[a] \in Int /\ capacity[arc_dual(a)] \in Int /\ free[a] = 0
  BY <1>1, DualFacts DEF Meets, free
<1>3. spent(capacity, free) = 0 /\ paid(f, free) = 0
  BY <1>2, FreeOfCharge
<1> QED  BY <1>3, AbstractFacts

(* goldberg_tarjan_feasible finds a flow that meets every supply and       *)
(* demand whenever there is one: every step moves flow without creating or *)
(* losing any, success leaves no excess, and failure means that no flow    *)
(* would have met them.                                                    *)
THEOREM ImplementsMinCostFlow == Spec => Implements
<1> DEFINE I == IInv /\ QueueOK /\ MaxLabelMeansCutOff
<1>1. Init => Abstract!Init
  BY DEF Init, Abstract!Init
<1>2. I /\ I' /\ [Next]_vars => [Abstract!Next]_(Abstract!vars)
  <2> SUFFICES ASSUME IInv, QueueOK, MaxLabelMeansCutOff, IInv', [Next]_vars
               PROVE  [Abstract!Next]_(Abstract!vars)
    OBVIOUS
  <2>0. /\ capacity \in [Arc -> Nat] /\ capacity' \in [Arc -> Nat] /\ NetworkTypeOK
        /\ excess \in [Node -> Int] /\ excess' \in [Node -> Int]
    BY DEF IInv, TypeOK, NetworkTypeOK
  <2>1. ASSUME pc # "idle", pc' # "idle", UNCHANGED <<graph, capacity, excess>>
        PROVE  Abstract!Next
    <3>1. Moved(capacity, excess, capacity', excess')
      BY <2>1 DEF Moved
    <3> QED  BY <2>0, <2>1, <3>1, WorkFacts DEF Abstract!Next
  <2>2. CASE UNCHANGED vars
    <3>1. UNCHANGED <<graph, capacity, cost, potential, excess, pc, result>>
      BY <2>2 DEF vars, networkVars, solverVars
    <3> QED  BY <3>1 DEF Abstract!vars, Abstract!networkVars
  <2>3. CASE \E supply \in Supplies : goldberg_tarjan_feasible(supply)
    <3>1. pc = "idle" /\ result = "none" /\ pc' # "idle" /\ graph' = graph /\ capacity' = capacity
      BY <2>3 DEF goldberg_tarjan_feasible
    <3>2. Abstract!Call
      BY <3>1 DEF Abstract!Call
    <3> QED  BY <3>2 DEF Abstract!Next
  <2>4. CASE Enqueue \/ AllEnqueued \/ Pop \/ BeginScan \/ Discharged \/ Relabel
    BY <2>1, <2>4 DEF Enqueue, AllEnqueued, Pop, BeginScan, Discharged, Relabel, networkVars
  <2>5. CASE \E arc \in todo : Scan(arc)
    <3>1. PICK arc \in todo : Scan(arc)
      BY <2>5
    <3>2. CASE Pushes(arc)
      <4> DEFINE c == capacity
                 d == capacity'
                 e == excess
                 g == excess'
                 x == amount(arc)
      <4>1. /\ arc \in Arc /\ x \in Nat
            /\ d = [c EXCEPT ![arc] = @ - x, ![arc_dual(arc)] = @ + x]
            /\ g = [e EXCEPT ![arc_tail(arc)] = @ - x, ![arc_head(arc)] = @ + x]
        BY <3>1, <3>2, PushEffect
      <4>2. Moved(c, e, d, g)
        <5>1. /\ c \in [Arc -> Nat] /\ d \in [Arc -> Nat]
              /\ e \in [Node -> Int] /\ g \in [Node -> Int]
          BY <2>0
        <5> HIDE DEF c, d, e, g, x
        <5> QED  BY <2>0, <4>1, <5>1, PushMoves
      <4>3. pc # "idle" /\ pc' # "idle" /\ graph' = graph
        BY <3>1 DEF Scan
      <4> QED  BY <2>0, <4>2, <4>3, WorkFacts DEF Abstract!Next
    <3>3. CASE ~ Pushes(arc)
      BY <2>1, <3>1, <3>3 DEF Scan, Pushes
    <3> QED  BY <3>2, <3>3
  <2>6. CASE Return
    <3>1. /\ pc = "main" /\ active = << >> /\ pc' = "idle"
          /\ result' = IF \A n \in Node : excess[n] = 0 THEN "feasible" ELSE "infeasible"
          /\ UNCHANGED <<graph, capacity, cost, potential, excess>>
      BY <2>6 DEF Return, networkVars
    <3>2. CASE \A n \in Node : excess[n] = 0
      <4>1. Abstract!Balanced /\ Abstract!Optimal
        BY <3>2, AbstractFacts, FreeIsOptimal DEF Abstract!Balanced, IInv
      <4>2. Abstract!Succeed
        BY <3>1, <3>2, <4>1 DEF Abstract!Succeed, Abstract!networkVars
      <4> QED  BY <4>2 DEF Abstract!Next
    <3>3. CASE \E m \in Node : excess[m] # 0
      <4>1. Abstract!FeasibleFlows = {}
        BY <3>1, <3>3, NothingFeasible
      <4>2. Abstract!Fail
        BY <3>1, <3>3, <4>1 DEF Abstract!Fail, Abstract!networkVars
      <4> QED  BY <4>2 DEF Abstract!Next
    <3> QED  BY <3>2, <3>3
  <2> QED  BY <2>2, <2>3, <2>4, <2>5, <2>6 DEF Next, Running
<1> QED  BY <1>1, <1>2, Invariant, ActiveNodesQueued, CutOff, PTL DEF Spec, Implements
=============================================================================
