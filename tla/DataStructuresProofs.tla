------------------------ MODULE DataStructuresProofs ------------------------
(* Theorems about the data structures the solvers are built on.  The lists *)
(* of arcs of a graph: for every size of the graph, every dual bit and     *)
(* every content of the slots that graph_new leaves uninitialized.  The    *)
(* priority queue: for every number of keys, every shape of the heap in    *)
(* which a place is below one before it, and every order that gheap may    *)
(* choose.  The queue and the stack: for every size of their chunks.       *)
EXTENDS Graph, ContainersMC, Sequences,
        FiniteSetTheorems, SequenceTheorems, WellFoundedInduction, TLAPS

(* The inductive invariant.  LinksOK says how one arc is linked to the     *)
(* next; that a loop over a list ends does not follow from it, so the      *)
(* invariant carries a depth that decreases along every list.              *)
IInv == TypeOK /\ LinksOK /\ AcyclicIn(Nat)

(* arc_dual flips one bit: it changes every index and is its own inverse.  *)
LEMMA DualInvolution ==
  ASSUME NEW a \in Nat
  PROVE  /\ arc_dual(a) \in Nat
         /\ arc_dual(a) # a
         /\ arc_dual(arc_dual(a)) = a
<1> DEFINE q == a \div DualMask
<1>1. DualMask \in Nat \ {0}
  BY SizeAssumption DEF DualMask
<1>2. q \in Nat /\ q % 2 \in {0, 1} /\ (q + 1) % 2 = 1 - (q % 2)
  BY <1>1
<1>3. CASE is_dual(a)
  <2>1. q # 0 /\ a >= DualMask
    BY <1>1, <1>2, <1>3 DEF is_dual
  <2>2. arc_dual(a) = a - DualMask /\ arc_dual(a) \in Nat
    BY <1>1, <1>3, <2>1 DEF arc_dual
  <2>3. (a - DualMask) \div DualMask = q - 1
    BY <1>1, <2>1
  <2>4. (q - 1) % 2 = 0
    BY <1>2, <1>3, <2>1 DEF is_dual
  <2>5. ~ is_dual(arc_dual(a))
    BY <2>2, <2>3, <2>4 DEF is_dual
  <2> QED
    BY <1>1, <2>2, <2>5 DEF arc_dual
<1>4. CASE ~ is_dual(a)
  <2>1. arc_dual(a) = a + DualMask /\ arc_dual(a) \in Nat
    BY <1>1, <1>4 DEF arc_dual
  <2>2. (a + DualMask) \div DualMask = q + 1
    BY <1>1
  <2>3. is_dual(arc_dual(a))
    BY <1>2, <1>4, <2>1, <2>2 DEF is_dual
  <2> QED
    BY <1>1, <2>1, <2>3 DEF arc_dual
<1> QED
  BY <1>3, <1>4

(* What one graph_push_outbound_arc preserves, stated on the topology that *)
(* graph_add_arc threads through its two calls.                            *)
TopologyOK(t) ==
  /\ t = [tail |-> t.tail, first |-> t.first, next |-> t.next]
  /\ t.tail \in [ArcSlot -> NodeSlot \union {INVALID_INDEX}]
  /\ t.first \in [NodeSlot -> ArcSlot \union {INVALID_INDEX}]
  /\ t.next \in [ArcSlot -> Index]
  /\ \A n \in NodeSlot :
       t.first[n] # INVALID_INDEX => t.tail[t.first[n]] = n
  /\ \A i \in ArcSlot :
       (t.tail[i] < max_num_nodes /\ t.next[i] # INVALID_INDEX)
         => /\ t.next[i] \in ArcSlot
            /\ t.tail[t.next[i]] = t.tail[i]
            /\ t.next[i] # t.first[t.tail[i]]
  /\ \A i, j \in ArcSlot :
       (/\ t.tail[i] < max_num_nodes /\ t.tail[j] < max_num_nodes
        /\ t.next[i] # INVALID_INDEX /\ t.next[i] = t.next[j]) => i = j
  /\ \A i \in ArcSlot : t.tail[i] < max_num_nodes =>
       \/ i = t.first[t.tail[i]]
       \/ \E j \in ArcSlot : t.tail[j] < max_num_nodes /\ t.next[j] = i

TopologyAcyclic(t) ==
  \E depth \in [ArcSlot -> Nat] :
    \A i \in ArcSlot :
      (t.tail[i] < max_num_nodes /\ t.next[i] # INVALID_INDEX)
        => depth[t.next[i]] < depth[i]

(* The invariant is the same statement about the topology of the state.    *)
LEMMA TopologyOfState ==
  IInv <=> (TopologyOK(topology) /\ TopologyAcyclic(topology))
  BY DEF IInv, TypeOK, LinksOK, AcyclicIn, arc_enabled, topology,
         TopologyOK, TopologyAcyclic

(* An enabled slot is one whose tail is not the invalid index.             *)
LEMMA SlotTypes ==
  /\ INVALID_INDEX \in Nat
  /\ ArcSlot \subseteq Nat /\ NodeSlot \subseteq Nat
  /\ INVALID_INDEX \notin ArcSlot /\ INVALID_INDEX \notin NodeSlot
  /\ \A n \in NodeSlot \union {INVALID_INDEX} :
       n < max_num_nodes <=> n # INVALID_INDEX
  /\ ArcSlot \subseteq Index /\ INVALID_INDEX \in Index
  BY SizeAssumption DEF INVALID_INDEX, ArcSlot, NodeSlot, Index

(* graph_push_outbound_arc keeps the lists exact: the new arc becomes the  *)
(* first of its node, deeper than the arc that was first.                  *)
LEMMA PushPreserves ==
  ASSUME NEW t, TopologyOK(t), TopologyAcyclic(t),
         NEW arc \in ArcSlot, NEW node \in NodeSlot
  PROVE  LET u == graph_push_outbound_arc(t, arc, node)
         IN  /\ TopologyOK(u) /\ TopologyAcyclic(u)
             /\ u.tail[arc] \in NodeSlot
             /\ \A i \in ArcSlot : t.tail[i] \in NodeSlot =>
                  u.tail[i] = t.tail[i] /\ u.next[i] = t.next[i]
             /\ \A i \in ArcSlot \ {arc} : u.tail[i] = t.tail[i]
<1> DEFINE u == graph_push_outbound_arc(t, arc, node)
<1> USE SlotTypes
<1>1. CASE t.tail[arc] # INVALID_INDEX
  <2>1. u = t
    BY <1>1 DEF graph_push_outbound_arc
  <2> QED
    BY <1>1, <2>1 DEF TopologyOK
<1>2. CASE t.tail[arc] = INVALID_INDEX
  <2>1. /\ u = [tail |-> u.tail, first |-> u.first, next |-> u.next]
        /\ u.tail = [t.tail EXCEPT ![arc] = node]
        /\ u.next = [t.next EXCEPT ![arc] = t.first[node]]
        /\ u.first = [t.first EXCEPT ![node] = arc]
    BY <1>2 DEF graph_push_outbound_arc
  <2>2. /\ u.tail \in [ArcSlot -> NodeSlot \union {INVALID_INDEX}]
        /\ u.first \in [NodeSlot -> ArcSlot \union {INVALID_INDEX}]
        /\ u.next \in [ArcSlot -> Index]
    BY <2>1 DEF TopologyOK
  <2>3. /\ u.tail[arc] = node /\ u.next[arc] = t.first[node]
        /\ u.first[node] = arc
        /\ \A i \in ArcSlot \ {arc} :
             u.tail[i] = t.tail[i] /\ u.next[i] = t.next[i]
        /\ \A n \in NodeSlot \ {node} : u.first[n] = t.first[n]
    BY <2>1 DEF TopologyOK
  <2>4. \A n \in NodeSlot : t.first[n] # arc
    BY <1>2 DEF TopologyOK
  <2>5. \A i \in ArcSlot :
          t.tail[i] < max_num_nodes => t.next[i] # arc
    BY <1>2 DEF TopologyOK
  <2>6. \A n \in NodeSlot :
          u.first[n] # INVALID_INDEX => u.tail[u.first[n]] = n
    BY <2>3, <2>4 DEF TopologyOK
  <2>7. \A i \in ArcSlot :
          (u.tail[i] < max_num_nodes /\ u.next[i] # INVALID_INDEX)
            => /\ u.next[i] \in ArcSlot
               /\ u.tail[u.next[i]] = u.tail[i]
               /\ u.next[i] # u.first[u.tail[i]]
    <3> SUFFICES ASSUME NEW i \in ArcSlot, u.tail[i] < max_num_nodes,
                        u.next[i] # INVALID_INDEX
                 PROVE  /\ u.next[i] \in ArcSlot
                        /\ u.tail[u.next[i]] = u.tail[i]
                        /\ u.next[i] # u.first[u.tail[i]]
      OBVIOUS
    <3>1. CASE i = arc
      BY <2>3, <2>4, <3>1 DEF TopologyOK
    <3>2. CASE i # arc
      BY <2>3, <2>5, <3>2 DEF TopologyOK
    <3> QED
      BY <3>1, <3>2
  <2>8. \A i, j \in ArcSlot :
          (/\ u.tail[i] < max_num_nodes /\ u.tail[j] < max_num_nodes
           /\ u.next[i] # INVALID_INDEX /\ u.next[i] = u.next[j]) => i = j
    <3>1. \A j \in ArcSlot :
            (/\ t.tail[j] < max_num_nodes
             /\ t.next[j] # INVALID_INDEX) => t.next[j] # t.first[node]
      BY DEF TopologyOK
    <3> QED
      BY <2>3, <3>1 DEF TopologyOK
  <2>9. \A i \in ArcSlot : u.tail[i] < max_num_nodes =>
          \/ i = u.first[u.tail[i]]
          \/ \E j \in ArcSlot : u.tail[j] < max_num_nodes /\ u.next[j] = i
    <3> SUFFICES ASSUME NEW i \in ArcSlot, u.tail[i] < max_num_nodes,
                        i # u.first[u.tail[i]]
                 PROVE  \E j \in ArcSlot :
                          u.tail[j] < max_num_nodes /\ u.next[j] = i
      OBVIOUS
    <3>1. i # arc /\ t.tail[i] = u.tail[i]
      BY <2>3
    <3>2. CASE i = t.first[t.tail[i]]
      <4>1. u.tail[i] \in NodeSlot
        BY <2>2
      <4>2. t.tail[i] = node
        BY <2>3, <3>1, <3>2, <4>1
      <4> QED
        BY <2>3, <3>2, <4>2
    <3>3. CASE i # t.first[t.tail[i]]
      <4>1. PICK j \in ArcSlot :
                   t.tail[j] < max_num_nodes /\ t.next[j] = i
        BY <3>1, <3>3 DEF TopologyOK
      <4>2. j # arc
        BY <1>2, <4>1
      <4> QED
        BY <2>3, <4>1, <4>2
    <3> QED
      BY <3>2, <3>3
  <2>10. TopologyAcyclic(u)
    <3>1. PICK depth \in [ArcSlot -> Nat] :
                 \A i \in ArcSlot :
                   (t.tail[i] < max_num_nodes /\ t.next[i] # INVALID_INDEX)
                     => depth[t.next[i]] < depth[i]
      BY DEF TopologyAcyclic
    <3> DEFINE top == IF t.first[node] = INVALID_INDEX
                      THEN 0 ELSE depth[t.first[node]] + 1
               deeper == [depth EXCEPT ![arc] = top]
    <3>2. top \in Nat /\ deeper \in [ArcSlot -> Nat]
      BY DEF TopologyOK
    <3>3. \A i \in ArcSlot :
            (u.tail[i] < max_num_nodes /\ u.next[i] # INVALID_INDEX)
              => deeper[u.next[i]] < deeper[i]
      <4> SUFFICES ASSUME NEW i \in ArcSlot, u.tail[i] < max_num_nodes,
                          u.next[i] # INVALID_INDEX
                   PROVE  deeper[u.next[i]] < deeper[i]
        OBVIOUS
      <4>1. CASE i = arc
        <5>1. /\ u.next[i] = t.first[node] /\ u.next[i] # arc
              /\ u.next[i] \in ArcSlot
          BY <2>3, <2>4, <4>1 DEF TopologyOK
        <5>2. deeper[u.next[i]] = depth[t.first[node]]
          BY <5>1
        <5>3. deeper[i] = depth[t.first[node]] + 1
          BY <4>1, <5>1
        <5>4. depth[t.first[node]] \in Nat
          BY <5>1, <2>3, <4>1
        <5> HIDE DEF deeper, u
        <5> QED
          BY <5>2, <5>3, <5>4
      <4>2. CASE i # arc
        <5>1. /\ u.next[i] = t.next[i] /\ u.next[i] # arc
              /\ t.tail[i] < max_num_nodes /\ u.next[i] \in ArcSlot
          BY <2>3, <2>5, <4>2 DEF TopologyOK
        <5> QED
          BY <3>1, <4>2, <5>1
      <4> QED
        BY <4>1, <4>2
    <3> QED
      BY <3>2, <3>3 DEF TopologyAcyclic
  <2>11. TopologyOK(u)
    BY <2>1, <2>2, <2>6, <2>7, <2>8, <2>9 DEF TopologyOK
  <2> QED
    BY <1>2, <2>3, <2>10, <2>11
<1> QED
  BY <1>1, <1>2

(* graph_add_arc: both of its pushes keep the lists, an enabled arc keeps  *)
(* its slots, and the arc is never added without its dual.                 *)
LEMMA AddArc ==
  ASSUME IInv, DualPairing,
         NEW arc \in Index, NEW from \in NodeSlot, NEW to \in NodeSlot,
         graph_add_arc(arc, from, to)
  PROVE  /\ IInv' /\ DualPairing'
         /\ \A i \in ArcSlot : arc_enabled(i) =>
              /\ arc_tail'[i] = arc_tail[i]
              /\ node_adjacency_next'[i] = node_adjacency_next[i]
<1> DEFINE dual == arc_dual(arc)
           u == graph_push_outbound_arc(topology, arc, from)
           v == graph_push_outbound_arc(u, dual, to)
<1> USE SlotTypes
<1>1. arc \in ArcSlot /\ dual \in ArcSlot
  BY DEF graph_add_arc
<1>2. TopologyOK(topology) /\ TopologyAcyclic(topology)
  BY TopologyOfState
<1>3. /\ TopologyOK(u) /\ TopologyAcyclic(u) /\ u.tail[arc] \in NodeSlot
      /\ \A i \in ArcSlot : topology.tail[i] \in NodeSlot =>
           u.tail[i] = topology.tail[i] /\ u.next[i] = topology.next[i]
      /\ \A i \in ArcSlot \ {arc} : u.tail[i] = topology.tail[i]
  BY <1>1, <1>2, PushPreserves
<1> HIDE DEF u, dual
<1>4. /\ TopologyOK(v) /\ TopologyAcyclic(v) /\ v.tail[dual] \in NodeSlot
      /\ \A i \in ArcSlot : u.tail[i] \in NodeSlot =>
           v.tail[i] = u.tail[i] /\ v.next[i] = u.next[i]
      /\ \A i \in ArcSlot \ {dual} : v.tail[i] = u.tail[i]
  BY <1>1, <1>3, PushPreserves
<1>5. /\ arc_tail' = v.tail /\ node_adjacency_first' = v.first
      /\ node_adjacency_next' = v.next
  BY DEF graph_add_arc, u, dual
<1>6. topology' = v
  <2>1. v = [tail |-> v.tail, first |-> v.first, next |-> v.next]
    BY <1>4 DEF TopologyOK
  <2> HIDE DEF v
  <2> QED
    BY <1>5, <2>1 DEF topology
<1> HIDE DEF v
<1>7. IInv'
  <2>1. IInv' <=> (TopologyOK(topology') /\ TopologyAcyclic(topology'))
    BY DEF IInv, TypeOK, LinksOK, AcyclicIn, arc_enabled, topology,
           TopologyOK, TopologyAcyclic
  <2> QED
    BY <1>4, <1>6, <2>1
<1>8. topology.tail = arc_tail /\ topology.next = node_adjacency_next
  BY DEF topology
<1>9. \A i \in ArcSlot : arc_enabled(i) <=> arc_tail[i] \in NodeSlot
  BY DEF arc_enabled, IInv, TypeOK
<1>10. \A i \in ArcSlot : arc_enabled(i)' <=> v.tail[i] \in NodeSlot
  BY <1>5, <1>7 DEF arc_enabled, IInv, TypeOK
<1>11. DualPairing'
  <2> SUFFICES ASSUME NEW i \in ArcSlot, v.tail[i] \in NodeSlot
               PROVE  /\ arc_dual(i) \in ArcSlot
                      /\ v.tail[arc_dual(i)] \in NodeSlot
    BY <1>10 DEF DualPairing
  <2>1. CASE i = arc
    BY <1>1, <1>4, <2>1 DEF dual
  <2>2. CASE i = dual
    BY <1>1, <1>3, <1>4, <2>2, DualInvolution DEF dual
  <2>3. CASE i \notin {arc, dual}
    BY <1>3, <1>4, <1>8, <1>9, <2>3 DEF DualPairing
  <2> QED
    BY <2>1, <2>2, <2>3
<1> QED
  BY <1>3, <1>4, <1>5, <1>7, <1>8, <1>9, <1>11
-----------------------------------------------------------------------------
(* graph_new establishes the invariant, whatever the garbage.              *)
LEMMA InitInvariant == Init => IInv /\ DualPairing
<1> SUFFICES ASSUME Init PROVE IInv /\ DualPairing
  OBVIOUS
<1> USE SlotTypes
<1>1. TypeOK
  <2>1. PICK g \in [ArcSlot \ NodeSlot -> Garbage] :
               node_adjacency_next =
                 [i \in ArcSlot |-> IF i \in NodeSlot THEN INVALID_INDEX
                                                     ELSE g[i]]
    BY DEF Init
  <2>2. \A i \in ArcSlot \ NodeSlot : g[i] \in Index
    BY GarbageAssumption
  <2>3. node_adjacency_next \in [ArcSlot -> Index]
    BY <2>1, <2>2
  <2> QED
    BY <2>3 DEF Init, TypeOK
<1>2. \A i \in ArcSlot : ~ arc_enabled(i)
  BY DEF Init, arc_enabled
<1>3. LinksOK
  BY <1>2 DEF Init, LinksOK
<1>4. AcyclicIn(Nat)
  <2>1. [i \in ArcSlot |-> 0] \in [ArcSlot -> Nat]
    OBVIOUS
  <2> QED
    BY <1>2, <2>1 DEF AcyclicIn
<1> QED
  BY <1>1, <1>2, <1>3, <1>4 DEF IInv, DualPairing

LEMMA StepInvariant ==
  ASSUME IInv, DualPairing, [Next]_vars
  PROVE  /\ IInv' /\ DualPairing'
         /\ \A i \in ArcSlot : arc_enabled(i) =>
              /\ arc_tail'[i] = arc_tail[i]
              /\ node_adjacency_next'[i] = node_adjacency_next[i]
<1>1. CASE \E arc \in Index, from, to \in NodeSlot :
             graph_add_arc(arc, from, to)
  BY <1>1, AddArc
<1>2. CASE UNCHANGED vars
  BY <1>2 DEF vars, IInv, TypeOK, LinksOK, AcyclicIn, DualPairing,
              arc_enabled
<1> QED
  BY <1>1, <1>2 DEF Next, graph_add_arc_fails

(* The inductive invariant holds in every state of every graph.            *)
LEMMA Invariant == Spec => [](IInv /\ DualPairing)
<1>1. IInv /\ DualPairing /\ [Next]_vars => (IInv /\ DualPairing)'
  BY StepInvariant
<1> QED
  BY InitInvariant, <1>1, PTL DEF Spec

(* The three arrays keep their types, whatever graph_new found in them.    *)
THEOREM TypeCorrect == Spec => []TypeOK
<1>1. IInv => TypeOK
  BY DEF IInv
<1> QED
  BY Invariant, <1>1, PTL

(* graph_add_arc keeps the lists exact: a list holds arcs of its node      *)
(* only, every arc of the node is in it, once.                             *)
THEOREM ListsCorrect == Spec => []LinksOK
<1>1. IInv => LinksOK
  BY DEF IInv
<1> QED
  BY Invariant, <1>1, PTL

(* The loop over the arcs of a node ends: along every list a natural       *)
(* number decreases.                                                       *)
THEOREM ListsEnd == Spec => []AcyclicIn(Nat)
<1>1. IInv => AcyclicIn(Nat)
  BY DEF IInv
<1> QED
  BY Invariant, <1>1, PTL

(* An arc and its dual are in the graph together.                          *)
THEOREM DualsPaired == Spec => []DualPairing
  BY Invariant, PTL

(* Adding an arc a second time changes nothing of the first.               *)
THEOREM FirstAddWins == Spec => SecondAddIgnored
<1>1. IInv /\ DualPairing /\ [Next]_vars =>
        [\A i \in ArcSlot : arc_enabled(i) =>
           /\ arc_tail'[i] = arc_tail[i]
           /\ node_adjacency_next'[i] = node_adjacency_next[i]]_vars
  BY StepInvariant
<1> QED
  BY Invariant, <1>1, PTL DEF Spec, SecondAddIgnored
-----------------------------------------------------------------------------
(* What is known of induction and iteration from the networks' proofs.     *)
(* None of it depends on the network.                                      *)
Lib == INSTANCE ResidualNetworkProofs
         WITH max_num_nodes <- 1, num_arcs <- 0,
              graph <- 0, capacity <- 0, cost <- 0, potential <- 0

LEMMA LibAssumption == Lib!SizesAssumption
  BY DEF Lib!SizesAssumption

LEMMA LibFinite == \A S : Lib!IsFiniteSet(S) <=> IsFiniteSet(S)
  BY DEF Lib!IsFiniteSet, IsFiniteSet

(* The loop over the list of node n: one round, and the rounds.            *)
round(v, k) ==
  IF Len(v) < k \/ Last(v) \notin ArcSlot
       \/ node_adjacency_next[Last(v)] = INVALID_INDEX
  THEN v
  ELSE Append(v, node_adjacency_next[Last(v)])

begun(n) ==
  IF node_adjacency_first[n] = INVALID_INDEX
  THEN <<>> ELSE <<node_adjacency_first[n]>>

Rounds(w, n) ==
  w = [k \in Nat |-> IF k = 0 THEN begun(n) ELSE round(w[k - 1], k)]

LEMMA LoopIsRounds ==
  ASSUME NEW n
  PROVE  node_adjacency_loop(n)
           = (CHOOSE w : Rounds(w, n))[max_num_arcs + 1]
BY DEF node_adjacency_loop, Walk, Rounds, round, begun

(* The recursive definition has a solution: the rounds, numbered, iterate  *)
(* a function.                                                             *)
LEMMA RoundsExist ==
  ASSUME TypeOK, NEW n \in NodeSlot
  PROVE  \E w : Rounds(w, n)
<1> DEFINE S == Nat \X Seq(Index)
           A == <<0, begun(n)>>
           F == [x \in S |-> <<x[1] + 1, round(x[2], x[1] + 1)>>]
<1>1. A \in S
  <2>1. node_adjacency_first[n] \in Index
    BY SlotTypes DEF TypeOK
  <2>2. begun(n) \in Seq(Index)
    BY <2>1 DEF begun
  <2> QED  BY <2>2
<1>2. ASSUME NEW x \in S PROVE F[x] \in S
  <2>1. /\ x[1] \in Nat /\ x[2] \in Seq(Index)
        /\ Last(x[2]) \in ArcSlot => node_adjacency_next[Last(x[2])] \in Index
    BY DEF TypeOK
  <2>2. round(x[2], x[1] + 1) \in Seq(Index)
    BY <2>1 DEF round
  <2> QED  BY <2>1, <2>2
<1>3. PICK f : Lib!Iterates(f, S, A, F)
  <2> HIDE DEF S, A, F
  <2> QED  BY <1>1, <1>2, LibAssumption, Lib!Iteration
<1>4. /\ f \in [Nat -> S] /\ f[0] = A
      /\ \A k \in Nat : f[k + 1] = F[f[k]]
  BY <1>3 DEF Lib!Iterates
<1>5. \A k \in Nat : f[k + 1] = <<f[k][1] + 1, round(f[k][2], f[k][1] + 1)>>
  BY <1>4
<1> DEFINE P == {k \in Nat : f[k][1] = k}
<1>6. Nat \subseteq P
  <2>1. 0 \in P
    BY <1>4
  <2>2. \A k \in P \intersect Nat : k + 1 \in P
    BY <1>5
  <2> HIDE DEF P
  <2> QED  BY <2>1, <2>2, LibAssumption, Lib!SetInduction
<1> DEFINE w == [k \in Nat |-> f[k][2]]
<1>7. ASSUME NEW k \in Nat
      PROVE  w[k] = IF k = 0 THEN begun(n) ELSE round(w[k - 1], k)
  <2>1. CASE k = 0
    BY <1>4, <2>1
  <2>2. CASE k # 0
    <3>1. k - 1 \in Nat /\ (k - 1) + 1 = k
      BY <2>2
    <3>2. f[(k - 1) + 1] = <<f[k - 1][1] + 1, round(f[k - 1][2], f[k - 1][1] + 1)>>
      BY <1>5, <3>1
    <3>3. f[k - 1][1] = k - 1
      BY <1>6, <3>1
    <3> QED  BY <2>2, <3>1, <3>2, <3>3
  <2> QED  BY <2>1, <2>2
<1>8. Rounds(w, n)
  <2>1. w = [k \in Nat |-> w[k]]
    OBVIOUS
  <2> HIDE DEF w
  <2> QED  BY <1>7, <2>1 DEF Rounds
<1> QED  BY <1>8
-----------------------------------------------------------------------------
(* A walk along the links of node n, from its first arc.                   *)
Chain(w, n) ==
  /\ w \in Seq(ArcSlot)
  /\ \A i \in 1 .. Len(w) : arc_tail[w[i]] = n
  /\ Len(w) > 0 => w[1] = node_adjacency_first[n]
  /\ Len(w) = 0 => node_adjacency_first[n] = INVALID_INDEX
  /\ \A i \in 1 .. Len(w) - 1 : node_adjacency_next[w[i]] = w[i + 1]

(* Its last arc is the end of the list.                                    *)
Complete(w) ==
  Len(w) > 0 => node_adjacency_next[w[Len(w)]] = INVALID_INDEX

(* The depth falls along a walk, which therefore meets no arc twice.       *)
LEMMA ChainInjective ==
  ASSUME IInv, NEW n \in NodeSlot, NEW w, Chain(w, n)
  PROVE  \A i, j \in 1 .. Len(w) : w[i] = w[j] => i = j
<1>1. PICK depth \in [ArcSlot -> Nat] :
        \A i \in ArcSlot :
          (arc_enabled(i) /\ node_adjacency_next[i] # INVALID_INDEX)
            => depth[node_adjacency_next[i]] < depth[i]
  BY DEF IInv, AcyclicIn
<1>2. /\ Len(w) \in Nat
      /\ \A i \in 1 .. Len(w) : w[i] \in ArcSlot /\ depth[w[i]] \in Nat
  BY DEF Chain
<1>3. ASSUME NEW i \in 1 .. Len(w) - 1 PROVE depth[w[i + 1]] < depth[w[i]]
  <2>1. i \in 1 .. Len(w) /\ i + 1 \in 1 .. Len(w)
    BY <1>2
  <2>2. /\ node_adjacency_next[w[i]] = w[i + 1] /\ arc_tail[w[i]] = n
        /\ w[i] \in ArcSlot /\ w[i + 1] \in ArcSlot
    BY <1>2, <2>1 DEF Chain
  <2>3. arc_enabled(w[i]) /\ node_adjacency_next[w[i]] # INVALID_INDEX
    BY <2>2, SlotTypes DEF arc_enabled
  <2> QED  BY <1>1, <2>2, <2>3
<1> DEFINE P == {d \in Nat : \A i \in 1 .. Len(w) :
                   i + d + 1 <= Len(w) => depth[w[i + d + 1]] < depth[w[i]]}
<1>4. 0 \in P
  BY <1>2, <1>3
<1>5. ASSUME NEW d \in P \intersect Nat PROVE d + 1 \in P
  <2> SUFFICES ASSUME NEW i \in 1 .. Len(w), i + (d + 1) + 1 <= Len(w)
               PROVE  depth[w[i + (d + 1) + 1]] < depth[w[i]]
    OBVIOUS
  <2> DEFINE j == i + d + 1
  <2>1. /\ j \in 1 .. Len(w) - 1 /\ j \in 1 .. Len(w) /\ j + 1 \in 1 .. Len(w)
        /\ i + (d + 1) + 1 = j + 1 /\ i + d + 1 <= Len(w)
    BY <1>2
  <2>2. depth[w[j]] < depth[w[i]]
    BY <2>1
  <2> HIDE DEF j
  <2>3. depth[w[j + 1]] < depth[w[j]]
    BY <1>3, <2>1
  <2>4. depth[w[j + 1]] < depth[w[i]]
    BY <1>2, <2>1, <2>2, <2>3
  <2> QED  BY <2>1, <2>4
<1>6. Nat \subseteq P
  <2> HIDE DEF P
  <2> QED  BY <1>4, <1>5, LibAssumption, Lib!SetInduction
<1>7. ASSUME NEW i \in 1 .. Len(w), NEW j \in 1 .. Len(w), i < j
      PROVE  w[i] # w[j]
  <2> DEFINE d == j - i - 1
  <2>1. d \in Nat /\ i + d + 1 = j
    BY <1>2, <1>7
  <2>2. d \in P
    BY <1>6, <2>1
  <2>3. depth[w[j]] < depth[w[i]]
    BY <1>2, <2>1, <2>2
  <2> QED  BY <1>2, <2>3
<1> QED
  <2> SUFFICES ASSUME NEW i \in 1 .. Len(w), NEW j \in 1 .. Len(w), w[i] = w[j],
                      i # j
               PROVE  FALSE
    OBVIOUS
  <2>1. i < j \/ j < i
    BY <1>2
  <2> QED  BY <1>7, <2>1

(* so that it is no longer than there are slots.                           *)
LEMMA ChainFits ==
  ASSUME IInv, NEW n \in NodeSlot, NEW w, Chain(w, n)
  PROVE  Len(w) \in 0 .. max_num_arcs
<1> SUFFICES ASSUME Len(w) > max_num_arcs PROVE FALSE
  BY SizeAssumption DEF Chain
<1> DEFINE last == Len(w)  end == max_num_arcs - 1
<1>1. /\ last \in Nat /\ end \in Int /\ end + 1 < last
      /\ last - 1 + 1 = last /\ end - 0 + 1 = end + 1
      /\ ~ (1 > last) /\ (0 > end <=> end + 1 = 0)
  BY SizeAssumption DEF Chain
<1>2. ArcSlot = 0 .. end
  BY DEF ArcSlot
<1>3. \A i \in 1 .. last : w[i] \in ArcSlot
  BY DEF Chain
<1>4. \A i, j \in 1 .. last : w[i] = w[j] => i = j
  BY ChainInjective
<1> HIDE DEF last, end
<1>5. IsFiniteSet(1 .. last) /\ Cardinality(1 .. last) = last
  BY <1>1, FS_Interval
<1>6. IsFiniteSet(ArcSlot) /\ Cardinality(ArcSlot) = end + 1
  BY <1>1, <1>2, FS_Interval
<1> DEFINE f == [i \in 1 .. last |-> w[i]]
<1>7. f \in [1 .. last -> ArcSlot] /\ \A i \in 1 .. last : f[i] = w[i]
  BY <1>3
<1>8. Cardinality(ArcSlot) < Cardinality(1 .. last)
  BY <1>1, <1>5, <1>6
<1> HIDE DEF f
<1>9. \E i, j \in 1 .. last : i # j /\ f[i] = f[j]
  <2> DEFINE S == 1 .. last
  <2>1. /\ IsFiniteSet(S) /\ f \in [S -> ArcSlot]
        /\ Cardinality(ArcSlot) < Cardinality(S)
    BY <1>5, <1>7, <1>8
  <2> HIDE DEF S
  <2>2. \E i, j \in S : i # j /\ f[i] = f[j]
    BY <1>6, <2>1, FS_PigeonHole
  <2> QED  BY <2>2 DEF S
<1> QED  BY <1>4, <1>7, <1>9

(* A walk to the end of the list meets every arc of the node: of those it  *)
(* does not meet, the deepest would have a predecessor.                    *)
LEMMA ChainExact ==
  ASSUME IInv, NEW n \in NodeSlot, NEW w, Chain(w, n), Complete(w)
  PROVE  \A i \in ArcSlot : arc_tail[i] = n => \E k \in 1 .. Len(w) : w[k] = i
<1>1. PICK depth \in [ArcSlot -> Nat] :
        \A i \in ArcSlot :
          (arc_enabled(i) /\ node_adjacency_next[i] # INVALID_INDEX)
            => depth[node_adjacency_next[i]] < depth[i]
  BY DEF IInv, AcyclicIn
<1> DEFINE Missed == {i \in ArcSlot : /\ arc_tail[i] = n
                                      /\ \A k \in 1 .. Len(w) : w[k] # i}
           D == {depth[i] : i \in Missed}
<1> SUFFICES ASSUME Missed # {} PROVE FALSE
  OBVIOUS
<1>2. IsFiniteSet(D) /\ D \subseteq Int /\ D # {}
  <2>1. IsFiniteSet(ArcSlot)
    BY SizeAssumption, FS_Interval DEF ArcSlot
  <2>2. IsFiniteSet(Missed) /\ Missed \subseteq ArcSlot
    BY <2>1, FS_Subset
  <2> HIDE DEF Missed
  <2>3. IsFiniteSet(D)
    BY <2>2, LibAssumption, LibFinite, Lib!ImageFinite
  <2> QED  BY <2>2, <2>3
<1>3. PICK m \in D : \A x \in D : x <= m
  <2> HIDE DEF D
  <2> QED  BY <1>2, LibAssumption, LibFinite, Lib!GreatestOfFinite
<1>4. PICK i \in Missed : depth[i] = m
  OBVIOUS
<1>5. /\ i \in ArcSlot /\ arc_tail[i] = n /\ \A k \in 1 .. Len(w) : w[k] # i
      /\ arc_enabled(i)
  BY SlotTypes DEF arc_enabled
<1>6. i # node_adjacency_first[n]
  <2>1. Len(w) > 0 => 1 \in 1 .. Len(w)
    BY DEF Chain
  <2>2. Len(w) \in Nat
    BY DEF Chain
  <2> QED  BY <1>5, <2>1, <2>2, SlotTypes DEF Chain
<1>7. PICK j \in ArcSlot : arc_enabled(j) /\ node_adjacency_next[j] = i
  BY <1>5, <1>6 DEF IInv, LinksOK
<1>8. i # INVALID_INDEX /\ arc_tail[j] = n /\ depth[i] < depth[j]
  BY <1>1, <1>5, <1>7, SlotTypes DEF IInv, LinksOK
<1>9. j \notin Missed
  <2>1. depth[j] \in Int /\ depth[i] \in Int /\ ~ (depth[j] <= depth[i])
    BY <1>5, <1>8
  <2> QED  BY <1>3, <1>4, <2>1
<1>10. PICK k \in 1 .. Len(w) : w[k] = j
  BY <1>8, <1>9
<1>11. CASE k = Len(w)
  BY <1>7, <1>8, <1>10, <1>11 DEF Complete
<1>12. CASE k # Len(w)
  <2>1. k \in 1 .. Len(w) - 1 /\ k + 1 \in 1 .. Len(w)
    BY <1>12 DEF Chain
  <2>2. node_adjacency_next[w[k]] = w[k + 1]
    BY <2>1 DEF Chain
  <2> QED  BY <1>5, <1>7, <1>10, <2>1, <2>2
<1> QED  BY <1>11, <1>12

(* The loop is such a walk: after k rounds it has met k + 1 arcs or all.   *)
LEMMA LoopWalks ==
  ASSUME IInv, NEW n \in NodeSlot
  PROVE  Chain(node_adjacency_loop(n), n) /\ Complete(node_adjacency_loop(n))
<1> DEFINE w == CHOOSE w : Rounds(w, n)
           P == {k \in Nat : /\ Chain(w[k], n)
                             /\ Len(w[k]) = k + 1 \/ Complete(w[k])}
<1>1. Rounds(w, n)
  <2>1. TypeOK
    BY DEF IInv
  <2> QED  BY <2>1, RoundsExist
<1> HIDE DEF w
<1>2. w[0] = begun(n) /\ \A k \in Nat : w[k + 1] = round(w[k], k + 1)
  <2>1. \A k \in Nat : w[k] = IF k = 0 THEN begun(n) ELSE round(w[k - 1], k)
    BY <1>1 DEF Rounds
  <2>2. ASSUME NEW k \in Nat PROVE w[k + 1] = round(w[k], k + 1)
    <3>1. k + 1 \in Nat /\ k + 1 # 0 /\ (k + 1) - 1 = k
      OBVIOUS
    <3>2. w[k + 1] = round(w[(k + 1) - 1], k + 1)
      BY <2>1, <3>1
    <3> QED  BY <3>1, <3>2
  <2> QED  BY <2>1, <2>2
<1>3. 0 \in P
  <2>1. CASE node_adjacency_first[n] = INVALID_INDEX
    <3>1. w[0] = <<>>
      BY <1>2, <2>1 DEF begun
    <3>2. w[0] \in Seq(ArcSlot) /\ Len(w[0]) = 0
      BY <3>1
    <3> QED  BY <2>1, <3>2 DEF Chain, Complete
  <2>2. CASE node_adjacency_first[n] # INVALID_INDEX
    <3> DEFINE first == node_adjacency_first[n]
    <3>1. w[0] = <<first>>
      BY <1>2, <2>2 DEF begun
    <3>2. first \in ArcSlot /\ arc_tail[first] = n
      BY <2>2 DEF IInv, TypeOK, LinksOK
    <3>3. Len(w[0]) = 1 /\ w[0][1] = first /\ w[0] \in Seq(ArcSlot)
      BY <3>1, <3>2
    <3> QED  BY <3>2, <3>3 DEF Chain
  <2> QED  BY <2>1, <2>2
<1>4. ASSUME NEW k \in P \intersect Nat PROVE k + 1 \in P
  <2> DEFINE v == w[k]
  <2>1. Chain(v, n) /\ (Len(v) = k + 1 \/ Complete(v)) /\ k \in Nat
    OBVIOUS
  <2>2. w[k + 1] = round(v, k + 1)
    BY <1>2
  <2> HIDE DEF v
  <2>3. v \in Seq(ArcSlot) /\ Len(v) \in Nat
    BY <2>1 DEF Chain
  <2>4. CASE Complete(v)
    <3>1. w[k + 1] = v
      BY <2>2, <2>3, <2>4 DEF round, Complete, Last
    <3> QED  BY <2>1, <2>4, <3>1
  <2>5. CASE ~ Complete(v)
    <3> DEFINE a == v[Len(v)]  b == node_adjacency_next[a]
    <3>1. /\ Len(v) = k + 1 /\ Len(v) > 0 /\ b # INVALID_INDEX
          /\ Len(v) \in 1 .. Len(v)
      BY <2>1, <2>3, <2>5 DEF Complete
    <3>2. a \in ArcSlot /\ arc_tail[a] = n
      BY <2>1, <2>3, <3>1 DEF Chain
    <3>3. b \in ArcSlot /\ arc_tail[b] = n
      BY <3>1, <3>2, SlotTypes DEF IInv, LinksOK, arc_enabled
    <3>4. w[k + 1] = Append(v, b)
      BY <2>2, <3>1, <3>2 DEF round, Last
    <3>5. /\ Append(v, b) \in Seq(ArcSlot) /\ Len(Append(v, b)) = k + 2
          /\ \A i \in 1 .. Len(v) : Append(v, b)[i] = v[i]
          /\ Append(v, b)[k + 2] = b
      <4> HIDE DEF b
      <4> QED  BY <2>1, <2>3, <3>1, <3>3
    <3>6. Chain(Append(v, b), n)
      <4> DEFINE u == Append(v, b)
      <4>1. /\ \A i \in 1 .. Len(v) : arc_tail[v[i]] = n
            /\ v[1] = node_adjacency_first[n]
            /\ \A i \in 1 .. Len(v) - 1 : node_adjacency_next[v[i]] = v[i + 1]
        BY <2>1, <3>1 DEF Chain
      <4>2. \A i \in 1 .. k + 2 : i \in 1 .. Len(v) \/ i = k + 2
        BY <2>1, <3>1
      <4>3. b = node_adjacency_next[v[k + 1]]
        BY <3>1
      <4> HIDE DEF u, a, b
      <4>4. \A i \in 1 .. Len(u) : arc_tail[u[i]] = n
        BY <3>3, <3>5, <4>1, <4>2 DEF u
      <4>5. u[1] = node_adjacency_first[n] /\ Len(u) > 0
        <5>1. 1 \in 1 .. Len(v)
          BY <2>1, <3>1
        <5> QED  BY <2>1, <3>5, <4>1, <5>1 DEF u
      <4>6. ASSUME NEW i \in 1 .. Len(u) - 1
            PROVE  node_adjacency_next[u[i]] = u[i + 1]
        <5>1. i \in 1 .. k + 1 /\ i \in 1 .. Len(v)
          BY <2>1, <3>1, <3>5 DEF u
        <5>2. CASE i = k + 1
          <6>1. i + 1 = k + 2 /\ u[i] = v[k + 1]
            BY <2>1, <3>5, <5>1, <5>2 DEF u
          <6> QED  BY <3>5, <4>3, <6>1 DEF u
        <5>3. CASE i # k + 1
          <6>1. i \in 1 .. Len(v) - 1 /\ i + 1 \in 1 .. Len(v)
            BY <2>1, <3>1, <5>1, <5>3
          <6> QED  BY <3>5, <4>1, <5>1, <6>1 DEF u
        <5> QED  BY <5>2, <5>3
      <4>7. u \in Seq(ArcSlot) /\ Len(u) \in Nat /\ Len(u) # 0
        BY <2>1, <3>5 DEF u
      <4>8. Chain(u, n)
        BY <4>4, <4>5, <4>6, <4>7 DEF Chain
      <4> QED  BY <4>8 DEF u
    <3>7. k + 1 \in Nat /\ (k + 1) + 1 = k + 2
      BY <2>1
    <3> HIDE DEF b
    <3> QED  BY <3>4, <3>5, <3>6, <3>7
  <2> QED  BY <2>4, <2>5
<1>5. Nat \subseteq P
  <2> HIDE DEF P
  <2> QED  BY <1>3, <1>4, LibAssumption, Lib!SetInduction
<1> DEFINE m == max_num_arcs + 1
<1>6. m \in Nat /\ max_num_arcs \in Nat
  BY SizeAssumption, SlotTypes
<1>7. Chain(w[m], n) /\ (Len(w[m]) = m + 1 \/ Complete(w[m]))
  BY <1>5, <1>6
<1>8. Len(w[m]) \in 0 .. max_num_arcs
  BY <1>7, ChainFits
<1>9. Complete(w[m])
  BY <1>6, <1>7, <1>8
<1>10. node_adjacency_loop(n) = w[m]
  BY LoopIsRounds DEF w
<1> QED  BY <1>7, <1>9, <1>10

(* The loop over the arcs of a node visits each of them once, and nothing  *)
(* else, in every graph that graph_add_arc can build.                      *)
THEOREM LoopsVisitAll == Spec => []ListsExact
<1>1. IInv => ListsExact
  <2> SUFFICES ASSUME IInv, NEW n \in NodeSlot
               PROVE  /\ IsInjective(node_adjacency_loop(n))
                      /\ ToSet(node_adjacency_loop(n))
                           = {i \in ArcSlot : arc_tail[i] = n}
    BY DEF ListsExact
  <2> DEFINE w == node_adjacency_loop(n)
  <2>1. Chain(w, n) /\ Complete(w)
    BY LoopWalks
  <2> HIDE DEF w
  <2>2. /\ DOMAIN w = 1 .. Len(w)
        /\ \A i \in 1 .. Len(w) : w[i] \in ArcSlot /\ arc_tail[w[i]] = n
    BY <2>1 DEF Chain
  <2>3. IsInjective(w)
    BY <2>1, <2>2, ChainInjective DEF IsInjective
  <2>4. ToSet(w) = {i \in ArcSlot : arc_tail[i] = n}
    <3>1. ToSet(w) = {w[k] : k \in 1 .. Len(w)}
      BY <2>2 DEF ToSet
    <3>2. \A i \in ArcSlot : arc_tail[i] = n => \E k \in 1 .. Len(w) : w[k] = i
      BY <2>1, ChainExact
    <3> QED  BY <2>2, <3>1, <3>2
  <2> QED  BY <2>3, <2>4 DEF w
<1> QED
  BY Invariant, <1>1, PTL
-----------------------------------------------------------------------------
(* The priority queue.  Track is PointersTrack, of any heap and any places. *)
Track(b, ptr, n) ==
  /\ \A i \in Places(n) : ptr[b[i]] = i
  /\ \A k \in Key : ptr[k] # NULL => ptr[k] \in Places(n) /\ b[ptr[k]] = k

HeapInv ==
  /\ HeapTypeOK
  /\ Track(base, heapptr, heapsize) /\ IsHeap(value, base, heapsize)

OneToOne(b, n) == \A i, j \in Places(n) : b[i] = b[j] => i = j
Content(b, n) == {b[i] : i \in Places(n)}
-----------------------------------------------------------------------------
(* A non-empty set of natural numbers has a least one: the least of the    *)
(* intervals that begin at 0 and end in the set.                           *)
LEMMA LeastNatural ==
  ASSUME NEW S, S \subseteq Nat, S # {}
  PROVE  \E m \in S : \A k \in S : m <= k
<1> DEFINE T == {0 .. m : m \in S}
           R == StrictSubsetOrdering(Nat)
<1>1. T \subseteq FiniteSubsetsOf(Nat)
  <2> SUFFICES ASSUME NEW m \in S PROVE 0 .. m \in FiniteSubsetsOf(Nat)
    OBVIOUS
  <2>1. IsFiniteSet(0 .. m)
    BY FS_Interval
  <2> QED  BY <2>1 DEF FiniteSubsetsOf
<1>2. T # {}
  OBVIOUS
<1>3. IsWellFoundedOn(R, FiniteSubsetsOf(Nat))
  BY FS_StrictSubsetOrderingWellFounded
<1>4. PICK x \in T : \A y \in T : ~ (<<y, x>> \in R)
  <2> HIDE DEF T, R
  <2> QED  BY <1>1, <1>2, <1>3, WFMin
<1>5. PICK m \in S : x = 0 .. m
  OBVIOUS
<1>6. ASSUME NEW k \in S, k < m PROVE FALSE
  <2>1. 0 .. k \in SUBSET Nat /\ 0 .. m \in SUBSET Nat
    OBVIOUS
  <2>2. k \in Nat /\ m \in Nat
    OBVIOUS
  <2>3. 0 .. k \subseteq 0 .. m
    BY <1>6, <2>2
  <2>4. m \in 0 .. m /\ m \notin 0 .. k
    BY <1>6, <2>2
  <2>5. 0 .. k # 0 .. m
    BY <2>4
  <2>6. <<0 .. k, 0 .. m>> \in R
    BY <2>1, <2>3, <2>5 DEF StrictSubsetOrdering
  <2>7. 0 .. k \in T
    OBVIOUS
  <2> HIDE DEF T, R
  <2> QED  BY <1>4, <1>5, <2>6, <2>7
<1> QED  BY <1>6

LEMMA PlacesAreKeys ==
  ASSUME NEW n \in 0 .. max_num_elements
 
  PROVE  Places(n) \subseteq Key /\ Places(n) \subseteq Nat /\ IsFiniteSet(Places(n))
BY FS_Interval, KeysAssumption DEF Places, Key

LEMMA ParentBelow ==
  ASSUME NEW n \in 0 .. max_num_elements, NEW i \in Places(n) \ {0}
  PROVE  parent[i] \in Places(n) /\ parent[i] < i /\ i \in Nat
BY KeysAssumption, ParentAssumption DEF Places, Key

(* The first place of a heap holds a key of the least value: the first     *)
(* place with a lesser value would be below its parent.                    *)
LEMMA TopIsLeast ==
  ASSUME NEW v \in [Key -> Value], NEW n \in 0 .. max_num_elements,
         NEW b \in [Places(n) -> Key], IsHeap(v, b, n), NEW j \in Places(n)
  PROVE  v[b[0]] <= v[b[j]]
<1> DEFINE S == {i \in Places(n) : ~ (v[b[0]] <= v[b[i]])}
<1> SUFFICES ASSUME S # {} PROVE FALSE
  OBVIOUS
<1>1. S \subseteq Nat /\ 0 \in Places(n)
  BY KeysAssumption DEF Places
<1>2. PICK m \in S : \A k \in S : m <= k
  <2> HIDE DEF S
  <2> QED  BY <1>1, LeastNatural
<1>3. \A k \in Places(n) : v[b[k]] \in Int
  BY ValuesAssumption
<1>4. m \in Places(n) /\ ~ (v[b[0]] <= v[b[m]]) /\ m # 0
  BY <1>1, <1>3
<1>5. parent[m] \in Places(n) /\ parent[m] < m /\ m \in Nat
  BY <1>4, ParentBelow
<1>6. parent[m] \in Nat /\ parent[m] \notin S
  <2>1. parent[m] \in Nat
    BY <1>5, PlacesAreKeys
  <2> HIDE DEF S
  <2> QED  BY <1>2, <1>5, <2>1
<1>7. v[b[0]] <= v[b[parent[m]]]
  <2> DEFINE above == parent[m]
  <2>1. above \in Places(n) /\ above \notin S
    BY <1>5, <1>6
  <2> HIDE DEF above
  <2>2. v[b[0]] <= v[b[above]]
    BY <2>1
  <2> QED  BY <2>2 DEF above
<1>8. ~ (v[b[parent[m]]] > v[b[m]])
  BY <1>4 DEF IsHeap, InOrder, less_comparer
<1> HIDE DEF S
<1>9. v[b[0]] \in Int /\ v[b[parent[m]]] \in Int /\ v[b[m]] \in Int
  BY <1>1, <1>3, <1>4, <1>5
<1> QED  BY <1>4, <1>7, <1>8, <1>9
-----------------------------------------------------------------------------
(* c holds the items of b in other places.                                 *)
Rearranged(b, c, n) ==
  \E p \in [Places(n) -> Places(n)] :
    /\ c = [i \in Places(n) |-> b[p[i]]]
    /\ \A i, j \in Places(n) : p[i] = p[j] => i = j

LEMMA RearrangedSame ==
  ASSUME NEW n \in 0 .. max_num_elements, NEW b \in [Places(n) -> Key],
         OneToOne(b, n), NEW c, Rearranged(b, c, n)
  PROVE  /\ c \in [Places(n) -> Key] /\ OneToOne(c, n)
         /\ Content(c, n) = Content(b, n)
<1>1. PICK p \in [Places(n) -> Places(n)] :
        /\ c = [i \in Places(n) |-> b[p[i]]]
        /\ \A i, j \in Places(n) : p[i] = p[j] => i = j
  BY DEF Rearranged
<1>2. IsFiniteSet(Places(n))
  BY PlacesAreKeys
<1>3. p \in Injection(Places(n), Places(n))
  BY <1>1 DEF Injection, IsInjective
<1>4. p \in Surjection(Places(n), Places(n))
  BY <1>2, <1>3, FS_Injection
<1>5. \A j \in Places(n) : \E i \in Places(n) : p[i] = j
  BY <1>4 DEF Surjection
<1>6. Content(c, n) = Content(b, n)
  BY <1>1, <1>5 DEF Content
<1> QED  BY <1>1, <1>6 DEF OneToOne

(* After item_mover has been called for the items that moved, every item   *)
(* is where its place says if those that did not move were there.          *)
LEMMA MovedTracks ==
  ASSUME NEW n \in 0 .. max_num_elements, NEW c \in [Places(n) -> Key],
         OneToOne(c, n), NEW b, NEW ptr,
         \A i \in Places(n) : c[i] = b[i] => ptr[c[i]] = i
  PROVE  /\ \A i \in Places(n) : moved(ptr, b, c, n)[c[i]] = i
         /\ \A k \in Key \ Content(c, n) : moved(ptr, b, c, n)[k] = ptr[k]
<1>1. ASSUME NEW i \in Places(n) PROVE moved(ptr, b, c, n)[c[i]] = i
  <2>1. \A j \in Places(n) : c[j] = c[i] => j = i
    BY DEF OneToOne
  <2>2. CASE b[i] = c[i]
    BY <2>1, <2>2 DEF moved
  <2>3. CASE b[i] # c[i]
    <3>1. (CHOOSE j \in Places(n) : c[j] = c[i]) = i
      BY <2>1
    <3> QED  BY <2>3, <3>1 DEF moved
  <2> QED  BY <2>2, <2>3
<1>2. ASSUME NEW k \in Key \ Content(c, n)
      PROVE  moved(ptr, b, c, n)[k] = ptr[k]
  BY <1>2 DEF moved, Content
<1> QED  BY <1>1, <1>2

(* Places that track are one-to-one and hold the keys that have a place.   *)
LEMMA TrackFacts ==
  ASSUME NEW n \in 0 .. max_num_elements, NEW b \in [Places(n) -> Key],
         NEW ptr, Track(b, ptr, n)
  PROVE  OneToOne(b, n) /\ Content(b, n) = {k \in Key : ptr[k] # NULL}
<1>1. OneToOne(b, n)
  BY DEF Track, OneToOne
<1>2. ASSUME NEW i \in Places(n) PROVE b[i] \in Key /\ ptr[b[i]] # NULL
  BY PlacesAreKeys, NullAssumption DEF Track
<1>3. ASSUME NEW k \in Key, ptr[k] # NULL PROVE k \in Content(b, n)
  BY <1>3 DEF Track, Content
<1> QED  BY <1>1, <1>2, <1>3 DEF Content

(* The other way round.                                                    *)
LEMMA TrackBuilt ==
  ASSUME NEW n \in 0 .. max_num_elements, NEW b \in [Places(n) -> Key], NEW ptr,
         \A i \in Places(n) : ptr[b[i]] = i,
         \A k \in Key \ Content(b, n) : ptr[k] = NULL
  PROVE  Track(b, ptr, n) /\ \A k \in Key : ptr[k] \in Key \union {NULL}
<1>1. ASSUME NEW k \in Key
      PROVE  \/ ptr[k] = NULL
             \/ ptr[k] \in Places(n) /\ b[ptr[k]] = k
  BY DEF Content
<1> QED  BY <1>1, PlacesAreKeys DEF Track

(* What a call of gheap makes of places that track.                        *)
LEMMA ArrangeTracks ==
  ASSUME NEW n \in 0 .. max_num_elements, NEW b \in [Places(n) -> Key],
         NEW ptr, Track(b, ptr, n), NEW c, Rearranged(b, c, n)
  PROVE  /\ c \in [Places(n) -> Key]
         /\ moved(ptr, b, c, n) \in [Key -> Key \union {NULL}]
         /\ Track(c, moved(ptr, b, c, n), n)
         /\ Content(c, n) = Content(b, n)
<1> DEFINE q == moved(ptr, b, c, n)
<1>1. OneToOne(b, n) /\ Content(b, n) = {k \in Key : ptr[k] # NULL}
  BY TrackFacts
<1>2. /\ c \in [Places(n) -> Key] /\ OneToOne(c, n)
      /\ Content(c, n) = Content(b, n)
  BY <1>1, RearrangedSame
<1>3. \A i \in Places(n) : c[i] = b[i] => ptr[c[i]] = i
  BY DEF Track
<1>4. /\ \A i \in Places(n) : q[c[i]] = i
      /\ \A k \in Key \ Content(c, n) : q[k] = ptr[k]
  BY <1>2, <1>3, MovedTracks
<1>5. \A k \in Key \ Content(c, n) : q[k] = NULL
  BY <1>1, <1>2, <1>4
<1>6. q = [k \in Key |-> q[k]]
  BY DEF moved
<1> HIDE DEF q
<1>7. Track(c, q, n) /\ \A k \in Key : q[k] \in Key \union {NULL}
  BY <1>2, <1>4, <1>5, TrackBuilt
<1>8. q \in [Key -> Key \union {NULL}]
  BY <1>6, <1>7
<1> QED  BY <1>2, <1>7, <1>8 DEF q
-----------------------------------------------------------------------------
Keys == {k \in Key : heapptr[k] # NULL}

(* The empty queue, new or after priorityqueue_init.                       *)
LEMMA EmptyQueue ==
  ASSUME NEW v, NEW b, NEW ptr,
         b = [i \in Places(0) |-> 0], ptr = [k \in Key |-> NULL]
  PROVE  /\ b \in [Places(0) -> Key] /\ ptr \in [Key -> Key \union {NULL}]
         /\ Track(b, ptr, 0) /\ IsHeap(v, b, 0)
<1>1. Places(0) = {}
  BY DEF Places
<1> QED  BY <1>1 DEF Track, IsHeap

(* A key that is not in the heap finds a place: the keys in the heap are   *)
(* different ones.                                                         *)
LEMMA RoomForOne ==
  ASSUME HeapInv, NEW key \in Key, ~ in_heap(key)
  PROVE  heapsize + 1 \in 0 .. max_num_elements
<1>1. heapsize \in 0 .. max_num_elements /\ base \in [Places(heapsize) -> Key]
  BY DEF HeapInv, HeapTypeOK
<1>2. OneToOne(base, heapsize) /\ Content(base, heapsize) = Keys
  BY <1>1, TrackFacts DEF HeapInv, Keys
<1>3. ASSUME heapsize = max_num_elements PROVE FALSE
  <2>1. Places(heapsize) = Key /\ IsFiniteSet(Key)
    BY <1>1, <1>3, PlacesAreKeys DEF Places, Key
  <2>2. base \in Injection(Key, Key)
    BY <1>1, <1>2, <2>1 DEF Injection, IsInjective, OneToOne
  <2>3. base \in Surjection(Key, Key)
    BY <2>1, <2>2, FS_Injection
  <2>4. key \in Content(base, heapsize)
    BY <2>1, <2>3 DEF Surjection, Content
  <2> QED  BY <1>2, <2>4 DEF Keys, in_heap
<1> QED  BY <1>1, <1>3, KeysAssumption

(* What a repair by gheap leaves.                                          *)
LEMMA RepairKeeps ==
  ASSUME NEW n \in 0 .. max_num_elements, heapsize' = n,
         value' \in [Key -> Value],
         NEW b \in [Places(n) -> Key], NEW ptr, Track(b, ptr, n),
         NEW c, Rearranged(b, c, n), IsHeap(value', c, n),
         base' = c, heapptr' = moved(ptr, b, c, n)
  PROVE  HeapInv' /\ Keys' = {k \in Key : ptr[k] # NULL}
<1>1. /\ base' \in [Places(n) -> Key]
      /\ heapptr' \in [Key -> Key \union {NULL}]
      /\ Track(base', heapptr', n)
      /\ Content(base', n) = Content(b, n)
  BY ArrangeTracks
<1>2. HeapInv'
  BY <1>1 DEF HeapInv, HeapTypeOK
<1>3. Content(b, n) = {k \in Key : ptr[k] # NULL}
  BY TrackFacts
<1>4. Content(base', n) = Keys'
  <2> DEFINE d == base'
             q == heapptr'
  <2>1. d \in [Places(n) -> Key] /\ Track(d, q, n)
    BY <1>1
  <2> HIDE DEF d, q
  <2>2. Content(d, n) = {k \in Key : q[k] # NULL}
    BY <2>1, TrackFacts
  <2> QED  BY <2>2 DEF d, q, Keys
<1> QED  BY <1>1, <1>2, <1>3, <1>4

LEMMA AppendKeeps ==
  ASSUME HeapInv, NEW key \in Key, NEW v \in Value, priorityqueue_append(key, v)
  PROVE  /\ HeapInv' /\ Keys' = Keys \union {key}
         /\ value' = [value EXCEPT ![key] = v]
<1> DEFINE n == heapsize
           m == heapsize + 1
           b == [i \in Places(m) |-> IF i = n THEN key ELSE base[i]]
           ptr == [heapptr EXCEPT ![key] = n]
<1>1. /\ value \in [Key -> Value] /\ n \in 0 .. max_num_elements
      /\ base \in [Places(n) -> Key]
      /\ heapptr \in [Key -> Key \union {NULL}]
      /\ Track(base, heapptr, n) /\ IsHeap(value, base, n)
  BY DEF HeapInv, HeapTypeOK
<1>2. /\ heapptr[key] = NULL /\ heapsize' = m
      /\ value' = [value EXCEPT ![key] = v]
      /\ Arrange(value', b, ptr, m, UpIsEnough(value', b, m, n))
  BY DEF priorityqueue_append, in_heap
<1>3. m \in 0 .. max_num_elements /\ value' \in [Key -> Value]
  BY <1>1, <1>2, RoomForOne DEF in_heap
<1>4. Places(m) = Places(n) \union {n} /\ n \notin Places(n) /\ n \in Key
  BY <1>1, <1>3, KeysAssumption DEF Places, Key
<1>5. /\ b \in [Places(m) -> Key] /\ b[n] = key
      /\ \A i \in Places(n) : b[i] = base[i]
  BY <1>1, <1>4
<1>6. \A i \in Places(n) : base[i] # key
  BY <1>1, <1>2, PlacesAreKeys, NullAssumption DEF Track
<1>7. Track(b, ptr, m)
  BY <1>1, <1>2, <1>4, <1>5, <1>6, NullAssumption DEF Track
<1>8. UpIsEnough(value', b, m, n)
  <2>1. ASSUME NEW i \in Places(m) \ {0, n} PROVE InOrder(value', b, i)
    <3>1. i \in Places(n) \ {0} /\ parent[i] \in Places(n)
      BY <1>1, <1>4, ParentBelow
    <3>2. ~ (value[base[parent[i]]] > value[base[i]])
      BY <1>1, <3>1 DEF IsHeap, InOrder, less_comparer
    <3> QED  BY <1>1, <1>2, <1>5, <1>6, <3>1, <3>2 DEF InOrder, less_comparer
  <2>2. ASSUME NEW i \in Places(m) \ {0} PROVE parent[i] # n
    BY <1>1, <1>3, <1>4, ParentBelow DEF Places
  <2> QED  BY <2>1, <2>2 DEF UpIsEnough, GapInOrder
<1>9. PICK c : /\ Rearranged(b, c, m) /\ IsHeap(value', c, m)
               /\ base' = c /\ heapptr' = moved(ptr, b, c, m)
  BY <1>2, <1>8 DEF Arrange, Arranged, Rearranged
<1>10. Keys \union {key} = {k \in Key : ptr[k] # NULL}
  BY <1>1, <1>4, NullAssumption DEF Keys
<1>11. heapsize' = m /\ b \in [Places(m) -> Key]
  BY <1>2, <1>5
<1> HIDE DEF b, ptr, n, m
<1>12. HeapInv' /\ Keys' = {k \in Key : ptr[k] # NULL}
  BY <1>3, <1>7, <1>9, <1>11, RepairKeeps
<1> QED  BY <1>2, <1>10, <1>12

LEMMA ChangeKeeps ==
  ASSUME HeapInv, NEW key \in Key, NEW v \in Value, priorityqueue_change(key, v)
  PROVE  /\ HeapInv' /\ Keys' = Keys \union {key}
         /\ value' = [value EXCEPT ![key] = v]
<1> DEFINE n == heapsize
           pos == heapptr[key]
           w == [value EXCEPT ![key] = v]
           repairable == IF decreases(key, v) THEN UpIsEnough(w, base, n, pos)
                                              ELSE DownIsEnough(w, base, n, pos)
<1>1. /\ value \in [Key -> Value] /\ n \in 0 .. max_num_elements
      /\ base \in [Places(n) -> Key]
      /\ Track(base, heapptr, n) /\ IsHeap(value, base, n)
  BY DEF HeapInv, HeapTypeOK
<1>2. /\ heapsize' = n /\ value' = w /\ key \in Keys
      /\ Arrange(w, base, heapptr, n, repairable)
  BY DEF priorityqueue_change, in_heap, Keys
<1>3. w \in [Key -> Value] /\ pos \in Places(n) /\ base[pos] = key
  BY <1>1, <1>2 DEF Track, Keys, Places
<1>4. \A i \in Places(n) \ {pos} : base[i] \in Key /\ w[base[i]] = value[base[i]]
  BY <1>1, <1>3 DEF Track
<1>5. \A i \in Places(n) : value[base[i]] \in Int /\ w[base[i]] \in Int
  BY <1>1, <1>3, ValuesAssumption
<1>6. \A i \in Places(n) \ {0} :
        /\ parent[i] \in Places(n) /\ parent[i] # i
        /\ value[base[parent[i]]] <= value[base[i]]
  <2> TAKE i \in Places(n) \ {0}
  <2>1. parent[i] \in Places(n) /\ parent[i] < i /\ i \in Nat
    BY <1>1, ParentBelow
  <2>2. ~ (value[base[parent[i]]] > value[base[i]])
    BY <1>1 DEF IsHeap, InOrder, less_comparer
  <2>3. value[base[parent[i]]] \in Int /\ value[base[i]] \in Int
    BY <1>5, <2>1
  <2> QED  BY <2>1, <2>2, <2>3
<1>7. GapInOrder(w, base, n, pos)
  <2> SUFFICES ASSUME pos # 0, NEW i \in Places(n) \ {0}, parent[i] = pos
               PROVE  ~ (w[base[parent[pos]]] > w[base[i]])
    BY DEF GapInOrder, less_comparer
  <2>1. /\ value[base[parent[pos]]] <= value[base[pos]]
        /\ value[base[pos]] <= value[base[i]]
        /\ parent[pos] \in Places(n) \ {pos} /\ i # pos
    BY <1>3, <1>6
  <2>2. /\ w[base[parent[pos]]] = value[base[parent[pos]]]
        /\ w[base[i]] = value[base[i]]
    BY <1>4, <2>1
  <2> HIDE DEF w, pos
  <2> QED  BY <1>3, <1>5, <2>1, <2>2
<1>8. repairable
  <2>1. w[key] = v /\ v \in Int /\ value[key] \in Int
    BY <1>1, ValuesAssumption
  <2> HIDE DEF w, pos
  <2>2. CASE decreases(key, v)
    <3>1. v < value[key]
      BY <2>1, <2>2 DEF decreases
    <3>2. \A i \in Places(n) : w[base[i]] <= value[base[i]]
      BY <1>3, <1>4, <1>5, <2>1, <3>1
    <3>3. \A i \in Places(n) \ {0, pos} : InOrder(w, base, i)
      <4> TAKE i \in Places(n) \ {0, pos}
      <4>1. /\ w[base[parent[i]]] <= value[base[parent[i]]]
            /\ value[base[parent[i]]] <= value[base[i]]
            /\ value[base[i]] = w[base[i]]
        BY <1>4, <1>6, <3>2
      <4>2. /\ w[base[parent[i]]] \in Int /\ value[base[parent[i]]] \in Int
            /\ w[base[i]] \in Int
        BY <1>5, <1>6
      <4> QED  BY <4>1, <4>2 DEF InOrder, less_comparer
    <3> QED  BY <1>7, <2>2, <3>3 DEF UpIsEnough
  <2>3. CASE ~ decreases(key, v)
    <3>1. value[key] <= v
      BY <2>1, <2>3 DEF decreases
    <3>2. \A i \in Places(n) : value[base[i]] <= w[base[i]]
      BY <1>3, <1>4, <1>5, <2>1, <3>1
    <3>3. \A i \in Places(n) \ {0} : parent[i] # pos => InOrder(w, base, i)
      <4> SUFFICES ASSUME NEW i \in Places(n) \ {0}, parent[i] # pos
                   PROVE  InOrder(w, base, i)
        OBVIOUS
      <4>1. /\ w[base[parent[i]]] = value[base[parent[i]]]
            /\ value[base[parent[i]]] <= value[base[i]]
            /\ value[base[i]] <= w[base[i]]
        BY <1>4, <1>6, <3>2
      <4>2. /\ value[base[parent[i]]] \in Int /\ value[base[i]] \in Int
            /\ w[base[i]] \in Int
        BY <1>5, <1>6
      <4> QED  BY <4>1, <4>2 DEF InOrder, less_comparer
    <3> QED  BY <1>7, <2>3, <3>3 DEF DownIsEnough
  <2> QED  BY <2>2, <2>3
<1> HIDE DEF w, pos
<1>9. PICK c : /\ Rearranged(base, c, n) /\ IsHeap(w, c, n)
               /\ base' = c /\ heapptr' = moved(heapptr, base, c, n)
  <2> HIDE DEF repairable
  <2> QED  BY <1>2, <1>8 DEF Arrange, Arranged, Rearranged
<1>10. HeapInv' /\ Keys' = {k \in Key : heapptr[k] # NULL}
  BY <1>1, <1>2, <1>3, <1>9, RepairKeeps
<1> QED  BY <1>2, <1>10 DEF Keys, w

(* The key on top leaves.  No other key has its place cleared, and only    *)
(* items that moved are given another.                                     *)
LEMMA PopKeeps ==
  ASSUME HeapInv, priorityqueue_pop
  PROVE  /\ HeapInv' /\ value' = value
         /\ priorityqueue_top \in Keys /\ Keys' = Keys \ {priorityqueue_top}
         /\ \A other \in Keys : value[priorityqueue_top] <= value[other]
<1> DEFINE n == heapsize
           m == heapsize - 1
           top == base[0]
           rest == [i \in Places(m) |-> base[i + 1]]
           ptr == [heapptr EXCEPT ![top] = m]
<1>1. /\ value \in [Key -> Value] /\ n \in 0 .. max_num_elements
      /\ base \in [Places(n) -> Key]
      /\ heapptr \in [Key -> Key \union {NULL}]
      /\ Track(base, heapptr, n) /\ IsHeap(value, base, n)
  BY DEF HeapInv, HeapTypeOK
<1>2. n > 0 /\ heapsize' = m /\ value' = value
  BY DEF priorityqueue_pop
<1>3. PICK c : /\ Rearranged(rest, c, m) /\ IsHeap(value, c, m) /\ base' = c
               /\ heapptr' = cleared(moved(ptr, base, c, m), top)
  BY <1>1, <1>2 DEF priorityqueue_pop, priorityqueue_top, Arranged, Rearranged
<1>4. /\ m \in 0 .. max_num_elements /\ 0 \in Places(n)
      /\ Places(n) = Places(m) \union {m}
      /\ \A i \in Places(n) \ {0} : i - 1 \in Places(m) /\ (i - 1) + 1 = i
      /\ \A i \in Places(m) : i + 1 \in Places(n) \ {0}
      /\ \A i, j \in Places(m) : i + 1 = j + 1 => i = j
  BY <1>1, <1>2, KeysAssumption DEF Places
<1>5. OneToOne(base, n) /\ Content(base, n) = Keys
  BY <1>1, TrackFacts DEF Keys
<1>6. /\ rest \in [Places(m) -> Key] /\ OneToOne(rest, m)
      /\ top \in Key /\ top \notin Content(rest, m)
      /\ Content(base, n) = Content(rest, m) \union {top}
  <2>1. rest \in [Places(m) -> Key] /\ top \in Key
    BY <1>1, <1>4
  <2>2. \A i \in Places(m) : rest[i] = base[i + 1]
    OBVIOUS
  <2>3. \A i \in Places(n) \ {0} : rest[i - 1] = base[i]
    BY <1>4
  <2> HIDE DEF rest
  <2>4. OneToOne(rest, m) /\ top \notin Content(rest, m)
    BY <1>4, <1>5, <2>2 DEF OneToOne, Content
  <2>5. \A k \in Content(rest, m) : k \in Content(base, n)
    BY <1>4, <2>2 DEF Content
  <2>6. \A k \in Content(base, n) : k = top \/ k \in Content(rest, m)
    BY <1>4, <2>3 DEF Content
  <2>7. top \in Content(base, n)
    BY <1>4 DEF Content
  <2> QED  BY <2>1, <2>4, <2>5, <2>6, <2>7
<1>7. /\ c \in [Places(m) -> Key] /\ OneToOne(c, m)
      /\ Content(c, m) = Content(rest, m)
  <2> HIDE DEF rest, m
  <2> QED  BY <1>3, <1>4, <1>6, RearrangedSame
<1>8. \A i \in Places(m) : c[i] \in Key \ {top}
  BY <1>6, <1>7 DEF Content
<1>9. \A i \in Places(m) : c[i] = base[i] => ptr[c[i]] = i
  BY <1>1, <1>4, <1>8 DEF Track
<1> DEFINE q == moved(ptr, base, c, m)
<1>10. /\ \A i \in Places(m) : q[c[i]] = i
       /\ \A k \in Key \ Content(c, m) : q[k] = ptr[k]
  <2> HIDE DEF ptr, m
  <2> QED  BY <1>4, <1>7, <1>9, MovedTracks
<1>11. \A k \in Key \ (Content(c, m) \union {top}) : q[k] = NULL
  <2> SUFFICES ASSUME NEW k \in Key, k \notin Content(c, m), k # top
               PROVE  q[k] = NULL
    OBVIOUS
  <2>1. q[k] = heapptr[k]
    <3>1. ptr[k] = heapptr[k]
      BY <1>1
    <3> HIDE DEF q, ptr
    <3> QED  BY <1>10, <3>1
  <2>2. k \notin Keys
    <3> HIDE DEF rest, top
    <3> QED  BY <1>5, <1>6, <1>7
  <2> HIDE DEF q
  <2> QED  BY <2>1, <2>2 DEF Keys
<1>12. heapptr' = [k \in Key |-> IF k = top THEN NULL ELSE q[k]]
  <2>1. q = [k \in Key |-> q[k]]
    BY DEF moved
  <2>2. heapptr' = [q EXCEPT ![top] = NULL]
    BY <1>3 DEF cleared
  <2> HIDE DEF q, top
  <2> QED  BY <2>1, <2>2
<1> HIDE DEF q, ptr, rest
<1> DEFINE r == [k \in Key |-> IF k = top THEN NULL ELSE q[k]]
<1>13. /\ \A i \in Places(m) : r[c[i]] = i
       /\ \A k \in Key \ Content(c, m) : r[k] = NULL
  BY <1>8, <1>10, <1>11
<1>14. Track(c, r, m) /\ \A k \in Key : r[k] \in Key \union {NULL}
  <2> HIDE DEF r, m
  <2> QED  BY <1>4, <1>7, <1>13, TrackBuilt
<1>15. r \in [Key -> Key \union {NULL}]
  BY <1>14
<1>16. HeapInv'
  <2> HIDE DEF r, m
  <2>1. HeapTypeOK'
    BY <1>1, <1>2, <1>3, <1>4, <1>7, <1>12, <1>15 DEF HeapTypeOK, r
  <2>2. Track(base', heapptr', heapsize') /\ IsHeap(value', base', heapsize')
    BY <1>2, <1>3, <1>12, <1>14 DEF r
  <2> QED  BY <2>1, <2>2 DEF HeapInv
<1>17. Keys' = Keys \ {top}
  <2> HIDE DEF r, m
  <2>1. Content(c, m) = {k \in Key : r[k] # NULL}
    BY <1>4, <1>7, <1>14, TrackFacts
  <2>2. Keys' = Content(c, m)
    BY <1>12, <2>1 DEF Keys, r
  <2> QED  BY <1>5, <1>6, <1>7, <2>2
<1>18. \A other \in Keys : value[top] <= value[other]
  <2> TAKE other \in Keys
  <2>1. PICK j \in Places(n) : base[j] = other
    BY <1>5 DEF Content
  <2> QED  BY <1>1, <2>1, TopIsLeast
<1> QED  BY <1>2, <1>5, <1>6, <1>16, <1>17, <1>18 DEF priorityqueue_top
-----------------------------------------------------------------------------
LEMMA NewHeap == priorityqueue_new => HeapInv
<1> SUFFICES ASSUME priorityqueue_new PROVE HeapInv
  OBVIOUS
<1>1. /\ base \in [Places(0) -> Key] /\ heapptr \in [Key -> Key \union {NULL}]
      /\ Track(base, heapptr, 0) /\ IsHeap(value, base, 0)
  BY EmptyQueue DEF priorityqueue_new
<1> QED  BY <1>1, KeysAssumption DEF priorityqueue_new, HeapInv, HeapTypeOK

LEMMA ResetKeeps ==
  ASSUME priorityqueue_init
  PROVE  HeapInv' /\ Keys' = {} /\ value' = [k \in Key |-> INFINITE]
<1>1. /\ value' = [k \in Key |-> INFINITE] /\ heapsize' = 0
      /\ heapptr' = [k \in Key |-> NULL] /\ base' = [i \in Places(0) |-> 0]
  BY DEF priorityqueue_init
<1>2. /\ base' \in [Places(0) -> Key]
      /\ heapptr' \in [Key -> Key \union {NULL}]
      /\ Track(base', heapptr', 0) /\ IsHeap(value', base', 0)
  BY <1>1, EmptyQueue
<1>3. value' \in [Key -> Value]
  BY <1>1, ValuesAssumption
<1>4. HeapTypeOK'
  BY <1>1, <1>2, <1>3, KeysAssumption DEF HeapTypeOK
<1>5. Track(base', heapptr', heapsize') /\ IsHeap(value', base', heapsize')
  BY <1>1, <1>2
<1>6. Keys' = {}
  BY <1>1 DEF Keys
<1> QED  BY <1>1, <1>4, <1>5, <1>6 DEF HeapInv

(* The operations keep the invariant and do what MinQueue does.            *)
LEMMA NextKeeps ==
  ASSUME HeapInv, HeapNext
  PROVE  HeapInv' /\ Abstract!Next
<1>1. CASE priorityqueue_init
  BY <1>1, ResetKeeps DEF Abstract!Next, Abstract!Reset, Keys
<1>2. ASSUME NEW key \in Key, NEW v \in Value, priorityqueue_update(key, v)
      PROVE  HeapInv' /\ Abstract!Next
  <2>1. /\ HeapInv' /\ Keys' = Keys \union {key}
        /\ value' = [value EXCEPT ![key] = v]
    BY <1>2, AppendKeeps, ChangeKeeps DEF priorityqueue_update
  <2> QED  BY <2>1 DEF Abstract!Next, Abstract!Update, Keys
<1>3. CASE priorityqueue_pop
  BY <1>3, PopKeeps DEF Abstract!Next, Abstract!Pop, Keys
<1> QED  BY <1>1, <1>2, <1>3 DEF HeapNext

LEMMA StutterKeeps ==
  ASSUME HeapInv, UNCHANGED heapVars
  PROVE  HeapInv' /\ UNCHANGED <<Keys, value>>
BY DEF heapVars, HeapInv, HeapTypeOK, Track, IsHeap, InOrder, less_comparer,
       Keys

LEMMA InductiveInvariant == HeapSpec => []HeapInv
<1>1. HeapInv /\ [HeapNext]_heapVars => HeapInv'
  BY NextKeeps, StutterKeeps
<1> QED  BY NewHeap, <1>1, PTL DEF HeapSpec

(* The arrays of a priority queue keep their types, and the heap never     *)
(* outgrows the array that was allocated for it: priorityqueue_new.        *)
THEOREM HeapTypesCorrect == HeapSpec => []HeapTypeOK
<1>1. HeapInv => HeapTypeOK
  BY DEF HeapInv
<1> QED  BY InductiveInvariant, <1>1, PTL

LEMMA TracksAndOrders == HeapInv => PointersTrack /\ HeapOrdered
<1> SUFFICES ASSUME HeapInv PROVE PointersTrack /\ HeapOrdered
  OBVIOUS
<1>1. PointersTrack
  <2>1. Track(base, heapptr, heapsize) /\ heapsize \in Int
    BY KeysAssumption DEF HeapInv, HeapTypeOK
  <2> QED  BY <2>1 DEF PointersTrack, Track, Places
<1>2. HeapOrdered
  <2> SUFFICES ASSUME NEW i \in Places(heapsize) \ {0}
               PROVE  value[base[parent[i]]] <= value[base[i]]
    BY DEF HeapOrdered
  <2>1. ~ (value[base[parent[i]]] > value[base[i]])
    BY DEF HeapInv, IsHeap, InOrder, less_comparer
  <2>2. parent[i] \in Places(heapsize)
    BY ParentBelow DEF HeapInv, HeapTypeOK
  <2>3. value[base[parent[i]]] \in Int /\ value[base[i]] \in Int
    BY <2>2, ValuesAssumption DEF HeapInv, HeapTypeOK
  <2> QED  BY <2>1, <2>2, <2>3
<1> QED  BY <1>1, <1>2

(* The places of the keys are right after every operation, whatever gheap  *)
(* moved: priorityqueue_item_mover and the end of priorityqueue_pop.       *)
THEOREM PlacesRight == HeapSpec => []PointersTrack
BY InductiveInvariant, TracksAndOrders, PTL

(* The heap is ordered after any values were raised and lowered:           *)
(* priorityqueue_update asks gheap for the repair that is enough.          *)
THEOREM HeapStaysOrdered == HeapSpec => []HeapOrdered
BY InductiveInvariant, TracksAndOrders, PTL

(* A priority queue is a set of keys from which a key of the least value   *)
(* leaves: priorityqueue_update, priorityqueue_pop, priorityqueue_init.    *)
THEOREM ImplementsMinQueue == HeapSpec => Implements
<1>1. priorityqueue_new => Abstract!Init
  BY NullAssumption DEF priorityqueue_new, Abstract!Init
<1>2. HeapInv /\ [HeapNext]_heapVars
      => [Abstract!Next]_<<{k \in Key : heapptr[k] # NULL}, value>>
  BY NextKeeps, StutterKeeps DEF Keys
<1> QED  BY <1>1, <1>2, InductiveInvariant, PTL
         DEF HeapSpec, Implements, Abstract!Spec
-----------------------------------------------------------------------------
(* What the places of a queue or a stack may hold, and sequences of it.    *)
Stored == Element \union {Fresh}
Words == Seq(Stored)

Joined(x, y) == x \o y

LEMMA JoinedWord ==
  ASSUME NEW x \in Words, NEW y \in Words
  PROVE  Joined(x, y) \in Words
BY ConcatProperties DEF Words, Joined

LEMMA JoinedAssociative ==
  ASSUME NEW x \in Words, NEW y \in Words, NEW z \in Words
  PROVE  Joined(Joined(x, y), z) = Joined(x, Joined(y, z))
BY ConcatAssociative DEF Words, Joined

LEMMA JoinedEmpty ==
  /\ << >> \in Words
  /\ \A x \in Words : Joined(x, << >>) = x /\ Joined(<< >>, x) = x
BY ConcatEmptySeq DEF Words, Joined

(* w joins the words of ss, one more in every place.                       *)
Joins(w, ss) ==
  /\ w \in [0 .. Len(ss) -> Words] /\ w[0] = << >>
  /\ \A i \in 1 .. Len(ss) : w[i] = Joined(w[i - 1], ss[i])

LEMMA JoinExists ==
  ASSUME NEW ss \in Seq(Words)
  PROVE  \E w : Joins(w, ss)
<1> DEFINE Good(n, w) == /\ w \in [0 .. n -> Words] /\ w[0] = << >>
                         /\ \A i \in 1 .. n : w[i] = Joined(w[i - 1], ss[i])
           P == {n \in Nat : n <= Len(ss) => \E w : Good(n, w)}
<1>1. 0 \in P
  <2>1. [i \in 0 .. 0 |-> << >>] \in [0 .. 0 -> Words]
    BY DEF Words
  <2>2. Good(0, [i \in 0 .. 0 |-> << >>])
    BY <2>1
  <2> QED  BY <2>2
<1>2. ASSUME NEW n \in P \intersect Nat PROVE n + 1 \in P
  <2>1. ASSUME n + 1 <= Len(ss) PROVE \E w : Good(n + 1, w)
    <3>1. /\ n \in Nat /\ n + 1 \in 1 .. Len(ss)
          /\ n <= Len(ss) /\ Len(ss) \in Nat
      BY <2>1
    <3>2. PICK w : Good(n, w)
      BY <3>1
    <3> DEFINE y == Joined(w[n], ss[n + 1])
               v == [i \in 0 .. n + 1 |-> IF i = n + 1 THEN y ELSE w[i]]
    <3>3. w[n] \in Words /\ ss[n + 1] \in Words
      BY <3>1, <3>2
    <3>4. y \in Words
      BY <3>3, JoinedWord
    <3>5. \A i \in 1 .. n : w[i] = Joined(w[i - 1], ss[i])
      BY <3>2
    <3> HIDE DEF y
    <3>6. v \in [0 .. n + 1 -> Words] /\ v[0] = << >>
      BY <3>1, <3>2, <3>4
    <3>7. ASSUME NEW i \in 1 .. n + 1 PROVE v[i] = Joined(v[i - 1], ss[i])
      <4>1. CASE i = n + 1
        BY <3>1, <4>1 DEF y
      <4>2. CASE i # n + 1
        <5>1. i \in 1 .. n /\ i - 1 # n + 1 /\ i - 1 \in 0 .. n + 1
          BY <3>1, <4>2
        <5>2. v[i] = w[i] /\ v[i - 1] = w[i - 1]
          BY <4>2, <5>1
        <5> QED  BY <3>5, <5>1, <5>2
      <4> QED  BY <4>1, <4>2
    <3> QED  BY <3>6, <3>7
  <2>2. n + 1 \in Nat
    OBVIOUS
  <2> HIDE DEF Good
  <2> QED  BY <2>1, <2>2
<1>3. Nat \subseteq P
  <2> HIDE DEF P
  <2> QED  BY <1>1, <1>2, LibAssumption, Lib!SetInduction
<1>4. Len(ss) \in Nat /\ Len(ss) <= Len(ss)
  OBVIOUS
<1> QED  BY <1>3, <1>4 DEF Joins

(* FlattenSeq is what is joined in the end.                                *)
LEMMA Flattened ==
  ASSUME NEW ss \in Seq(Words), NEW w, Joins(w, ss)
  PROVE  Fifo!FlattenSeq(ss) = w[Len(ss)] /\ Fifo!FlattenSeq(ss) \in Words
<1> DEFINE n == Len(ss)
           Solves(f) == f = [i \in 1 .. n |-> IF i = 1 THEN ss[i]
                                              ELSE Joined(f[i - 1], ss[i])]
<1>1. n \in Nat /\ w[n] \in Words
  BY DEF Joins
<1>2. CASE n = 0
  BY <1>1, <1>2 DEF Joins, Fifo!FlattenSeq
<1>3. CASE n # 0
  <2>1. \A i \in 1 .. n : w[i] = IF i = 1 THEN ss[i] ELSE Joined(w[i - 1], ss[i])
    <3>1. Joined(<< >>, ss[1]) = ss[1]
      <4>1. ss[1] \in Words
        BY <1>1, <1>3
      <4> QED  BY <4>1, JoinedEmpty
    <3> QED  BY <3>1 DEF Joins
  <2>2. Solves([i \in 1 .. n |-> w[i]])
    BY <1>1, <2>1
  <2> DEFINE g == CHOOSE f : Solves(f)
  <2>3. Solves(g)
    <3> HIDE DEF Solves
    <3> QED  BY <2>2
  <2>4. Fifo!FlattenSeq(ss) = g[n]
    BY <1>3 DEF Fifo!FlattenSeq, Joined
  <2> HIDE DEF g
  <2> DEFINE P == {i \in Nat : i \in 1 .. n => g[i] = w[i]}
  <2>5. 0 \in P
    BY <1>1
  <2>6. ASSUME NEW i \in P \intersect Nat PROVE i + 1 \in P
    <3> SUFFICES ASSUME i + 1 \in 1 .. n PROVE g[i + 1] = w[i + 1]
      OBVIOUS
    <3>0. (i + 1) - 1 = i /\ i \in Nat
      OBVIOUS
    <3>1. g[i + 1] = IF i + 1 = 1 THEN ss[i + 1] ELSE Joined(g[i], ss[i + 1])
      BY <2>3, <3>0
    <3>2. i + 1 # 1 => i \in 1 .. n
      BY <1>1
    <3>3. w[i + 1] = IF i + 1 = 1 THEN ss[i + 1] ELSE Joined(w[i], ss[i + 1])
      BY <2>1, <3>0
    <3>4. i + 1 # 1 => g[i] = w[i]
      BY <3>2
    <3> QED  BY <3>1, <3>3, <3>4
  <2>7. Nat \subseteq P
    <3> HIDE DEF P
    <3> QED  BY <2>5, <2>6, LibAssumption, Lib!SetInduction
  <2>8. n \in 1 .. n
    BY <1>1, <1>3
  <2> QED  BY <1>1, <2>4, <2>7, <2>8
<1> QED  BY <1>2, <1>3

(* What w joins of n words.                                                *)
LEMMA JoinFacts ==
  ASSUME NEW ss \in Seq(Words), NEW n, n = Len(ss)
  PROVE  /\ n \in Nat /\ \A i \in 1 .. n : ss[i] \in Words
         /\ \A w : Joins(w, ss) <=>
              /\ w \in [0 .. n -> Words] /\ w[0] = << >>
              /\ \A i \in 1 .. n : w[i] = Joined(w[i - 1], ss[i])
BY DEF Joins

(* A word more at the end,                                                 *)
LEMMA FlattenAppend ==
  ASSUME NEW ss \in Seq(Words), NEW x \in Words
  PROVE  Fifo!FlattenSeq(Append(ss, x)) = Joined(Fifo!FlattenSeq(ss), x)
<1> DEFINE n == Len(ss)  m == n + 1  tt == Append(ss, x)
<1>1. /\ n \in Nat /\ tt \in Seq(Words) /\ Len(tt) = m /\ tt[m] = x
      /\ \A i \in 1 .. n : tt[i] = ss[i]
  OBVIOUS
<1>2. PICK w : Joins(w, ss)
  BY JoinExists
<1>3. /\ w \in [0 .. n -> Words] /\ w[0] = << >>
      /\ \A i \in 1 .. n : w[i] = Joined(w[i - 1], ss[i])
  BY <1>2, JoinFacts
<1> DEFINE y == Joined(w[n], x)
           v == [i \in 0 .. m |-> IF i = m THEN y ELSE w[i]]
<1>4. y \in Words
  BY <1>1, <1>3, JoinedWord
<1> HIDE DEF tt, y
<1>5. Joins(v, tt)
  <2>1. v \in [0 .. m -> Words] /\ v[0] = << >>
    BY <1>1, <1>3, <1>4
  <2>2. ASSUME NEW i \in 1 .. m PROVE v[i] = Joined(v[i - 1], tt[i])
    <3>1. CASE i = m
      BY <1>1, <3>1 DEF y
    <3>2. CASE i # m
      <4>1. i \in 1 .. n /\ i \in 0 .. m /\ i - 1 \in 0 .. m /\ i - 1 # m
        BY <1>1, <3>2
      <4>2. v[i] = w[i] /\ v[i - 1] = w[i - 1] /\ tt[i] = ss[i]
        BY <1>1, <3>2, <4>1
      <4>3. w[i] = Joined(w[i - 1], ss[i])
        BY <1>3, <4>1
      <4> HIDE DEF v
      <4> QED  BY <4>2, <4>3
    <3> QED  BY <3>1, <3>2
  <2> HIDE DEF v, m
  <2> QED  BY <1>1, <2>1, <2>2, JoinFacts
<1>6. Fifo!FlattenSeq(ss) = w[n] /\ Fifo!FlattenSeq(tt) = v[m]
  <2> HIDE DEF v, m
  <2> QED  BY <1>1, <1>2, <1>5, Flattened
<1> QED  BY <1>1, <1>6 DEF tt, y

(* a longer last word,                                                     *)
LEMMA FlattenExtend ==
  ASSUME NEW ss \in Seq(Words), ss # << >>, NEW tt \in Seq(Words), NEW x \in Words,
         Len(tt) = Len(ss), tt[Len(ss)] = Joined(ss[Len(ss)], x),
         \A i \in 1 .. Len(ss) - 1 : tt[i] = ss[i]
  PROVE  Fifo!FlattenSeq(tt) = Joined(Fifo!FlattenSeq(ss), x)
<1> DEFINE n == Len(ss)
<1>1. /\ n \in Nat \ {0} /\ n \in 1 .. n /\ n - 1 \in 0 .. n /\ n \in 0 .. n
      /\ n = Len(ss) /\ n = Len(tt)
      /\ ss[n] \in Words /\ tt[n] = Joined(ss[n], x)
      /\ \A i \in 1 .. n - 1 : tt[i] = ss[i]
  OBVIOUS
<1>2. PICK w : Joins(w, ss)
  BY JoinExists
<1>3. /\ w \in [0 .. n -> Words] /\ w[0] = << >>
      /\ \A i \in 1 .. n : w[i] = Joined(w[i - 1], ss[i])
  BY <1>2 DEF Joins
<1> HIDE DEF n
<1> DEFINE y == Joined(w[n], x)
           v == [i \in 0 .. n |-> IF i = n THEN y ELSE w[i]]
<1>4. w[n - 1] \in Words /\ w[n] \in Words
  BY <1>1, <1>3
<1>5. y \in Words /\ y = Joined(w[n - 1], tt[n])
  <2>1. w[n] = Joined(w[n - 1], ss[n])
    BY <1>1, <1>3
  <2> DEFINE p == w[n - 1]  q == ss[n]
  <2>2. p \in Words /\ q \in Words
    BY <1>1, <1>4
  <2> HIDE DEF p, q
  <2>3. Joined(Joined(p, q), x) = Joined(p, Joined(q, x))
    BY <2>2, JoinedAssociative
  <2>4. y \in Words
    BY <1>4, JoinedWord
  <2> QED  BY <1>1, <2>1, <2>3, <2>4 DEF p, q
<1> HIDE DEF y
<1>6. Joins(v, tt)
  <2>1. v \in [0 .. n -> Words] /\ v[0] = << >>
    BY <1>1, <1>3, <1>5
  <2>2. ASSUME NEW i \in 1 .. n PROVE v[i] = Joined(v[i - 1], tt[i])
    <3>1. i - 1 \in 0 .. n /\ i - 1 # n /\ i \in 0 .. n
      BY <1>1
    <3>2. v[i - 1] = w[i - 1]
      BY <3>1
    <3>3. CASE i = n
      BY <1>5, <3>1, <3>2, <3>3
    <3>4. CASE i # n
      <4>1. i \in 1 .. n - 1
        BY <1>1, <3>4
      <4> QED  BY <1>1, <1>3, <3>1, <3>2, <3>4, <4>1
    <3> QED  BY <3>3, <3>4
  <2> HIDE DEF v
  <2> QED  BY <1>1, <2>1, <2>2, JoinFacts
<1>7. Fifo!FlattenSeq(ss) = w[n] /\ Fifo!FlattenSeq(tt) = v[n]
  <2> HIDE DEF v
  <2> QED  BY <1>1, <1>2, <1>6, Flattened
<1> QED  BY <1>1, <1>7 DEF y

(* and the first word.                                                     *)
LEMMA FlattenHead ==
  ASSUME NEW ss \in Seq(Words), ss # << >>
  PROVE  /\ Fifo!FlattenSeq(ss) = Joined(ss[1], Fifo!FlattenSeq(Tail(ss)))
         /\ Fifo!FlattenSeq(Tail(ss)) \in Words
<1> DEFINE n == Len(ss)  m == n - 1  tt == Tail(ss)  x == ss[1]
<1>1. /\ n = Len(ss) /\ n \in Nat \ {0} /\ m \in Nat /\ x \in Words
      /\ tt \in Seq(Words) /\ m = Len(tt)
      /\ \A i \in 1 .. m : tt[i] = ss[i + 1]
  OBVIOUS
<1>2. PICK v : Joins(v, tt)
  BY <1>1, JoinExists
<1>3. /\ v \in [0 .. m -> Words] /\ v[0] = << >>
      /\ \A i \in 1 .. m : v[i] = Joined(v[i - 1], tt[i])
  <2> HIDE DEF tt
  <2>1. /\ v \in [0 .. Len(tt) -> Words] /\ v[0] = << >>
        /\ \A i \in 1 .. Len(tt) : v[i] = Joined(v[i - 1], tt[i])
    BY <1>1, <1>2, JoinFacts
  <2> QED  BY <1>1, <2>1
<1> HIDE DEF tt, n, x
<1> DEFINE u == [i \in 0 .. m |-> Joined(x, v[i])]
           w == [i \in 0 .. n |-> IF i = 0 THEN << >> ELSE u[i - 1]]
<1>4. /\ u \in [0 .. m -> Words] /\ u[0] = x /\ u[m] = Joined(x, v[m])
      /\ \A i \in 1 .. m : u[i] = Joined(u[i - 1], ss[i + 1])
  <2>1. \A i \in 0 .. m : v[i] \in Words /\ Joined(x, v[i]) \in Words
    BY <1>1, <1>3, JoinedWord
  <2>2. u[0] = x
    <3>1. 0 \in 0 .. m
      BY <1>1
    <3>2. u[0] = Joined(x, << >>)
      BY <1>3, <3>1
    <3>3. Joined(x, << >>) = x
      BY <1>1, JoinedEmpty
    <3> QED  BY <3>2, <3>3
  <2>3. ASSUME NEW i \in 1 .. m PROVE u[i] = Joined(u[i - 1], ss[i + 1])
    <3>1. i \in 0 .. m /\ i - 1 \in 0 .. m /\ i + 1 \in 1 .. n
      BY <1>1 DEF m
    <3>2. u[i] = Joined(x, v[i]) /\ u[i - 1] = Joined(x, v[i - 1])
      BY <3>1
    <3>3. /\ v[i] = Joined(v[i - 1], ss[i + 1]) /\ v[i - 1] \in Words
          /\ ss[i + 1] \in Words
      BY <1>1, <1>3, <2>1, <3>1, JoinFacts
    <3> DEFINE p == v[i - 1]  q == ss[i + 1]
    <3>4. Joined(Joined(x, p), q) = Joined(x, Joined(p, q))
      <4>1. p \in Words /\ q \in Words
        BY <3>3
      <4> HIDE DEF p, q
      <4> QED  BY <1>1, <4>1, JoinedAssociative, JoinedWord
    <3> QED  BY <3>2, <3>3, <3>4
  <2>4. u \in [0 .. m -> Words] /\ u[m] = Joined(x, v[m])
    BY <1>1, <2>1
  <2> QED  BY <2>2, <2>3, <2>4
<1> HIDE DEF u
<1>5. Joins(w, ss)
  <2>1. << >> \in Words /\ Joined(<< >>, x) = x /\ n = m + 1
    BY <1>1, JoinedEmpty
  <2>2. w \in [0 .. n -> Words] /\ w[0] = << >>
    BY <1>1, <1>4, <2>1
  <2>3. ASSUME NEW i \in 1 .. n PROVE w[i] = Joined(w[i - 1], ss[i])
    <3>1. i \in 0 .. n /\ i - 1 \in 0 .. n /\ i - 1 \in 0 .. m
      BY <1>1, <2>1
    <3>2. CASE i = 1
      BY <1>4, <2>1, <3>1, <3>2 DEF x
    <3>3. CASE i # 1
      <4>1. i - 1 \in 1 .. m /\ (i - 1) + 1 = i /\ i - 1 # 0
        BY <1>1, <2>1, <3>3
      <4>2. u[i - 1] = Joined(u[(i - 1) - 1], ss[i])
        BY <1>4, <4>1
      <4>3. w[i] = u[i - 1] /\ w[i - 1] = u[(i - 1) - 1]
        BY <3>1, <4>1
      <4> HIDE DEF w
      <4> QED  BY <4>2, <4>3
    <3> QED  BY <3>2, <3>3
  <2> HIDE DEF w
  <2> QED  BY <1>1, <2>2, <2>3, JoinFacts
<1>6. Fifo!FlattenSeq(ss) = w[n]
  <2> HIDE DEF w
  <2> QED  BY <1>1, <1>5, Flattened
<1>7. Fifo!FlattenSeq(tt) = v[m] /\ Fifo!FlattenSeq(tt) \in Words
  <2> HIDE DEF m
  <2> QED  BY <1>1, <1>2, Flattened
<1>8. w[n] = Joined(x, v[m])
  BY <1>1, <1>4
<1> HIDE DEF w
<1> QED  BY <1>6, <1>7, <1>8 DEF tt, x
-----------------------------------------------------------------------------
(* What is in a chunk,                                                     *)
LEMMA ElementsWord ==
  ASSUME NEW qc \in Fifo!Chunk, qc.begin <= qc.end
  PROVE  /\ Fifo!elements(qc) \in Words
         /\ Len(Fifo!elements(qc)) = qc.end - qc.begin
<1>1. /\ qc.begin \in 0 .. QUEUE_CACHE_SIZE /\ qc.end \in 0 .. QUEUE_CACHE_SIZE
      /\ qc.data \in [0 .. QUEUE_CACHE_SIZE - 1 -> Stored]
  BY DEF Fifo!Chunk, Stored
<1> DEFINE n == qc.end - qc.begin
<1>2. n \in Nat /\ \A i \in 1 .. n : qc.data[qc.begin + i - 1] \in Stored
  BY <1>1, CachesAssumption
<1>3. Fifo!elements(qc) \in [1 .. n -> Stored]
  BY <1>2 DEF Fifo!elements
<1> QED  BY <1>2, <1>3 DEF Words

(* after qcache_insert_,                                                   *)
LEMMA InsertedChunk ==
  ASSUME NEW qc \in Fifo!Chunk, qc.begin <= qc.end, ~ Fifo!qcache_full(qc),
         NEW e \in Element
  PROVE  LET r == Fifo!qcache_insert(qc, e)
         IN  /\ r \in Fifo!Chunk /\ r.begin = qc.begin /\ r.end = qc.end + 1
             /\ Fifo!elements(r) = Joined(Fifo!elements(qc), << e >>)
<1> DEFINE C == QUEUE_CACHE_SIZE
           r == Fifo!qcache_insert(qc, e)
           n == qc.end - qc.begin
<1>1. /\ qc \in [begin : 0 .. C, end : 0 .. C, data : [0 .. C - 1 -> Stored]]
      /\ qc.begin \in 0 .. C /\ qc.end \in 0 .. C - 1
      /\ qc.data \in [0 .. C - 1 -> Stored]
  BY CachesAssumption DEF Fifo!Chunk, Stored, Fifo!qcache_full
<1>2. /\ r.begin = qc.begin /\ r.end = qc.end + 1
      /\ r.data = [qc.data EXCEPT ![qc.end] = e]
      /\ r = [begin |-> r.begin, end |-> r.end, data |-> r.data]
  <2> DEFINE m == qc.end + 1  x == [qc.data EXCEPT ![qc.end] = e]
  <2>1. m \in 0 .. C /\ x \in [0 .. C - 1 -> Stored]
    BY <1>1, CachesAssumption DEF Stored
  <2>2. r = [qc EXCEPT !.data = x, !.end = m]
    BY <1>1 DEF Fifo!qcache_insert
  <2> HIDE DEF m, x, r
  <2>3. /\ r.begin = qc.begin /\ r.data = x /\ r.end = m
        /\ r \in [begin : 0 .. C, end : 0 .. C, data : [0 .. C - 1 -> Stored]]
    BY <1>1, <2>1, <2>2
  <2> QED  BY <2>3 DEF m, x
<1>3. r.data \in [0 .. C - 1 -> Stored] /\ r.end \in 0 .. C
  BY <1>1, <1>2, CachesAssumption DEF Stored
<1> HIDE DEF r
<1>4. r \in Fifo!Chunk
  BY <1>1, <1>2, <1>3 DEF Fifo!Chunk, Stored
<1>5. Fifo!elements(r) = Joined(Fifo!elements(qc), << e >>)
  <2> DEFINE x == Fifo!elements(qc)  y == Fifo!elements(r)
  <2>1. n \in Nat /\ r.end - r.begin = n + 1
    BY <1>1, <1>2, CachesAssumption
  <2>2. x \in Words /\ Len(x) = n /\ y \in Words /\ Len(y) = n + 1
    BY <1>1, <1>2, <1>4, <2>1, ElementsWord
  <2>3. \A i \in 1 .. n : y[i] = x[i]
    <3> TAKE i \in 1 .. n
    <3>1. i \in 1 .. n + 1 /\ qc.begin + i - 1 \in 0 .. C - 1
          /\ qc.begin + i - 1 # qc.end
      BY <1>1, <2>1, CachesAssumption
    <3>2. r.data[qc.begin + i - 1] = qc.data[qc.begin + i - 1]
      BY <1>1, <1>2, <3>1
    <3>3. x[i] = qc.data[qc.begin + i - 1] /\ y[i] = r.data[qc.begin + i - 1]
      BY <1>2, <2>1, <3>1 DEF Fifo!elements
    <3> QED  BY <3>2, <3>3
  <2>4. y[n + 1] = e
    <3>1. n + 1 \in 1 .. n + 1 /\ r.begin + (n + 1) - 1 = qc.end
      BY <1>1, <1>2, <2>1
    <3>2. y[n + 1] = r.data[qc.end]
      BY <2>1, <3>1 DEF Fifo!elements
    <3> QED  BY <1>1, <1>2, <3>2
  <2> HIDE DEF x, y, n
  <2>5. y = x \o << e >>
    <3>1. << e >> \in Words /\ Len(<< e >>) = 1
      BY DEF Words, Stored
    <3> DEFINE z == x \o << e >>
    <3>2. z \in Words /\ Len(z) = n + 1 /\ \A i \in 1 .. n + 1 : z[i] = y[i]
      BY <2>1, <2>2, <2>3, <2>4, <3>1 DEF Words
    <3> HIDE DEF z
    <3>3. y = z
      BY <2>1, <2>2, <3>2, SeqEqual DEF Words
    <3> QED  BY <3>3 DEF z
  <2> QED  BY <2>5 DEF Joined, x, y
<1> QED  BY <1>2, <1>4, <1>5 DEF r

(* and after qcache_pop_.                                                  *)
LEMMA PoppedChunk ==
  ASSUME NEW qc \in Fifo!Chunk, qc.begin < qc.end
  PROVE  LET r == Fifo!qcache_pop(qc)
         IN  /\ r \in Fifo!Chunk /\ r.begin <= r.end
             /\ Fifo!qcache_empty(r) <=> Fifo!elements(r) = << >>
             /\ ~ Fifo!qcache_empty(r) => r.end = qc.end
             /\ Fifo!elements(r) \in Words /\ qc.data[qc.begin] \in Stored
            /\ 
            /\ Fifo!elements(qc) = Joined(<< qc.data[qc.begin] >>, Fifo!elements(r))
<1> DEFINE C == QUEUE_CACHE_SIZE
           r == Fifo!qcache_pop(qc)
           n == qc.end - qc.begin
           e == qc.data[qc.begin]
           x == Fifo!elements(qc)
           y == Fifo!elements(r)
<1>1. /\ qc \in [begin : 0 .. C, end : 0 .. C, data : [0 .. C - 1 -> Stored]]
      /\ qc.begin \in 0 .. C - 1 /\ qc.end \in 0 .. C /\ C \in Nat
      /\ qc.data \in [0 .. C - 1 -> Stored]
  BY CachesAssumption DEF Fifo!Chunk, Stored
<1>2. /\ r.begin = IF n = 1 THEN 0 ELSE qc.begin + 1
      /\ r.end = IF n = 1 THEN 0 ELSE qc.end
      /\ r.data = qc.data
      /\ r = [begin |-> r.begin, end |-> r.end, data |-> r.data]
  <2>1. qc = [begin |-> qc.begin, end |-> qc.end, data |-> qc.data]
    BY <1>1
  <2>2. qc.begin + 1 >= qc.end <=> n = 1
    BY <1>1
  <2>3. r = [begin |-> IF n = 1 THEN 0 ELSE qc.begin + 1,
             end |-> IF n = 1 THEN 0 ELSE qc.end, data |-> qc.data]
    BY <2>1, <2>2 DEF Fifo!qcache_pop
  <2> HIDE DEF r
  <2> QED  BY <2>3
<1> HIDE DEF r
<1>3. /\ r \in Fifo!Chunk /\ r.begin <= r.end /\ r.end - r.begin = n - 1
      /\ n \in Nat \ {0} /\ (r.begin # r.end => r.end = qc.end)
  <2>1. /\ n \in Nat \ {0} /\ r.begin \in 0 .. C /\ r.end \in 0 .. C
        /\ r.begin <= r.end /\ r.end - r.begin = n - 1
        /\ r.begin # r.end => r.end = qc.end
    BY <1>1, <1>2
  <2> QED  BY <1>1, <1>2, <2>1 DEF Fifo!Chunk, Stored
<1>4. x \in Words /\ Len(x) = n /\ y \in Words /\ Len(y) = n - 1
  BY <1>1, <1>3, ElementsWord
<1>5. e \in Stored
  BY <1>1
<1>6. x[1] = e
  BY <1>1, <1>3 DEF Fifo!elements
<1>7. \A i \in 1 .. n - 1 : y[i] = x[i + 1]
  <2> TAKE i \in 1 .. n - 1
  <2>1. n # 1 /\ i + 1 \in 1 .. n /\ r.begin = qc.begin + 1
    BY <1>2, <1>3
  <2>2. r.begin + i - 1 = qc.begin + (i + 1) - 1
    BY <1>1, <2>1
  <2> QED  BY <1>2, <1>3, <2>1, <2>2 DEF Fifo!elements
<1>8. Fifo!qcache_empty(r) <=> y = << >>
  <2>0. r.begin \in Int /\ r.end \in Int
    BY <1>1, <1>2
  <2>1. Fifo!qcache_empty(r) <=> Len(y) = 0
    <3> HIDE DEF n, y
    <3> QED  BY <1>3, <1>4, <2>0 DEF Fifo!qcache_empty
  <2> QED  BY <1>4, <2>1 DEF Words
<1> HIDE DEF x, y, n, e
<1>9. x = << e >> \o y
  <2>1. << e >> \in Words /\ Len(<< e >>) = 1
    BY <1>5 DEF Words
  <2> DEFINE z == << e >> \o y
  <2>2. /\ z \in Words /\ Len(z) = n
        /\ z[1] = e /\ \A i \in 1 .. n - 1 : z[i + 1] = y[i]
    BY <1>3, <1>4, <2>1 DEF Words
  <2> HIDE DEF z
  <2>3. \A i \in 1 .. n : z[i] = x[i]
    <3> TAKE i \in 1 .. n
    <3>1. CASE i = 1
      BY <1>6, <2>2, <3>1
    <3>2. CASE i # 1
      <4>1. i - 1 \in 1 .. n - 1 /\ (i - 1) + 1 = i
        BY <1>3, <3>2
      <4> QED  BY <1>7, <2>2, <4>1
    <3> QED  BY <3>1, <3>2
  <2>4. x = z
    BY <1>4, <2>2, <2>3, SeqEqual DEF Words
  <2> QED  BY <2>4 DEF z
<1> QED  BY <1>3, <1>4, <1>5, <1>8, <1>9
         DEF Joined, r, x, y, e, Fifo!qcache_empty
-----------------------------------------------------------------------------
words(s) == [i \in DOMAIN s |-> Fifo!elements(s[i])]

(* The queue: what a list of chunks satisfies, and Fifo!ChunksInUse.       *)
InUse(s) ==
  /\ s \in Seq(Fifo!Chunk)
  /\ \A i \in DOMAIN s : /\ s[i].begin < s[i].end
                         /\ i > 1 => s[i].begin = 0
                         /\ i < Len(s) => s[i].end = QUEUE_CACHE_SIZE

QueueInv == InUse(chunks) /\ dequeued \in Stored

LEMMA WordsOfChunks ==
  ASSUME NEW s, InUse(s)
  PROVE  /\ words(s) \in Seq(Words) /\ Len(words(s)) = Len(s)
         /\ \A i \in 1 .. Len(s) : words(s)[i] = Fifo!elements(s[i])
<1>1. s \in Seq(Fifo!Chunk) /\ Len(s) \in Nat /\ DOMAIN s = 1 .. Len(s)
  BY DEF InUse
<1>2. ASSUME NEW i \in 1 .. Len(s) PROVE Fifo!elements(s[i]) \in Words
  <2>1. s[i] \in Fifo!Chunk /\ s[i].begin < s[i].end
    BY <1>1 DEF InUse
  <2>2. s[i].begin \in Int /\ s[i].end \in Int
    BY <2>1, CachesAssumption DEF Fifo!Chunk
  <2> QED  BY <2>1, <2>2, ElementsWord
<1> DEFINE n == Len(s)
<1>3. words(s) = [i \in 1 .. n |-> Fifo!elements(s[i])]
  BY <1>1 DEF words
<1>4. words(s) \in [1 .. n -> Words]
  BY <1>2, <1>3
<1> QED  BY <1>1, <1>3, <1>4

LEMMA ContentsAreWords ==
  /\ Fifo!contents = Fifo!FlattenSeq(words(chunks))
  /\ Fifo!contents' = Fifo!FlattenSeq(words(chunks'))
BY DEF Fifo!contents, words

(* An element is added at the end of the last chunk, or in a new one.      *)
LEMMA QueueInsertKeeps ==
  ASSUME QueueInv, NEW e \in Element, Fifo!insert(e)
 
  PROVE  QueueInv' /\ Fifo!contents' = Append(Fifo!contents, e) /\ dequeued' = dequeued
<1> DEFINE s == chunks  n == Len(chunks)
           fits == s # << >> /\ ~ Fifo!qcache_full(Fifo!Last(s))
<1>1. /\ s \in Seq(Fifo!Chunk) /\ n \in Nat /\ DOMAIN s = 1 .. n /\ n = Len(s)
      /\ \A i \in 1 .. n : s[i] \in Fifo!Chunk
      /\ words(s) \in Seq(Words) /\ Len(words(s)) = n
      /\ \A i \in 1 .. n : words(s)[i] = Fifo!elements(s[i])
  BY WordsOfChunks DEF QueueInv, InUse
<1>2. << e >> \in Words
  BY DEF Words, Stored
<1>0. n \in Nat
  BY <1>1
<1> HIDE DEF n
<1>3. Fifo!contents' = Joined(Fifo!contents, << e >>) /\ InUse(chunks')
  <2>1. CASE fits
    <3> DEFINE qc == s[n]  r == Fifo!qcache_insert(qc, e)
               t == [s EXCEPT ![n] = r]
    <3>1. n \in 1 .. n /\ Fifo!Last(s) = qc /\ ~ Fifo!qcache_full(qc)
      BY <1>1, <2>1 DEF Fifo!Last
    <3>2. chunks' = t
      BY <2>1 DEF Fifo!insert, n
    <3>3. /\ qc \in Fifo!Chunk /\ qc.begin < qc.end
          /\ qc.begin \in Int /\ qc.end \in Int
      <4>1. qc \in Fifo!Chunk /\ qc.begin < qc.end
        BY <1>1, <3>1 DEF QueueInv, InUse
      <4> QED  BY <4>1, CachesAssumption DEF Fifo!Chunk
    <3>4. /\ r \in Fifo!Chunk /\ r.begin = qc.begin /\ r.end = qc.end + 1
          /\ Fifo!elements(r) = Joined(Fifo!elements(qc), << e >>)
      <4> HIDE DEF qc
      <4> QED  BY <3>1, <3>3, InsertedChunk
    <3> HIDE DEF r
    <3>5. /\ t \in Seq(Fifo!Chunk) /\ Len(t) = n
          /\ t[n] = r /\ DOMAIN t = 1 .. n
          /\ \A i \in 1 .. n : i # n => t[i] = s[i]
      BY <1>1, <3>1, <3>4
    <3> HIDE DEF t
    <3>6. InUse(t)
      <4>1. r.begin < r.end /\ (n > 1 => r.begin = 0)
        BY <3>1, <3>3, <3>4, <1>1 DEF InUse, QueueInv
      <4>2. \A i \in 1 .. n : i # n =>
              /\ s[i].begin < s[i].end
              /\ i > 1 => s[i].begin = 0
              /\ i < n => s[i].end = QUEUE_CACHE_SIZE
        BY <1>1 DEF InUse, QueueInv
      <4>3. \A i \in 1 .. n : /\ t[i].begin < t[i].end
                              /\ i > 1 => t[i].begin = 0
                              /\ i < n => t[i].end = QUEUE_CACHE_SIZE
        <5> TAKE i \in 1 .. n
        <5>1. CASE i = n
          BY <3>5, <4>1, <5>1, <1>0
        <5>2. CASE i # n
          BY <3>5, <4>2, <5>2
        <5> QED  BY <5>1, <5>2
      <4> HIDE DEF t
      <4> QED  BY <3>5, <4>3 DEF InUse
    <3>7. /\ words(t) \in Seq(Words) /\ Len(words(t)) = n
          /\ \A i \in 1 .. n : words(t)[i] = Fifo!elements(t[i])
      BY <3>5, <3>6, WordsOfChunks
    <3>8. /\ words(t)[n] = Joined(words(s)[n], << e >>)
          /\ \A i \in 1 .. n - 1 : words(t)[i] = words(s)[i]
      <4>1. words(t)[n] = Fifo!elements(r) /\ words(s)[n] = Fifo!elements(qc)
        BY <1>1, <3>1, <3>5, <3>7
      <4>2. ASSUME NEW i \in 1 .. n - 1 PROVE words(t)[i] = words(s)[i]
        <5>1. i \in 1 .. n /\ i # n
          BY <1>0
        <5> QED  BY <1>1, <3>5, <3>7, <5>1
      <4> QED  BY <3>4, <4>1, <4>2
    <3>9. words(s) # << >> /\ n = Len(words(s))
      BY <1>1, <3>1
    <3>10. Fifo!FlattenSeq(words(t)) = Joined(Fifo!FlattenSeq(words(s)), << e >>)
      <4> DEFINE u == words(s)  v == words(t)
      <4>1. /\ u \in Seq(Words) /\ u # << >>
            /\ v \in Seq(Words) /\ Len(v) = Len(u)
            /\ v[Len(u)] = Joined(u[Len(u)], << e >>)
            /\ \A i \in 1 .. Len(u) - 1 : v[i] = u[i]
        BY <1>1, <3>7, <3>8, <3>9
      <4> HIDE DEF u, v
      <4>2. Fifo!FlattenSeq(v) = Joined(Fifo!FlattenSeq(u), << e >>)
        BY <1>2, <4>1, FlattenExtend
      <4> QED  BY <4>2 DEF u, v
    <3> QED  BY <3>2, <3>6, <3>10, ContentsAreWords
  <2>2. CASE ~ fits
    <3> DEFINE qc == Fifo!qcache_init  r == Fifo!qcache_insert(qc, e)
               t == Append(s, r)  m == n + 1
    <3>1. chunks' = t
      BY <2>2 DEF Fifo!insert
    <3>2. /\ qc \in Fifo!Chunk /\ qc.begin = 0 /\ qc.end = 0
          /\ ~ Fifo!qcache_full(qc)
      <4>1. [i \in 0 .. QUEUE_CACHE_SIZE - 1 |-> Fresh]
              \in [0 .. QUEUE_CACHE_SIZE - 1 -> Element \union {Fresh}]
        OBVIOUS
      <4> QED  BY <4>1, CachesAssumption
               DEF Fifo!qcache_init, Fifo!Chunk, Fifo!qcache_full
    <3>3. /\ r \in Fifo!Chunk /\ r.begin = 0 /\ r.end = 1
          /\ Fifo!elements(r) = Joined(Fifo!elements(qc), << e >>)
      <4> HIDE DEF qc
      <4> QED  BY <3>2, InsertedChunk
    <3>4. Fifo!elements(qc) = << >>
      <4>1. qc.end - qc.begin = 0 /\ 1 .. 0 = {}
        BY <3>2
      <4> HIDE DEF qc
      <4> QED  BY <4>1 DEF Fifo!elements
    <3>5. Fifo!elements(r) = << e >>
      BY <1>2, <3>3, <3>4, JoinedEmpty
    <3> HIDE DEF r, qc
    <3>6. /\ t \in Seq(Fifo!Chunk) /\ Len(t) = m
          /\ t[m] = r /\ DOMAIN t = 1 .. m
          /\ \A i \in 1 .. n : t[i] = s[i]
      BY <1>1, <3>3
    <3>7. n # 0 => s[n].end = QUEUE_CACHE_SIZE
      <4> SUFFICES ASSUME n # 0 PROVE s[n].end = QUEUE_CACHE_SIZE
        OBVIOUS
      <4>1. s # << >> /\ Fifo!Last(s) = s[n]
        BY <1>1 DEF Fifo!Last
      <4> QED  BY <2>2, <4>1 DEF Fifo!qcache_full
    <3>8. words(t) = Append(words(s), << e >>)
      <4> DEFINE u == Append(words(s), << e >>)
      <4>1. u = [i \in 1 .. m |-> IF i = m THEN << e >> ELSE words(s)[i]]
        BY <1>1
      <4>2. words(t) = [i \in 1 .. m |-> Fifo!elements(t[i])]
        BY <3>6 DEF words
      <4>3. \A i \in 1 .. m : i # m => i \in 1 .. n
        BY <1>1
      <4>4. \A i \in 1 .. m : Fifo!elements(t[i]) = IF i = m THEN << e >> ELSE words(s)[i]
        BY <1>1, <3>5, <3>6, <4>3
      <4> HIDE DEF t, m, u
      <4> QED  BY <4>1, <4>2, <4>4 DEF u
    <3> HIDE DEF t
    <3>9. InUse(t)
      <4> SUFFICES ASSUME NEW i \in 1 .. m
                   PROVE  /\ t[i].begin < t[i].end
                          /\ i > 1 => t[i].begin = 0
                          /\ i < m => t[i].end = QUEUE_CACHE_SIZE
        BY <3>6 DEF InUse
      <4>1. CASE i = m
        BY <3>3, <3>6, <4>1, <1>1
      <4>2. CASE i # m
        <5>1. i \in 1 .. n /\ n # 0 /\ (i < n \/ i = n)
          BY <1>0, <4>2
        <5>2. t[i] = s[i]
          BY <3>6, <5>1
        <5>3. /\ s[i].begin < s[i].end
              /\ i > 1 => s[i].begin = 0
              /\ i < n => s[i].end = QUEUE_CACHE_SIZE
          BY <1>1, <5>1 DEF InUse, QueueInv
        <5>4. s[i].end = QUEUE_CACHE_SIZE
          BY <3>7, <5>1, <5>3
        <5> QED  BY <5>2, <5>3, <5>4
      <4> QED  BY <4>1, <4>2
    <3>10. Fifo!FlattenSeq(words(t)) = Joined(Fifo!FlattenSeq(words(s)), << e >>)
      BY <1>1, <1>2, <3>8, FlattenAppend
    <3> QED  BY <3>1, <3>9, <3>10, ContentsAreWords
  <2> QED  BY <2>1, <2>2
<1>4. Fifo!contents \in Words
  <2>1. PICK w : Joins(w, words(s))
    BY <1>1, JoinExists
  <2> QED  BY <1>1, <2>1, Flattened, ContentsAreWords
<1>5. Joined(Fifo!contents, << e >>) = Append(Fifo!contents, e)
  BY <1>4, AppendIsConcat DEF Words, Joined, Stored
<1>6. dequeued' = dequeued
  BY DEF Fifo!insert
<1> QED  BY <1>3, <1>5, <1>6 DEF QueueInv

LEMMA TailIsShifted ==
  ASSUME NEW S, NEW q \in Seq(S), q # << >>
  PROVE  Tail(q) = [i \in 1 .. Len(q) - 1 |-> q[i + 1]]
<1>1. /\ Tail(q) \in Seq(S) /\ Len(Tail(q)) = Len(q) - 1 /\ Len(q) \in Nat
      /\ \A i \in 1 .. Len(q) - 1 : Tail(q)[i] = q[i + 1]
  OBVIOUS
<1> DEFINE t == Tail(q)  m == Len(q) - 1  f == [i \in 1 .. m |-> q[i + 1]]
<1>2. m \in Nat /\ \A i \in 1 .. m : q[i + 1] \in S
  OBVIOUS
<1> HIDE DEF m
<1>3. f \in [1 .. m -> S] /\ \A i \in 1 .. m : f[i] = q[i + 1]
  BY <1>2
<1> HIDE DEF f
<1>4. f \in Seq(S) /\ Len(f) = m
  BY <1>2, <1>3
<1>5. t \in Seq(S) /\ Len(t) = m /\ \A i \in 1 .. m : t[i] = q[i + 1]
  BY <1>1 DEF m
<1> HIDE DEF t
<1>6. t = f
  BY <1>3, <1>4, <1>5, SeqEqual
<1> QED  BY <1>6 DEF t, f, m

LEMMA TailOfChunks ==
  ASSUME NEW s, InUse(s), s # << >>
  PROVE  InUse(Tail(s)) /\ words(Tail(s)) = Tail(words(s))
<1> DEFINE n == Len(s)  m == n - 1  t == Tail(s)  u == words(s)  v == Tail(u)
<1>1. /\ s \in Seq(Fifo!Chunk) /\ n \in Nat \ {0} /\ DOMAIN s = 1 .. n
      /\ t \in Seq(Fifo!Chunk) /\ Len(t) = m /\ DOMAIN t = 1 .. m
      /\ \A i \in 1 .. m : t[i] = s[i + 1]
  BY DEF InUse
<1>2. /\ u \in Seq(Words) /\ Len(u) = n
      /\ \A i \in 1 .. n : u[i] = Fifo!elements(s[i])
  BY WordsOfChunks
<1>3. n \in Nat \ {0} /\ \A i \in 1 .. m : i + 1 \in 1 .. n /\ i + 1 > 1
  BY <1>1
<1>4. InUse(t)
  <2> SUFFICES ASSUME NEW i \in 1 .. m
               PROVE  /\ s[i + 1].begin < s[i + 1].end /\ s[i + 1].begin = 0
                      /\ i < m => s[i + 1].end = QUEUE_CACHE_SIZE
    BY <1>1 DEF InUse
  <2>1. /\ s[i + 1].begin < s[i + 1].end /\ s[i + 1].begin = 0
        /\ i + 1 < n => s[i + 1].end = QUEUE_CACHE_SIZE
    BY <1>1, <1>3 DEF InUse
  <2> QED  BY <1>3, <2>1
<1>5. v = [i \in 1 .. m |-> u[i + 1]]
  <2> HIDE DEF u
  <2>1. u # << >>
    BY <1>2, <1>3
  <2>2. v = [i \in 1 .. Len(u) - 1 |-> u[i + 1]]
    BY <1>2, <2>1, TailIsShifted
  <2>3. Len(u) = n
    BY <1>2
  <2> QED  BY <2>2, <2>3
<1>6. words(t) = [i \in 1 .. m |-> Fifo!elements(t[i])]
  BY <1>1 DEF words
<1>7. \A i \in 1 .. m : u[i + 1] = Fifo!elements(t[i])
  BY <1>1, <1>2, <1>3
<1> HIDE DEF m, t, u, v
<1>8. words(t) = v
  BY <1>5, <1>6, <1>7
<1> QED  BY <1>4, <1>8 DEF t, u, v

(* An element is taken from the first chunk, which may be freed.           *)
LEMMA QueuePopKeeps ==
  ASSUME QueueInv, Fifo!pop
  PROVE  /\ QueueInv' /\ Fifo!contents # << >>
         /\ dequeued' = Head(Fifo!contents)
         /\ Fifo!contents' = Tail(Fifo!contents)
<1> DEFINE s == chunks  qc == Head(s)  r == Fifo!qcache_pop(qc)
           x == qc.data[qc.begin]  y == Fifo!elements(r)
           z == Fifo!FlattenSeq(words(Tail(s)))
<1>1. s # << >> /\ s \in Seq(Fifo!Chunk) /\ InUse(s)
  BY DEF Fifo!pop, QueueInv, InUse
<1>2. /\ qc \in Fifo!Chunk /\ qc.begin < qc.end
      /\ Len(s) > 1 => qc.end = QUEUE_CACHE_SIZE
  <2>1. /\ qc = s[1] /\ 1 \in DOMAIN s
        /\ qc \in Fifo!Chunk /\ Len(s) \in Nat \ {0}
    BY <1>1
  <2> QED  BY <1>1, <2>1 DEF InUse
<1>3. /\ r \in Fifo!Chunk /\ r.begin <= r.end
      /\ Fifo!qcache_empty(r) <=> y = << >>
      /\ ~ Fifo!qcache_empty(r) => r.end = qc.end
      /\ y \in Words /\ x \in Stored
      /\ Fifo!elements(qc) = Joined(<< x >>, y)
  <2> HIDE DEF qc
  <2> QED  BY <1>2, PoppedChunk
<1>4. /\ dequeued' = x
      /\ chunks' = IF Fifo!qcache_empty(r) THEN Tail(s) ELSE << r >> \o Tail(s)
  BY DEF Fifo!pop
<1> HIDE DEF r, x, y
<1>5. /\ InUse(Tail(s)) /\ z \in Words
      /\ Fifo!contents = Joined(Joined(<< x >>, y), z)
  <2> DEFINE u == words(s)
  <2>1. u \in Seq(Words) /\ u # << >> /\ u[1] = Fifo!elements(qc)
    <3>1. Len(s) \in Nat \ {0} /\ qc = s[1] /\ 1 \in 1 .. Len(s)
      BY <1>1
    <3>2. u \in Seq(Words) /\ Len(u) = Len(s) /\ u[1] = Fifo!elements(s[1])
      BY <1>1, <3>1, WordsOfChunks
    <3> HIDE DEF u, qc
    <3> QED  BY <3>1, <3>2
  <2>2. InUse(Tail(s)) /\ Tail(u) = words(Tail(s))
    BY <1>1, TailOfChunks
  <2> HIDE DEF u, qc
  <2>3. /\ Fifo!FlattenSeq(u) = Joined(u[1], Fifo!FlattenSeq(Tail(u)))
        /\ Fifo!FlattenSeq(Tail(u)) \in Words
    BY <2>1, FlattenHead
  <2>4. Fifo!contents = Fifo!FlattenSeq(u)
    BY ContentsAreWords DEF u
  <2> QED  BY <1>3, <2>1, <2>2, <2>3, <2>4
<1>6. << x >> \in Words
  BY <1>3 DEF Words
<1>7. InUse(chunks') /\ Fifo!contents' = Joined(y, z)
  <2>1. CASE Fifo!qcache_empty(r)
    <3>1. Joined(y, z) = z
      BY <1>3, <1>5, <2>1, JoinedEmpty
    <3> QED  BY <1>4, <1>5, <2>1, <3>1, ContentsAreWords
  <2>2. CASE ~ Fifo!qcache_empty(r)
    <3> DEFINE t == << r >> \o Tail(s)  n == Len(s)
    <3>1. /\ n \in Nat \ {0} /\ DOMAIN s = 1 .. n /\ n = Len(s)
          /\ t \in Seq(Fifo!Chunk) /\ Len(t) = n
          /\ DOMAIN t = 1 .. n /\ t[1] = r
          /\ t # << >> /\ Tail(t) = Tail(s)
          /\ \A i \in 1 .. n : i # 1 => t[i] = s[i]
      <4>1. /\ Tail(s) \in Seq(Fifo!Chunk) /\ Len(Tail(s)) = n - 1
            /\ n \in Nat \ {0} /\ DOMAIN s = 1 .. n
            /\ \A i \in 1 .. n - 1 : Tail(s)[i] = s[i + 1]
        BY <1>1
      <4> DEFINE a == Tail(s)
      <4> HIDE DEF a, n
      <4>2. /\ t \in Seq(Fifo!Chunk) /\ Len(t) = n
            /\ DOMAIN t = 1 .. n /\ t[1] = r
            /\ t # << >>
            /\ \A i \in 1 .. n : i # 1 => t[i] = a[i - 1]
        <5>1. a \in Seq(Fifo!Chunk) /\ Len(a) = n - 1 /\ n \in Nat \ {0}
          BY <4>1 DEF a
        <5>2. t = << r >> \o a
          BY DEF a
        <5> HIDE DEF t
        <5>3. << r >> \in Seq(Fifo!Chunk) /\ Len(<< r >>) = 1 /\ << r >>[1] = r
          BY <1>3
        <5> QED  BY <5>1, <5>2, <5>3
      <4>3. ASSUME NEW i \in 1 .. n, i # 1 PROVE t[i] = s[i]
        <5>1. i - 1 \in 1 .. n - 1 /\ (i - 1) + 1 = i
          BY <4>1, <4>3
        <5> HIDE DEF t
        <5> QED  BY <4>1, <4>2, <4>3, <5>1 DEF a
      <4>4. Tail(t) = Tail(s)
        <5>1. /\ Tail(t) \in Seq(Fifo!Chunk) /\ Len(Tail(t)) = n - 1
              /\ \A i \in 1 .. n - 1 : Tail(t)[i] = t[i + 1]
          <6> HIDE DEF t
          <6> QED  BY <4>1, <4>2
        <5>2. \A i \in 1 .. n - 1 : i + 1 \in 1 .. n /\ i + 1 # 1
          BY <4>1
        <5>3. \A i \in 1 .. n - 1 : Tail(t)[i] = Tail(s)[i]
          <6> HIDE DEF t
          <6> QED  BY <4>1, <4>3, <5>1, <5>2
        <5> DEFINE b == Tail(t)
        <5>4. b \in Seq(Fifo!Chunk) /\ a \in Seq(Fifo!Chunk) /\ Len(a) = Len(b)
              /\ \A i \in 1 .. Len(a) : a[i] = b[i]
          BY <4>1, <5>1, <5>3 DEF a
        <5> HIDE DEF b
        <5>5. a = b
          BY <5>4, SeqEqual
        <5> QED  BY <5>5 DEF a, b
      <4> HIDE DEF t
      <4> QED  BY <4>1, <4>2, <4>3, <4>4 DEF n
    <3>2. r.begin < r.end /\ (n > 1 => r.end = QUEUE_CACHE_SIZE)
      <4>1. r.begin # r.end /\ r.begin \in Int /\ r.end \in Int
        BY <1>3, <2>2, CachesAssumption DEF Fifo!qcache_empty, Fifo!Chunk
      <4> QED  BY <1>2, <1>3, <2>2, <4>1
    <3> HIDE DEF t
    <3>3. InUse(t)
      <4> SUFFICES ASSUME NEW i \in 1 .. n
                   PROVE  /\ t[i].begin < t[i].end
                          /\ i > 1 => t[i].begin = 0
                          /\ i < n => t[i].end = QUEUE_CACHE_SIZE
        BY <3>1 DEF InUse
      <4> HIDE DEF n
      <4>0. n \in Nat \ {0}
        BY <3>1
      <4>1. CASE i = 1
        BY <3>1, <3>2, <4>0, <4>1
      <4>2. CASE i # 1
        <5>1. t[i] = s[i] /\ i \in DOMAIN s
          BY <3>1, <4>2
        <5> QED  BY <1>1, <3>1, <5>1 DEF InUse
      <4> QED  BY <4>1, <4>2
    <3> DEFINE u == words(t)
    <3>4. u \in Seq(Words) /\ u # << >> /\ u[1] = y /\ Tail(u) = words(Tail(s))
      <4>1. 1 \in 1 .. n /\ Len(t) = n /\ n \in Nat \ {0}
        BY <3>1
      <4>2. u \in Seq(Words) /\ Len(u) = n /\ u[1] = Fifo!elements(t[1])
        BY <3>3, <4>1, WordsOfChunks
      <4>3. Tail(u) = words(Tail(t))
        BY <3>1, <3>3, TailOfChunks
      <4> HIDE DEF u, n
      <4> QED  BY <3>1, <4>1, <4>2, <4>3 DEF y
    <3> HIDE DEF u
    <3>5. Fifo!FlattenSeq(u) = Joined(y, z)
      <4>1. Fifo!FlattenSeq(u) = Joined(u[1], Fifo!FlattenSeq(Tail(u)))
        BY <3>4, FlattenHead
      <4> QED  BY <3>4, <4>1
    <3> QED  BY <1>4, <2>2, <3>3, <3>5, ContentsAreWords DEF t, u
  <2> QED  BY <2>1, <2>2
<1>8. Fifo!contents = << x >> \o Joined(y, z) /\ Joined(y, z) \in Words
  <2> HIDE DEF z
  <2>1. Joined(Joined(<< x >>, y), z) = Joined(<< x >>, Joined(y, z))
    BY <1>3, <1>5, <1>6, JoinedAssociative
  <2>2. Joined(y, z) \in Words
    BY <1>3, <1>5, JoinedWord
  <2> QED  BY <1>5, <2>1, <2>2 DEF Joined
<1> DEFINE w == Joined(y, z)  c == << x >> \o w
<1> HIDE DEF w, z
<1>9. c # << >> /\ Head(c) = x /\ Tail(c) = w
  <2>1. w \in Seq(Stored)
    BY <1>8 DEF w, Words
  <2>2. /\ c \in Seq(Stored) /\ Len(c) = Len(w) + 1 /\ c[1] = x
        /\ \A i \in 1 .. Len(w) : c[i + 1] = w[i]
    BY <1>3, <2>1
  <2> HIDE DEF c
  <2>3. c # << >> /\ Head(c) = x
    BY <2>1, <2>2
  <2> DEFINE b == Tail(c)
  <2>4. /\ b \in Seq(Stored) /\ Len(b) = Len(w)
        /\ \A i \in 1 .. Len(b) : b[i] = w[i]
    BY <2>1, <2>2, <2>3
  <2> HIDE DEF b
  <2>5. b = w
    BY <2>1, <2>4, SeqEqual
  <2> QED  BY <2>3, <2>5 DEF b
<1>10. QueueInv'
  BY <1>3, <1>4, <1>7 DEF QueueInv
<1>11. Fifo!contents = c /\ Fifo!contents' = w
  BY <1>7, <1>8 DEF c, w
<1> HIDE DEF c
<1> QED  BY <1>4, <1>9, <1>10, <1>11

LEMMA QueueInvariant ==
  AnySpec => [](QueueInv)
<1>1. AnyInit => QueueInv
  <2>1. DOMAIN << >> = {} /\ << >> \in Seq(Fifo!Chunk)
    OBVIOUS
  <2> QED  BY <2>1 DEF AnyInit, Fifo!Init, QueueInv, InUse, Stored
<1>2. QueueInv /\ [AnyNext]_anyVars => QueueInv'
  <2> SUFFICES ASSUME QueueInv, [AnyNext]_anyVars
               PROVE  QueueInv'
    OBVIOUS
  <2>1. CASE Fifo!Next
    BY <2>1, QueueInsertKeeps, QueuePopKeeps DEF Fifo!Next
  <2>2. CASE UNCHANGED queueVars
    BY <2>2 DEF queueVars, QueueInv, InUse
  <2> QED  BY <2>1, <2>2
           DEF AnyNext, UsePriorityQueue, UseQueue, UseStack, anyVars, queueVars
<1> QED  BY <1>1, <1>2, PTL DEF AnySpec

(* A queue is a queue, whatever the size of its chunks: queue_insert and   *)
(* queue_pop of src/mcf/mcf/queue.h.                                       *)
THEOREM QueueIsFifo == AnySpec => QueueImplements
<1>1. AnyInit => Fifo!Fifo!Init
  <2> SUFFICES ASSUME AnyInit PROVE Fifo!contents = << >> /\ dequeued = Fresh
    BY DEF Fifo!Fifo!Init
  <2>1. chunks = << >> /\ dequeued = Fresh
    BY DEF AnyInit, Fifo!Init
  <2>2. words(<< >>) = << >>
    BY DEF words
  <2>3. Fifo!FlattenSeq(<< >>) = << >>
    BY DEF Fifo!FlattenSeq
  <2> QED  BY <2>1, <2>2, <2>3, ContentsAreWords
<1>2. QueueInv /\ [AnyNext]_anyVars
      => [Fifo!Fifo!Next]_<<Fifo!contents, dequeued>>
  <2> SUFFICES ASSUME QueueInv, [AnyNext]_anyVars
               PROVE  [Fifo!Fifo!Next]_<<Fifo!contents, dequeued>>
    OBVIOUS
  <2>1. ASSUME NEW e \in Element, Fifo!insert(e) PROVE Fifo!Fifo!Next
    BY <2>1, QueueInsertKeeps DEF Fifo!Fifo!Next, Fifo!Fifo!Insert
  <2>2. CASE Fifo!pop
    BY <2>2, QueuePopKeeps DEF Fifo!Fifo!Next, Fifo!Fifo!Pop
  <2>3. CASE UNCHANGED queueVars
    BY <2>3, ContentsAreWords DEF queueVars
  <2> QED  BY <2>1, <2>2, <2>3
           DEF AnyNext, UsePriorityQueue, UseQueue, UseStack, anyVars, queueVars,
               Fifo!Next
<1> QED  BY <1>1, <1>2, QueueInvariant, PTL
         DEF AnySpec, QueueImplements, Fifo!Implements, Fifo!Fifo!Spec
-----------------------------------------------------------------------------
(* The stack.                                                              *)
StackInv ==
  /\ len \in Nat /\ reserved \in Nat
  /\ data \in [0 .. reserved - 1 -> Stored] /\ popped \in Stored
  /\ Lifo!ReserveFollows

LEMMA StackInitial == Lifo!Init => StackInv /\ Lifo!contents = << >>
<1> SUFFICES ASSUME Lifo!Init PROVE StackInv /\ Lifo!contents = << >>
  OBVIOUS
<1>1. /\ len = 0 /\ reserved = STACK_CACHE_SIZE /\ popped = Fresh
      /\ data = [i \in 0 .. reserved - 1 |-> Fresh]
  BY DEF Lifo!Init
<1>2. data \in [0 .. reserved - 1 -> Stored]
  BY <1>1 DEF Stored
<1>3. Lifo!contents = << >>
  <2>1. 1 .. len = {}
    BY <1>1
  <2> QED  BY <2>1 DEF Lifo!contents
<1>4. Lifo!ReserveFollows
  BY <1>1, CachesAssumption DEF Lifo!ReserveFollows
<1> QED  BY <1>1, <1>2, <1>3, <1>4, CachesAssumption DEF StackInv, Stored

LEMMA ResizedKeeps ==
  ASSUME NEW n \in Nat, NEW m \in Nat, NEW d \in [0 .. n - 1 -> Stored]
  PROVE  /\ Lifo!resized(d, m) \in [0 .. m - 1 -> Stored]
         /\ \A i \in 0 .. m - 1 : i < n => Lifo!resized(d, m)[i] = d[i]
<1>1. \A i \in 0 .. m - 1 : i \in DOMAIN d <=> i < n
  OBVIOUS
<1>2. \A i \in 0 .. m - 1 : (IF i \in DOMAIN d THEN d[i] ELSE Fresh) \in Stored
  BY DEF Stored
<1> QED  BY <1>1, <1>2 DEF Lifo!resized

LEMMA StackInsertKeeps ==
  ASSUME StackInv, NEW e \in Element, Lifo!insert(e)
 
  PROVE  StackInv' /\ Lifo!contents' = Append(Lifo!contents, e) /\ popped' = popped
<1> DEFINE C == STACK_CACHE_SIZE  m == len + 1
           n == IF m >= reserved THEN reserved + C ELSE reserved
           d == Lifo!resized(data, n)
<1>1. /\ len \in Nat /\ reserved \in Nat /\ C \in Nat \ {0} /\ m \in Nat
      /\ data \in [0 .. reserved - 1 -> Stored] /\ popped \in Stored
      /\ len < reserved /\ reserved < len + 2 * C
  BY CachesAssumption DEF StackInv, Lifo!ReserveFollows
<1>2. /\ len' = m /\ reserved' = n /\ popped' = popped
      /\ data' = [d EXCEPT ![len] = e]
  BY DEF Lifo!insert
<1>3. n \in Nat /\ m < n /\ n < m + 2 * C /\ n >= reserved
  BY <1>1
<1> HIDE DEF n
<1>4. d \in [0 .. n - 1 -> Stored] /\ \A i \in 0 .. len - 1 : d[i] = data[i]
  <2>1. /\ d \in [0 .. n - 1 -> Stored]
        /\ \A i \in 0 .. n - 1 : i < reserved => d[i] = data[i]
    BY <1>1, <1>3, ResizedKeeps
  <2>2. \A i \in 0 .. len - 1 : i \in 0 .. n - 1 /\ i < reserved
    BY <1>1, <1>3
  <2> QED  BY <2>1, <2>2
<1> HIDE DEF d
<1>5. /\ data' \in [0 .. n - 1 -> Stored] /\ data'[len] = e
      /\ \A i \in 0 .. len - 1 : data'[i] = data[i]
  <2>1. len \in 0 .. n - 1 /\ e \in Stored /\ \A i \in 0 .. len - 1 : i # len
    BY <1>1, <1>3 DEF Stored
  <2>2. \A i \in 0 .. len - 1 : i \in 0 .. n - 1
    BY <1>1, <1>3
  <2> QED  BY <1>2, <1>4, <2>1, <2>2
<1>6. StackInv'
  BY <1>1, <1>2, <1>3, <1>5 DEF StackInv, Lifo!ReserveFollows
<1>7. Lifo!contents' = Append(Lifo!contents, e)
  <2>1. Lifo!contents \in [1 .. len -> Stored]
    <3>1. \A i \in 1 .. len : data[i - 1] \in Stored
      BY <1>1
    <3> QED  BY <3>1 DEF Lifo!contents
  <2>2. Lifo!contents \in Seq(Stored) /\ Len(Lifo!contents) = len
    BY <1>1, <2>1
  <2>3. Lifo!contents' = [i \in 1 .. m |-> data'[i - 1]]
    BY <1>2 DEF Lifo!contents
  <2> DEFINE c == Lifo!contents  b == Append(c, e)
  <2>4. b \in [1 .. m -> Stored] /\ b[m] = e /\ \A i \in 1 .. len : b[i] = c[i]
    <3>1. e \in Stored
      BY DEF Stored
    <3> HIDE DEF c
    <3> QED  BY <1>1, <2>2, <3>1 DEF c
  <2>5. ASSUME NEW i \in 1 .. m PROVE data'[i - 1] = b[i]
    <3>1. CASE i = m
      BY <1>1, <1>5, <2>4, <3>1
    <3>2. CASE i # m
      <4>1. i \in 1 .. len /\ i - 1 \in 0 .. len - 1
        BY <1>1, <3>2
      <4>2. c[i] = data[i - 1]
        BY <4>1 DEF Lifo!contents
      <4> HIDE DEF b
      <4> QED  BY <1>5, <2>4, <4>1, <4>2
    <3> QED  BY <3>1, <3>2
  <2> HIDE DEF b
  <2>6. Lifo!contents' = b
    BY <2>3, <2>4, <2>5
  <2> QED  BY <2>6 DEF b
<1> QED  BY <1>2, <1>6, <1>7

LEMMA StackPopKeeps ==
  ASSUME StackInv, Lifo!pop
  PROVE  /\ StackInv' /\ Lifo!contents # << >>
         /\ popped' = Lifo!Lifo!Last(Lifo!contents)
         /\ Lifo!contents' = Lifo!Lifo!Front(Lifo!contents)
<1> DEFINE C == STACK_CACHE_SIZE  m == len - 1
           n == IF Lifo!spare(m) THEN reserved - C ELSE reserved
           c == Lifo!contents
<1>1. /\ len \in Nat \ {0} /\ reserved \in Nat /\ C \in Nat \ {0} /\ m \in Nat
      /\ data \in [0 .. reserved - 1 -> Stored] /\ popped \in Stored
      /\ len < reserved /\ reserved < len + 2 * C
  BY CachesAssumption DEF StackInv, Lifo!ReserveFollows, Lifo!pop
<1>2. /\ len' = m /\ reserved' = n /\ popped' = data[m]
      /\ data' = Lifo!resized(data, n)
  BY DEF Lifo!pop
<1>3. n \in Nat /\ m < n /\ n < m + 2 * C /\ n <= reserved
  BY <1>1 DEF Lifo!spare
<1> HIDE DEF n
<1>4. /\ data' \in [0 .. n - 1 -> Stored]
      /\ \A i \in 0 .. m - 1 : data'[i] = data[i]
  <2>1. /\ data' \in [0 .. n - 1 -> Stored]
        /\ \A i \in 0 .. n - 1 : i < reserved => data'[i] = data[i]
    BY <1>1, <1>2, <1>3, ResizedKeeps
  <2>2. \A i \in 0 .. m - 1 : i \in 0 .. n - 1 /\ i < reserved
    BY <1>1, <1>3
  <2> QED  BY <2>1, <2>2
<1>5. m \in 0 .. reserved - 1 /\ data[m] \in Stored
  BY <1>1
<1>6. StackInv'
  BY <1>1, <1>2, <1>3, <1>4, <1>5 DEF StackInv, Lifo!ReserveFollows
<1>7. c = [i \in 1 .. len |-> data[i - 1]]
  BY DEF Lifo!contents
<1>8. c \in Seq(Stored) /\ Len(c) = len
  <2>1. \A i \in 1 .. len : data[i - 1] \in Stored
    BY <1>1
  <2>2. c \in [1 .. len -> Stored]
    BY <1>7, <2>1
  <2> QED  BY <1>1, <2>2
<1>9. c # << >> /\ popped' = Lifo!Lifo!Last(c)
  <2>1. len \in 1 .. len /\ c[len] = data[m]
    BY <1>1, <1>7
  <2> HIDE DEF c
  <2> QED  BY <1>1, <1>2, <1>8, <2>1 DEF Lifo!Lifo!Last
<1>10. Lifo!contents' = Lifo!Lifo!Front(c)
  <2>1. Lifo!contents' = [i \in 1 .. m |-> data'[i - 1]]
    BY <1>2 DEF Lifo!contents
  <2>2. \A i \in 1 .. m : i \in 1 .. len /\ i - 1 \in 0 .. m - 1
    BY <1>1
  <2>3. \A i \in 1 .. m : data'[i - 1] = c[i]
    BY <1>4, <1>7, <2>2
  <2>4. Lifo!Lifo!Front(c) = [i \in 1 .. m |-> c[i]]
    <3> HIDE DEF c
    <3>1. Lifo!Lifo!Front(c) = SubSeq(c, 1, m)
      BY <1>8 DEF Lifo!Lifo!Front
    <3>2. SubSeq(c, 1, m) = [i \in 1 .. m |-> c[i]]
      BY <1>1
    <3> QED  BY <3>1, <3>2
  <2> HIDE DEF c
  <2> QED  BY <2>1, <2>3, <2>4
<1> QED  BY <1>6, <1>9, <1>10

LEMMA StackInvariant == AnySpec => []StackInv
<1>1. AnyInit => StackInv
  BY StackInitial DEF AnyInit
<1>2. StackInv /\ [AnyNext]_anyVars => StackInv'
  <2> SUFFICES ASSUME StackInv, [AnyNext]_anyVars
               PROVE  StackInv'
    OBVIOUS
  <2>1. CASE Lifo!Next
    BY <2>1, StackInsertKeeps, StackPopKeeps DEF Lifo!Next
  <2>2. CASE UNCHANGED stackVars
    BY <2>2 DEF stackVars, StackInv, Lifo!ReserveFollows
  <2> QED  BY <2>1, <2>2
           DEF AnyNext, UsePriorityQueue, UseQueue, UseStack, anyVars, stackVars
<1> QED  BY <1>1, <1>2, PTL DEF AnySpec

(* A stack is a stack, however often its array grew and shrank:            *)
(* stack_insert and stack_pop of src/mcf/mcf/stack.h.                      *)
THEOREM StackIsLifo == AnySpec => StackImplements
<1>1. AnyInit => Lifo!Lifo!Init
  BY StackInitial DEF AnyInit, Lifo!Lifo!Init, Lifo!Init
<1>2. StackInv /\ [AnyNext]_anyVars
      => [Lifo!Lifo!Next]_<<Lifo!contents, popped>>
  <2> SUFFICES ASSUME StackInv, [AnyNext]_anyVars
               PROVE  [Lifo!Lifo!Next]_<<Lifo!contents, popped>>
    OBVIOUS
  <2>1. ASSUME NEW e \in Element, Lifo!insert(e) PROVE Lifo!Lifo!Next
    BY <2>1, StackInsertKeeps DEF Lifo!Lifo!Next, Lifo!Lifo!Insert
  <2>2. CASE Lifo!pop
    BY <2>2, StackPopKeeps DEF Lifo!Lifo!Next, Lifo!Lifo!Pop
  <2>3. CASE UNCHANGED stackVars
    BY <2>3 DEF stackVars, Lifo!contents
  <2> QED  BY <2>1, <2>2, <2>3
           DEF AnyNext, UsePriorityQueue, UseQueue, UseStack, anyVars, stackVars,
               Lifo!Next
<1> QED  BY <1>1, <1>2, StackInvariant, PTL
         DEF AnySpec, StackImplements, Lifo!Implements, Lifo!Lifo!Spec
-----------------------------------------------------------------------------
(* The containers side by side.                                            *)
LEMMA HeapInvariant == AnySpec => []HeapInv
<1>1. AnyInit => HeapInv
  BY NewHeap DEF AnyInit
<1>2. HeapInv /\ [AnyNext]_anyVars => HeapInv'
  <2> SUFFICES ASSUME HeapInv, [AnyNext]_anyVars
               PROVE  HeapInv'
    OBVIOUS
  <2>1. CASE HeapNext
    BY <2>1, NextKeeps
  <2>2. CASE UNCHANGED heapVars
    BY <2>2, StutterKeeps
  <2> QED  BY <2>1, <2>2
           DEF AnyNext, UsePriorityQueue, UseQueue, UseStack, anyVars
<1> QED  BY <1>1, <1>2, PTL DEF AnySpec

(* What the operations of the containers take for granted is so after any  *)
(* sequence of them: the places of the keys and the order of the heap, the *)
(* chunks of the queue, the reserve of the stack.                          *)
THEOREM RepresentationsStaySound == AnySpec => []RepresentationsSound
<1>1. HeapInv => PointersTrack /\ HeapOrdered
  BY TracksAndOrders
<1>2. QueueInv => Fifo!ChunksInUse
  BY DEF QueueInv, InUse, Fifo!ChunksInUse
<1>3. StackInv => Lifo!ReserveFollows
  BY DEF StackInv
<1>4. HeapInv /\ QueueInv /\ StackInv => RepresentationsSound
  BY <1>1, <1>2, <1>3 DEF RepresentationsSound
<1> QED  BY HeapInvariant, QueueInvariant, StackInvariant, <1>4, PTL
=============================================================================
