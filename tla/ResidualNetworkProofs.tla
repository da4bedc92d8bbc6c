------------------------ MODULE ResidualNetworkProofs ------------------------
(* What the proofs about the searches and the solvers share: induction and *)
(* sums over finite sets, the arcs and the balance of a residual network,  *)
(* and the weak duality of flows and prices.                               *)
(*                                                                         *)
(* The library states induction for an operator, which no prover here can  *)
(* give a value.  What is shown by induction is therefore shown from a     *)
(* least set, or a least number, for which it fails.                       *)
EXTENDS ResidualNetwork, Sequences, FiniteSetTheorems, WellFoundedInduction, TLAPS

(* Induction over the subsets of a finite set: a set of them has a member  *)
(* no proper subset of which is in it.                                     *)
LEMMA MinimalSubset ==
  ASSUME NEW S, IsFiniteSet(S), NEW Bad, Bad \subseteq SUBSET S, Bad # {}
  PROVE  \E s \in Bad : \A t \in SUBSET s : t # s => t \notin Bad
<1> DEFINE R == StrictSubsetOrdering(S)
<1>1. Bad \subseteq FiniteSubsetsOf(S)
  BY FS_FiniteSubsetsOfFinite
<1>2. IsWellFoundedOn(R, FiniteSubsetsOf(S))
  BY FS_StrictSubsetOrderingWellFounded
<1>3. PICK s \in Bad : \A t \in Bad : ~ (<<t, s>> \in R)
  <2> HIDE DEF R
  <2> QED  BY <1>1, <1>2, WFMin
<1>4. \A t \in SUBSET s : t # s => (t \in SUBSET S /\ s \in SUBSET S /\ <<t, s>> \in R)
  BY DEF StrictSubsetOrdering
<1> HIDE DEF R
<1>5. \A t \in SUBSET s : t # s => t \notin Bad
  BY <1>3, <1>4
<1> QED  BY <1>5

(* A finite set of integers has a least and a greatest member.             *)
LEMMA LeastOfFinite ==
  ASSUME NEW S, IsFiniteSet(S), S \subseteq Int, S # {}
  PROVE  \E m \in S : \A x \in S : m <= x
<1> DEFINE Bad == {s \in SUBSET S : s # {} /\ ~ \E m \in s : \A x \in s : m <= x}
<1> SUFFICES ASSUME Bad # {} PROVE FALSE
  OBVIOUS
<1>1. PICK s \in Bad : \A t \in SUBSET s : t # s => t \notin Bad
  <2>1. Bad \subseteq SUBSET S
    OBVIOUS
  <2> HIDE DEF Bad
  <2> QED  BY <2>1, MinimalSubset
<1>2. PICK y \in s : TRUE
  OBVIOUS
<1>3. s \ {y} # {}
  OBVIOUS
<1>4. s \ {y} \notin Bad
  <2>1. s \ {y} \in SUBSET s /\ s \ {y} # s
    OBVIOUS
  <2> HIDE DEF Bad
  <2> QED  BY <1>1, <2>1
<1>5. PICK m \in s \ {y} : \A x \in s \ {y} : m <= x
  BY <1>3, <1>4
<1>6. m \in Int /\ y \in Int
  OBVIOUS
<1> QED  BY <1>5, <1>6

LEMMA GreatestOfFinite ==
  ASSUME NEW S, IsFiniteSet(S), S \subseteq Int, S # {}
  PROVE  \E m \in S : \A x \in S : x <= m
<1> DEFINE Bad == {s \in SUBSET S : s # {} /\ ~ \E m \in s : \A x \in s : x <= m}
<1> SUFFICES ASSUME Bad # {} PROVE FALSE
  OBVIOUS
<1>1. PICK s \in Bad : \A t \in SUBSET s : t # s => t \notin Bad
  <2>1. Bad \subseteq SUBSET S
    OBVIOUS
  <2> HIDE DEF Bad
  <2> QED  BY <2>1, MinimalSubset
<1>2. PICK y \in s : TRUE
  OBVIOUS
<1>3. s \ {y} # {}
  OBVIOUS
<1>4. s \ {y} \notin Bad
  <2>1. s \ {y} \in SUBSET s /\ s \ {y} # s
    OBVIOUS
  <2> HIDE DEF Bad
  <2> QED  BY <1>1, <2>1
<1>5. PICK m \in s \ {y} : \A x \in s \ {y} : x <= m
  BY <1>3, <1>4
<1>6. m \in Int /\ y \in Int
  OBVIOUS
<1> QED  BY <1>5, <1>6

(* Min and Max of the community modules, defined by CHOOSE.                *)
LEMMA MinMaxFacts ==
  ASSUME NEW S, IsFiniteSet(S), S \subseteq Int, S # {}
  PROVE  /\ Min(S) \in S /\ \A x \in S : Min(S) <= x
         /\ Max(S) \in S /\ \A x \in S : x <= Max(S)
<1>1. \E m \in S : \A x \in S : m <= x
  BY LeastOfFinite
<1>2. \E m \in S : \A x \in S : m >= x
  <2>1. PICK m \in S : \A x \in S : x <= m
    BY GreatestOfFinite
  <2> QED  BY <2>1
<1>3. Min(S) \in S /\ \A x \in S : Min(S) <= x
  BY <1>1, Zenon DEF Min
<1>4. Max(S) \in S /\ \A x \in S : Max(S) >= x
  BY <1>2, Zenon DEF Max
<1> QED  BY <1>3, <1>4

(* Values over a finite set are finitely many.                             *)
LEMMA ImageFinite ==
  ASSUME NEW S, IsFiniteSet(S), NEW f
  PROVE  IsFiniteSet({f[x] : x \in S})
<1> DEFINE T == {f[x] : x \in S}
           g == [x \in S |-> f[x]]
<1>1. g \in Surjection(S, T)
  BY DEF Surjection
<1> HIDE DEF g, T
<1>2. IsFiniteSet(T)
  BY <1>1, FS_Surjection
<1> QED  BY <1>2 DEF T

(* Induction on the natural numbers, for a set.                            *)
LEMMA SetInduction ==
  ASSUME NEW P, 0 \in P, \A k \in P \intersect Nat : k + 1 \in P
  PROVE  Nat \subseteq P
<1> SUFFICES ASSUME NEW n \in Nat, n \notin P PROVE FALSE
  OBVIOUS
<1> DEFINE S == {j \in 0 .. n : j \notin P}
<1>1. IsFiniteSet(S) /\ S \subseteq Int /\ S # {}
  <2>1. IsFiniteSet(0 .. n)
    BY FS_Interval
  <2>2. n \in S
    OBVIOUS
  <2> QED  BY <2>1, <2>2, FS_Subset
<1>2. PICK k \in S : \A j \in S : k <= j
  <2> HIDE DEF S
  <2> QED  BY <1>1, LeastOfFinite
<1>3. k # 0 /\ k - 1 \in 0 .. n /\ ~ (k <= k - 1) /\ k - 1 \in Nat
  OBVIOUS
<1>4. k - 1 \in P
  BY <1>2, <1>3
<1>5. (k - 1) + 1 = k
  BY <1>3
<1> QED
  BY <1>3, <1>4, <1>5

(* A function on S can be iterated: what a recursive definition over the   *)
(* natural numbers needs to exist.                                         *)
Iterates(f, S, A, F) ==
  f \in [Nat -> S] /\ f[0] = A /\ \A k \in Nat : f[k + 1] = F[f[k]]

LEMMA Iteration ==
  ASSUME NEW S, NEW A \in S, NEW F, \A x \in S : F[x] \in S
  PROVE  \E f : Iterates(f, S, A, F)
<1> DEFINE Ok(k, g) == /\ g \in [0 .. k -> S] /\ g[0] = A
                       /\ \A j \in 0 .. k - 1 : g[j + 1] = F[g[j]]
           Pick(k) == CHOOSE g : Ok(k, g)
           f == [k \in Nat |-> Pick(k)[k]]
<1>1. \A k \in Nat : \E g : Ok(k, g)
  <2> DEFINE P == {k \in Nat : \E g : Ok(k, g)}
  <2>1. 0 \in P
    <3>1. Ok(0, [j \in 0 .. 0 |-> A])
      OBVIOUS
    <3> QED  BY <3>1
  <2>2. ASSUME NEW k \in P PROVE k + 1 \in P
    <3>1. PICK g : Ok(k, g)
      OBVIOUS
    <3> DEFINE h == [j \in 0 .. k + 1 |-> IF j = k + 1 THEN F[g[k]] ELSE g[j]]
    <3>2. k \in 0 .. k /\ g[k] \in S /\ F[g[k]] \in S
      BY <3>1
    <3>3. h \in [0 .. k + 1 -> S] /\ h[0] = A
      BY <3>1, <3>2
    <3>4. ASSUME NEW j \in 0 .. (k + 1) - 1 PROVE h[j + 1] = F[h[j]]
      <4>1. CASE j = k
        BY <4>1
      <4>2. CASE j # k
        <5>1. j \in 0 .. k - 1 /\ j \in 0 .. k + 1 /\ j + 1 \in 0 .. k + 1
              /\ j # k + 1 /\ j + 1 # k + 1
          BY <4>2
        <5> QED  BY <3>1, <5>1
      <4> QED  BY <4>1, <4>2
    <3>5. Ok(k + 1, h)
      BY <3>3, <3>4
    <3>6. \E q : Ok(k + 1, q)
      <4> HIDE DEF Ok, h
      <4> QED  BY <3>5
    <3> QED  BY <3>6
  <2>3. Nat \subseteq P
    <3> HIDE DEF P
    <3> QED  BY <2>1, <2>2, SetInduction
  <2> QED  BY <2>3
<1>2. ASSUME NEW k \in Nat, NEW g, NEW h, Ok(k, g),
             NEW l \in Nat, l >= k, Ok(l, h)
      PROVE  g[k] = h[k]
  <2> DEFINE P == {j \in Nat : j <= k => g[j] = h[j]}
  <2>1. 0 \in P
    BY <1>2
  <2>2. ASSUME NEW j \in P PROVE j + 1 \in P
    <3> SUFFICES ASSUME j + 1 <= k PROVE g[j + 1] = h[j + 1]
      OBVIOUS
    <3>1. j \in 0 .. k - 1 /\ j \in 0 .. l - 1 /\ g[j] = h[j]
      BY <1>2
    <3> QED  BY <1>2, <3>1
  <2>3. Nat \subseteq P
    <3> HIDE DEF P
    <3> QED  BY <2>1, <2>2, SetInduction
  <2> QED  BY <2>3
<1>3. \A k \in Nat : Ok(k, Pick(k))
  BY <1>1
<1>4. f \in [Nat -> S]
  <2> SUFFICES ASSUME NEW k \in Nat PROVE Pick(k)[k] \in S
    OBVIOUS
  <2>1. k \in 0 .. k
    OBVIOUS
  <2> QED  BY <1>3, <2>1
<1>5. f[0] = A
  BY <1>3
<1>6. ASSUME NEW k \in Nat PROVE f[k + 1] = F[f[k]]
  <2> DEFINE h == Pick(k + 1)
  <2>1. Ok(k + 1, h) /\ Ok(k, Pick(k))
    <3>1. k + 1 \in Nat
      OBVIOUS
    <3> HIDE DEF Ok, Pick
    <3> QED  BY <1>3, <3>1
  <2>2. h[k] = Pick(k)[k]
    <3>1. k + 1 \in Nat /\ k + 1 >= k
      OBVIOUS
    <3> HIDE DEF Ok, h, Pick
    <3> QED  BY <1>2, <2>1, <3>1
  <2>3. k \in 0 .. (k + 1) - 1 /\ k + 1 \in Nat
    OBVIOUS
  <2>4. h[k + 1] = F[h[k]]
    BY <2>1, <2>3
  <2> QED  BY <2>2, <2>3, <2>4
<1>7. Iterates(f, S, A, F)
  <2> HIDE DEF f
  <2> QED  BY <1>4, <1>5, <1>6 DEF Iterates
<1> HIDE DEF f
<1> QED
  BY <1>7

-----------------------------------------------------------------------------
choice(s) == CHOOSE x \in s : TRUE

SumOver(f, S) == MapThenSumSet(LAMBDA x : f[x], S)

(* g holds the sums of f over the subsets of S.                            *)
Sums(f, g, S) ==
  g = [s \in SUBSET S |-> IF s = {} THEN 0 ELSE f[choice(s)] + g[s \ {choice(s)}]]

(* f has integers on S.                                                    *)
Integral(f, S) == \A x \in S : f[x] \in Int

(* choice picks a member, and the rest is smaller.                         *)
LEMMA ChoiceFacts ==
  ASSUME NEW s, s # {}
  PROVE  /\ choice(s) \in s /\ s \ {choice(s)} \in SUBSET s /\ s \ {choice(s)} # s
BY Zenon DEF choice

(* Two functions that hold the sums of f agree.                            *)
LEMMA SumsUnique ==
  ASSUME NEW S, IsFiniteSet(S), NEW f, NEW g, NEW h, NEW T, T \in SUBSET S,
         Sums(f, g, S), Sums(f, h, T)
  PROVE  \A s \in SUBSET T : g[s] = h[s]
<1> DEFINE Bad == {s \in SUBSET T : g[s] # h[s]}
<1> SUFFICES ASSUME Bad # {} PROVE FALSE
  OBVIOUS
<1>1. IsFiniteSet(T) /\ Bad \subseteq SUBSET T
  BY FS_Subset
<1>2. PICK s \in Bad : \A t \in SUBSET s : t # s => t \notin Bad
  <2> HIDE DEF Bad
  <2> QED  BY <1>1, MinimalSubset
<1>3. s \in SUBSET T /\ s \in SUBSET S /\ g[s] # h[s]
  OBVIOUS
<1> DEFINE r == s \ {choice(s)}
<1>4. CASE s = {}
  BY <1>3, <1>4 DEF Sums
<1>5. CASE s # {}
  <2>1. r \in SUBSET s /\ r # s
    BY <1>5, ChoiceFacts
  <2>2. r \in SUBSET T /\ r \notin Bad
    BY <1>2, <1>3, <2>1
  <2>3. g[r] = h[r]
    BY <2>2
  <2>4. g[s] = f[choice(s)] + g[r] /\ h[s] = f[choice(s)] + h[r]
    BY <1>3, <1>5 DEF Sums
  <2> QED  BY <1>3, <2>3, <2>4
<1> QED  BY <1>4, <1>5

(* Every finite set has such a function.                                   *)
LEMMA SumsExist ==
  ASSUME NEW S, IsFiniteSet(S), NEW f
  PROVE  \E g : Sums(f, g, S)
<1> DEFINE Bad == {s \in SUBSET S : ~ \E g : Sums(f, g, s)}
<1> SUFFICES ASSUME Bad # {} PROVE FALSE
  OBVIOUS
<1>1. Bad \subseteq SUBSET S
  OBVIOUS
<1>2. PICK s \in Bad : \A t \in SUBSET s : t # s => t \notin Bad
  <2> HIDE DEF Bad
  <2> QED  BY <1>1, MinimalSubset
<1>3. s \in SUBSET S /\ IsFiniteSet(s) /\ ~ \E g : Sums(f, g, s)
  BY FS_Subset
<1> DEFINE G(t) == CHOOSE g : Sums(f, g, t)
           sum(t) == IF t = {} THEN 0 ELSE f[choice(t)] + G(t \ {choice(t)})[t \ {choice(t)}]
           h == [t \in SUBSET s |-> sum(t)]
<1>4. \A t \in SUBSET s : t # s => Sums(f, G(t), t)
  <2> SUFFICES ASSUME NEW t \in SUBSET s, t # s PROVE \E g : Sums(f, g, t)
    OBVIOUS
  <2> QED  BY <1>2, <1>3
<1>5. \A t \in SUBSET s : t # s => h[t] = G(t)[t]
  <2> SUFFICES ASSUME NEW t \in SUBSET s, t # s PROVE sum(t) = G(t)[t]
    OBVIOUS
  <2> DEFINE r == t \ {choice(t)}
  <2>1. Sums(f, G(t), t)
    BY <1>4
  <2> HIDE DEF G
  <2>2. CASE t = {}
    BY <2>1, <2>2 DEF Sums
  <2>3. CASE t # {}
    <3>1. r \in SUBSET t /\ r # t
      BY <2>3, ChoiceFacts
    <3>2. r \in SUBSET s /\ r # s /\ IsFiniteSet(t)
      BY <1>3, <3>1, FS_Subset
    <3>3. Sums(f, G(r), r)
      BY <1>4, <3>2
    <3>4. G(t)[r] = G(r)[r]
      BY <2>1, <3>1, <3>2, <3>3, SumsUnique
    <3>5. G(t)[t] = f[choice(t)] + G(t)[r]
      BY <2>1, <2>3 DEF Sums
    <3> QED  BY <2>3, <3>4, <3>5
  <2> QED  BY <2>2, <2>3
<1>6. Sums(f, h, s)
  <2>1. ASSUME NEW t \in SUBSET s
        PROVE  h[t] = IF t = {} THEN 0 ELSE f[choice(t)] + h[t \ {choice(t)}]
    <3> HIDE DEF G
    <3>1. CASE t = {}
      BY <3>1
    <3>2. CASE t # {}
      <4>1. t \ {choice(t)} \in SUBSET s /\ t \ {choice(t)} # s
        BY <3>2, ChoiceFacts
      <4>2. h[t \ {choice(t)}] = G(t \ {choice(t)})[t \ {choice(t)}]
        <5> HIDE DEF h
        <5> QED  BY <4>1, <1>5
      <4>3. h[t] = sum(t)
        OBVIOUS
      <4> HIDE DEF h
      <4> QED  BY <3>2, <4>2, <4>3
    <3> QED  BY <3>1, <3>2
  <2> DEFINE k == [t \in SUBSET s |-> IF t = {} THEN 0 ELSE f[choice(t)] + h[t \ {choice(t)}]]
  <2>2. h = k
    <3>1. ASSUME NEW t \in SUBSET s
          PROVE  h[t] = k[t]
      <4> HIDE DEF h
      <4>1. k[t] = IF t = {} THEN 0 ELSE f[choice(t)] + h[t \ {choice(t)}]
        OBVIOUS
      <4> HIDE DEF k
      <4> QED  BY <2>1, <4>1
    <3>2. h = [t \in SUBSET s |-> h[t]]
      OBVIOUS
    <3>3. k = [t \in SUBSET s |-> k[t]]
      OBVIOUS
    <3> HIDE DEF h, k
    <3> QED  BY <3>1, <3>2, <3>3
  <2> QED  BY <2>2 DEF Sums
<1> QED  BY <1>3, <1>6

(* What the sum over S is, and its equations.                              *)
LEMMA Unfold ==
  ASSUME NEW S, IsFiniteSet(S), NEW f
  PROVE  \E g : Sums(f, g, S) /\ SumOver(f, S) = g[S]
<1> DEFINE h == CHOOSE g : g = [s \in SUBSET S |-> IF s = {} THEN 0 ELSE f[CHOOSE x \in s : TRUE] + g[s \ {CHOOSE x \in s : TRUE}]]
<1>1. SumOver(f, S) = h[S]
  BY ZenonT(30) DEF SumOver, MapThenSumSet, MapThenFoldSet
<1>2. \E g : g = [s \in SUBSET S |-> IF s = {} THEN 0 ELSE f[CHOOSE x \in s : TRUE] + g[s \ {CHOOSE x \in s : TRUE}]]
  <2>1. \E g : Sums(f, g, S)
    BY SumsExist
  <2> QED  BY <2>1, Zenon DEF Sums, choice
<1>3. h = [s \in SUBSET S |-> IF s = {} THEN 0 ELSE f[CHOOSE x \in s : TRUE] + h[s \ {CHOOSE x \in s : TRUE}]]
  BY <1>2, Zenon
<1>4. Sums(f, h, S)
  <2> HIDE DEF h
  <2> QED  BY <1>3, Zenon DEF Sums, choice
<1> QED  BY <1>1, <1>4

(* The empty sum is 0.                                                     *)
LEMMA SumEmpty ==
  ASSUME NEW f
  PROVE  SumOver(f, {}) = 0
<1>1. IsFiniteSet({})
  BY FS_EmptySet
<1>2. PICK g : Sums(f, g, {}) /\ SumOver(f, {}) = g[{}]
  BY <1>1, Unfold
<1> QED  BY <1>2 DEF Sums

(* One step of the sum, at the element that CHOOSE takes first.            *)
LEMMA SumStep ==
  ASSUME NEW S, IsFiniteSet(S), NEW f, NEW s \in SUBSET S, s # {}
  PROVE  SumOver(f, s) = f[choice(s)] + SumOver(f, s \ {choice(s)})
<1> DEFINE r == s \ {choice(s)}
<1>1. IsFiniteSet(s) /\ r \in SUBSET s
  BY FS_Subset
<1>2. IsFiniteSet(r)
  BY <1>1, FS_Subset
<1>3. PICK g : Sums(f, g, s) /\ SumOver(f, s) = g[s]
  BY <1>1, Unfold
<1> HIDE DEF r
<1>4. PICK h : Sums(f, h, r) /\ SumOver(f, r) = h[r]
  BY <1>2, Unfold
<1>5. g[r] = h[r]
  BY <1>1, <1>3, <1>4, SumsUnique
<1>6. g[s] = f[choice(s)] + g[r]
  BY <1>3 DEF Sums, r
<1> QED  BY <1>3, <1>4, <1>5, <1>6 DEF r

(* A sum of integers is an integer.                                        *)
LEMMA SumType ==
  ASSUME NEW S, IsFiniteSet(S), NEW f, Integral(f, S)
  PROVE  \A s \in SUBSET S : SumOver(f, s) \in Int
<1> DEFINE Bad == {s \in SUBSET S : SumOver(f, s) \notin Int}
<1> SUFFICES ASSUME Bad # {} PROVE FALSE
  OBVIOUS
<1>1. PICK s \in Bad : \A t \in SUBSET s : t # s => t \notin Bad
  <2>1. Bad \subseteq SUBSET S
    OBVIOUS
  <2> HIDE DEF Bad
  <2> QED  BY <2>1, MinimalSubset
<1>2. s # {}
  BY SumEmpty
<1> DEFINE r == s \ {choice(s)}
<1>3. choice(s) \in S /\ r \in SUBSET s /\ r # s
  BY <1>2, ChoiceFacts
<1>4. SumOver(f, r) \in Int
  BY <1>1, <1>3
<1>5. SumOver(f, s) = f[choice(s)] + SumOver(f, r)
  BY <1>2, SumStep
<1> HIDE DEF r
<1>6. SumOver(f, s) \in Int
  BY <1>3, <1>4, <1>5 DEF Integral
<1> QED  BY <1>6

(* The order in which CHOOSE takes the elements does not matter.           *)
LEMMA SumRemove ==
  ASSUME NEW S, IsFiniteSet(S), NEW f, Integral(f, S)
  PROVE  \A s \in SUBSET S : \A x \in s : SumOver(f, s) = f[x] + SumOver(f, s \ {x})
<1> DEFINE Bad == {s \in SUBSET S : \E x \in s : SumOver(f, s) # f[x] + SumOver(f, s \ {x})}
<1> SUFFICES ASSUME Bad # {} PROVE FALSE
  OBVIOUS
<1>1. PICK s \in Bad : \A t \in SUBSET s : t # s => t \notin Bad
  <2>1. Bad \subseteq SUBSET S
    OBVIOUS
  <2> HIDE DEF Bad
  <2> QED  BY <2>1, MinimalSubset
<1>2. PICK x \in s : SumOver(f, s) # f[x] + SumOver(f, s \ {x})
  OBVIOUS
<1> DEFINE c == choice(s)
           r == s \ {c}
           q == r \ {x}
<1>3. s \in SUBSET S /\ s # {} /\ c \in s /\ r \in SUBSET s /\ r # s
  BY <1>2, ChoiceFacts
<1>4. SumOver(f, s) = f[c] + SumOver(f, r)
  BY <1>3, SumStep
<1>5. c # x
  BY <1>2, <1>4
<1>6. x \in r /\ q = (s \ {x}) \ {c} /\ c \in s \ {x}
  BY <1>2, <1>3, <1>5
<1>7. SumOver(f, r) = f[x] + SumOver(f, q)
  BY <1>1, <1>3, <1>6
<1>8. SumOver(f, s \ {x}) = f[c] + SumOver(f, q)
  <2>1. s \ {x} \in SUBSET s /\ s \ {x} # s /\ s \ {x} \in SUBSET S
    BY <1>2, <1>3
  <2>2. s \ {x} \notin Bad
    BY <1>1, <2>1
  <2> HIDE DEF c, r, q
  <2> QED  BY <1>6, <2>1, <2>2
<1>9. f[c] \in Int /\ f[x] \in Int /\ SumOver(f, q) \in Int
  <2>1. c \in S /\ x \in S /\ q \in SUBSET S
    BY <1>2, <1>3
  <2> HIDE DEF c, r, q
  <2> QED  BY <2>1, SumType DEF Integral
<1> HIDE DEF c, r, q
<1> QED  BY <1>2, <1>4, <1>7, <1>8, <1>9

(* Sums grow with their terms.                                             *)
LEMMA SumMonotone ==
  ASSUME NEW S, IsFiniteSet(S), NEW f, NEW g, Integral(f, S), Integral(g, S),
         \A x \in S : f[x] <= g[x]
  PROVE  \A s \in SUBSET S : SumOver(f, s) <= SumOver(g, s)
<1> DEFINE Bad == {s \in SUBSET S : ~ (SumOver(f, s) <= SumOver(g, s))}
<1> SUFFICES ASSUME Bad # {} PROVE FALSE
  OBVIOUS
<1>1. PICK s \in Bad : \A t \in SUBSET s : t # s => t \notin Bad
  <2>1. Bad \subseteq SUBSET S
    OBVIOUS
  <2> HIDE DEF Bad
  <2> QED  BY <2>1, MinimalSubset
<1>2. s # {}
  BY SumEmpty
<1> DEFINE c == choice(s)
           r == s \ {c}
<1>3. c \in S /\ c \in s /\ r \in SUBSET s /\ r # s /\ r \in SUBSET S
  BY <1>2, ChoiceFacts
<1>4. SumOver(f, r) <= SumOver(g, r)
  BY <1>1, <1>3
<1>5. /\ SumOver(f, s) = f[c] + SumOver(f, r)
      /\ SumOver(g, s) = g[c] + SumOver(g, r)
  BY <1>2, SumStep
<1> HIDE DEF c, r
<1>6. /\ f[c] \in Int /\ g[c] \in Int /\ f[c] <= g[c]
      /\ SumOver(f, r) \in Int /\ SumOver(g, r) \in Int
  BY <1>3, SumType DEF Integral
<1>7. SumOver(f, s) <= SumOver(g, s)
  BY <1>4, <1>5, <1>6
<1> QED  BY <1>7

(* A sum depends on the values over its set alone.                         *)
LEMMA SumEqual ==
  ASSUME NEW S, IsFiniteSet(S), NEW f, NEW g, Integral(f, S),
         \A x \in S : f[x] = g[x]
  PROVE  SumOver(f, S) = SumOver(g, S)
<1>1. Integral(g, S) /\ \A x \in S : f[x] <= g[x] /\ g[x] <= f[x]
  BY DEF Integral
<1>2. SumOver(f, S) <= SumOver(g, S) /\ SumOver(g, S) <= SumOver(f, S)
  BY <1>1, SumMonotone
<1>3. SumOver(f, S) \in Int /\ SumOver(g, S) \in Int
  BY <1>1, SumType
<1> QED  BY <1>2, <1>3

(* Sums that agree, of terms one of which is never the greater one, have   *)
(* the same terms.                                                         *)
LEMMA SumTight ==
  ASSUME NEW S, IsFiniteSet(S), NEW f, NEW g, Integral(f, S), Integral(g, S),
         \A x \in S : f[x] <= g[x], SumOver(f, S) = SumOver(g, S),
         NEW x \in S
  PROVE  f[x] = g[x]
<1> DEFINE r == S \ {x}
<1>1. r \in SUBSET S
  OBVIOUS
<1>2. SumOver(f, r) <= SumOver(g, r)
  BY <1>1, SumMonotone
<1>3. /\ SumOver(f, S) = f[x] + SumOver(f, r)
      /\ SumOver(g, S) = g[x] + SumOver(g, r)
  BY SumRemove
<1>4. /\ SumOver(f, r) \in Int /\ SumOver(g, r) \in Int
      /\ f[x] \in Int /\ g[x] \in Int /\ f[x] <= g[x]
  BY <1>1, SumType DEF Integral
<1> HIDE DEF r
<1>5. f[x] + SumOver(f, r) = g[x] + SumOver(g, r)
  BY <1>3
<1> QED  BY <1>2, <1>4, <1>5

(* What changes in one place changes the sum by as much.                   *)
LEMMA SumChange ==
  ASSUME NEW S, IsFiniteSet(S), NEW f, NEW g, Integral(f, S), Integral(g, S),
         NEW x \in S, \A y \in S \ {x} : f[y] = g[y]
  PROVE  SumOver(g, S) = SumOver(f, S) + g[x] - f[x]
<1>1. IsFiniteSet(S \ {x}) /\ S \ {x} \in SUBSET S
  BY FS_Subset
<1>2. Integral(f, S \ {x})
  BY DEF Integral
<1>3. SumOver(f, S \ {x}) = SumOver(g, S \ {x})
  BY <1>1, <1>2, SumEqual
<1>4. /\ SumOver(f, S) = f[x] + SumOver(f, S \ {x})
      /\ SumOver(g, S) = g[x] + SumOver(g, S \ {x})
  BY SumRemove
<1>5. SumOver(f, S \ {x}) \in Int /\ f[x] \in Int /\ g[x] \in Int
  BY <1>1, SumType DEF Integral
<1> QED  BY <1>3, <1>4, <1>5

(* A sum of zeros is 0.                                                    *)
LEMMA SumZero ==
  ASSUME NEW S, IsFiniteSet(S), NEW f, \A x \in S : f[x] = 0
  PROVE  SumOver(f, S) = 0
<1> DEFINE Bad == {s \in SUBSET S : SumOver(f, s) # 0}
<1> SUFFICES ASSUME Bad # {} PROVE FALSE
  OBVIOUS
<1>1. PICK s \in Bad : \A t \in SUBSET s : t # s => t \notin Bad
  <2>1. Bad \subseteq SUBSET S
    OBVIOUS
  <2> HIDE DEF Bad
  <2> QED  BY <2>1, MinimalSubset
<1>2. s # {}
  BY SumEmpty
<1>3. choice(s) \in S /\ s \ {choice(s)} \in SUBSET s /\ s \ {choice(s)} # s
  BY <1>2, ChoiceFacts
<1>4. SumOver(f, s \ {choice(s)}) = 0
  BY <1>1, <1>3
<1>5. SumOver(f, s) = f[choice(s)] + SumOver(f, s \ {choice(s)})
  BY <1>2, SumStep
<1>6. SumOver(f, s) = 0
  BY <1>3, <1>4, <1>5
<1> QED  BY <1>6

(* Terms of zero do not count.                                             *)
LEMMA SumSupport ==
  ASSUME NEW S, IsFiniteSet(S), NEW T \in SUBSET S, NEW f, Integral(f, S), NEW g,
         \A x \in T : g[x] = f[x], \A x \in S \ T : g[x] = 0
  PROVE  SumOver(f, T) = SumOver(g, S)
<1> DEFINE Bad == {s \in SUBSET S : SumOver(f, s \cap T) # SumOver(g, s)}
<1>1. S \cap T = T
  OBVIOUS
<1> SUFFICES ASSUME Bad # {} PROVE FALSE
  BY <1>1
<1>2. PICK s \in Bad : \A t \in SUBSET s : t # s => t \notin Bad
  <2>1. Bad \subseteq SUBSET S
    OBVIOUS
  <2> HIDE DEF Bad
  <2> QED  BY <2>1, MinimalSubset
<1>3. s # {}
  <2>1. {} \cap T = {} /\ SumOver(f, {}) = SumOver(g, {})
    BY SumEmpty
  <2> QED  BY <2>1
<1> DEFINE x == choice(s)
           r == s \ {x}
<1>4. x \in s /\ x \in S /\ s \in SUBSET S /\ r \in SUBSET s /\ r # s /\ r \in SUBSET S
  BY <1>3, ChoiceFacts
<1>5. SumOver(f, r \cap T) = SumOver(g, r)
  BY <1>2, <1>4
<1>6. SumOver(g, s) = g[x] + SumOver(g, r)
  BY <1>3, <1>4, SumStep
<1>7. SumOver(f, r \cap T) \in Int /\ f[x] \in Int
  <2>1. r \cap T \in SUBSET S
    BY <1>4
  <2> QED  BY <1>4, <2>1, SumType DEF Integral
<1>8. SumOver(f, s \cap T) = SumOver(g, s)
  <2>1. CASE x \in T
    <3>1. s \cap T \in SUBSET S /\ x \in s \cap T /\ (s \cap T) \ {x} = r \cap T
      BY <1>4, <2>1
    <3> HIDE DEF x, r
    <3>2. SumOver(f, s \cap T) = f[x] + SumOver(f, r \cap T)
      BY <3>1, SumRemove
    <3>3. g[x] = f[x]
      BY <2>1
    <3> QED  BY <1>5, <1>6, <3>2, <3>3
  <2>2. CASE x \notin T
    <3>1. s \cap T = r \cap T /\ g[x] = 0
      BY <1>4, <2>2
    <3> HIDE DEF x, r
    <3>2. SumOver(g, r) \in Int
      BY <1>5, <1>7
    <3>3. SumOver(g, s) = SumOver(g, r)
      BY <1>6, <3>1, <3>2
    <3> QED  BY <1>5, <3>1, <3>3
  <2> QED  BY <2>1, <2>2
<1> QED  BY <1>8

(* Sums are added term by term.                                            *)
LEMMA SumAdd ==
  ASSUME NEW S, IsFiniteSet(S), NEW f, NEW g, NEW h, Integral(f, S), Integral(g, S),
         \A x \in S : h[x] = f[x] + g[x]
  PROVE  SumOver(h, S) = SumOver(f, S) + SumOver(g, S)
<1> DEFINE Bad == {s \in SUBSET S : SumOver(h, s) # SumOver(f, s) + SumOver(g, s)}
<1> SUFFICES ASSUME Bad # {} PROVE FALSE
  OBVIOUS
<1>1. PICK s \in Bad : \A t \in SUBSET s : t # s => t \notin Bad
  <2>1. Bad \subseteq SUBSET S
    OBVIOUS
  <2> HIDE DEF Bad
  <2> QED  BY <2>1, MinimalSubset
<1>2. s # {}
  BY SumEmpty
<1> DEFINE c == choice(s)
           r == s \ {c}
<1>3. c \in S /\ c \in s /\ r \in SUBSET s /\ r # s /\ r \in SUBSET S
  BY <1>2, ChoiceFacts
<1>4. SumOver(h, r) = SumOver(f, r) + SumOver(g, r)
  BY <1>1, <1>3
<1>5. /\ SumOver(f, s) = f[c] + SumOver(f, r)
      /\ SumOver(g, s) = g[c] + SumOver(g, r)
      /\ SumOver(h, s) = h[c] + SumOver(h, r)
  BY <1>2, SumStep
<1> HIDE DEF c, r
<1>6. /\ f[c] \in Int /\ g[c] \in Int /\ h[c] = f[c] + g[c]
      /\ SumOver(f, r) \in Int /\ SumOver(g, r) \in Int
  BY <1>3, SumType DEF Integral
<1>7. SumOver(h, s) = SumOver(f, s) + SumOver(g, s)
  BY <1>4, <1>5, <1>6
<1> QED  BY <1>7

(* A common factor may be taken out.                                       *)
LEMMA SumScale ==
  ASSUME NEW S, IsFiniteSet(S), NEW f, NEW h, NEW k \in Int, Integral(f, S),
         \A x \in S : h[x] = k * f[x]
  PROVE  SumOver(h, S) = k * SumOver(f, S)
<1> DEFINE Bad == {s \in SUBSET S : SumOver(h, s) # k * SumOver(f, s)}
<1> SUFFICES ASSUME Bad # {} PROVE FALSE
  OBVIOUS
<1>1. PICK s \in Bad : \A t \in SUBSET s : t # s => t \notin Bad
  <2>1. Bad \subseteq SUBSET S
    OBVIOUS
  <2> HIDE DEF Bad
  <2> QED  BY <2>1, MinimalSubset
<1>2. s # {}
  <2>1. SumOver(f, {}) = 0 /\ SumOver(h, {}) = 0
    BY SumEmpty
  <2> QED  BY <2>1
<1> DEFINE c == choice(s)
           r == s \ {c}
<1>3. c \in S /\ c \in s /\ r \in SUBSET s /\ r # s /\ r \in SUBSET S
  BY <1>2, ChoiceFacts
<1>4. SumOver(h, r) = k * SumOver(f, r)
  BY <1>1, <1>3
<1>5. /\ SumOver(f, s) = f[c] + SumOver(f, r)
      /\ SumOver(h, s) = h[c] + SumOver(h, r)
  BY <1>2, SumStep
<1> DEFINE y == f[c]
           z == SumOver(f, r)
<1>6. y \in Int /\ h[c] = k * y /\ z \in Int
  BY <1>3, SumType DEF Integral
<1>7. SumOver(h, s) = k * y + k * z /\ SumOver(f, s) = y + z
  BY <1>4, <1>5, <1>6
<1> HIDE DEF c, r, y, z
<1>8. k * (y + z) = k * y + k * z
  BY <1>6
<1>9. SumOver(h, s) = k * SumOver(f, s)
  BY <1>7, <1>8
<1> QED  BY <1>9

(* The terms may be numbered in another way.                               *)
LEMMA SumReindex ==
  ASSUME NEW S, IsFiniteSet(S), NEW T, IsFiniteSet(T), NEW f, Integral(f, S), NEW g,
         NEW h \in [T -> S], \A x, y \in T : h[x] = h[y] => x = y,
         \A y \in S : \E x \in T : h[x] = y,
         \A x \in T : g[x] = f[h[x]]
  PROVE  SumOver(g, T) = SumOver(f, S)
<1> DEFINE image(t) == {h[x] : x \in t}
           Bad == {t \in SUBSET T : SumOver(g, t) # SumOver(f, image(t))}
<1>1. image(T) = S
  OBVIOUS
<1> SUFFICES ASSUME Bad # {} PROVE FALSE
  BY <1>1
<1>2. PICK s \in Bad : \A t \in SUBSET s : t # s => t \notin Bad
  <2>1. Bad \subseteq SUBSET T
    OBVIOUS
  <2> HIDE DEF Bad
  <2> QED  BY <2>1, MinimalSubset
<1>3. s # {}
  <2>1. image({}) = {}
    OBVIOUS
  <2> QED  BY <2>1, SumEmpty
<1> DEFINE c == choice(s)
           r == s \ {c}
<1>4. c \in T /\ c \in s /\ r \in SUBSET s /\ r # s /\ r \in SUBSET T /\ s \in SUBSET T
  BY <1>3, ChoiceFacts
<1>5. SumOver(g, r) = SumOver(f, image(r))
  BY <1>2, <1>4
<1>6. SumOver(g, s) = g[c] + SumOver(g, r)
  BY <1>3, SumStep
<1>7. image(s) \in SUBSET S /\ h[c] \in image(s) /\ image(s) \ {h[c]} = image(r)
  BY <1>4
<1> HIDE DEF image, c, r
<1>8. SumOver(f, image(s)) = f[h[c]] + SumOver(f, image(r))
  BY <1>7, SumRemove
<1>9. SumOver(g, s) = SumOver(f, image(s))
  BY <1>4, <1>5, <1>6, <1>8
<1> QED  BY <1>9

(* The sum over a set is that over two parts of it.                        *)
LEMMA SumSplit ==
  ASSUME NEW S, IsFiniteSet(S), NEW f, Integral(f, S), NEW T \in SUBSET S
  PROVE  SumOver(f, S) = SumOver(f, T) + SumOver(f, S \ T)
<1> DEFINE g == [x \in S |-> IF x \in T THEN f[x] ELSE 0]
           h == [x \in S |-> IF x \in T THEN 0 ELSE f[x]]
<1>1. Integral(g, S) /\ Integral(h, S) /\ \A x \in S : f[x] = g[x] + h[x]
  BY DEF Integral
<1>2. /\ \A x \in T : g[x] = f[x]
      /\ \A x \in S \ T : g[x] = 0
      /\ \A x \in S \ T : h[x] = f[x]
      /\ \A x \in S \ (S \ T) : h[x] = 0
  OBVIOUS
<1> HIDE DEF g, h
<1>3. SumOver(f, S) = SumOver(g, S) + SumOver(h, S)
  BY <1>1, SumAdd
<1>4. SumOver(f, T) = SumOver(g, S)
  BY <1>2, SumSupport
<1>5. S \ T \in SUBSET S
  OBVIOUS
<1>6. SumOver(f, S \ T) = SumOver(h, S)
  BY <1>2, <1>5, SumSupport
<1> QED  BY <1>3, <1>4, <1>6

(* The terms may be taken together by a key.                               *)
LEMMA SumByKey ==
  ASSUME NEW S, IsFiniteSet(S), NEW K, IsFiniteSet(K), NEW f, Integral(f, S),
         NEW key \in [S -> K]
  PROVE  SumOver(f, S) = SumOver([k \in K |-> SumOver(f, {x \in S : key[x] = k})], K)
<1> DEFINE by(s) == [k \in K |-> SumOver(f, {x \in s : key[x] = k})]
           Bad == {s \in SUBSET S : SumOver(f, s) # SumOver(by(s), K)}
<1> SUFFICES ASSUME Bad # {} PROVE FALSE
  OBVIOUS
<1>1. PICK s \in Bad : \A t \in SUBSET s : t # s => t \notin Bad
  <2>1. Bad \subseteq SUBSET S
    OBVIOUS
  <2> HIDE DEF Bad
  <2> QED  BY <2>1, MinimalSubset
<1>2. s # {}
  <2>1. SUFFICES ASSUME s = {} PROVE FALSE
    OBVIOUS
  <2>2. \A k \in K : {x \in {} : key[x] = k} = {}
    OBVIOUS
  <2>3. \A k \in K : by({})[k] = 0
    BY <2>2, SumEmpty
  <2>4. SumOver(f, {}) = 0 /\ SumOver(by({}), K) = 0
    <3> HIDE DEF by
    <3> QED  BY <2>3, SumEmpty, SumZero
  <2>5. SumOver(f, s) # SumOver(by(s), K)
    BY <1>1
  <2> HIDE DEF by
  <2> QED  BY <2>1, <2>4, <2>5
<1> DEFINE c == choice(s)
           r == s \ {c}
<1>3. c \in S /\ c \in s /\ r \in SUBSET s /\ r # s /\ r \in SUBSET S /\ s \in SUBSET S
  BY <1>2, ChoiceFacts
<1>4. SumOver(f, r) = SumOver(by(r), K)
  BY <1>1, <1>3
<1>5. SumOver(f, s) = f[c] + SumOver(f, r)
  BY <1>2, SumStep
<1> HIDE DEF c
<1>6. key[c] \in K /\ f[c] \in Int
  BY <1>3 DEF Integral
<1>7. \A t \in SUBSET S : Integral(by(t), K)
  <2> SUFFICES ASSUME NEW t \in SUBSET S, NEW k \in K PROVE SumOver(f, {x \in t : key[x] = k}) \in Int
    BY DEF Integral
  <2>1. {x \in t : key[x] = k} \in SUBSET S
    OBVIOUS
  <2> QED  BY <2>1, SumType
<1>8. \A k \in K \ {key[c]} : by(r)[k] = by(s)[k]
  <2> SUFFICES ASSUME NEW k \in K \ {key[c]}
               PROVE  {x \in r : key[x] = k} = {x \in s : key[x] = k}
    OBVIOUS
  <2> QED  OBVIOUS
<1>9. by(s)[key[c]] = f[c] + by(r)[key[c]]
  <2> DEFINE Q(t) == {x \in t : key[x] = key[c]}
  <2>1. Q(s) \in SUBSET S /\ c \in Q(s) /\ Q(s) \ {c} = Q(r)
    BY <1>3
  <2>2. SumOver(f, Q(s)) = f[c] + SumOver(f, Q(r))
    <3> HIDE DEF Q, r
    <3> QED  BY <2>1, SumRemove
  <2> QED  BY <1>6, <2>2
<1> HIDE DEF by, r
<1>10. SumOver(by(s), K) = SumOver(by(r), K) + by(s)[key[c]] - by(r)[key[c]]
  BY <1>3, <1>6, <1>7, <1>8, SumChange
<1>11. SumOver(by(r), K) \in Int /\ by(r)[key[c]] \in Int
  BY <1>3, <1>6, <1>7, SumType DEF Integral
<1>12. SumOver(f, s) = SumOver(by(s), K)
  BY <1>4, <1>5, <1>6, <1>9, <1>10, <1>11
<1>13. SumOver(f, s) # SumOver(by(s), K)
  BY <1>1 DEF by
<1> QED  BY <1>12, <1>13

(* Members of an interval from 0 are natural numbers, whatever bounds it.  *)
LEMMA IntervalNat == ASSUME NEW m, NEW x \in 0 .. m PROVE x \in Nat
OBVIOUS

(* Where no term is negative and one is positive, so is the sum.           *)
LEMMA SumPositive ==
  ASSUME NEW S, IsFiniteSet(S), NEW f, Integral(f, S), \A x \in S : f[x] >= 0,
         NEW y \in S, f[y] > 0
  PROVE  SumOver(f, S) > 0
<1> DEFINE zero == [x \in S |-> 0]
<1>1. Integral(zero, S) /\ \A x \in S : zero[x] = 0 /\ zero[x] <= f[x]
  BY DEF Integral
<1>2. zero[y] # f[y]
  OBVIOUS
<1> HIDE DEF zero
<1>3. SumOver(zero, S) = 0 /\ SumOver(zero, S) <= SumOver(f, S)
  BY <1>1, SumZero, SumMonotone
<1>4. SumOver(f, S) # SumOver(zero, S)
  BY <1>1, <1>2, SumTight
<1>5. SumOver(f, S) \in Int
  BY SumType
<1> QED  BY <1>3, <1>4, <1>5

(* A sum of ones counts.                                                   *)
LEMMA SumCounts ==
  ASSUME NEW S, IsFiniteSet(S), NEW T \in SUBSET S, NEW v,
         \A x \in T : v[x] = 1, \A x \in S \ T : v[x] = 0
  PROVE  SumOver(v, S) = Cardinality(T)
<1> DEFINE Bad == {s \in SUBSET T : SumOver(v, s) # Cardinality(s)}
<1>1. IsFiniteSet(T) /\ IsFiniteSet(S \ T) /\ Integral(v, S) /\ Integral(v, T)
  BY FS_Subset DEF Integral
<1>2. SumOver(v, T) = Cardinality(T)
  <2> SUFFICES ASSUME Bad # {} PROVE FALSE
    OBVIOUS
  <2>1. Bad \subseteq SUBSET T
    OBVIOUS
  <2>2. PICK s \in Bad : \A t \in SUBSET s : t # s => t \notin Bad
    <3> HIDE DEF Bad
    <3> QED  BY <1>1, <2>1, MinimalSubset
  <2>3. s # {}
    BY SumEmpty, FS_EmptySet
  <2>4. PICK x \in s : TRUE
    BY <2>3
  <2> DEFINE r == s \ {x}
  <2>5. SumOver(v, r) = Cardinality(r)
    <3>1. r \in SUBSET s /\ r # s /\ r \in SUBSET T
      OBVIOUS
    <3> HIDE DEF r
    <3> QED  BY <2>2, <3>1
  <2>6. SumOver(v, s) = v[x] + SumOver(v, r) /\ v[x] = 1
    BY <1>1, SumRemove
  <2>7. IsFiniteSet(s) /\ Cardinality(r) = Cardinality(s) - 1 /\ Cardinality(s) \in Nat
    BY <1>1, FS_Subset, FS_RemoveElement, FS_CardinalityType
  <2> HIDE DEF r
  <2>8. SumOver(v, s) = Cardinality(s)
    BY <2>5, <2>6, <2>7
  <2> QED  BY <2>8
<1>3. SumOver(v, S \ T) = 0
  BY <1>1, SumZero
<1>4. SumOver(v, S) = SumOver(v, T) + SumOver(v, S \ T)
  BY <1>1, SumSplit
<1>5. Cardinality(T) \in Nat
  BY <1>1, FS_CardinalityType
<1> QED  BY <1>2, <1>3, <1>4, <1>5

-----------------------------------------------------------------------------
(* The sizes of the network, and that its sets are finite.                 *)
LEMMA NetworkSizes ==
  /\ max_num_nodes \in Nat \ {0} /\ num_arcs \in Nat
  /\ 0 \in Node /\ Node \subseteq Nat /\ NO_ARC \notin Arc /\ NO_NODE \notin Node
  /\ IsFiniteSet(Node) /\ Cardinality(Node) = max_num_nodes
  /\ IsFiniteSet(Arc) /\ IsFiniteSet(ProblemArc) /\ Arc \subseteq Nat
<1>1. /\ max_num_nodes \in Nat \ {0} /\ num_arcs \in Nat
      /\ 0 \in Node /\ Node \subseteq Nat /\ NO_ARC \notin Arc /\ NO_NODE \notin Node
      /\ Arc \subseteq Nat
  BY SizesAssumption DEF Node, Arc, NO_ARC, NO_NODE
<1>2. IsFiniteSet(Node) /\ IsFiniteSet(Arc) /\ IsFiniteSet(ProblemArc)
  BY <1>1, FS_Interval DEF Node, Arc, ProblemArc
<1>3. Cardinality(Node) = max_num_nodes
  <2> DEFINE last == max_num_nodes - 1
  <2>1. 0 \in Int /\ last \in Int /\ ~ (0 > last) /\ last - 0 + 1 = max_num_nodes
    BY <1>1
  <2> HIDE DEF last
  <2>2. Cardinality(0 .. last) = max_num_nodes
    BY <2>1, FS_Interval
  <2> QED  BY <2>2 DEF Node, last
<1> QED  BY <1>1, <1>2, <1>3

(* Arcs and duals: graph.h on a network in which every arc has a slot.     *)
LEMMA ArcFacts ==
  ASSUME NetworkTypeOK, NEW a \in Arc
  PROVE  /\ arc_dual(a) \in Arc /\ arc_dual(a) # a
         /\ arc_dual(arc_dual(a)) = a
         /\ arc_tail(a) \in Node /\ arc_head(a) \in Node
         /\ arc_tail(arc_dual(a)) = arc_head(a)
         /\ arc_head(arc_dual(a)) = arc_tail(a)
         /\ reduced_cost(a) \in Int
         /\ reduced_cost(arc_dual(a)) = - reduced_cost(a)
<1>1. num_arcs \in Nat
  BY SizesAssumption
<1>2. /\ arc_dual(a) \in Arc /\ arc_dual(a) # a
      /\ arc_dual(arc_dual(a)) = a
  BY <1>1 DEF Arc, arc_dual
<1>3. \A b \in Arc : arc_tail(b) \in Node
  BY <1>1 DEF Arc, ProblemArc, arc_dual, arc_is_dual, arc_tail, NetworkTypeOK
<1>4. /\ arc_head(a) \in Node
      /\ arc_tail(arc_dual(a)) = arc_head(a)
      /\ arc_head(arc_dual(a)) = arc_tail(a)
  BY <1>2, <1>3 DEF arc_head
<1>5. /\ cost[a] \in Int /\ cost[arc_dual(a)] = - cost[a]
      /\ potential[arc_tail(a)] \in Int /\ potential[arc_head(a)] \in Int
  BY <1>3, <1>4 DEF NetworkTypeOK
<1> QED
  BY <1>2, <1>3, <1>4, <1>5 DEF reduced_cost

(* Problem arcs and their duals are all the arcs.                          *)
LEMMA DualFacts ==
  /\ \A a \in ProblemArc : /\ a \in Arc /\ arc_dual(a) \in Arc
                           /\ arc_dual(arc_dual(a)) = a
                           /\ ~ arc_is_dual(a) /\ arc_is_dual(arc_dual(a))
                           /\ arc_tail(a) = graph.from[a] /\ arc_head(a) = graph.to[a]
                           /\ arc_tail(arc_dual(a)) = graph.to[a]
                           /\ arc_head(arc_dual(a)) = graph.from[a]
  /\ \A a \in Arc : /\ ~ arc_is_dual(a) => a \in ProblemArc
                    /\ arc_is_dual(a) => arc_dual(a) \in ProblemArc
                    /\ arc_dual(arc_dual(a)) = a
<1>1. /\ \A a \in ProblemArc : /\ a \in Arc /\ arc_dual(a) \in Arc
                               /\ arc_dual(arc_dual(a)) = a
                               /\ ~ arc_is_dual(a) /\ arc_is_dual(arc_dual(a))
      /\ \A a \in Arc : /\ ~ arc_is_dual(a) => a \in ProblemArc
                        /\ arc_is_dual(a) => arc_dual(a) \in ProblemArc
                        /\ arc_dual(arc_dual(a)) = a
  BY SizesAssumption DEF Arc, ProblemArc, arc_dual, arc_is_dual
<1>2. \A a \in ProblemArc : arc_tail(a) = graph.from[a] /\ arc_tail(arc_dual(a)) = graph.to[a]
  BY <1>1 DEF arc_tail
<1> QED  BY <1>1, <1>2 DEF arc_head

(* Steps that keep the graph keep the ends of the arcs.                    *)
LEMMA SameGraph ==
  ASSUME UNCHANGED graph
  PROVE  /\ \A a : arc_tail(a)' = arc_tail(a) /\ arc_head(a)' = arc_head(a)
         /\ \A n : node_adjacency(n)' = node_adjacency(n)
BY DEF arc_tail, arc_head, node_adjacency
-----------------------------------------------------------------------------
(* Node n waits in the queue s.                                            *)
Queued(s, n) == \E i \in DOMAIN s : s[i] = n

(* Nodes in a queue after an insertion and a removal.                      *)
LEMMA QueuedFacts ==
  ASSUME NEW s \in Seq(Node)
  PROVE  /\ \A n : Queued(Append(s, n), n)
         /\ \A n, m : Queued(s, m) => Queued(Append(s, n), m)
         /\ \A m : s # << >> /\ Queued(s, m) => m = Head(s) \/ Queued(Tail(s), m)
         /\ \A m : ~ Queued(<< >>, m)
<1>1. ASSUME NEW n PROVE Queued(Append(s, n), n)
  <2>1. Len(s) + 1 \in DOMAIN Append(s, n) /\ Append(s, n)[Len(s) + 1] = n
    OBVIOUS
  <2> QED  BY <2>1 DEF Queued
<1>2. ASSUME NEW n, NEW m, Queued(s, m) PROVE Queued(Append(s, n), m)
  <2>1. PICK i \in DOMAIN s : s[i] = m
    BY <1>2 DEF Queued
  <2>2. i \in DOMAIN Append(s, n) /\ Append(s, n)[i] = m
    BY <2>1
  <2> QED  BY <2>2 DEF Queued
<1>3. ASSUME NEW m, s # << >>, Queued(s, m) PROVE m = Head(s) \/ Queued(Tail(s), m)
  <2>1. PICK i \in DOMAIN s : s[i] = m
    BY <1>3 DEF Queued
  <2>2. CASE i = 1
    BY <2>1, <2>2
  <2>3. CASE i # 1
    <3>1. i - 1 \in DOMAIN Tail(s) /\ Tail(s)[i - 1] = m
      BY <1>3, <2>1, <2>3
    <3> QED  BY <3>1 DEF Queued
  <2> QED  BY <2>2, <2>3
<1>4. ASSUME NEW m PROVE ~ Queued(<< >>, m)
  BY DEF Queued
<1> QED  BY <1>1, <1>2, <1>3, <1>4

-----------------------------------------------------------------------------
(* What an arc adds to the balance of its tail when the residual           *)
(* capacities are c, and the balance of a node.                            *)
carried(c, a) == IF arc_is_dual(a) THEN c[a] ELSE - c[arc_dual(a)]
balance(c, n) == SumOver([a \in Arc |-> carried(c, a)], node_adjacency(n))


(* node_balance is the sum of the flow on the arcs that exit the node.     *)
LEMMA BalanceIsSum ==
  ASSUME NEW n, IsFiniteSet(node_adjacency(n))
  PROVE  node_balance(n) = SumOver([a \in Arc |-> carried(capacity, a)], node_adjacency(n))
<1> DEFINE S == node_adjacency(n)
           F == [a \in Arc |-> carried(capacity, a)]
           e(a) == IF arc_is_dual(a) THEN capacity[a] ELSE - capacity[arc_dual(a)]
           next(g) == [s \in SUBSET S |-> IF s = {} THEN 0 ELSE e(CHOOSE x \in s : TRUE) + g[s \ {CHOOSE x \in s : TRUE}]]
           h == CHOOSE g : g = next(g)
<1>1. node_balance(n) = h[S]
  BY ZenonT(30) DEF node_balance, MapThenSumSet, MapThenFoldSet
<1>2. \A s \in SUBSET S : s # {} => F[choice(s)] = e(choice(s))
  BY ChoiceFacts DEF node_adjacency, carried
<1>3. \A g : next(g) = [s \in SUBSET S |-> IF s = {} THEN 0 ELSE F[choice(s)] + g[s \ {choice(s)}]]
  <2>1. \A g : next(g) = [s \in SUBSET S |-> IF s = {} THEN 0 ELSE e(choice(s)) + g[s \ {choice(s)}]]
    <3> HIDE DEF e, S
    <3> QED  BY Zenon DEF choice
  <2> HIDE DEF next, F, e, S
  <2> QED  BY <1>2, <2>1
<1>4. PICK g : Sums(F, g, S) /\ SumOver(F, S) = g[S]
  <2> HIDE DEF F
  <2> QED  BY Unfold
<1> HIDE DEF e, F, S, next
<1>5. g = next(g)
  BY <1>3, <1>4 DEF Sums
<1>6. h = next(h)
  BY <1>5, Zenon
<1> HIDE DEF h
<1>7. Sums(F, h, S)
  BY <1>3, <1>6 DEF Sums
<1>8. h[S] = g[S]
  <2>1. IsFiniteSet(S)
    BY DEF S
  <2> QED  BY <1>4, <1>7, <2>1, SumsUnique
<1> QED  BY <1>1, <1>4, <1>8 DEF F, S

(* node_balance is the balance of the present capacities.                  *)
LEMMA BalanceValue ==
  \A n \in Node : node_balance(n) = balance(capacity, n)
<1> SUFFICES ASSUME NEW n \in Node PROVE node_balance(n) = balance(capacity, n)
  OBVIOUS
<1>1. IsFiniteSet(node_adjacency(n))
  BY NetworkSizes, FS_Subset DEF node_adjacency
<1> QED  BY <1>1, BalanceIsSum, Zenon DEF balance

(* The balance depends on the graph and the capacities alone.              *)
LEMMA BalanceNext ==
  ASSUME graph' = graph
  PROVE  \A n \in Node : balance(capacity, n)' = balance(capacity', n)
<1>1. \A a : arc_tail(a)' = arc_tail(a)
  BY DEF arc_tail, arc_is_dual, arc_dual
<1>2. \A a : carried(capacity, a)' = carried(capacity', a)
  BY DEF carried, arc_is_dual, arc_dual
<1> SUFFICES ASSUME NEW n \in Node PROVE balance(capacity, n)' = balance(capacity', n)
  OBVIOUS
<1>3. node_adjacency(n)' = node_adjacency(n)
  BY <1>1 DEF node_adjacency
<1>4. [a \in Arc |-> carried(capacity, a)]' = [a \in Arc |-> carried(capacity', a)]
  BY <1>2
<1> QED  BY <1>3, <1>4, Zenon DEF balance

(* The terms of the balance are integers.                                  *)
LEMMA CarriedType ==
  ASSUME NetworkTypeOK, NEW c \in [Arc -> Nat]
  PROVE  /\ \A a \in Arc : carried(c, a) \in Int
         /\ \A n : /\ IsFiniteSet(node_adjacency(n)) /\ node_adjacency(n) \subseteq Arc
                   /\ Integral([a \in Arc |-> carried(c, a)], node_adjacency(n))
                   /\ balance(c, n) \in Int
<1>1. \A a \in Arc : carried(c, a) \in Int
  <2> SUFFICES ASSUME NEW a \in Arc PROVE carried(c, a) \in Int
    OBVIOUS
  <2>1. c[a] \in Nat /\ c[arc_dual(a)] \in Nat
    BY ArcFacts
  <2> QED  BY <2>1 DEF carried
<1>2. ASSUME NEW n
      PROVE  /\ IsFiniteSet(node_adjacency(n)) /\ node_adjacency(n) \subseteq Arc
             /\ Integral([a \in Arc |-> carried(c, a)], node_adjacency(n))
  BY <1>1, NetworkSizes, FS_Subset DEF node_adjacency, Integral
<1>3. ASSUME NEW n PROVE balance(c, n) \in Int
  BY <1>2, SumType DEF balance
<1> QED  BY <1>1, <1>2, <1>3

(* A push moves as much of the balance as of the excess.                   *)
LEMMA BalancePush ==
  ASSUME NetworkTypeOK, NEW c \in [Arc -> Nat], NEW a \in Arc, NEW x \in Nat,
         NEW d \in [Arc -> Nat], d[a] = c[a] - x, d[arc_dual(a)] = c[arc_dual(a)] + x,
         \A e \in Arc : e # a /\ e # arc_dual(a) => d[e] = c[e],
         NEW n \in Node
  PROVE  balance(d, n) = balance(c, n) - (IF n = arc_tail(a) THEN x ELSE 0)
                                       + (IF n = arc_head(a) THEN x ELSE 0)
<1> DEFINE b == arc_dual(a)
           S == node_adjacency(n)
           f == [e \in Arc |-> carried(c, e)]
           k == [e \in Arc |-> IF e = a THEN carried(c, e) - x ELSE carried(c, e)]
           g == [e \in Arc |-> carried(d, e)]
<1>1. /\ b \in Arc /\ b # a /\ arc_dual(b) = a
      /\ arc_tail(b) = arc_head(a) /\ (arc_is_dual(b) <=> ~ arc_is_dual(a))
  <2>1. arc_is_dual(b) <=> ~ arc_is_dual(a)
    BY SizesAssumption DEF arc_dual, arc_is_dual, Arc
  <2> QED  BY <2>1, ArcFacts
<1>2. /\ d[a] = c[a] - x /\ d[b] = c[b] + x
      /\ \A e \in Arc : e # a /\ e # b => d[e] = c[e]
  OBVIOUS
<1>3. /\ \A e \in Arc : e # a /\ e # b => carried(d, e) = carried(c, e)
      /\ carried(d, a) = carried(c, a) - x
      /\ carried(d, b) = carried(c, b) + x
  <2>1. ASSUME NEW e \in Arc, e # a, e # b PROVE carried(d, e) = carried(c, e)
    <3>1. arc_dual(e) \in Arc /\ arc_dual(e) # a /\ arc_dual(e) # b
      BY <1>1, <2>1, ArcFacts
    <3> HIDE DEF b
    <3> QED  BY <1>2, <2>1, <3>1 DEF carried
  <2>2. c[a] \in Nat /\ c[b] \in Nat
    BY <1>1
  <2>3. /\ carried(c, a) = IF arc_is_dual(a) THEN c[a] ELSE - c[b]
        /\ carried(d, a) = IF arc_is_dual(a) THEN d[a] ELSE - d[b]
        /\ carried(c, b) = IF arc_is_dual(b) THEN c[b] ELSE - c[a]
        /\ carried(d, b) = IF arc_is_dual(b) THEN d[b] ELSE - d[a]
    BY <1>1 DEF carried
  <2> HIDE DEF b
  <2> QED  BY <1>1, <1>2, <2>1, <2>2, <2>3
<1>4. /\ IsFiniteSet(S) /\ S \subseteq Arc
      /\ Integral(f, S) /\ Integral(g, S)
      /\ balance(c, n) = SumOver(f, S) /\ balance(d, n) = SumOver(g, S)
      /\ carried(c, a) \in Int /\ carried(c, b) \in Int
      /\ \A e \in Arc : carried(c, e) \in Int
  BY <1>1, CarriedType DEF balance
<1>5. Integral(k, S)
  BY <1>4 DEF Integral
<1>6. (a \in S <=> n = arc_tail(a)) /\ (b \in S <=> n = arc_head(a))
  BY <1>1 DEF node_adjacency
<1>7. /\ \A e \in S : e # a => f[e] = k[e]
      /\ a \in S => k[a] = f[a] - x /\ f[a] \in Int
      /\ \A e \in S : e # b => g[e] = k[e]
      /\ b \in S => g[b] = k[b] + x /\ k[b] \in Int
  <2> HIDE DEF b, S
  <2> QED  BY <1>1, <1>3, <1>4
<1> HIDE DEF f, g, k, S, b
<1>8. SumOver(f, S) \in Int /\ SumOver(k, S) \in Int
  BY <1>4, <1>5, SumType
<1>9. SumOver(k, S) = SumOver(f, S) - (IF n = arc_tail(a) THEN x ELSE 0)
  <2>1. CASE a \in S
    <3>1. SumOver(k, S) = SumOver(f, S) + k[a] - f[a]
      BY <1>4, <1>5, <1>7, <2>1, SumChange
    <3> QED  BY <1>6, <1>7, <1>8, <2>1, <3>1
  <2>2. CASE a \notin S
    <3>1. SumOver(k, S) = SumOver(f, S)
      BY <1>4, <1>7, <2>2, SumEqual
    <3> QED  BY <1>6, <1>8, <2>2, <3>1
  <2> QED  BY <2>1, <2>2
<1>10. SumOver(g, S) = SumOver(k, S) + (IF n = arc_head(a) THEN x ELSE 0)
  <2>1. CASE b \in S
    <3>1. SumOver(g, S) = SumOver(k, S) + g[b] - k[b]
      BY <1>4, <1>5, <1>7, <2>1, SumChange
    <3> QED  BY <1>6, <1>7, <1>8, <2>1, <3>1
  <2>2. CASE b \notin S
    <3>1. SumOver(g, S) = SumOver(k, S)
      BY <1>4, <1>5, <1>7, <2>2, SumEqual
    <3> QED  BY <1>6, <1>8, <2>2, <3>1
  <2> QED  BY <2>1, <2>2
<1> QED  BY <1>4, <1>8, <1>9, <1>10

(* The balance of a node in terms of problem arcs: what flows in less what *)
(* flows out.                                                              *)
LEMMA BalanceSplit ==
  ASSUME NetworkTypeOK, NEW c \in [Arc -> Nat], NEW n \in Node, NEW y,
         \A a \in ProblemArc : y[a] = c[arc_dual(a)]
  PROVE  balance(c, n) = SumOver(y, {a \in ProblemArc : graph.to[a] = n})
                         - SumOver(y, {a \in ProblemArc : graph.from[a] = n})
<1> DEFINE S == node_adjacency(n)
           f == [a \in Arc |-> carried(c, a)]
           In == {a \in ProblemArc : graph.to[a] = n}
           Out == {a \in ProblemArc : graph.from[a] = n}
           dual == [a \in In |-> arc_dual(a)]
           z == [a \in Arc |-> -1 * f[a]]
<1>1. /\ IsFiniteSet(S) /\ Integral(f, S) /\ balance(c, n) = SumOver(f, S)
      /\ IsFiniteSet(In) /\ IsFiniteSet(Out)
      /\ \A a \in Arc : f[a] \in Int
  <2>1. IsFiniteSet(In) /\ IsFiniteSet(Out)
    BY NetworkSizes, FS_Subset
  <2> QED  BY <2>1, CarriedType DEF balance
<1>2. /\ \A a \in ProblemArc : /\ a \in Arc /\ arc_dual(a) \in Arc
                               /\ arc_dual(arc_dual(a)) = a
                               /\ ~ arc_is_dual(a) /\ arc_is_dual(arc_dual(a))
      /\ \A a \in Arc : /\ ~ arc_is_dual(a) => a \in ProblemArc
                        /\ arc_is_dual(a) => arc_dual(a) \in ProblemArc
                        /\ arc_dual(arc_dual(a)) = a
  BY SizesAssumption DEF Arc, ProblemArc, arc_dual, arc_is_dual
<1>3. \A a \in ProblemArc : arc_tail(a) = graph.from[a] /\ arc_tail(arc_dual(a)) = graph.to[a]
  BY <1>2 DEF arc_tail
<1>4. Out \in SUBSET S /\ S \ Out = {a \in S : arc_is_dual(a)}
  BY <1>2, <1>3 DEF node_adjacency
<1>5. \A a \in ProblemArc : f[a] = - y[a] /\ f[arc_dual(a)] = y[a]
  BY <1>2 DEF carried
<1>6. SumOver(f, S) = SumOver(f, Out) + SumOver(f, S \ Out)
  <2> HIDE DEF f, S, Out
  <2> QED  BY <1>1, <1>4, SumSplit
<1>7. SumOver(y, In) = SumOver(f, S \ Out)
  <2>1. dual \in [In -> S \ Out]
    <3>1. \A a \in In : arc_dual(a) \in S /\ arc_is_dual(arc_dual(a))
      BY <1>2, <1>3 DEF node_adjacency
    <3> QED  BY <1>4, <3>1
  <2>2. \A a, b \in In : dual[a] = dual[b] => a = b
    BY <1>2
  <2>3. \A b \in S \ Out : \E a \in In : dual[a] = b
    <3> SUFFICES ASSUME NEW b \in S \ Out PROVE \E a \in In : dual[a] = b
      OBVIOUS
    <3>1. b \in Arc /\ arc_is_dual(b) /\ arc_tail(b) = n
      BY <1>4 DEF node_adjacency
    <3>2. arc_dual(b) \in In /\ arc_dual(arc_dual(b)) = b
      BY <1>2, <1>3, <3>1
    <3> QED  BY <3>2
  <2>4. \A a \in In : y[a] = f[dual[a]]
    BY <1>5
  <2>5. IsFiniteSet(S \ Out) /\ Integral(f, S \ Out)
    BY <1>1, FS_Subset DEF Integral
  <2> HIDE DEF f, S, Out, In, dual
  <2> QED  BY <1>1, <2>1, <2>2, <2>3, <2>4, <2>5, SumReindex
<1>8. SumOver(y, In) \in Int /\ SumOver(y, Out) \in Int
  <2>1. \A a \in ProblemArc : y[a] \in Int
    BY <1>2
  <2>2. Integral(y, ProblemArc) /\ IsFiniteSet(ProblemArc)
        /\ In \in SUBSET ProblemArc /\ Out \in SUBSET ProblemArc
    BY <2>1, NetworkSizes DEF Integral
  <2> HIDE DEF In, Out
  <2> QED  BY <2>2, SumType
<1>9. SumOver(f, Out) = - SumOver(y, Out)
  <2> DEFINE m == -1
  <2>1. Integral(y, Out) /\ \A a \in Out : f[a] = m * y[a]
    <3>1. \A a \in Out : f[a] = - y[a] /\ y[a] = f[arc_dual(a)] /\ arc_dual(a) \in Arc
      BY <1>2, <1>5
    <3>2. \A a \in Out : y[a] \in Int
      BY <1>1, <3>1
    <3> HIDE DEF f, Out
    <3> QED  BY <3>1, <3>2 DEF Integral
  <2> HIDE DEF f, Out
  <2>2. m \in Int
    OBVIOUS
  <2> HIDE DEF m
  <2>3. SumOver(f, Out) = m * SumOver(y, Out)
    BY <1>1, <2>1, <2>2, SumScale
  <2>4. SumOver(y, Out) \in Int
    BY <1>8
  <2> QED  BY <2>3, <2>4 DEF m
<1> HIDE DEF f, S, Out, In
<1>10. balance(c, n) = SumOver(y, In) - SumOver(y, Out)
  BY <1>1, <1>6, <1>7, <1>8, <1>9
<1> QED  BY <1>10 DEF In, Out

(* Flow moved: arcs and their duals hold together what they did, and the   *)
(* excess of a node changes by as much as its balance.                     *)
Moved(c, e, d, g) ==
  /\ \A a \in Arc : d[a] + d[arc_dual(a)] = c[a] + c[arc_dual(a)]
  /\ \A n \in Node : g[n] - balance(d, n) = e[n] - balance(c, n)

(* A push moves flow.                                                      *)
LEMMA PushMoved ==
  ASSUME NetworkTypeOK, NEW c \in [Arc -> Nat], NEW d \in [Arc -> Nat],
         NEW e \in [Node -> Int], NEW g \in [Node -> Int],
         NEW a \in Arc, NEW x \in Nat,
         d[a] = c[a] - x, d[arc_dual(a)] = c[arc_dual(a)] + x,
         \A k \in Arc : k # a /\ k # arc_dual(a) => d[k] = c[k],
         \A n \in Node : g[n] = e[n] - (IF n = arc_tail(a) THEN x ELSE 0)
                                    + (IF n = arc_head(a) THEN x ELSE 0)
  PROVE  Moved(c, e, d, g)
<1> DEFINE b == arc_dual(a)
           t == arc_tail(a)
           h == arc_head(a)
<1>1. /\ b \in Arc /\ b # a /\ arc_dual(b) = a /\ t \in Node /\ h \in Node
  BY ArcFacts
<1>2. /\ d[a] = c[a] - x /\ d[b] = c[b] + x
      /\ \A k \in Arc : k # a /\ k # b => d[k] = c[k]
      /\ \A n \in Node : g[n] = e[n] - (IF n = t THEN x ELSE 0) + (IF n = h THEN x ELSE 0)
  OBVIOUS
<1>3. \A n \in Node : balance(d, n) = balance(c, n) - (IF n = t THEN x ELSE 0)
                                                    + (IF n = h THEN x ELSE 0)
  BY BalancePush
<1>4. \A n \in Node : balance(c, n) \in Int /\ e[n] \in Int
  BY CarriedType
<1>5. \A n \in Node : g[n] - balance(d, n) = e[n] - balance(c, n)
  <2> HIDE DEF t, h
  <2> QED  BY <1>2, <1>3, <1>4
<1>6. ASSUME NEW k \in Arc
      PROVE  d[k] + d[arc_dual(k)] = c[k] + c[arc_dual(k)]
  <2>1. CASE k = a \/ k = b
    <3>1. /\ (k = a /\ arc_dual(k) = b) \/ (k = b /\ arc_dual(k) = a)
          /\ c[a] \in Nat /\ c[b] \in Nat
      BY <1>1, <2>1
    <3> HIDE DEF b
    <3> QED  BY <1>2, <3>1
  <2>2. CASE k # a /\ k # b
    <3>1. arc_dual(k) \in Arc /\ arc_dual(k) # a /\ arc_dual(k) # b
      BY <1>1, <2>2, ArcFacts
    <3> HIDE DEF b
    <3> QED  BY <1>2, <2>2, <3>1
  <2> QED  BY <2>1, <2>2
<1> QED  BY <1>5, <1>6 DEF Moved

(* As the code writes it.                                                  *)
LEMMA PushMoves ==
  ASSUME NetworkTypeOK, NEW c \in [Arc -> Nat], NEW d \in [Arc -> Nat],
         NEW e \in [Node -> Int], NEW g \in [Node -> Int],
         NEW a \in Arc, NEW x \in Nat,
         d = [c EXCEPT ![a] = @ - x, ![arc_dual(a)] = @ + x],
         g = [e EXCEPT ![arc_tail(a)] = @ - x, ![arc_head(a)] = @ + x]
  PROVE  Moved(c, e, d, g)
<1> DEFINE b == arc_dual(a)
           t == arc_tail(a)
           h == arc_head(a)
<1>1. /\ b \in Arc /\ b # a /\ t \in Node /\ h \in Node
  BY ArcFacts
<1>2. /\ d = [c EXCEPT ![a] = @ - x, ![b] = @ + x]
      /\ g = [e EXCEPT ![t] = @ - x, ![h] = @ + x]
  OBVIOUS
<1>3. /\ d[a] = c[a] - x /\ d[b] = c[b] + x
      /\ \A k \in Arc : k # a /\ k # b => d[k] = c[k]
  <2> HIDE DEF b, t, h
  <2> QED  BY <1>1, <1>2
<1>4. \A n \in Node : g[n] = e[n] - (IF n = t THEN x ELSE 0) + (IF n = h THEN x ELSE 0)
  <2> HIDE DEF b, t, h
  <2> QED  BY <1>1, <1>2
<1> QED  BY <1>3, <1>4, PushMoved
-----------------------------------------------------------------------------
(* How many arcs of P enter and leave a node.                              *)
entering(P, n) == Cardinality({a \in P : arc_head(a) = n})
leaving(P, n) == Cardinality({a \in P : arc_tail(a) = n})

(* The capacities after x was moved along every arc of P.                  *)
along(c, P, x) ==
  [a \in Arc |-> c[a] - (IF a \in P THEN x ELSE 0)
                      + (IF arc_dual(a) \in P THEN x ELSE 0)]

LEMMA CountsType ==
  ASSUME NEW P \in SUBSET Arc
  PROVE  \A n : entering(P, n) \in Nat /\ leaving(P, n) \in Nat
BY NetworkSizes, FS_Subset, FS_CardinalityType DEF entering, leaving

(* What is moved along a set of arcs arrives where they enter a node and   *)
(* is taken where they leave one.                                          *)
LEMMA BalanceAlong ==
  ASSUME NetworkTypeOK, NEW c \in [Arc -> Nat], NEW P \in SUBSET Arc, NEW x \in Nat,
         NEW d \in [Arc -> Nat], d = along(c, P, x), NEW n \in Node
  PROVE  balance(d, n) = balance(c, n) + x * entering(P, n) - x * leaving(P, n)
<1> DEFINE S == node_adjacency(n)
           f == [a \in Arc |-> carried(c, a)]
           g == [a \in Arc |-> carried(d, a)]
           out == [a \in Arc |-> IF a \in P THEN 1 ELSE 0]
           in == [a \in Arc |-> IF arc_dual(a) \in P THEN 1 ELSE 0]
           xout == [a \in Arc |-> x * out[a]]
           xin == [a \in Arc |-> x * in[a]]
           k == [a \in Arc |-> f[a] + xin[a]]
<1>1. /\ IsFiniteSet(S) /\ S \subseteq Arc
      /\ Integral(f, S) /\ Integral(g, S)
      /\ balance(c, n) = SumOver(f, S) /\ balance(d, n) = SumOver(g, S)
      /\ \A a \in Arc : carried(c, a) \in Int
      /\ \A a \in Arc : carried(d, a) \in Int
  BY CarriedType DEF balance
<1>2. \A a \in Arc : /\ d[a] = c[a] - (IF a \in P THEN x ELSE 0)
                                    + (IF arc_dual(a) \in P THEN x ELSE 0)
                     /\ arc_dual(a) \in Arc /\ arc_dual(arc_dual(a)) = a
                     /\ c[a] \in Nat
  BY ArcFacts DEF along
<1>3. ASSUME NEW a \in Arc
      PROVE  carried(d, a) + (IF a \in P THEN x ELSE 0)
               = carried(c, a) + (IF arc_dual(a) \in P THEN x ELSE 0)
  <2> DEFINE b == arc_dual(a)
             u == IF a \in P THEN x ELSE 0
             v == IF b \in P THEN x ELSE 0
  <2>1. /\ d[a] = c[a] - u + v /\ d[b] = c[b] - v + u
        /\ c[a] \in Nat /\ c[b] \in Nat /\ u \in Nat /\ v \in Nat
    BY <1>2
  <2>2. /\ carried(c, a) = IF arc_is_dual(a) THEN c[a] ELSE - c[b]
        /\ carried(d, a) = IF arc_is_dual(a) THEN d[a] ELSE - d[b]
    BY DEF carried
  <2> HIDE DEF b, u, v
  <2>3. carried(d, a) + u = carried(c, a) + v
    BY <2>1, <2>2
  <2> QED  BY <2>3 DEF b, u, v
<1>4. \A a \in Arc : /\ out[a] \in Int /\ in[a] \in Int
                     /\ xout[a] \in Int /\ xin[a] \in Int
                     /\ xout[a] = x * out[a] /\ xin[a] = x * in[a]
                     /\ k[a] \in Int
                     /\ k[a] = f[a] + xin[a] /\ k[a] = g[a] + xout[a]
  <2> SUFFICES ASSUME NEW a \in Arc
               PROVE  /\ out[a] \in Int /\ in[a] \in Int
                      /\ xout[a] \in Int /\ xin[a] \in Int
                      /\ xout[a] = x * out[a] /\ xin[a] = x * in[a]
                      /\ k[a] \in Int
                      /\ k[a] = f[a] + xin[a] /\ k[a] = g[a] + xout[a]
    OBVIOUS
  <2>1. /\ xout[a] = IF a \in P THEN x ELSE 0
        /\ xin[a] = IF arc_dual(a) \in P THEN x ELSE 0
        /\ out[a] \in Int /\ in[a] \in Int
        /\ xout[a] = x * out[a] /\ xin[a] = x * in[a]
    OBVIOUS
  <2>2. xout[a] \in Int /\ xin[a] \in Int
    BY <2>1
  <2>3. f[a] = carried(c, a) /\ g[a] = carried(d, a) /\ k[a] = f[a] + xin[a]
    OBVIOUS
  <2> HIDE DEF f, g, xout, xin, in, out, k
  <2> QED  BY <1>1, <1>3, <2>1, <2>2, <2>3
<1>5. SumOver(out, S) = leaving(P, n)
  <2> DEFINE T == {a \in P : arc_tail(a) = n}
  <2>1. T \in SUBSET S /\ (\A a \in T : out[a] = 1) /\ \A a \in S \ T : out[a] = 0
    BY DEF node_adjacency
  <2> HIDE DEF T, out, S
  <2>2. SumOver(out, S) = Cardinality(T)
    BY <1>1, <2>1, SumCounts
  <2> QED  BY <2>2 DEF T, leaving
<1>6. SumOver(in, S) = entering(P, n)
  <2> DEFINE T == {a \in S : arc_dual(a) \in P}
             U == {a \in P : arc_head(a) = n}
             h == [a \in T |-> arc_dual(a)]
  <2>1. T \in SUBSET S /\ (\A a \in T : in[a] = 1) /\ \A a \in S \ T : in[a] = 0
    BY <1>1
  <2>2. SumOver(in, S) = Cardinality(T)
    <3> HIDE DEF T, in, S
    <3> QED  BY <1>1, <2>1, SumCounts
  <2>3. h \in Bijection(T, U)
    <3>1. h \in [T -> U]
      <4> SUFFICES ASSUME NEW a \in T PROVE arc_dual(a) \in U
        OBVIOUS
      <4>1. a \in Arc /\ arc_tail(a) = n /\ arc_dual(a) \in P
        BY DEF node_adjacency
      <4> QED  BY <1>2, <4>1 DEF arc_head
    <3>2. \A a, b \in T : h[a] = h[b] => a = b
      <4>1. \A a \in T : a \in Arc /\ h[a] = arc_dual(a)
        BY <1>1
      <4> HIDE DEF T, h
      <4> QED  BY <1>2, <4>1
    <3>3. \A u \in U : \E a \in T : h[a] = u
      <4> SUFFICES ASSUME NEW u \in U PROVE arc_dual(u) \in T /\ h[arc_dual(u)] = u
        OBVIOUS
      <4>1. u \in Arc /\ u \in P /\ arc_head(u) = n
        OBVIOUS
      <4>2. arc_dual(u) \in Arc /\ arc_dual(arc_dual(u)) = u /\ arc_tail(arc_dual(u)) = n
        BY <4>1, ArcFacts
      <4>3. arc_dual(u) \in T
        BY <4>1, <4>2 DEF node_adjacency
      <4> QED  BY <4>2, <4>3
    <3> HIDE DEF h, T, U
    <3> QED  BY <3>1, <3>2, <3>3 DEF Bijection, Injection, Surjection, IsInjective
  <2>4. IsFiniteSet(T)
    BY <1>1, FS_Subset
  <2>5. Cardinality(T) = Cardinality(U)
    <3> HIDE DEF h, T, U
    <3> QED  BY <2>3, <2>4, FS_Bijection DEF ExistsBijection
  <2> QED  BY <2>2, <2>5 DEF entering
<1> HIDE DEF f, g, in, out, xin, xout, k, S
<1>7. /\ Integral(in, S) /\ Integral(out, S) /\ Integral(xin, S) /\ Integral(xout, S)
      /\ Integral(k, S)
      /\ \A a \in S : xout[a] = x * out[a]
      /\ \A a \in S : xin[a] = x * in[a]
      /\ \A a \in S : k[a] = f[a] + xin[a]
      /\ \A a \in S : k[a] = g[a] + xout[a]
  BY <1>1, <1>4 DEF Integral
<1>8. SumOver(xout, S) = x * SumOver(out, S) /\ SumOver(xin, S) = x * SumOver(in, S)
  BY <1>1, <1>7, SumScale
<1>9. SumOver(k, S) = SumOver(f, S) + SumOver(xin, S)
  BY <1>1, <1>7, SumAdd
<1>10. SumOver(k, S) = SumOver(g, S) + SumOver(xout, S)
  BY <1>1, <1>7, SumAdd
<1>11. /\ SumOver(f, S) \in Int /\ SumOver(g, S) \in Int
       /\ SumOver(xin, S) \in Int /\ SumOver(xout, S) \in Int
  BY <1>1, <1>7, SumType
<1>12. SumOver(g, S) = SumOver(f, S) + SumOver(xin, S) - SumOver(xout, S)
  BY <1>9, <1>10, <1>11
<1> QED  BY <1>1, <1>5, <1>6, <1>8, <1>12

(* The arcs of P enter each node as often as they leave it, but for one    *)
(* more that enters node t and one more that leaves node s.                *)
Leads(P, s, t) ==
  \A n \in Node : entering(P, n) - leaving(P, n) = (IF n = t THEN 1 ELSE 0)
                                                 - (IF n = s THEN 1 ELSE 0)

(* One arc more is counted at its two ends.                                *)
LEMMA OneArcMore ==
  ASSUME NetworkTypeOK, NEW P \in SUBSET Arc, NEW arc \in Arc, arc \notin P, NEW n
  PROVE  /\ entering(P \union {arc}, n)
              = entering(P, n) + (IF n = arc_head(arc) THEN 1 ELSE 0)
         /\ leaving(P \union {arc}, n)
              = leaving(P, n) + (IF n = arc_tail(arc) THEN 1 ELSE 0)
<1> DEFINE Q == P \union {arc}
           into == {a \in P : arc_head(a) = n}
           out == {a \in P : arc_tail(a) = n}
<1>1. /\ IsFiniteSet(into) /\ IsFiniteSet(out)
      /\ arc \notin into /\ arc \notin out
  <2>1. into \subseteq Arc /\ out \subseteq Arc
    OBVIOUS
  <2> QED  BY <2>1, NetworkSizes, FS_Subset
<1>2. Cardinality(into) \in Nat /\ Cardinality(out) \in Nat
  BY <1>1, FS_CardinalityType
<1>3. /\ {a \in Q : arc_head(a) = n}
           = IF n = arc_head(arc) THEN into \union {arc} ELSE into
      /\ {a \in Q : arc_tail(a) = n}
           = IF n = arc_tail(arc) THEN out \union {arc} ELSE out
  OBVIOUS
<1>4. /\ Cardinality(into \union {arc}) = Cardinality(into) + 1
      /\ Cardinality(out \union {arc}) = Cardinality(out) + 1
  BY <1>1, FS_AddElement
<1> HIDE DEF into, out
<1>5. entering(Q, n) = Cardinality(into) + (IF n = arc_head(arc) THEN 1 ELSE 0)
  BY <1>2, <1>3, <1>4 DEF entering
<1>6. leaving(Q, n) = Cardinality(out) + (IF n = arc_tail(arc) THEN 1 ELSE 0)
  BY <1>2, <1>3, <1>4 DEF leaving
<1> QED  BY <1>5, <1>6 DEF entering, leaving, into, out
-----------------------------------------------------------------------------
(* Moving along the arcs what arrives at and what leaves each node, in     *)
(* prices: summed over the arcs, and summed over the nodes.                *)
LEMMA Circulation ==
  ASSUME NEW d \in [ProblemArc -> Int], NEW q \in [Node -> Int], NEW end \in [ProblemArc -> Node]
  PROVE  /\ SumOver([a \in ProblemArc |-> q[end[a]] * d[a]], ProblemArc) =
              SumOver([n \in Node |-> q[n] * SumOver(d, {a \in ProblemArc : end[a] = n})], Node)
         /\ \A n \in Node : SumOver(d, {a \in ProblemArc : end[a] = n}) \in Int
<1> DEFINE f == [a \in ProblemArc |-> q[end[a]] * d[a]]
           at(n) == {a \in ProblemArc : end[a] = n}
           g == [n \in Node |-> SumOver(f, at(n))]
           h == [n \in Node |-> q[n] * SumOver(d, at(n))]
<1>1. \A a \in ProblemArc : f[a] \in Int /\ f[a] = q[end[a]] * d[a]
  <2> SUFFICES ASSUME NEW a \in ProblemArc PROVE q[end[a]] * d[a] \in Int
    OBVIOUS
  <2>1. q[end[a]] \in Int /\ d[a] \in Int
    OBVIOUS
  <2> QED  BY <2>1
<1>2. Integral(f, ProblemArc) /\ Integral(d, ProblemArc)
  BY <1>1 DEF Integral
<1> HIDE DEF f
<1>3. SumOver(f, ProblemArc) = SumOver(g, Node)
  <2>1. IsFiniteSet(ProblemArc) /\ IsFiniteSet(Node)
    BY NetworkSizes
  <2> QED  BY <1>2, <2>1, SumByKey
<1>4. ASSUME NEW n \in Node
      PROVE  SumOver(f, at(n)) = q[n] * SumOver(d, at(n)) /\ SumOver(d, at(n)) \in Int
  <2>1. at(n) \in SUBSET ProblemArc /\ IsFiniteSet(at(n))
    BY NetworkSizes, FS_Subset
  <2>2. Integral(d, at(n)) /\ \A a \in at(n) : f[a] = q[n] * d[a]
    BY <1>1, <1>2 DEF Integral
  <2>3. q[n] \in Int
    OBVIOUS
  <2>4. SumOver(d, at(n)) \in Int
    BY <1>2, <2>1, NetworkSizes, SumType
  <2> HIDE DEF at
  <2> QED  BY <2>1, <2>2, <2>3, <2>4, SumScale
<1>5. g = h
  BY <1>4
<1> QED  BY <1>3, <1>4, <1>5 DEF f

(* A flow f meets the supplies and demands of the network: where excess is *)
(* e and the residual capacities are c, no arc carries more than it and    *)
(* its dual hold together, and no excess is left.                          *)
Meets(f, c, e) ==
  /\ \A a \in ProblemArc : f[a] \in Nat /\ f[a] <= c[a] + c[arc_dual(a)]
  /\ \A n \in Node :
       e[n] - balance(c, n) + SumOver(f, {a \in ProblemArc : graph.to[a] = n})
                            - SumOver(f, {a \in ProblemArc : graph.from[a] = n}) = 0

(* What a flow carries more than the network does.                         *)
extra(f, c) == [a \in ProblemArc |-> f[a] - c[arc_dual(a)]]

LEMMA ExtraFacts ==
  ASSUME NetworkTypeOK, NEW c \in [Arc -> Nat], NEW e \in [Node -> Int], NEW f,
         Meets(f, c, e)
  PROVE  /\ extra(f, c) \in [ProblemArc -> Int]
         /\ \A a \in ProblemArc :
              /\ extra(f, c)[a] > 0 => c[a] > 0
              /\ extra(f, c)[a] < 0 => c[arc_dual(a)] > 0
              /\ f[a] \in Nat /\ c[a] \in Nat /\ c[arc_dual(a)] \in Nat
              /\ f[a] = extra(f, c)[a] + c[arc_dual(a)]
         /\ \A n \in Node :
              e[n] = SumOver(extra(f, c), {a \in ProblemArc : graph.from[a] = n})
                     - SumOver(extra(f, c), {a \in ProblemArc : graph.to[a] = n})
<1> DEFINE d == extra(f, c)
           x == [a \in ProblemArc |-> c[arc_dual(a)]]
           g == [a \in ProblemArc |-> f[a]]
<1>1. ASSUME NEW a \in ProblemArc
      PROVE  /\ f[a] \in Nat /\ c[a] \in Nat /\ c[arc_dual(a)] \in Nat
             /\ f[a] <= c[a] + c[arc_dual(a)]
             /\ x[a] = c[arc_dual(a)] /\ x[a] \in Int /\ g[a] = f[a] /\ g[a] \in Int
             /\ d[a] = f[a] - c[arc_dual(a)] /\ d[a] \in Int
             /\ g[a] = d[a] + x[a]
  <2>1. a \in Arc /\ arc_dual(a) \in Arc
    BY DualFacts
  <2>2. f[a] \in Nat /\ f[a] <= c[a] + c[arc_dual(a)]
    BY DEF Meets
  <2>3. c[a] \in Nat /\ c[arc_dual(a)] \in Nat
    BY <2>1
  <2>4. d[a] = f[a] - c[arc_dual(a)] /\ x[a] = c[arc_dual(a)] /\ g[a] = f[a]
    BY DEF extra
  <2> HIDE DEF d, x, g
  <2> QED  BY <2>2, <2>3, <2>4
<1>2. d \in [ProblemArc -> Int]
  BY <1>1 DEF extra
<1>3. \A a \in ProblemArc : /\ d[a] > 0 => c[a] > 0
                            /\ d[a] < 0 => c[arc_dual(a)] > 0
  <2> HIDE DEF d, x, g
  <2> QED  BY <1>1
<1>4. ASSUME NEW n \in Node
      PROVE  e[n] = SumOver(d, {a \in ProblemArc : graph.from[a] = n})
                    - SumOver(d, {a \in ProblemArc : graph.to[a] = n})
  <2> DEFINE In == {a \in ProblemArc : graph.to[a] = n}
             Out == {a \in ProblemArc : graph.from[a] = n}
  <2>1. IsFiniteSet(In) /\ IsFiniteSet(Out) /\ In \subseteq ProblemArc /\ Out \subseteq ProblemArc
    BY NetworkSizes, FS_Subset
  <2>2. balance(c, n) = SumOver(x, In) - SumOver(x, Out)
    <3>1. \A a \in ProblemArc : x[a] = c[arc_dual(a)]
      OBVIOUS
    <3> HIDE DEF x
    <3> QED  BY <3>1, BalanceSplit
  <2>3. e[n] - balance(c, n) + SumOver(f, In) - SumOver(f, Out) = 0
    BY DEF Meets
  <2>4. e[n] \in Int
    OBVIOUS
  <2> HIDE DEF x, g, d, In, Out
  <2>5. /\ Integral(d, In) /\ Integral(x, In) /\ Integral(g, In)
        /\ Integral(d, Out) /\ Integral(x, Out) /\ Integral(g, Out)
        /\ \A a \in In : g[a] = d[a] + x[a] /\ g[a] = f[a]
        /\ \A a \in Out : g[a] = d[a] + x[a] /\ g[a] = f[a]
    BY <1>1, <2>1 DEF Integral
  <2>6. /\ SumOver(g, In) = SumOver(d, In) + SumOver(x, In)
        /\ SumOver(g, Out) = SumOver(d, Out) + SumOver(x, Out)
    BY <2>1, <2>5, SumAdd
  <2>7. SumOver(g, In) = SumOver(f, In) /\ SumOver(g, Out) = SumOver(f, Out)
    BY <2>1, <2>5, SumEqual
  <2>8. /\ SumOver(d, In) \in Int /\ SumOver(x, In) \in Int
        /\ SumOver(d, Out) \in Int /\ SumOver(x, Out) \in Int
    BY <2>1, <2>5, SumType
  <2>9. e[n] = SumOver(d, Out) - SumOver(d, In)
    BY <2>2, <2>3, <2>4, <2>6, <2>7, <2>8
  <2> QED  BY <2>9 DEF In, Out
<1> HIDE DEF x, g, d
<1> QED  BY <1>1, <1>2, <1>3, <1>4 DEF d

(* The excess of the nodes, weighed by prices, is what a flow that meets   *)
(* it has to carry more, weighed by the fall of the price along the arcs.  *)
LEMMA WeightedExcess ==
  ASSUME NetworkTypeOK, NEW c \in [Arc -> Nat], NEW e \in [Node -> Int], NEW f,
         Meets(f, c, e), NEW q \in [Node -> Int], NEW r,
         \A a \in ProblemArc :
           r[a] = (q[graph.from[a]] - q[graph.to[a]]) * extra(f, c)[a]
  PROVE  /\ Integral(r, ProblemArc)
         /\ SumOver([n \in Node |-> q[n] * e[n]], Node) = SumOver(r, ProblemArc)
<1> DEFINE d == extra(f, c)
           from == graph.from
           to == graph.to
           F(end) == [a \in ProblemArc |-> q[end[a]] * d[a]]
           At(end, n) == SumOver(d, {a \in ProblemArc : end[a] = n})
           G(end) == [n \in Node |-> q[n] * At(end, n)]
           h == [n \in Node |-> q[n] * e[n]]
           Ff == F(from)
           Ft == F(to)
           Gf == G(from)
           Gt == G(to)
<1>1. /\ from \in [ProblemArc -> Node] /\ to \in [ProblemArc -> Node]
  BY DEF NetworkTypeOK
<1>2. /\ d \in [ProblemArc -> Int]
      /\ \A n \in Node : e[n] = At(from, n) - At(to, n)
  BY ExtraFacts
<1> HIDE DEF d, from, to
<1>3. /\ SumOver(F(from), ProblemArc) = SumOver(G(from), Node)
      /\ \A n \in Node : At(from, n) \in Int
  BY <1>1, <1>2, Circulation
<1>4. /\ SumOver(F(to), ProblemArc) = SumOver(G(to), Node)
      /\ \A n \in Node : At(to, n) \in Int
  BY <1>1, <1>2, Circulation
<1>5. ASSUME NEW a \in ProblemArc
      PROVE  /\ Ff[a] \in Int /\ Ft[a] \in Int /\ r[a] \in Int
             /\ Ff[a] = r[a] + Ft[a]
  <2> DEFINE u == q[from[a]]
             v == q[to[a]]
             z == d[a]
  <2>1. /\ Ff[a] = u * z /\ Ft[a] = v * z
    OBVIOUS
  <2>2. r[a] = (u - v) * z
    BY DEF from, to, d
  <2>3. u \in Int /\ v \in Int /\ z \in Int
    BY <1>1, <1>2
  <2> HIDE DEF u, v, z, Ff, Ft
  <2>4. u * z \in Int /\ v * z \in Int /\ (u - v) * z \in Int
    BY <2>3
  <2>5. u * z = (u - v) * z + v * z
    BY <2>3
  <2> QED  BY <2>1, <2>2, <2>4, <2>5
<1>6. ASSUME NEW n \in Node
      PROVE  /\ Gf[n] \in Int /\ Gt[n] \in Int /\ h[n] \in Int
             /\ Gf[n] = h[n] + Gt[n]
  <2> DEFINE u == At(from, n)
             v == At(to, n)
             z == q[n]
             y == e[n]
  <2>1. Gf[n] = z * u /\ Gt[n] = z * v /\ h[n] = z * y
    OBVIOUS
  <2>2. u \in Int /\ v \in Int /\ z \in Int /\ y \in Int
    BY <1>3, <1>4
  <2>3. y = u - v
    BY <1>2
  <2> HIDE DEF u, v, z, y, Gf, Gt, h
  <2>4. z * u \in Int /\ z * v \in Int /\ z * y \in Int
    BY <2>2
  <2>5. z * u = z * (u - v) + z * v
    BY <2>2
  <2> QED  BY <2>1, <2>3, <2>4, <2>5
<1>7. SumOver(Ff, ProblemArc) = SumOver(Gf, Node) /\ SumOver(Ft, ProblemArc) = SumOver(Gt, Node)
  BY <1>3, <1>4
<1>0. h = [n \in Node |-> q[n] * e[n]]
  OBVIOUS
<1> HIDE DEF Ff, Ft, Gf, Gt, h
<1>8. /\ Integral(Ff, ProblemArc) /\ Integral(Ft, ProblemArc) /\ Integral(r, ProblemArc)
      /\ Integral(Gf, Node) /\ Integral(Gt, Node) /\ Integral(h, Node)
      /\ IsFiniteSet(ProblemArc) /\ IsFiniteSet(Node)
  BY <1>5, <1>6, NetworkSizes DEF Integral
<1>9. SumOver(Ff, ProblemArc) = SumOver(r, ProblemArc) + SumOver(Ft, ProblemArc)
  BY <1>5, <1>8, SumAdd
<1>10. SumOver(Gf, Node) = SumOver(h, Node) + SumOver(Gt, Node)
  BY <1>6, <1>8, SumAdd
<1>11. /\ SumOver(Ft, ProblemArc) \in Int /\ SumOver(r, ProblemArc) \in Int
       /\ SumOver(h, Node) \in Int
  BY <1>8, SumType
<1>12. SumOver(h, Node) = SumOver(r, ProblemArc)
  <2>1. \A x, y, z \in Int : x + z = y + z => x = y
    OBVIOUS
  <2>2. SumOver(h, Node) + SumOver(Ft, ProblemArc)
          = SumOver(r, ProblemArc) + SumOver(Ft, ProblemArc)
    BY <1>7, <1>9, <1>10, Zenon
  <2> QED  BY <1>11, <2>1, <2>2, Zenon
<1> QED  BY <1>0, <1>8, <1>12, Zenon

(* Nothing gets out of a set of nodes that no arc with capacity leaves: if *)
(* any flow meets the supplies and demands, its nodes have no excess       *)
(* together.                                                               *)
LEMMA CutExcess ==
  ASSUME NetworkTypeOK, NEW c \in [Arc -> Nat], NEW e \in [Node -> Int], NEW f,
         Meets(f, c, e), NEW S \in SUBSET Node,
         \A a \in Arc : arc_tail(a) \in S /\ arc_head(a) \notin S => c[a] = 0
  PROVE  SumOver(e, S) <= 0
<1> DEFINE q == [n \in Node |-> IF n \in S THEN 1 ELSE 0]
           d == extra(f, c)
           r == [a \in ProblemArc |-> (q[graph.from[a]] - q[graph.to[a]]) * d[a]]
           h == [n \in Node |-> q[n] * e[n]]
           zero == [a \in ProblemArc |-> 0]
<1>1. q \in [Node -> Int]
  OBVIOUS
<1>2. \A a \in ProblemArc : r[a] = (q[graph.from[a]] - q[graph.to[a]]) * extra(f, c)[a]
  OBVIOUS
<1>3. Integral(r, ProblemArc) /\ SumOver(h, Node) = SumOver(r, ProblemArc)
  <2> HIDE DEF q, r
  <2> QED  BY <1>1, <1>2, WeightedExcess
<1>4. ASSUME NEW a \in ProblemArc
      PROVE  r[a] <= zero[a] /\ zero[a] = 0
  <2> DEFINE t == graph.from[a]
             u == graph.to[a]
             z == d[a]
  <2>1. /\ z \in Int /\ (z > 0 => c[a] > 0) /\ (z < 0 => c[arc_dual(a)] > 0)
    BY ExtraFacts
  <2>2. /\ a \in Arc /\ arc_dual(a) \in Arc
        /\ arc_tail(a) = t /\ arc_head(a) = u
        /\ arc_tail(arc_dual(a)) = u /\ arc_head(arc_dual(a)) = t
        /\ t \in Node /\ u \in Node
    BY DualFacts DEF NetworkTypeOK
  <2>3. /\ t \in S /\ u \notin S => c[a] = 0
        /\ u \in S /\ t \notin S => c[arc_dual(a)] = 0
    BY <2>2
  <2>4. r[a] = (q[t] - q[u]) * z /\ zero[a] = 0
    OBVIOUS
  <2>5. q[t] = (IF t \in S THEN 1 ELSE 0) /\ q[u] = (IF u \in S THEN 1 ELSE 0)
    BY <2>2
  <2> HIDE DEF t, u, z, q, r, zero
  <2>6. CASE t \in S /\ u \notin S
    <3>1. q[t] - q[u] = 1 /\ z <= 0
      BY <2>1, <2>3, <2>5, <2>6
    <3> QED  BY <2>1, <2>4, <3>1
  <2>7. CASE t \notin S /\ u \in S
    <3>1. q[t] - q[u] = -1 /\ z >= 0
      BY <2>1, <2>3, <2>5, <2>7
    <3>2. (-1) * z = - z
      BY <2>1
    <3> QED  BY <2>1, <2>4, <3>1, <3>2
  <2>8. CASE (t \in S) <=> (u \in S)
    <3>1. q[t] - q[u] = 0
      BY <2>5, <2>8
    <3>2. 0 * z = 0
      BY <2>1
    <3> QED  BY <2>4, <3>1, <3>2
  <2> QED  BY <2>6, <2>7, <2>8
<1>5. SumOver(r, ProblemArc) <= 0
  <2>1. Integral(zero, ProblemArc) /\ \A a \in ProblemArc : zero[a] = 0
    BY DEF Integral
  <2> HIDE DEF r, zero
  <2>2. IsFiniteSet(ProblemArc)
    BY NetworkSizes
  <2>3. SumOver(r, ProblemArc) <= SumOver(zero, ProblemArc)
    BY <1>3, <1>4, <2>1, <2>2, SumMonotone
  <2>4. SumOver(zero, ProblemArc) = 0
    BY <2>1, <2>2, SumZero
  <2> QED  BY <2>3, <2>4
<1>6. SumOver(e, S) = SumOver(h, Node)
  <2>1. \A n \in Node : e[n] \in Int
    OBVIOUS
  <2>2. \A n \in S : h[n] = e[n]
    <3>1. \A n \in S : h[n] = 1 * e[n]
      OBVIOUS
    <3> HIDE DEF h
    <3> QED  BY <2>1, <3>1
  <2>3. \A n \in Node \ S : h[n] = 0
    <3>1. \A n \in Node \ S : h[n] = 0 * e[n]
      OBVIOUS
    <3> HIDE DEF h
    <3> QED  BY <2>1, <3>1
  <2>4. IsFiniteSet(Node) /\ Integral(e, Node)
    BY <2>1, NetworkSizes DEF Integral
  <2> HIDE DEF h
  <2> QED  BY <2>2, <2>3, <2>4, SumSupport
<1> HIDE DEF h, r
<1> QED  BY <1>3, <1>5, <1>6

(* All nodes together have no excess and no deficit.                       *)
LEMMA TotalExcess ==
  ASSUME NetworkTypeOK, NEW c \in [Arc -> Nat], NEW e \in [Node -> Int], NEW f,
         Meets(f, c, e)
  PROVE  SumOver(e, Node) = 0
<1> DEFINE q == [n \in Node |-> 1]
           r == [a \in ProblemArc |-> (q[graph.from[a]] - q[graph.to[a]]) * extra(f, c)[a]]
           h == [n \in Node |-> q[n] * e[n]]
<1>1. q \in [Node -> Int]
  OBVIOUS
<1>2. \A a \in ProblemArc : r[a] = (q[graph.from[a]] - q[graph.to[a]]) * extra(f, c)[a]
  OBVIOUS
<1>3. SumOver(h, Node) = SumOver(r, ProblemArc)
  <2> HIDE DEF q, r
  <2> QED  BY <1>1, <1>2, WeightedExcess
<1>4. \A a \in ProblemArc : r[a] = 0
  <2> SUFFICES ASSUME NEW a \in ProblemArc PROVE r[a] = 0
    OBVIOUS
  <2> DEFINE z == extra(f, c)[a]
  <2>1. z \in Int
    BY ExtraFacts
  <2>2. graph.from[a] \in Node /\ graph.to[a] \in Node
    BY DEF NetworkTypeOK
  <2>3. r[a] = (1 - 1) * z
    BY <2>2
  <2> HIDE DEF z, r
  <2> QED  BY <2>1, <2>3
<1>5. SumOver(r, ProblemArc) = 0
  <2> HIDE DEF r
  <2>1. IsFiniteSet(ProblemArc)
    BY NetworkSizes
  <2> QED  BY <1>4, <2>1, SumZero
<1>6. SumOver(e, Node) = SumOver(h, Node)
  <2>1. \A n \in Node : e[n] \in Int /\ h[n] = 1 * e[n]
    OBVIOUS
  <2> HIDE DEF h
  <2>2. /\ IsFiniteSet(Node) /\ Integral(e, Node)
        /\ \A n \in Node : e[n] = h[n]
    BY <2>1, NetworkSizes DEF Integral
  <2> QED  BY <2>2, SumEqual
<1> QED  BY <1>3, <1>5, <1>6

(* What leaves a node arrives at another: all balances sum to 0,           *)
LEMMA BalanceTotal ==
  ASSUME NetworkTypeOK, NEW c \in [Arc -> Nat]
  PROVE  SumOver([n \in Node |-> balance(c, n)], Node) = 0
<1> DEFINE e == [n \in Node |-> balance(c, n)]
           f == [a \in ProblemArc |-> 0]
<1>1. \A n \in Node : e[n] = balance(c, n) /\ e[n] \in Int
  BY CarriedType
<1>2. e \in [Node -> Int] /\ \A a \in ProblemArc : f[a] = 0
  BY <1>1
<1> HIDE DEF e, f
<1>3. Meets(f, c, e)
  <2>1. ASSUME NEW n \in Node
        PROVE  /\ SumOver(f, {a \in ProblemArc : graph.to[a] = n}) = 0
               /\ SumOver(f, {a \in ProblemArc : graph.from[a] = n}) = 0
    <3>1. /\ IsFiniteSet({a \in ProblemArc : graph.to[a] = n})
          /\ IsFiniteSet({a \in ProblemArc : graph.from[a] = n})
      BY NetworkSizes, FS_Subset
    <3> QED  BY <1>2, <3>1, SumZero
  <2>2. \A a \in ProblemArc : c[a] \in Nat /\ c[arc_dual(a)] \in Nat
    BY DualFacts
  <2> QED  BY <1>1, <1>2, <2>1, <2>2 DEF Meets
<1>4. SumOver(e, Node) = 0
  BY <1>2, <1>3, TotalExcess
<1> QED  BY <1>4 DEF e

(* so that flow that is moved leaves all excess together what it was.      *)
LEMMA MovedTotal ==
  ASSUME NetworkTypeOK, NEW c \in [Arc -> Nat], NEW d \in [Arc -> Nat],
         NEW e \in [Node -> Int], NEW g \in [Node -> Int], Moved(c, e, d, g)
  PROVE  SumOver(g, Node) = SumOver(e, Node)
<1> DEFINE b == [n \in Node |-> balance(c, n)]
           k == [n \in Node |-> balance(d, n)]
           h == [n \in Node |-> g[n] + b[n]]
<1>1. \A n \in Node : /\ b[n] \in Int /\ k[n] \in Int /\ e[n] \in Int /\ g[n] \in Int
                      /\ b[n] = balance(c, n) /\ k[n] = balance(d, n)
  BY CarriedType
<1>2. SumOver(b, Node) = 0 /\ SumOver(k, Node) = 0
  BY BalanceTotal
<1> HIDE DEF b, k
<1>3. \A n \in Node : h[n] = g[n] + b[n]
  OBVIOUS
<1> HIDE DEF h
<1>4. \A n \in Node : h[n] = e[n] + k[n]
  <2> SUFFICES ASSUME NEW n \in Node PROVE h[n] = e[n] + k[n]
    OBVIOUS
  <2>1. g[n] - balance(d, n) = e[n] - balance(c, n)
    BY DEF Moved
  <2>2. /\ b[n] \in Int /\ k[n] \in Int /\ e[n] \in Int /\ g[n] \in Int
        /\ balance(c, n) = b[n] /\ balance(d, n) = k[n] /\ h[n] = g[n] + b[n]
    BY <1>1, <1>3
  <2>3. g[n] - k[n] = e[n] - b[n]
    BY <2>1, <2>2
  <2> QED  BY <2>2, <2>3
<1>5. Integral(b, Node) /\ Integral(k, Node) /\ Integral(e, Node) /\ Integral(g, Node)
  BY <1>1 DEF Integral
<1>6. IsFiniteSet(Node)
  BY NetworkSizes
<1>7. SumOver(h, Node) = SumOver(g, Node) + SumOver(b, Node)
  BY <1>3, <1>5, <1>6, SumAdd
<1>8. SumOver(h, Node) = SumOver(e, Node) + SumOver(k, Node)
  BY <1>4, <1>5, <1>6, SumAdd
<1>9. SumOver(g, Node) \in Int /\ SumOver(e, Node) \in Int
  BY <1>5, <1>6, SumType
<1> QED  BY <1>2, <1>7, <1>8, <1>9

(* Where no node had excess, nothing gets out of a set of nodes unless the *)
(* residual capacity of an arc that leaves it grows.                       *)
LEMMA MovedCut ==
  ASSUME NetworkTypeOK, NEW c \in [Arc -> Nat], NEW k \in [Arc -> Nat],
         NEW z \in [Node -> Int], \A n \in Node : z[n] = 0,
         NEW e \in [Node -> Int], Moved(c, z, k, e), NEW S \in SUBSET Node,
         \A a \in Arc : arc_tail(a) \in S /\ arc_head(a) \notin S => k[a] <= c[a]
  PROVE  SumOver(e, S) <= 0
<1> DEFINE d == [a \in Arc |-> IF k[a] > c[a] THEN k[a] - c[a] ELSE 0]
           f == [a \in ProblemArc |-> d[a]]
<1>1. ASSUME NEW a \in Arc
      PROVE  /\ d[a] = (IF k[a] > c[a] THEN k[a] - c[a] ELSE 0)
             /\ k[a] \in Nat /\ c[a] \in Nat /\ d[a] \in Nat
  <2>1. k[a] \in Nat /\ c[a] \in Nat /\ d[a] = IF k[a] > c[a] THEN k[a] - c[a] ELSE 0
    OBVIOUS
  <2> HIDE DEF d
  <2> QED  BY <2>1
<1>2. d \in [Arc -> Nat] /\ \A a \in ProblemArc : f[a] = d[a]
  BY <1>1
<1> HIDE DEF d, f
<1>3. ASSUME NEW a \in ProblemArc
      PROVE  /\ f[a] \in Nat /\ d[a] \in Nat /\ d[arc_dual(a)] \in Nat /\ f[a] = d[a]
             /\ k[arc_dual(a)] \in Nat /\ c[arc_dual(a)] \in Nat
             /\ k[arc_dual(a)] + f[a] = c[arc_dual(a)] + d[arc_dual(a)]
  <2>1. a \in Arc /\ arc_dual(a) \in Arc
    BY DualFacts
  <2>2. k[a] + k[arc_dual(a)] = c[a] + c[arc_dual(a)]
    BY <2>1 DEF Moved
  <2> QED  BY <1>1, <1>2, <2>1, <2>2
<1>4. Meets(f, d, e)
  <2>1. \A a \in ProblemArc : f[a] \in Nat /\ f[a] <= d[a] + d[arc_dual(a)]
    BY <1>3
  <2>2. ASSUME NEW n \in Node
        PROVE  e[n] - balance(d, n) + SumOver(f, {a \in ProblemArc : graph.to[a] = n})
                                    - SumOver(f, {a \in ProblemArc : graph.from[a] = n}) = 0
    <3> DEFINE In == {a \in ProblemArc : graph.to[a] = n}
               Out == {a \in ProblemArc : graph.from[a] = n}
               y == [a \in ProblemArc |-> k[arc_dual(a)]]
               w == [a \in ProblemArc |-> c[arc_dual(a)]]
               x == [a \in ProblemArc |-> d[arc_dual(a)]]
               h == [a \in ProblemArc |-> y[a] + f[a]]
    <3>1. /\ IsFiniteSet(In) /\ IsFiniteSet(Out)
          /\ In \subseteq ProblemArc /\ Out \subseteq ProblemArc
      BY NetworkSizes, FS_Subset
    <3>2. \A a \in ProblemArc : /\ y[a] = k[arc_dual(a)] /\ w[a] = c[arc_dual(a)]
                                /\ x[a] = d[arc_dual(a)] /\ h[a] = y[a] + f[a]
      OBVIOUS
    <3> HIDE DEF y, w, x, h
    <3>3. /\ balance(k, n) = SumOver(y, In) - SumOver(y, Out)
          /\ balance(c, n) = SumOver(w, In) - SumOver(w, Out)
          /\ balance(d, n) = SumOver(x, In) - SumOver(x, Out)
      BY <1>2, <3>2, BalanceSplit
    <3>4. \A a \in ProblemArc : /\ y[a] \in Int /\ w[a] \in Int /\ x[a] \in Int /\ f[a] \in Int
                                /\ h[a] = y[a] + f[a] /\ h[a] = w[a] + x[a]
      BY <1>3, <3>2
    <3> HIDE DEF In, Out
    <3>5. /\ Integral(y, In) /\ Integral(w, In) /\ Integral(x, In) /\ Integral(f, In)
          /\ Integral(y, Out) /\ Integral(w, Out) /\ Integral(x, Out) /\ Integral(f, Out)
      BY <3>1, <3>4 DEF Integral
    <3>6. /\ SumOver(h, In) = SumOver(y, In) + SumOver(f, In)
          /\ SumOver(h, Out) = SumOver(y, Out) + SumOver(f, Out)
      BY <3>1, <3>4, <3>5, SumAdd
    <3>7. /\ SumOver(h, In) = SumOver(w, In) + SumOver(x, In)
          /\ SumOver(h, Out) = SumOver(w, Out) + SumOver(x, Out)
      BY <3>1, <3>4, <3>5, SumAdd
    <3>8. /\ SumOver(y, In) \in Int /\ SumOver(w, In) \in Int
          /\ SumOver(x, In) \in Int /\ SumOver(f, In) \in Int
          /\ SumOver(y, Out) \in Int /\ SumOver(w, Out) \in Int
          /\ SumOver(x, Out) \in Int /\ SumOver(f, Out) \in Int
      BY <3>1, <3>5, SumType
    <3>9. e[n] - balance(k, n) = 0 - balance(c, n) /\ e[n] \in Int
      BY DEF Moved
    <3>10. e[n] - balance(d, n) + SumOver(f, In) - SumOver(f, Out) = 0
      BY <3>3, <3>6, <3>7, <3>8, <3>9
    <3> QED  BY <3>10 DEF In, Out
  <2> QED  BY <2>1, <2>2 DEF Meets
<1>5. \A a \in Arc : arc_tail(a) \in S /\ arc_head(a) \notin S => d[a] = 0
  BY <1>1
<1> QED  BY <1>2, <1>4, <1>5, CutExcess

(* Prices cannot differ by more than a level per node: where q is at most  *)
(* K higher at the tail of every arc that gained capacity than at its      *)
(* head, and not positive at a deficit, a node with excess is connected by *)
(* such arcs with a deficit, past every node once at most.                 *)
LEMMA RiseBound ==
  ASSUME NetworkTypeOK, NEW c \in [Arc -> Nat], NEW k \in [Arc -> Nat],
         NEW z \in [Node -> Int], \A n \in Node : z[n] = 0,
         NEW e \in [Node -> Int], Moved(c, z, k, e),
         NEW q \in [Node -> Int], NEW K \in Nat,
         \A a \in Arc : k[a] > c[a] => q[arc_tail(a)] <= q[arc_head(a)] + K,
         \A n \in Node : e[n] < 0 => q[n] <= 0,
         NEW v \in Node, e[v] > 0
  PROVE  q[v] <= (max_num_nodes - 1) * K
<1> SUFFICES ASSUME ~ (q[v] <= (max_num_nodes - 1) * K) PROVE FALSE
  OBVIOUS
<1>1. /\ IsFiniteSet(Node) /\ Cardinality(Node) = max_num_nodes /\ max_num_nodes \in Nat \ {0}
      /\ \A l \in Node : l \in Nat /\ l <= max_num_nodes - 1
  BY NetworkSizes DEF Node
<1>2. \A n \in Node : q[n] \in Int /\ e[n] \in Int
  OBVIOUS
<1>3. ASSUME NEW x \in Int, NEW y \in Int, x <= y
      PROVE  x * K \in Int /\ y * K \in Int /\ x * K <= y * K /\ (x >= 0 => x * K >= 0)
  <2>1. y - x \in Nat /\ (y - x) * K >= 0
    BY <1>3
  <2>2. (y - x) * K = y * K - x * K
    OBVIOUS
  <2> QED  BY <2>1, <2>2
<1>4. ASSUME NEW l \in Node
      PROVE  \E u \in Node : q[u] > l * K /\ q[u] <= (l + 1) * K
  <2> DEFINE S == {u \in Node : q[u] > l * K}
  <2>1. l * K \in Int /\ l * K <= (max_num_nodes - 1) * K /\ l * K >= 0
        /\ (max_num_nodes - 1) * K \in Int /\ (l + 1) * K = l * K + K
    <3>1. l \in Int /\ l >= 0 /\ max_num_nodes - 1 \in Int /\ l <= max_num_nodes - 1
      BY <1>1
    <3> QED  BY <1>3, <3>1
  <2>2. v \in S
    BY <1>2, <2>1
  <2>3. \A u \in S : e[u] >= 0
    BY <1>2, <2>1
  <2>4. S \in SUBSET Node /\ IsFiniteSet(S) /\ Integral(e, S)
    <3>1. S \in SUBSET Node
      OBVIOUS
    <3> QED  BY <1>1, <1>2, <3>1, FS_Subset DEF Integral
  <2>5. SumOver(e, S) > 0
    <3> HIDE DEF S
    <3> QED  BY <2>2, <2>3, <2>4, SumPositive
  <2>6. SumOver(e, S) \in Int
    <3> HIDE DEF S
    <3> QED  BY <2>4, SumType
  <2>7. PICK a \in Arc : arc_tail(a) \in S /\ arc_head(a) \notin S /\ ~ (k[a] <= c[a])
    <3>1. ~ (SumOver(e, S) <= 0)
      BY <2>5, <2>6
    <3> HIDE DEF S
    <3> QED  BY <2>4, <3>1, MovedCut
  <2>8. arc_tail(a) \in Node /\ arc_head(a) \in Node /\ k[a] \in Nat /\ c[a] \in Nat
    BY ArcFacts
  <2>9. q[arc_tail(a)] <= q[arc_head(a)] + K
    BY <2>7, <2>8
  <2>10. q[arc_head(a)] <= l * K /\ q[arc_tail(a)] > l * K
    BY <1>2, <2>1, <2>7, <2>8
  <2>11. q[arc_tail(a)] <= (l + 1) * K
    BY <1>2, <2>1, <2>8, <2>9, <2>10
  <2> QED  BY <2>8, <2>10, <2>11
<1>5. PICK w \in Node : e[w] < 0
  <2>1. SumOver(e, Node) = SumOver(z, Node)
    BY MovedTotal
  <2>2. SumOver(z, Node) = 0
    BY <1>1, SumZero
  <2> SUFFICES ASSUME ~ \E w \in Node : e[w] < 0 PROVE FALSE
    OBVIOUS
  <2>3. \A w \in Node : e[w] >= 0
    BY <1>2
  <2>4. SumOver(e, Node) > 0
    BY <1>1, <1>2, <2>3, SumPositive DEF Integral
  <2> QED  BY <2>1, <2>2, <2>4
<1> DEFINE others == Node \ {w}
           f == [l \in Node |-> CHOOSE u \in Node : q[u] > l * K /\ q[u] <= (l + 1) * K]
<1>6. \A l \in Node : f[l] \in Node /\ q[f[l]] > l * K /\ q[f[l]] <= (l + 1) * K
  BY <1>4
<1> HIDE DEF f
<1>7. \A l \in Node : f[l] # w
  <2> SUFFICES ASSUME NEW l \in Node, f[l] = w PROVE FALSE
    OBVIOUS
  <2>1. q[w] > l * K /\ q[w] <= 0
    BY <1>5, <1>6
  <2>2. l * K >= 0 /\ l * K \in Int
    <3>1. l \in Int /\ l <= l /\ l >= 0
      BY <1>1
    <3> QED  BY <1>3, <3>1
  <2> QED  BY <1>2, <2>1, <2>2
<1>8. f \in [Node -> others]
  BY <1>6, <1>7 DEF f
<1>9. IsFiniteSet(others) /\ Cardinality(others) = max_num_nodes - 1
  BY <1>1, FS_RemoveElement
<1>10. PICK i, j \in Node : i # j /\ f[i] = f[j]
  <2> HIDE DEF others
  <2> QED  BY <1>1, <1>8, <1>9, FS_PigeonHole
<1>11. ASSUME NEW x \in Node, NEW y \in Node, x < y, f[x] = f[y] PROVE FALSE
  <2>1. x + 1 \in Int /\ y \in Int /\ x + 1 <= y
    BY <1>1, <1>11
  <2>2. (x + 1) * K <= y * K /\ (x + 1) * K \in Int /\ y * K \in Int
    BY <1>3, <2>1
  <2>3. q[f[x]] <= (x + 1) * K /\ q[f[x]] > y * K /\ q[f[x]] \in Int
    BY <1>2, <1>6, <1>11
  <2> QED  BY <2>2, <2>3
<1>12. i < j \/ j < i
  BY <1>1, <1>10
<1> QED  BY <1>10, <1>11, <1>12

(* Where no node has excess and all together have none, none has a         *)
(* deficit.                                                                *)
LEMMA NoneLeft ==
  ASSUME NEW e \in [Node -> Int], SumOver(e, Node) = 0
  PROVE  (\A n \in Node : e[n] <= 0) => \A n \in Node : e[n] = 0
<1> DEFINE z == [n \in Node |-> 0]
<1>1. \A n \in Node : z[n] = 0 /\ z[n] \in Int /\ e[n] \in Int
  OBVIOUS
<1> HIDE DEF z
<1>2. IsFiniteSet(Node)
  BY NetworkSizes
<1>3. Integral(z, Node) /\ Integral(e, Node)
  BY <1>1 DEF Integral
<1>4. SumOver(z, Node) = 0
  BY <1>1, <1>2, SumZero
<1> SUFFICES ASSUME \A n \in Node : e[n] <= 0, NEW n \in Node PROVE e[n] = 0
  OBVIOUS
<1>5. \A m \in Node : e[m] <= z[m]
  BY <1>1
<1>6. e[n] = z[n]
  BY <1>2, <1>3, <1>4, <1>5, SumTight
<1> QED  BY <1>1, <1>6

(* Where no excess is left, prices do not tell flows apart.                *)
LEMMA PricedExcess ==
  ASSUME NetworkTypeOK, NEW c \in [Arc -> Nat], NEW e \in [Node -> Int],
         NEW f, Meets(f, c, e), NEW q \in [Node -> Int], NEW r,
         \A a \in ProblemArc :
           r[a] = (q[graph.from[a]] - q[graph.to[a]]) * extra(f, c)[a]
  PROVE  /\ Integral(r, ProblemArc)
         /\ (\A n \in Node : e[n] = 0) => SumOver(r, ProblemArc) = 0
<1> DEFINE h == [n \in Node |-> q[n] * e[n]]
<1>1. Integral(r, ProblemArc) /\ SumOver(h, Node) = SumOver(r, ProblemArc)
  BY WeightedExcess
<1>2. ASSUME \A n \in Node : e[n] = 0 PROVE SumOver(h, Node) = 0
  <2>1. ASSUME NEW n \in Node PROVE h[n] = 0
    <3>1. h[n] = q[n] * 0 /\ q[n] \in Int
      BY <1>2
    <3> DEFINE x == q[n]
    <3> HIDE DEF h, x
    <3>2. h[n] = x * 0 /\ x \in Int
      BY <3>1 DEF x
    <3> QED  BY <3>2
  <2> HIDE DEF h
  <2>2. \A n \in Node : h[n] = 0
    BY <2>1
  <2> QED  BY <2>2, NetworkSizes, SumZero
<1> QED  BY <1>1, <1>2

-----------------------------------------------------------------------------
(* What a flow costs when the arcs cost k, and what the network does that  *)
(* has capacities c: MinCostFlow writes them so.                           *)
paid(f, k) == MapThenSumSet(LAMBDA a : f[a] * k[a], ProblemArc)
spent(c, k) == MapThenSumSet(LAMBDA a : c[arc_dual(a)] * k[a], ProblemArc)

(* The sum of a flow's costs.                                              *)
LEMMA PaidIsSum ==
  ASSUME NEW f, NEW k
  PROVE  paid(f, k) = SumOver([a \in ProblemArc |-> f[a] * k[a]], ProblemArc)
<1> DEFINE S == ProblemArc
           F == [a \in S |-> f[a] * k[a]]
           next(g) == [s \in SUBSET S |-> IF s = {} THEN 0 ELSE
                         f[CHOOSE x \in s : TRUE] * k[CHOOSE x \in s : TRUE]
                         + g[s \ {CHOOSE x \in s : TRUE}]]
           h == CHOOSE g : g = next(g)
<1>1. paid(f, k) = h[S]
  BY ZenonT(30) DEF paid, MapThenSumSet, MapThenFoldSet
<1>2. \A s \in SUBSET S : s # {} => F[choice(s)] = f[choice(s)] * k[choice(s)]
  BY ChoiceFacts
<1>3. \A g : next(g) = [s \in SUBSET S |-> IF s = {} THEN 0 ELSE F[choice(s)] + g[s \ {choice(s)}]]
  <2>1. \A g : next(g) = [s \in SUBSET S |-> IF s = {} THEN 0 ELSE
                            f[choice(s)] * k[choice(s)] + g[s \ {choice(s)}]]
    <3> HIDE DEF S
    <3> QED  BY Zenon DEF choice
  <2> HIDE DEF next, F, S
  <2> QED  BY <1>2, <2>1
<1>4. PICK g : Sums(F, g, S) /\ SumOver(F, S) = g[S]
  <2>1. IsFiniteSet(S)
    BY NetworkSizes
  <2> HIDE DEF F
  <2> QED  BY <2>1, Unfold
<1> HIDE DEF F, S, next
<1>5. g = next(g)
  BY <1>3, <1>4 DEF Sums
<1>6. h = next(h)
  BY <1>5, Zenon
<1> HIDE DEF h
<1>7. Sums(F, h, S)
  BY <1>3, <1>6 DEF Sums
<1>8. h[S] = g[S]
  <2>1. IsFiniteSet(S)
    BY NetworkSizes DEF S
  <2> QED  BY <1>4, <1>7, <2>1, SumsUnique
<1> QED  BY <1>1, <1>4, <1>8 DEF F, S

(* A dual carries the flow of its arc.                                     *)
LEMMA SpentIsSum ==
  ASSUME NEW c, NEW k
  PROVE  spent(c, k) = SumOver([a \in ProblemArc |-> c[arc_dual(a)] * k[a]], ProblemArc)
<1> DEFINE S == ProblemArc
           F == [a \in S |-> c[arc_dual(a)] * k[a]]
           next(g) == [s \in SUBSET S |-> IF s = {} THEN 0 ELSE
                         c[arc_dual(CHOOSE x \in s : TRUE)] * k[CHOOSE x \in s : TRUE]
                         + g[s \ {CHOOSE x \in s : TRUE}]]
           h == CHOOSE g : g = next(g)
<1>1. spent(c, k) = h[S]
  BY ZenonT(30) DEF spent, MapThenSumSet, MapThenFoldSet
<1>2. \A s \in SUBSET S : s # {} => F[choice(s)] = c[arc_dual(choice(s))] * k[choice(s)]
  BY ChoiceFacts
<1>3. \A g : next(g) = [s \in SUBSET S |-> IF s = {} THEN 0 ELSE F[choice(s)] + g[s \ {choice(s)}]]
  <2>1. \A g : next(g) = [s \in SUBSET S |-> IF s = {} THEN 0 ELSE
                            c[arc_dual(choice(s))] * k[choice(s)] + g[s \ {choice(s)}]]
    <3> HIDE DEF S
    <3> QED  BY Zenon DEF choice
  <2> HIDE DEF next, F, S
  <2> QED  BY <1>2, <2>1
<1>4. PICK g : Sums(F, g, S) /\ SumOver(F, S) = g[S]
  <2>1. IsFiniteSet(S)
    BY NetworkSizes
  <2> HIDE DEF F
  <2> QED  BY <2>1, Unfold
<1> HIDE DEF F, S, next
<1>5. g = next(g)
  BY <1>3, <1>4 DEF Sums
<1>6. h = next(h)
  BY <1>5, Zenon
<1> HIDE DEF h
<1>7. Sums(F, h, S)
  BY <1>3, <1>6 DEF Sums
<1>8. h[S] = g[S]
  <2>1. IsFiniteSet(S)
    BY NetworkSizes DEF S
  <2> QED  BY <1>4, <1>7, <2>1, SumsUnique
<1> QED  BY <1>1, <1>4, <1>8 DEF F, S

(* Where nothing costs anything, no flow does.                             *)
LEMMA FreeOfCharge ==
  ASSUME NEW c, NEW f, NEW k, \A a \in ProblemArc : k[a] = 0,
         \A a \in ProblemArc : f[a] \in Int /\ c[arc_dual(a)] \in Int
  PROVE  spent(c, k) = 0 /\ paid(f, k) = 0
<1> DEFINE u == [a \in ProblemArc |-> c[arc_dual(a)] * k[a]]
           v == [a \in ProblemArc |-> f[a] * k[a]]
<1>1. \A x \in Int : x * 0 = 0
  OBVIOUS
<1>2. \A a \in ProblemArc : u[a] = 0 /\ v[a] = 0
  <2> SUFFICES ASSUME NEW a \in ProblemArc PROVE u[a] = 0 /\ v[a] = 0
    OBVIOUS
  <2>1. u[a] = c[arc_dual(a)] * 0 /\ v[a] = f[a] * 0
    OBVIOUS
  <2> HIDE DEF u, v
  <2> QED  BY <1>1, <2>1
<1>3. u = [a \in ProblemArc |-> c[arc_dual(a)] * k[a]] /\ v = [a \in ProblemArc |-> f[a] * k[a]]
  OBVIOUS
<1> HIDE DEF u, v
<1>4. SumOver(u, ProblemArc) = 0 /\ SumOver(v, ProblemArc) = 0
  <2>1. IsFiniteSet(ProblemArc)
    BY NetworkSizes
  <2> QED  BY <1>2, <2>1, SumZero
<1> QED  BY <1>3, <1>4, PaidIsSum, SpentIsSum, Zenon

(* Prices that show every residual arc optimal show the flow optimal: no   *)
(* flow that meets the same supplies costs less.                           *)
LEMMA CheapestFlow ==
  ASSUME NetworkTypeOK, NEW c \in [Arc -> Nat], NEW e \in [Node -> Int],
         \A n \in Node : e[n] = 0, NEW f, Meets(f, c, e), NEW q \in [Node -> Int],
         \A a \in Arc : c[a] > 0 => cost[a] + q[arc_head(a)] - q[arc_tail(a)] >= 0
  PROVE  spent(c, cost) <= paid(f, cost)
<1> DEFINE d == extra(f, c)
           r == [a \in ProblemArc |-> (q[graph.from[a]] - q[graph.to[a]]) * d[a]]
           cf == [a \in ProblemArc |-> f[a] * cost[a]]
           cx == [a \in ProblemArc |-> c[arc_dual(a)] * cost[a]]
           more == [a \in ProblemArc |-> cx[a] + r[a]]
<1>1. \A a \in ProblemArc : r[a] = (q[graph.from[a]] - q[graph.to[a]]) * extra(f, c)[a]
  OBVIOUS
<1>2. Integral(r, ProblemArc) /\ SumOver(r, ProblemArc) = 0
  <2> HIDE DEF r
  <2> QED  BY <1>1, PricedExcess
<1>4. ASSUME NEW a \in ProblemArc
      PROVE  /\ cf[a] \in Int /\ cx[a] \in Int /\ r[a] \in Int
             /\ more[a] = cx[a] + r[a] /\ more[a] <= cf[a]
  <2> DEFINE u == q[graph.from[a]]
             v == q[graph.to[a]]
             C == cost[a]
             D == d[a]
             X == c[arc_dual(a)]
  <2>1. /\ D \in Int /\ (D > 0 => c[a] > 0) /\ (D < 0 => X > 0)
        /\ X \in Nat /\ f[a] = D + X
    BY ExtraFacts
  <2>2. /\ a \in Arc /\ arc_dual(a) \in Arc
        /\ arc_tail(a) = graph.from[a] /\ arc_head(a) = graph.to[a]
        /\ arc_tail(arc_dual(a)) = graph.to[a] /\ arc_head(arc_dual(a)) = graph.from[a]
        /\ u \in Int /\ v \in Int /\ C \in Int /\ cost[arc_dual(a)] = - C
    BY DualFacts DEF NetworkTypeOK
  <2>3. c[a] > 0 => C + v - u >= 0
    BY <2>2
  <2>4. X > 0 => - C + u - v >= 0
    BY <2>2
  <2>5. /\ cf[a] = f[a] * C /\ cx[a] = X * C /\ r[a] = (u - v) * D
        /\ more[a] = cx[a] + r[a]
    OBVIOUS
  <2> HIDE DEF u, v, C, D, X, cf, cx, r, more
  <2>6. (D + X) * C \in Int /\ X * C \in Int /\ (u - v) * D \in Int
    BY <2>1, <2>2
  <2>7. D * (C + v - u) >= 0
    <3>1. C + v - u \in Int
      BY <2>2
    <3>2. D > 0 => C + v - u >= 0
      BY <2>1, <2>3
    <3>3. D < 0 => C + v - u <= 0
      BY <2>1, <2>2, <2>4
    <3> DEFINE p == C + v - u
    <3> HIDE DEF p
    <3>4. p \in Int /\ (D > 0 => p >= 0) /\ (D < 0 => p <= 0)
      BY <3>1, <3>2, <3>3 DEF p
    <3>5. D * p >= 0
      <4>1. CASE D = 0
        BY <3>4, <4>1
      <4>2. CASE D > 0
        BY <2>1, <3>4, <4>2
      <4>3. CASE D < 0
        BY <2>1, <3>4, <4>3
      <4> QED  BY <2>1, <4>1, <4>2, <4>3
    <3> QED  BY <3>5 DEF p
  <2>8. (D + X) * C = X * C + (u - v) * D + D * (C + v - u)
    BY <2>1, <2>2
  <2>9. D * (C + v - u) \in Int
    BY <2>1, <2>2
  <2> QED  BY <2>1, <2>5, <2>6, <2>7, <2>8, <2>9
<1>5. \A a \in ProblemArc : more[a] = cx[a] + r[a]
  OBVIOUS
<1>0. /\ cf = [a \in ProblemArc |-> f[a] * cost[a]]
      /\ cx = [a \in ProblemArc |-> c[arc_dual(a)] * cost[a]]
  OBVIOUS
<1> HIDE DEF cf, cx, r, more
<1>6. /\ Integral(cf, ProblemArc) /\ Integral(cx, ProblemArc) /\ Integral(more, ProblemArc)
      /\ IsFiniteSet(ProblemArc)
  BY <1>4, NetworkSizes DEF Integral
<1>7. SumOver(more, ProblemArc) = SumOver(cx, ProblemArc) + SumOver(r, ProblemArc)
  BY <1>2, <1>5, <1>6, SumAdd
<1>8. SumOver(more, ProblemArc) <= SumOver(cf, ProblemArc)
  BY <1>4, <1>6, SumMonotone
<1>9. SumOver(cx, ProblemArc) \in Int
  BY <1>6, SumType
<1>10. SumOver(cx, ProblemArc) <= SumOver(cf, ProblemArc)
  <2> DEFINE x == SumOver(cx, ProblemArc)
             y == SumOver(cf, ProblemArc)
             z == SumOver(more, ProblemArc)
             w == SumOver(r, ProblemArc)
  <2>1. w = 0 /\ z = x + w /\ z <= y /\ x \in Int
    BY <1>2, <1>7, <1>8, <1>9, Zenon
  <2> HIDE DEF x, y, z, w
  <2>2. \A i, j, k, l : l = 0 /\ k = i + l /\ k <= j /\ i \in Int => i <= j
    OBVIOUS
  <2>3. x <= y
    BY <2>1, <2>2, Zenon
  <2> QED  BY <2>3 DEF x, y
<1>11. spent(c, cost) = SumOver(cx, ProblemArc) /\ paid(f, cost) = SumOver(cf, ProblemArc)
  BY <1>0, PaidIsSum, SpentIsSum, Zenon
<1> QED  BY <1>10, <1>11, Zenon
=============================================================================
