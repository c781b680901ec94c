----------------------------- MODULE SumsProofs -----------------------------
(***************************************************************************)
(* What the sums of module Sums return, for every length.  Induction is    *)
(* over sets of natural numbers: a set that holds 0 and is closed under    *)
(* successor holds them all, because < is well founded on Nat.             *)
(***************************************************************************)
EXTENDS Sums, FiniteSetTheorems, WellFoundedInduction, TLAPS

\* The induction principle the lemmas below rest on: it stands in for the
\* loops of the contracts, which go over batches and validators one by one.
LEMMA NatSetInduction ==
  ASSUME NEW S, 0 \in S, \A n \in Nat : n \in S => n + 1 \in S
  PROVE  \A n \in Nat : n \in S
<1> SUFFICES ASSUME NEW k \in Nat, k \notin S PROVE FALSE
  OBVIOUS
<1> DEFINE T == {n \in Nat : n \notin S}
           R == OpToRel(<, Nat)
<1>1. IsWellFoundedOn(R, Nat)
  BY NatLessThanWellFounded
<1>2. T \subseteq Nat /\ T # {}
  OBVIOUS
<1> HIDE DEF T, R
<1>3. PICK x \in T : \A y \in T : ~(<<y, x>> \in R)
  BY <1>1, <1>2, WFMin
<1> USE DEF T, R
<1>4. x \in Nat /\ x # 0 /\ x - 1 \in Nat
  OBVIOUS
<1>5. x - 1 \in S
  <2>1. CASE x - 1 \in T
    <3>1. <<x - 1, x>> \in R
      BY <1>4, <2>1 DEF OpToRel
    <3>2. QED
      BY <3>1, <2>1, <1>3
  <2>2. QED
    BY <1>4, <2>1
<1>6. (x - 1) + 1 \in S
  BY <1>4, <1>5
<1>7. (x - 1) + 1 = x
  BY <1>4
<1>8. QED
  BY <1>6, <1>7

\* A nonempty set of batch ids or validator positions has a greatest element.
LEMMA GreatestExists ==
  ASSUME NEW n \in Nat, NEW B, B \subseteq 1..n, B # {}
  PROVE  \E b \in B : \A c \in B : c <= b
<1> DEFINE Has(k) == \A C : C \subseteq 1..k /\ C # {} => \E b \in C : \A c \in C : c <= b
           S == {k \in Nat : Has(k)}
<1>1. 0 \in S
  OBVIOUS
<1>2. ASSUME NEW k \in Nat, k \in S PROVE k + 1 \in S
  <2> SUFFICES ASSUME NEW C, C \subseteq 1..(k + 1), C # {}
               PROVE  \E b \in C : \A c \in C : c <= b
    OBVIOUS
  <2>1. CASE k + 1 \in C
    <3> WITNESS k + 1 \in C
    <3> QED OBVIOUS
  <2>2. CASE k + 1 \notin C
    <3>1. C \subseteq 1..k
      BY <2>2
    <3>2. Has(k)
      BY <1>2
    <3>3. QED
      BY <3>1, <3>2
  <2>3. QED
    BY <2>1, <2>2
<1> HIDE DEF S
<1>3. n \in S
  BY <1>1, <1>2, NatSetInduction
<1>4. Has(n)
  BY <1>3 DEF S
<1>5. QED
  BY <1>4

\* There is a function of running sums for every length.
LEMMA RunningSumsExist ==
  ASSUME NEW n \in Nat, NEW v, \A i \in 1..n : v[i] \in Nat
  PROVE  \E g \in [0..n -> Nat] :
            g = [i \in 0..n |-> IF i = 0 THEN 0 ELSE g[i - 1] + v[i]]
<1> DEFINE Ok(k) == \E g \in [0..k -> Nat] : /\ g[0] = 0
                                             /\ \A i \in 1..k : g[i] = g[i - 1] + v[i]
           S == {k \in Nat : k <= n => Ok(k)}
<1>1. 0 \in S
  <2>1. Ok(0)
    <3> WITNESS [i \in 0..0 |-> 0] \in [0..0 -> Nat]
    <3> QED OBVIOUS
  <2> HIDE DEF Ok
  <2>2. QED
    BY <2>1
<1>2. ASSUME NEW k \in Nat, k \in S PROVE k + 1 \in S
  <2> SUFFICES ASSUME k + 1 <= n PROVE Ok(k + 1)
    OBVIOUS
  <2>1. PICK g \in [0..k -> Nat] : g[0] = 0 /\ \A i \in 1..k : g[i] = g[i - 1] + v[i]
    <3>1. k <= n => Ok(k)
      <4> HIDE DEF Ok
      <4> QED BY <1>2
    <3>2. k <= n
      OBVIOUS
    <3>3. QED
      BY ONLY <3>1, <3>2
  <2> DEFINE h == [i \in 0..k + 1 |-> IF i <= k THEN g[i] ELSE g[k] + v[k + 1]]
  <2>2. h \in [0..k + 1 -> Nat]
    OBVIOUS
  <2>3. h[0] = 0 /\ \A i \in 1..k + 1 : h[i] = h[i - 1] + v[i]
    BY <2>1
  <2>4. QED
    BY <2>2, <2>3
<1> HIDE DEF S
<1>3. n \in S
  BY <1>1, <1>2, NatSetInduction
<1>4. Ok(n)
  <2> HIDE DEF Ok
  <2> QED BY <1>3 DEF S
<1>5. PICK g \in [0..n -> Nat] : g[0] = 0 /\ \A i \in 1..n : g[i] = g[i - 1] + v[i]
  BY <1>4
<1>6. g = [i \in 0..n |-> IF i = 0 THEN 0 ELSE g[i - 1] + v[i]]
  BY <1>5
<1>7. QED
  BY <1>6

\* RunningSums obeys its defining recursion.
LEMMA RunningSumsDef ==
  ASSUME NEW n \in Nat, NEW v, \A i \in 1..n : v[i] \in Nat
  PROVE  RunningSums(v, n) =
           [i \in 0..n |-> IF i = 0 THEN 0 ELSE RunningSums(v, n)[i - 1] + v[i]]
<1>1. PICK g : g = [i \in 0..n |-> IF i = 0 THEN 0 ELSE g[i - 1] + v[i]]
  <2>1. \E g \in [0..n -> Nat] : g = [i \in 0..n |-> IF i = 0 THEN 0 ELSE g[i - 1] + v[i]]
    BY RunningSumsExist
  <2>2. QED
    BY <2>1
<1>2. QED
  BY <1>1 DEF RunningSums

\* Every running sum of natural numbers is a natural number.
LEMMA RunningSumsType ==
  ASSUME NEW n \in Nat, NEW v, \A i \in 1..n : v[i] \in Nat
  PROVE  RunningSums(v, n) \in [0..n -> Nat]
<1> DEFINE g == RunningSums(v, n)
           S == {k \in Nat : k <= n => g[k] \in Nat}
<1>1. g = [i \in 0..n |-> IF i = 0 THEN 0 ELSE g[i - 1] + v[i]]
  BY RunningSumsDef
<1> HIDE DEF g
<1>2. 0 \in S
  BY <1>1
<1>3. ASSUME NEW k \in Nat, k \in S PROVE k + 1 \in S
  <2> SUFFICES ASSUME k + 1 <= n PROVE g[k + 1] \in Nat
    OBVIOUS
  <2>1. g[k + 1] = g[k] + v[k + 1]
    BY <1>1
  <2>2. QED
    BY <2>1, <1>3
<1> HIDE DEF S
<1>4. \A k \in 0..n : k \in S
  BY <1>2, <1>3, NatSetInduction
<1>5. QED
  BY <1>4, <1>1 DEF S, g

\* A sum of amounts is an amount: no sum the hub takes can be anything else.
LEMMA SumToType ==
  ASSUME NEW n \in Nat, NEW v, \A i \in 1..n : v[i] \in Nat
  PROVE  SumTo(v, n) \in Nat
<1>1. RunningSums(v, n) \in [0..n -> Nat]
  BY RunningSumsType
<1>2. QED
  BY <1>1 DEF SumTo

-----------------------------------------------------------------------------
\* Induction over the finite sets of users and validators: a set of subsets
\* that holds the empty one and is closed under adding an element holds all.
LEMMA SubsetInduction ==
  ASSUME NEW S, IsFiniteSet(S), NEW Q, {} \in Q,
         \A T \in SUBSET S, x \in S : T \in Q /\ x \notin T => T \union {x} \in Q
  PROVE  \A T \in SUBSET S : T \in Q
<1> DEFINE K == {k \in Nat : \A T \in SUBSET S : Cardinality(T) = k => T \in Q}
<1>1. \A T \in SUBSET S : IsFiniteSet(T) /\ Cardinality(T) \in Nat
  BY FS_Subset, FS_CardinalityType
<1>2. 0 \in K
  BY <1>1, FS_EmptySet
<1>3. ASSUME NEW k \in Nat, k \in K PROVE k + 1 \in K
  <2> SUFFICES ASSUME NEW T \in SUBSET S, Cardinality(T) = k + 1 PROVE T \in Q
    OBVIOUS
  <2>1. PICK x : x \in T
    BY <1>1, FS_EmptySet
  <2>2. Cardinality(T \ {x}) = k
    <3>1. Cardinality(T \ {x}) = Cardinality(T) - 1
      <4> HIDE DEF K
      <4> QED BY <1>1, <2>1, FS_RemoveElement
    <3>2. QED
      BY <3>1
  <2>3. T \ {x} \in Q
    BY <1>3, <2>2
  <2>4. (T \ {x}) \union {x} = T
    BY <2>1
  <2>5. T \ {x} \in SUBSET S /\ x \in S /\ x \notin T \ {x}
    BY <2>1
  <2>6. QED
    BY <2>3, <2>4, <2>5
<1> HIDE DEF K
<1>4. \A k \in Nat : k \in K
  BY <1>2, <1>3, NatSetInduction
<1>5. QED
  BY <1>1, <1>4 DEF K

\* The element a sum over a set starts with.
First(T) == CHOOSE x \in T : TRUE

\* g holds the sums of f over the subsets of S.
SumsOfSubsets(g, f, S) ==
  g = [T \in SUBSET S |-> IF T = {} THEN 0 ELSE f[First(T)] + g[T \ {First(T)}]]

\* There is a function of sums over the subsets of every finite set.
LEMMA SumsOfSubsetsExist ==
  ASSUME NEW f, NEW S, IsFiniteSet(S)
  PROVE  \E g : SumsOfSubsets(g, f, S)
<1> DEFINE Rec(g, T) == g[T] = IF T = {} THEN 0 ELSE f[First(T)] + g[T \ {First(T)}]
           Ok(k) == \E g : \A T \in SUBSET S : Cardinality(T) <= k => Rec(g, T)
           K == {k \in Nat : Ok(k)}
<1>1. \A T \in SUBSET S : IsFiniteSet(T) /\ Cardinality(T) \in Nat
  BY FS_Subset, FS_CardinalityType
<1>2. 0 \in K
  <2>1. \A T \in SUBSET S : Cardinality(T) <= 0 => T = {}
    <3> HIDE DEF K
    <3> QED BY <1>1, FS_EmptySet
  <2>2. Ok(0)
    <3> WITNESS [T \in SUBSET S |-> 0]
    <3> QED BY <2>1
  <2> HIDE DEF Ok
  <2>3. QED
    BY <2>2
<1>3. ASSUME NEW k \in Nat, k \in K PROVE k + 1 \in K
  <2>1. PICK g : \A T \in SUBSET S : Cardinality(T) <= k => Rec(g, T)
    BY <1>3
  <2> DEFINE h == [T \in SUBSET S |->
                     IF Cardinality(T) <= k THEN g[T]
                     ELSE IF T = {} THEN 0 ELSE f[First(T)] + g[T \ {First(T)}]]
  <2>2. ASSUME NEW T \in SUBSET S, Cardinality(T) <= k + 1 PROVE Rec(h, T)
    <3>1. CASE T = {}
      <4>1. Cardinality(T) <= k
        BY <3>1, FS_EmptySet
      <4>2. Rec(g, T)
        BY <4>1, <2>1
      <4>3. QED
        BY <3>1, <4>1, <4>2
    <3>2. CASE T # {}
      <4> DEFINE c == First(T)
      <4>1. c \in T
        BY <3>2 DEF First
      <4> HIDE DEF c
      <4>2. Cardinality(T \ {c}) = Cardinality(T) - 1
        BY ONLY <4>1, <1>1, FS_RemoveElement, T \in SUBSET S
      <4>3. Cardinality(T \ {c}) <= k /\ Cardinality(T) \in Nat
        BY <4>2, <2>2, <1>1
      <4>4. h[T \ {c}] = g[T \ {c}]
        BY <4>3
      <4>5. h[T] = f[c] + g[T \ {c}]
        <5>1. CASE Cardinality(T) <= k
          BY <5>1, <2>1, <3>2 DEF c
        <5>2. CASE ~(Cardinality(T) <= k)
          BY <5>2, <3>2 DEF c
        <5>3. QED
          BY <5>1, <5>2
      <4>6. QED
        BY <4>4, <4>5, <3>2 DEF c
    <3>3. QED
      BY <3>1, <3>2
  <2> HIDE DEF h, Rec
  <2>3. Ok(k + 1)
    BY <2>2
  <2> HIDE DEF Ok
  <2>4. QED
    BY <2>3
<1> HIDE DEF K
<1>4. Cardinality(S) \in K
  BY <1>1, <1>2, <1>3, NatSetInduction
<1>5. Ok(Cardinality(S))
  <2> HIDE DEF Ok
  <2> QED BY <1>4 DEF K
<1>6. PICK g : \A T \in SUBSET S : Cardinality(T) <= Cardinality(S) => Rec(g, T)
  BY <1>5
<1>7. \A T \in SUBSET S : Rec(g, T)
  <2>1. \A T \in SUBSET S : Cardinality(T) <= Cardinality(S)
    BY FS_Subset
  <2> HIDE DEF Rec
  <2>2. QED
    BY <2>1, <1>6
<1> DEFINE h == [T \in SUBSET S |-> g[T]]
<1>8. \A T \in SUBSET S : Rec(h, T)
  <2>1. \A T \in SUBSET S : h[T] = g[T] /\ T \ {First(T)} \in SUBSET S
    OBVIOUS
  <2> HIDE DEF h
  <2>2. QED
    BY <2>1, <1>7
<1>9. h = [T \in SUBSET S |-> IF T = {} THEN 0 ELSE f[First(T)] + h[T \ {First(T)}]]
  BY <1>8
<1>10. QED
  <2> HIDE DEF h
  <2> QED BY <1>9 DEF SumsOfSubsets

\* SumOver obeys the recursion it is computed by.
LEMMA SumOverStart ==
  ASSUME NEW f, NEW S, IsFiniteSet(S)
  PROVE  /\ SumOver(f, {}) = 0
         /\ S # {} => SumOver(f, S) = f[First(S)] + SumOver(f, S \ {First(S)})
<1> DEFINE G(T) == CHOOSE g : SumsOfSubsets(g, f, T)
<1>1. \A T \in SUBSET S : IsFiniteSet(T)
  BY FS_Subset
<1>2. \A T : SumOver(f, T) = G(T)[T]
  BY DEF SumOver, SetSums!MapThenSumSet, SetSums!MapThenFoldSet, SumsOfSubsets, First
<1>3. \A T : IsFiniteSet(T) => SumsOfSubsets(G(T), f, T)
  BY SumsOfSubsetsExist
<1> HIDE DEF G
<1>4. \A T, U : IsFiniteSet(T) /\ U \in SUBSET T =>
        G(T)[U] = IF U = {} THEN 0 ELSE f[First(U)] + G(T)[U \ {First(U)}]
  BY <1>3 DEF SumsOfSubsets
<1>5. ASSUME NEW T \in SUBSET S PROVE \A U \in SUBSET T : G(S)[U] = G(T)[U]
  <2> DEFINE K == {k \in Nat : \A U \in SUBSET T : Cardinality(U) = k => G(S)[U] = G(T)[U]}
  <2>1. \A U \in SUBSET T : IsFiniteSet(U) /\ Cardinality(U) \in Nat
    BY FS_Subset, FS_CardinalityType
  <2>2. 0 \in K
    <3>1. \A U \in SUBSET T : Cardinality(U) = 0 => U = {}
      BY <2>1, FS_EmptySet
    <3>2. G(S)[{}] = 0 /\ G(T)[{}] = 0
      BY <1>1, <1>4
    <3>3. QED
      BY <3>1, <3>2
  <2>3. ASSUME NEW k \in Nat, k \in K PROVE k + 1 \in K
    <3> SUFFICES ASSUME NEW U \in SUBSET T, Cardinality(U) = k + 1 PROVE G(S)[U] = G(T)[U]
      OBVIOUS
    <3> DEFINE c == First(U)
    <3>1. U # {}
      BY FS_EmptySet
    <3>2. c \in U
      BY <3>1 DEF First
    <3> HIDE DEF K, c
    <3>3. Cardinality(U \ {c}) = Cardinality(U) - 1
      BY <2>1, <3>2, FS_RemoveElement
    <3>4. Cardinality(U \ {c}) = k /\ U \ {c} \in SUBSET T
      BY <3>3
    <3>5. G(S)[U \ {c}] = G(T)[U \ {c}]
      BY <3>4, <2>3 DEF K
    <3>6. QED
      BY <3>5, <3>1, <1>1, <1>4 DEF c
  <2> HIDE DEF K
  <2>4. \A k \in Nat : k \in K
    BY <2>2, <2>3, NatSetInduction
  <2>5. QED
    BY <2>1, <2>4 DEF K
<1>6. SumOver(f, {}) = 0
  BY <1>1, <1>2, <1>4
<1>7. ASSUME S # {} PROVE SumOver(f, S) = f[First(S)] + SumOver(f, S \ {First(S)})
  <2>1. S \ {First(S)} \in SUBSET S
    OBVIOUS
  <2>2. G(S)[S \ {First(S)}] = G(S \ {First(S)})[S \ {First(S)}]
    BY <2>1, <1>5
  <2>3. G(S)[S] = f[First(S)] + G(S)[S \ {First(S)}]
    BY <1>4, <1>7
  <2>4. QED
    BY <2>2, <2>3, <1>2
<1>8. QED
  BY <1>6, <1>7

\* A sum of natural numbers is one.
LEMMA SumOverType ==
  ASSUME NEW f, NEW S, IsFiniteSet(S), \A x \in S : f[x] \in Nat
  PROVE  \A T \in SUBSET S : SumOver(f, T) \in Nat
<1> DEFINE K == {k \in Nat : \A T \in SUBSET S : Cardinality(T) = k => SumOver(f, T) \in Nat}
<1>1. \A T \in SUBSET S : IsFiniteSet(T) /\ Cardinality(T) \in Nat
  BY FS_Subset, FS_CardinalityType
<1>2. 0 \in K
  BY <1>1, FS_EmptySet, SumOverStart
<1>3. ASSUME NEW k \in Nat, k \in K PROVE k + 1 \in K
  <2> SUFFICES ASSUME NEW T \in SUBSET S, Cardinality(T) = k + 1 PROVE SumOver(f, T) \in Nat
    OBVIOUS
  <2> DEFINE c == First(T)
  <2>1. T # {}
    BY FS_EmptySet
  <2>2. c \in T
    BY <2>1 DEF First
  <2> HIDE DEF K, c
  <2>3. Cardinality(T \ {c}) = Cardinality(T) - 1
    BY <1>1, <2>2, FS_RemoveElement
  <2>4. Cardinality(T \ {c}) = k /\ T \ {c} \in SUBSET S
    BY <2>3
  <2>5. SumOver(f, T \ {c}) \in Nat
    BY <2>4, <1>3 DEF K
  <2>6. SumOver(f, T) = f[c] + SumOver(f, T \ {c})
    BY <1>1, <2>1, SumOverStart DEF c
  <2>7. f[c] \in Nat
    BY <2>2
  <2>8. QED
    BY <2>5, <2>6, <2>7
<1> HIDE DEF K
<1>4. \A k \in Nat : k \in K
  BY <1>2, <1>3, NatSetInduction
<1>5. QED
  BY <1>1, <1>4 DEF K

\* Any element may be taken out of a sum: the order of addition is no matter.
LEMMA SumOverElement ==
  ASSUME NEW f, NEW S, IsFiniteSet(S), \A x \in S : f[x] \in Nat
  PROVE  \A T \in SUBSET S : \A x \in T : SumOver(f, T) = f[x] + SumOver(f, T \ {x})
<1> DEFINE Any(T) == \A x \in T : SumOver(f, T) = f[x] + SumOver(f, T \ {x})
           K == {k \in Nat : \A T \in SUBSET S : Cardinality(T) = k => Any(T)}
<1>1. \A T \in SUBSET S : IsFiniteSet(T) /\ Cardinality(T) \in Nat
  BY FS_Subset, FS_CardinalityType
<1>2. 0 \in K
  BY <1>1, FS_EmptySet
<1>3. ASSUME NEW k \in Nat, k \in K PROVE k + 1 \in K
  <2> SUFFICES ASSUME NEW T \in SUBSET S, Cardinality(T) = k + 1, NEW x \in T
               PROVE  SumOver(f, T) = f[x] + SumOver(f, T \ {x})
    OBVIOUS
  <2> DEFINE c == First(T)
  <2>1. T # {} /\ c \in T
    BY DEF First
  <2>2. SumOver(f, T) = f[c] + SumOver(f, T \ {c})
    BY <1>1, <2>1, SumOverStart
  <2> HIDE DEF c
  <2>3. CASE x = c
    BY <2>2, <2>3
  <2>4. CASE x # c
    <3>1. /\ Cardinality(T \ {c}) = Cardinality(T) - 1
          /\ Cardinality(T \ {x}) = Cardinality(T) - 1
      <4> HIDE DEF K
      <4> QED BY <1>1, <2>1, FS_RemoveElement
    <3>2. \A y \in T : y \in S /\ T \ {y} \in SUBSET S
      OBVIOUS
    <3>3. Any(T \ {c}) /\ Any(T \ {x})
      <4> HIDE DEF Any
      <4> QED BY <3>1, <3>2, <2>1, <1>3
    <3>4. SumOver(f, T \ {c}) = f[x] + SumOver(f, (T \ {c}) \ {x})
      BY <3>3, <2>4
    <3>5. SumOver(f, T \ {x}) = f[c] + SumOver(f, (T \ {x}) \ {c})
      BY <3>3, <2>1, <2>4
    <3>6. (T \ {c}) \ {x} = (T \ {x}) \ {c}
      OBVIOUS
    <3>7. SumOver(f, (T \ {x}) \ {c}) \in Nat
      <4>1. (T \ {x}) \ {c} \in SUBSET S
        OBVIOUS
      <4>2. QED
        BY <4>1, SumOverType
    <3>8. f[x] \in Nat /\ f[c] \in Nat
      BY <3>2, <2>1
    <3>9. PICK rest \in Nat : rest = SumOver(f, (T \ {x}) \ {c})
      BY <3>7
    <3>10. SumOver(f, T) = f[c] + (f[x] + rest)
      BY ONLY <2>2, <3>4, <3>6, <3>9
    <3>11. f[x] + SumOver(f, T \ {x}) = f[x] + (f[c] + rest)
      BY ONLY <3>5, <3>9
    <3>12. \A a, b, r \in Nat : a + (b + r) = b + (a + r)
      OBVIOUS
    <3>13. QED
      BY ONLY <3>8, <3>9, <3>10, <3>11, <3>12
  <2>5. QED
    BY <2>3, <2>4
<1> HIDE DEF K
<1>4. \A k \in Nat : k \in K
  BY <1>2, <1>3, NatSetInduction
<1>5. QED
  BY <1>1, <1>4 DEF K

\* One more element adds its value to a sum.
LEMMA SumOverAdded ==
  ASSUME NEW f, NEW S, IsFiniteSet(S), \A x \in S : f[x] \in Nat,
         NEW T \in SUBSET S, NEW x \in S, x \notin T
  PROVE  SumOver(f, T \union {x}) = f[x] + SumOver(f, T)
<1>1. T \union {x} \in SUBSET S /\ x \in T \union {x}
  OBVIOUS
<1>2. (T \union {x}) \ {x} = T
  OBVIOUS
<1>3. SumOver(f, T \union {x}) = f[x] + SumOver(f, (T \union {x}) \ {x})
  BY <1>1, SumOverElement
<1>4. QED
  BY <1>2, <1>3

\* The sum of sums.
LEMMA SumOverPlus ==
  ASSUME NEW f, NEW g, NEW h, NEW S, IsFiniteSet(S),
         \A x \in S : f[x] \in Nat /\ g[x] \in Nat /\ h[x] = f[x] + g[x]
  PROVE  SumOver(h, S) = SumOver(f, S) + SumOver(g, S)
<1> DEFINE Q == {T \in SUBSET S : SumOver(h, T) = SumOver(f, T) + SumOver(g, T)}
<1>1. {} \in Q
  <2>1. SumOver(h, {}) = 0 /\ SumOver(f, {}) = 0 /\ SumOver(g, {}) = 0
    BY SumOverStart
  <2>2. QED
    BY <2>1
<1>2. ASSUME NEW T \in SUBSET S, NEW x \in S, T \in Q, x \notin T
      PROVE  T \union {x} \in Q
  <2>1. \A y \in S : h[y] \in Nat
    OBVIOUS
  <2>2. /\ SumOver(f, T \union {x}) = f[x] + SumOver(f, T)
        /\ SumOver(g, T \union {x}) = g[x] + SumOver(g, T)
        /\ SumOver(h, T \union {x}) = h[x] + SumOver(h, T)
    BY <2>1, <1>2, SumOverAdded
  <2>3. SumOver(f, T) \in Nat /\ SumOver(g, T) \in Nat
    BY SumOverType
  <2>4. SumOver(h, T) = SumOver(f, T) + SumOver(g, T)
    BY <1>2
  <2>5. \A a, b, c, d \in Nat : (a + b) + (c + d) = (a + c) + (b + d)
    OBVIOUS
  <2>6. SumOver(h, T \union {x}) = (f[x] + g[x]) + (SumOver(f, T) + SumOver(g, T))
    BY <2>2, <2>4
  <2>7. SumOver(h, T \union {x}) = SumOver(f, T \union {x}) + SumOver(g, T \union {x})
    BY <2>2, <2>3, <2>5, <2>6
  <2>8. QED
    BY <2>7
<1> HIDE DEF Q
<1>3. S \in Q
  BY <1>1, <1>2, SubsetInduction
<1>4. QED
  BY <1>3 DEF Q

\* Nothing adds up to nothing.
LEMMA SumOverZero ==
  ASSUME NEW f, NEW S, IsFiniteSet(S), \A x \in S : f[x] = 0
  PROVE  SumOver(f, S) = 0
<1> DEFINE Q == {T \in SUBSET S : SumOver(f, T) = 0}
<1>1. {} \in Q
  BY SumOverStart
<1>2. ASSUME NEW T \in SUBSET S, NEW x \in S, T \in Q, x \notin T
      PROVE  T \union {x} \in Q
  <2>1. SumOver(f, T \union {x}) = f[x] + SumOver(f, T)
    BY <1>2, SumOverAdded
  <2>2. QED
    BY <2>1, <1>2
<1> HIDE DEF Q
<1>3. S \in Q
  BY <1>1, <1>2, SubsetInduction
<1>4. QED
  BY <1>3 DEF Q

\* Sums of equal values are equal.
LEMMA SumOverSame ==
  ASSUME NEW f, NEW g, NEW S, IsFiniteSet(S), \A x \in S : f[x] \in Nat /\ g[x] = f[x]
  PROVE  SumOver(g, S) = SumOver(f, S)
<1> DEFINE z == [x \in S |-> 0]
<1>1. \A x \in S : f[x] \in Nat /\ z[x] \in Nat /\ g[x] = f[x] + z[x]
  OBVIOUS
<1>2. \A x \in S : z[x] = 0
  OBVIOUS
<1> HIDE DEF z
<1>3. SumOver(g, S) = SumOver(f, S) + SumOver(z, S)
  BY <1>1, SumOverPlus
<1>4. SumOver(z, S) = 0
  BY <1>2, SumOverZero
<1>5. SumOver(f, S) \in Nat
  BY SumOverType
<1>6. QED
  BY <1>3, <1>4, <1>5

\* Sums grow with their values.
LEMMA SumOverMonotone ==
  ASSUME NEW f, NEW g, NEW S, IsFiniteSet(S),
         \A x \in S : f[x] \in Nat /\ g[x] \in Nat /\ f[x] <= g[x]
  PROVE  SumOver(f, S) <= SumOver(g, S)
<1> DEFINE d == [x \in S |-> g[x] - f[x]]
<1>1. \A x \in S : f[x] \in Nat /\ d[x] \in Nat /\ g[x] = f[x] + d[x]
  OBVIOUS
<1> HIDE DEF d
<1>2. SumOver(g, S) = SumOver(f, S) + SumOver(d, S)
  BY <1>1, SumOverPlus
<1>3. SumOver(f, S) \in Nat /\ SumOver(d, S) \in Nat
  BY <1>1, SumOverType
<1>4. QED
  BY <1>2, <1>3

\* A sum one of whose values changes.
LEMMA SumOverChange ==
  ASSUME NEW f, NEW g, NEW S, IsFiniteSet(S), NEW x \in S,
         \A y \in S : f[y] \in Nat /\ g[y] \in Nat,
         \A y \in S \ {x} : g[y] = f[y]
  PROVE  SumOver(g, S) + f[x] = SumOver(f, S) + g[x]
<1>1. SumOver(f, S) = f[x] + SumOver(f, S \ {x}) /\ SumOver(g, S) = g[x] + SumOver(g, S \ {x})
  BY SumOverElement
<1>2. IsFiniteSet(S \ {x})
  BY FS_RemoveElement
<1>3. SumOver(g, S \ {x}) = SumOver(f, S \ {x})
  BY <1>2, SumOverSame
<1>4. SumOver(f, S \ {x}) \in Nat
  BY SumOverType
<1>5. \A a, b, r \in Nat : (b + r) + a = (a + r) + b
  OBVIOUS
<1>6. QED
  BY <1>1, <1>3, <1>4, <1>5

-----------------------------------------------------------------------------
\* A sum is its last value and the sum of the others.
LEMMA SumToLast ==
  ASSUME NEW n \in Nat, NEW v, \A i \in 1..n : v[i] \in Nat
  PROVE  /\ SumTo(v, 0) = 0
         /\ \A m \in 1..n : SumTo(v, m) = SumTo(v, m - 1) + v[m]
<1> DEFINE g(m) == RunningSums(v, m)
<1>1. \A m \in 0..n : /\ g(m)[0] = 0
                      /\ \A i \in 1..m : g(m)[i] = g(m)[i - 1] + v[i]
  <2> SUFFICES ASSUME NEW m \in 0..n
               PROVE  g(m)[0] = 0 /\ \A i \in 1..m : g(m)[i] = g(m)[i - 1] + v[i]
    OBVIOUS
  <2>1. m \in Nat /\ \A i \in 1..m : v[i] \in Nat
    OBVIOUS
  <2>2. g(m) = [i \in 0..m |-> IF i = 0 THEN 0 ELSE g(m)[i - 1] + v[i]]
    BY <2>1, RunningSumsDef
  <2> HIDE DEF g
  <2>3. QED
    BY <2>1, <2>2
<1> HIDE DEF g
<1>2. ASSUME NEW m \in 1..n PROVE \A k \in Nat : k <= m - 1 => g(m)[k] = g(m - 1)[k]
  <2> DEFINE K == {k \in Nat : k <= m - 1 => g(m)[k] = g(m - 1)[k]}
  <2>1. 0 \in K
    BY <1>1
  <2>2. ASSUME NEW k \in Nat, k \in K PROVE k + 1 \in K
    <3> SUFFICES ASSUME k + 1 <= m - 1 PROVE g(m)[k + 1] = g(m - 1)[k + 1]
      OBVIOUS
    <3>1. g(m)[k] = g(m - 1)[k]
      BY <2>2
    <3>2. /\ m \in 0..n /\ m - 1 \in 0..n /\ k + 1 \in 1..m /\ k + 1 \in 1..(m - 1)
          /\ (k + 1) - 1 = k
      OBVIOUS
    <3> HIDE DEF K
    <3>3. g(m)[k + 1] = g(m)[k] + v[k + 1] /\ g(m - 1)[k + 1] = g(m - 1)[k] + v[k + 1]
      BY <3>2, <1>1
    <3>4. QED
      BY <3>1, <3>3
  <2> HIDE DEF K
  <2>3. \A k \in Nat : k \in K
    BY <2>1, <2>2, NatSetInduction
  <2>4. QED
    BY <2>3 DEF K
<1>3. \A m : SumTo(v, m) = g(m)[m]
  BY DEF SumTo, g
<1>4. SumTo(v, 0) = 0
  BY <1>1, <1>3
<1>5. ASSUME NEW m \in 1..n PROVE SumTo(v, m) = SumTo(v, m - 1) + v[m]
  <2>1. m \in 0..n /\ m \in 1..m /\ m - 1 \in Nat /\ m - 1 <= m - 1
    OBVIOUS
  <2>2. g(m)[m] = g(m)[m - 1] + v[m]
    BY <2>1, <1>1
  <2>3. g(m)[m - 1] = g(m - 1)[m - 1]
    BY <2>1, <1>2
  <2>4. QED
    BY <2>2, <2>3, <1>3
<1>6. QED
  BY <1>4, <1>5

\* The sum of sums, over a sequence.
LEMMA SumToPlus ==
  ASSUME NEW n \in Nat, NEW f, NEW g, NEW h,
         \A i \in 1..n : f[i] \in Nat /\ g[i] \in Nat /\ h[i] = f[i] + g[i]
  PROVE  SumTo(h, n) = SumTo(f, n) + SumTo(g, n)
<1> DEFINE K == {k \in Nat : k <= n => SumTo(h, k) = SumTo(f, k) + SumTo(g, k)}
<1>1. \A i \in 1..n : h[i] \in Nat
  OBVIOUS
<1>2. 0 \in K
  <2>1. SumTo(h, 0) = 0 /\ SumTo(f, 0) = 0 /\ SumTo(g, 0) = 0
    BY <1>1, SumToLast
  <2>2. QED
    BY <2>1
<1>3. ASSUME NEW k \in Nat, k \in K PROVE k + 1 \in K
  <2> SUFFICES ASSUME k + 1 <= n PROVE SumTo(h, k + 1) = SumTo(f, k + 1) + SumTo(g, k + 1)
    OBVIOUS
  <2>1. SumTo(h, k) = SumTo(f, k) + SumTo(g, k)
    BY <1>3
  <2> HIDE DEF K
  <2>2. k + 1 \in 1..n /\ (k + 1) - 1 = k /\ k \in 0..n
    OBVIOUS
  <2>3. /\ SumTo(h, k + 1) = SumTo(h, k) + h[k + 1]
        /\ SumTo(f, k + 1) = SumTo(f, k) + f[k + 1]
        /\ SumTo(g, k + 1) = SumTo(g, k) + g[k + 1]
    BY <1>1, <2>2, SumToLast
  <2>4. SumTo(f, k) \in Nat /\ SumTo(g, k) \in Nat
    BY <2>2, SumToType
  <2>5. \A a, b, c, d \in Nat : (a + b) + (c + d) = (a + c) + (b + d)
    OBVIOUS
  <2>6. SumTo(h, k + 1) = (SumTo(f, k) + SumTo(g, k)) + (f[k + 1] + g[k + 1])
    BY <2>1, <2>2, <2>3
  <2>7. QED
    BY <2>2, <2>3, <2>4, <2>5, <2>6
<1> HIDE DEF K
<1>4. n \in K
  BY <1>2, <1>3, NatSetInduction
<1>5. QED
  BY <1>4 DEF K

\* A sequence of nothing adds up to nothing.
LEMMA SumToZero ==
  ASSUME NEW n \in Nat, NEW v, \A i \in 1..n : v[i] = 0
  PROVE  SumTo(v, n) = 0
<1> DEFINE K == {k \in Nat : k <= n => SumTo(v, k) = 0}
<1>1. 0 \in K
  BY SumToLast
<1>2. ASSUME NEW k \in Nat, k \in K PROVE k + 1 \in K
  <2> SUFFICES ASSUME k + 1 <= n PROVE SumTo(v, k + 1) = 0
    OBVIOUS
  <2>1. SumTo(v, k) = 0 /\ v[k + 1] = 0
    BY <1>2
  <2>2. k + 1 \in 1..n /\ (k + 1) - 1 = k
    OBVIOUS
  <2> HIDE DEF K
  <2>3. SumTo(v, k + 1) = SumTo(v, k) + v[k + 1]
    BY <2>2, SumToLast
  <2>4. QED
    BY <2>1, <2>3
<1> HIDE DEF K
<1>3. n \in K
  BY <1>1, <1>2, NatSetInduction
<1>4. QED
  BY <1>3 DEF K

\* Sums of equal values are equal.
LEMMA SumToSame ==
  ASSUME NEW n \in Nat, NEW f, NEW g, \A i \in 1..n : f[i] \in Nat /\ g[i] = f[i]
  PROVE  SumTo(g, n) = SumTo(f, n)
<1> DEFINE z == [i \in 1..n |-> 0]
<1>1. \A i \in 1..n : z[i] = 0 /\ f[i] \in Nat /\ z[i] \in Nat /\ g[i] = f[i] + z[i]
  OBVIOUS
<1> HIDE DEF z
<1>2. SumTo(g, n) = SumTo(f, n) + SumTo(z, n)
  BY <1>1, SumToPlus
<1>3. SumTo(z, n) = 0 /\ SumTo(f, n) \in Nat
  BY <1>1, SumToZero, SumToType
<1>4. QED
  BY <1>2, <1>3

\* Sums grow with their values.
LEMMA SumToMonotone ==
  ASSUME NEW n \in Nat, NEW f, NEW g,
         \A i \in 1..n : f[i] \in Nat /\ g[i] \in Nat /\ f[i] <= g[i]
  PROVE  SumTo(f, n) <= SumTo(g, n)
<1> DEFINE d == [i \in 1..n |-> g[i] - f[i]]
<1>1. \A i \in 1..n : f[i] \in Nat /\ d[i] \in Nat /\ g[i] = f[i] + d[i]
  OBVIOUS
<1> HIDE DEF d
<1>2. SumTo(g, n) = SumTo(f, n) + SumTo(d, n)
  BY <1>1, SumToPlus
<1>3. SumTo(f, n) \in Nat /\ SumTo(d, n) \in Nat
  BY <1>1, SumToType
<1>4. QED
  BY <1>2, <1>3

\* A sum of multiples is the multiple of the sum.
LEMMA SumToScaled ==
  ASSUME NEW n \in Nat, NEW c \in Nat, NEW f, NEW g,
         \A i \in 1..n : f[i] \in Nat /\ g[i] = c * f[i]
  PROVE  SumTo(g, n) = c * SumTo(f, n)
<1> DEFINE K == {k \in Nat : k <= n => SumTo(g, k) = c * SumTo(f, k)}
<1>1. \A i \in 1..n : g[i] \in Nat
  OBVIOUS
<1>2. 0 \in K
  <2>1. SumTo(g, 0) = 0 /\ SumTo(f, 0) = 0
    BY <1>1, SumToLast
  <2>2. QED
    BY <2>1
<1>3. ASSUME NEW k \in Nat, k \in K PROVE k + 1 \in K
  <2> SUFFICES ASSUME k + 1 <= n PROVE SumTo(g, k + 1) = c * SumTo(f, k + 1)
    OBVIOUS
  <2>1. SumTo(g, k) = c * SumTo(f, k)
    BY <1>3
  <2> HIDE DEF K
  <2>2. k + 1 \in 1..n /\ (k + 1) - 1 = k /\ k \in 0..n
    OBVIOUS
  <2>3. /\ SumTo(g, k + 1) = SumTo(g, k) + g[k + 1]
        /\ SumTo(f, k + 1) = SumTo(f, k) + f[k + 1]
    BY <1>1, <2>2, SumToLast
  <2>4. SumTo(f, k) \in Nat /\ f[k + 1] \in Nat
    BY <2>2, SumToType
  <2>5. \A a, b \in Nat : c * (a + b) = c * a + c * b
    OBVIOUS
  <2>6. c * SumTo(f, k + 1) = c * SumTo(f, k) + c * f[k + 1]
    BY <2>3, <2>4, <2>5
  <2>7. QED
    BY <2>1, <2>2, <2>3, <2>6
<1> HIDE DEF K
<1>4. n \in K
  BY <1>2, <1>3, NatSetInduction
<1>5. QED
  BY <1>4 DEF K

\* Counting positions one by one gives their number.
LEMMA SumToCount ==
  ASSUME NEW n \in Nat, NEW S \in SUBSET (1..n)
  PROVE  /\ Cardinality(S) \in Nat
         /\ SumTo([i \in 1..n |-> IF i \in S THEN 1 ELSE 0], n) = Cardinality(S)
<1> DEFINE one == [i \in 1..n |-> IF i \in S THEN 1 ELSE 0]
           K == {k \in Nat : k <= n => SumTo(one, k) = Cardinality(S \intersect (1..k))}
<1>1. \A i \in 1..n : one[i] \in Nat /\ one[i] = IF i \in S THEN 1 ELSE 0
  OBVIOUS
<1>2. \A k \in Nat : IsFiniteSet(S \intersect (1..k)) /\ Cardinality(S \intersect (1..k)) \in Nat
  <2>1. \A k \in Nat : IsFiniteSet(1..k)
    BY FS_Interval
  <2>2. \A k \in Nat : S \intersect (1..k) \in SUBSET (1..k)
    OBVIOUS
  <2>3. QED
    BY <2>1, <2>2, FS_Subset, FS_CardinalityType
<1> HIDE DEF one
<1>3. 0 \in K
  <2>1. S \intersect (1..0) = {}
    OBVIOUS
  <2>2. QED
    BY <1>1, <2>1, SumToLast, FS_EmptySet
<1>4. ASSUME NEW k \in Nat, k \in K PROVE k + 1 \in K
  <2> SUFFICES ASSUME k + 1 <= n
               PROVE  SumTo(one, k + 1) = Cardinality(S \intersect (1..(k + 1)))
    OBVIOUS
  <2>1. SumTo(one, k) = Cardinality(S \intersect (1..k))
    BY <1>4
  <2> HIDE DEF K
  <2>2. k + 1 \in 1..n /\ (k + 1) - 1 = k
    OBVIOUS
  <2>3. SumTo(one, k + 1) = SumTo(one, k) + one[k + 1]
    BY <1>1, <2>2, SumToLast
  <2>4. CASE k + 1 \in S
    <3>1. S \intersect (1..(k + 1)) = (S \intersect (1..k)) \union {k + 1}
      BY <2>4
    <3>2. k + 1 \notin S \intersect (1..k)
      OBVIOUS
    <3>3. Cardinality(S \intersect (1..(k + 1))) = Cardinality(S \intersect (1..k)) + 1
      BY <3>1, <3>2, <1>2, FS_AddElement
    <3>4. QED
      BY <3>3, <2>1, <2>2, <2>3, <2>4, <1>1
  <2>5. CASE k + 1 \notin S
    <3>1. S \intersect (1..(k + 1)) = S \intersect (1..k)
      BY <2>5
    <3>2. QED
      BY <3>1, <2>1, <2>2, <2>3, <2>5, <1>1, <1>2
  <2>6. QED
    BY <2>4, <2>5
<1> HIDE DEF K
<1>5. n \in K
  BY <1>3, <1>4, NatSetInduction
<1>6. S \intersect (1..n) = S
  OBVIOUS
<1>7. QED
  BY <1>2, <1>5, <1>6 DEF K, one

\* No value exceeds the sum.
LEMMA SumToElement ==
  ASSUME NEW n \in Nat, NEW v, \A i \in 1..n : v[i] \in Nat
  PROVE  \A i \in 1..n : v[i] <= SumTo(v, n)
<1> DEFINE K == {k \in Nat : k <= n => \A i \in 1..k : v[i] <= SumTo(v, k)}
<1>1. 0 \in K
  OBVIOUS
<1>2. ASSUME NEW k \in Nat, k \in K PROVE k + 1 \in K
  <2> SUFFICES ASSUME k + 1 <= n, NEW i \in 1..(k + 1) PROVE v[i] <= SumTo(v, k + 1)
    OBVIOUS
  <2>1. \A j \in 1..k : v[j] <= SumTo(v, k)
    BY <1>2
  <2> HIDE DEF K
  <2>2. k + 1 \in 1..n /\ (k + 1) - 1 = k /\ k \in 0..n /\ i \in 1..n
    OBVIOUS
  <2>3. SumTo(v, k + 1) = SumTo(v, k) + v[k + 1]
    BY <2>2, SumToLast
  <2>4. SumTo(v, k) \in Nat /\ v[i] \in Nat /\ v[k + 1] \in Nat
    BY <2>2, SumToType
  <2>5. QED
    BY <2>1, <2>3, <2>4
<1> HIDE DEF K
<1>3. n \in K
  BY <1>1, <1>2, NatSetInduction
<1>4. QED
  BY <1>3 DEF K

\* Values of at most c each add up to at most n times c.
LEMMA SumToBounded ==
  ASSUME NEW n \in Nat, NEW c \in Nat, NEW v, \A i \in 1..n : v[i] \in Nat /\ v[i] <= c
  PROVE  SumTo(v, n) <= n * c
<1> DEFINE K == {k \in Nat : k <= n => SumTo(v, k) <= k * c}
<1>1. 0 \in K
  BY SumToLast
<1>2. ASSUME NEW k \in Nat, k \in K PROVE k + 1 \in K
  <2> SUFFICES ASSUME k + 1 <= n PROVE SumTo(v, k + 1) <= (k + 1) * c
    OBVIOUS
  <2>1. SumTo(v, k) <= k * c
    BY <1>2
  <2> HIDE DEF K
  <2>2. k + 1 \in 1..n /\ (k + 1) - 1 = k /\ k \in 0..n
    OBVIOUS
  <2>3. SumTo(v, k + 1) = SumTo(v, k) + v[k + 1]
    BY <2>2, SumToLast
  <2>4. SumTo(v, k) \in Nat /\ v[k + 1] \in Nat /\ v[k + 1] <= c
    BY <2>2, SumToType
  <2>5. (k + 1) * c = k * c + c /\ k * c \in Int
    OBVIOUS
  <2>6. QED
    BY <2>1, <2>3, <2>4, <2>5
<1> HIDE DEF K
<1>3. n \in K
  BY <1>1, <1>2, NatSetInduction
<1>4. QED
  BY <1>3 DEF K

\* Values of zero at the end add nothing.
LEMMA SumToExtended ==
  ASSUME NEW n \in Nat, NEW m \in Nat, n <= m, NEW f, NEW g,
         \A i \in 1..n : f[i] \in Nat /\ g[i] = f[i],
         \A i \in (n + 1)..m : g[i] = 0
  PROVE  SumTo(g, m) = SumTo(f, n)
<1> DEFINE K == {k \in Nat : n <= k /\ k <= m => SumTo(g, k) = SumTo(f, n)}
<1>1. \A i \in 1..m : g[i] \in Nat
  OBVIOUS
<1>2. SumTo(g, n) = SumTo(f, n)
  BY SumToSame
<1>3. 0 \in K
  BY <1>2
<1>4. ASSUME NEW k \in Nat, k \in K PROVE k + 1 \in K
  <2> SUFFICES ASSUME n <= k + 1, k + 1 <= m PROVE SumTo(g, k + 1) = SumTo(f, n)
    OBVIOUS
  <2>1. CASE n = k + 1
    BY <2>1, <1>2
  <2>2. CASE n <= k
    <3>1. SumTo(g, k) = SumTo(f, n)
      BY <2>2, <1>4
    <3> HIDE DEF K
    <3>2. k + 1 \in 1..m /\ (k + 1) - 1 = k /\ g[k + 1] = 0
      BY <2>2
    <3>3. SumTo(g, k + 1) = SumTo(g, k) + g[k + 1]
      BY <3>2, <1>1, SumToLast
    <3>4. SumTo(f, n) \in Nat
      BY SumToType
    <3>5. QED
      BY <3>1, <3>2, <3>3, <3>4
  <2>3. QED
    BY <2>1, <2>2
<1> HIDE DEF K
<1>5. m \in K
  BY <1>3, <1>4, NatSetInduction
<1>6. QED
  BY <1>5 DEF K

\* One value more is added on top.
LEMMA SumToAppended ==
  ASSUME NEW n \in Nat, NEW f, NEW g,
         \A i \in 1..n : f[i] \in Nat /\ g[i] = f[i],
         g[n + 1] \in Nat
  PROVE  SumTo(g, n + 1) = SumTo(f, n) + g[n + 1]
<1>1. \A i \in 1..(n + 1) : g[i] \in Nat
  OBVIOUS
<1>2. n + 1 \in Nat /\ n + 1 \in 1..(n + 1) /\ (n + 1) - 1 = n
  OBVIOUS
<1>3. SumTo(g, n + 1) = SumTo(g, n) + g[n + 1]
  BY <1>1, <1>2, SumToLast
<1>4. SumTo(g, n) = SumTo(f, n)
  BY SumToSame
<1>5. QED
  BY <1>3, <1>4

-----------------------------------------------------------------------------
\* Where f is 0 it adds nothing.
LEMMA SumOverSupport ==
  ASSUME NEW f, NEW S, IsFiniteSet(S), NEW T \in SUBSET S,
         \A x \in S : f[x] \in Nat, \A x \in S \ T : f[x] = 0
  PROVE  SumOver(f, S) = SumOver(f, T)
<1> DEFINE R == S \ T
           Q == {U \in SUBSET R : SumOver(f, T \union U) = SumOver(f, T)}
<1>1. {} \in Q
  <2>1. T \union {} = T
    OBVIOUS
  <2>2. QED
    BY <2>1
<1>2. ASSUME NEW U \in SUBSET R, NEW x \in R, U \in Q, x \notin U
      PROVE  U \union {x} \in Q
  <2>1. T \union U \in SUBSET S /\ x \in S /\ x \notin T \union U /\ f[x] = 0
    BY <1>2
  <2>2. SumOver(f, (T \union U) \union {x}) = f[x] + SumOver(f, T \union U)
    BY <2>1, SumOverAdded
  <2>3. SumOver(f, T \union U) \in Nat
    BY <2>1, SumOverType
  <2>4. (T \union U) \union {x} = T \union (U \union {x})
    OBVIOUS
  <2>5. SumOver(f, T \union U) = SumOver(f, T)
    BY <1>2
  <2>6. SumOver(f, T \union (U \union {x})) = SumOver(f, T)
    BY ONLY <2>1, <2>2, <2>3, <2>4, <2>5
  <2>7. QED
    BY <2>6
<1>3. IsFiniteSet(R)
  BY FS_Subset
<1> HIDE DEF Q, R
<1>4. R \in Q
  <2>1. \A U \in SUBSET R, x \in R : U \in Q /\ x \notin U => U \union {x} \in Q
    BY <1>2
  <2>2. \A U \in SUBSET R : U \in Q
    BY ONLY <1>1, <1>3, <2>1, SubsetInduction
  <2>3. QED
    BY <2>2
<1>5. T \union R = S
  BY DEF R
<1>6. QED
  BY <1>4, <1>5 DEF Q

\* Summing over a set, or along a sequence that lists it, is the same.
LEMMA SumOverEnumerated ==
  ASSUME NEW f, NEW S, IsFiniteSet(S), \A x \in S : f[x] \in Nat,
         NEW n \in Nat, NEW s, NEW g,
         \A i \in 1..n : s[i] \in S /\ g[i] = f[s[i]],
         \A i, j \in 1..n : s[i] = s[j] => i = j,
         \A x \in S : \E i \in 1..n : s[i] = x
  PROVE  SumOver(f, S) = SumTo(g, n)
<1> DEFINE Listed(k) == {s[i] : i \in 1..k}
           K == {k \in Nat : k <= n => SumOver(f, Listed(k)) = SumTo(g, k)}
<1>1. \A i \in 1..n : g[i] \in Nat
  OBVIOUS
<1>2. 0 \in K
  <2>1. Listed(0) = {}
    OBVIOUS
  <2>2. SumTo(g, 0) = 0
    BY <1>1, SumToLast
  <2>3. SumOver(f, {}) = 0
    BY SumOverStart
  <2>4. QED
    BY <2>1, <2>2, <2>3
<1>3. ASSUME NEW k \in Nat, k \in K PROVE k + 1 \in K
  <2> SUFFICES ASSUME k + 1 <= n PROVE SumOver(f, Listed(k + 1)) = SumTo(g, k + 1)
    OBVIOUS
  <2>1. SumOver(f, Listed(k)) = SumTo(g, k)
    BY <1>3
  <2> HIDE DEF K
  <2>2. k + 1 \in 1..n /\ (k + 1) - 1 = k /\ k \in 0..n
    OBVIOUS
  <2>3. SumTo(g, k + 1) = SumTo(g, k) + g[k + 1] /\ SumTo(g, k) \in Nat /\ g[k + 1] \in Nat
    <3>1. \A i \in 1..k : g[i] \in Nat
      BY <1>1, <2>2
    <3>2. SumTo(g, k + 1) = SumTo(g, k) + g[k + 1]
      BY <1>1, <2>2, SumToLast
    <3>3. QED
      BY <3>1, <3>2, <1>1, <2>2, SumToType
  <2>4. s[k + 1] \in S /\ g[k + 1] = f[s[k + 1]]
    BY <2>2
  <2>5. Listed(k) \in SUBSET S
    OBVIOUS
  <2>6. s[k + 1] \notin Listed(k)
    <3>1. \A i \in 1..k : i \in 1..n /\ i # k + 1
      BY <2>2
    <3>2. QED
      BY <3>1, <2>2
  <2>7. Listed(k + 1) = Listed(k) \union {s[k + 1]}
    <3>1. 1..(k + 1) = (1..k) \union {k + 1}
      OBVIOUS
    <3>2. QED
      BY <3>1
  <2> HIDE DEF Listed
  <2>8. SumOver(f, Listed(k) \union {s[k + 1]}) = f[s[k + 1]] + SumOver(f, Listed(k))
    BY <2>4, <2>5, <2>6, SumOverAdded
  <2>9. SumOver(f, Listed(k + 1)) = g[k + 1] + SumTo(g, k)
    BY ONLY <2>1, <2>4, <2>7, <2>8
  <2>10. QED
    BY ONLY <2>3, <2>9
<1>4. Listed(n) = S
  OBVIOUS
<1> HIDE DEF K, Listed
<1>5. n \in K
  BY <1>2, <1>3, NatSetInduction
<1>6. QED
  BY <1>4, <1>5 DEF K
=============================================================================
