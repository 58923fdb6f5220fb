----------------------------- MODULE SumLemmas -----------------------------
(***************************************************************************)
(* What SumFunction, the sum of the values of a function, computes for     *)
(* every function with a finite domain.  Its definition is recursive; that *)
(* it is one, and what follows from it by induction, is shown by taking a  *)
(* smallest counterexample, as inclusion of finite sets is well founded.   *)
(***************************************************************************)
EXTENDS FiniteSetsExt, FiniteSetTheorems, TLAPS

LEMMA SmallestSet ==
  ASSUME NEW D, IsFiniteSet(D), NEW T \in SUBSET SUBSET D, T # {}
  PROVE  \E s \in T : \A t \in T : t \subseteq s => t = s
<1>1. T \subseteq FiniteSubsetsOf(D)
  <2>1. \A t \in T : t \in SUBSET D /\ IsFiniteSet(t)
    BY FS_Subset
  <2> QED
    BY <2>1 DEF FiniteSubsetsOf
<1>2. PICK s \in T : \A t \in T : ~ (<<t, s>> \in StrictSubsetOrdering(D))
  BY <1>1, WFMin, FS_StrictSubsetOrderingWellFounded
<1> QED
  BY <1>2 DEF StrictSubsetOrdering
-----------------------------------------------------------------------------
(* The definition.                                                         *)

Pick(s) == CHOOSE x \in s : TRUE
Rest(s) == s \ {Pick(s)}

LEMMA RestIsSmaller ==
  ASSUME NEW s, s # {}
  PROVE  Pick(s) \in s /\ Rest(s) \subseteq s /\ Rest(s) # s
<1>1. Pick(s) \in s
  BY DEF Pick
<1> QED
  BY <1>1 DEF Rest

\* g sums up f over the subsets of D.
Sums(f, D, g) ==
  g = [s \in SUBSET D |-> IF s = {} THEN 0 ELSE f[Pick(s)] + g[Rest(s)]]

LEMMA SumIsIterated ==
  ASSUME NEW f
  PROVE  SumFunction(f) = (CHOOSE g : Sums(f, DOMAIN f, g))[DOMAIN f]
BY DEF SumFunction, SumFunctionOnSet, FoldFunctionOnSet, MapThenFoldSet,
       Sums, Pick, Rest

\* It does not matter of what set they are subsets.
LEMMA SumsAgree ==
  ASSUME NEW f, NEW D, IsFiniteSet(D), NEW g, Sums(f, D, g),
         NEW E \in SUBSET D, NEW h, Sums(f, E, h)
  PROVE  \A s \in SUBSET E : g[s] = h[s]
<1> DEFINE T == {s \in SUBSET E : g[s] # h[s]}
<1> SUFFICES ASSUME T # {} PROVE FALSE
  OBVIOUS
<1>1. T \in SUBSET SUBSET D
  OBVIOUS
<1>2. PICK s \in T : \A t \in T : t \subseteq s => t = s
  <2> HIDE DEF T
  <2> QED
    BY <1>1, SmallestSet
<1>3. g[s] = IF s = {} THEN 0 ELSE f[Pick(s)] + g[Rest(s)]
  BY DEF Sums
<1>4. h[s] = IF s = {} THEN 0 ELSE f[Pick(s)] + h[Rest(s)]
  BY DEF Sums
<1>5. s # {}
  BY <1>3, <1>4
<1>6. g[Rest(s)] = h[Rest(s)]
  BY <1>2, <1>5, RestIsSmaller
<1> QED
  BY <1>3, <1>4, <1>5, <1>6

LEMMA SumsExist ==
  ASSUME NEW f, NEW D, IsFiniteSet(D)
  PROVE  \E g : Sums(f, D, g)
<1> DEFINE T == {E \in SUBSET D : ~ \E g : Sums(f, E, g)}
<1> SUFFICES ASSUME T # {} PROVE FALSE
  OBVIOUS
<1>1. PICK E \in T : \A F \in T : F \subseteq E => F = E
  <2>1. T \in SUBSET SUBSET D
    OBVIOUS
  <2> HIDE DEF T
  <2> QED
    BY <2>1, SmallestSet
<1> DEFINE w(F) == CHOOSE g : Sums(f, F, g)
           h == [s \in SUBSET E |->
                   IF s = {} THEN 0 ELSE f[Pick(s)] + w(Rest(s))[Rest(s)]]
<1>2. ASSUME NEW F \in SUBSET E, F # E
      PROVE  Sums(f, F, w(F)) /\ IsFiniteSet(F)
  <2>1. \E g : Sums(f, F, g)
    BY <1>1, <1>2
  <2>2. F \in SUBSET D
    OBVIOUS
  <2> QED
    BY <2>1, <2>2, FS_Subset
<1>3. ASSUME NEW F \in SUBSET E, F # E
      PROVE  h[F] = w(F)[F]
  <2>1. Sums(f, F, w(F)) /\ IsFiniteSet(F)
    BY <1>2, <1>3
  <2>2. w(F)[F] = IF F = {} THEN 0 ELSE f[Pick(F)] + w(F)[Rest(F)]
    <3> HIDE DEF w
    <3> QED
      BY <2>1 DEF Sums
  <2>3. CASE F = {}
    <3> HIDE DEF w
    <3> QED
      BY <2>2, <2>3
  <2>4. CASE F # {}
    <3>1. Rest(F) \in SUBSET F /\ Rest(F) \in SUBSET E /\ Rest(F) # E
      BY <1>3, <2>4, RestIsSmaller
    <3>2. Sums(f, Rest(F), w(Rest(F)))
      BY <1>2, <3>1
    <3>3. w(F)[Rest(F)] = w(Rest(F))[Rest(F)]
      <4> HIDE DEF w
      <4> QED
        BY <2>1, <3>1, <3>2, SumsAgree
    <3> HIDE DEF w
    <3> QED
      BY <2>2, <2>4, <3>3
  <2> QED
    BY <2>3, <2>4
<1>4. Sums(f, E, h)
  <2>1. \A s \in SUBSET E : s # {} => h[Rest(s)] = w(Rest(s))[Rest(s)]
    <3> TAKE s \in SUBSET E
    <3> HAVE s # {}
    <3>1. Rest(s) \in SUBSET E /\ Rest(s) # E
      BY RestIsSmaller
    <3> QED
      BY <1>3, <3>1
  <2> HIDE DEF w
  <2> QED
    BY <2>1 DEF Sums
<1> QED
  BY <1>1, <1>4
-----------------------------------------------------------------------------
\* The sum of a function is at most the number of its values times an upper
\* bound of them, and at least the number of some of them times a lower bound
\* of those.
LEMMA SumBounds ==
  ASSUME NEW f, IsFiniteSet(DOMAIN f), NEW low \in Nat, NEW high \in Nat,
         \A x \in DOMAIN f : f[x] \in Nat /\ f[x] <= high,
         NEW W \in SUBSET DOMAIN f, \A x \in W : low <= f[x]
  PROVE  /\ SumFunction(f) \in Nat
         /\ low * Cardinality(W) <= SumFunction(f)
         /\ SumFunction(f) <= high * Cardinality(DOMAIN f)
<1> DEFINE D == DOMAIN f
           g == CHOOSE h : Sums(f, D, h)
           Bounded(s) == /\ g[s] \in Nat
                         /\ low * Cardinality(s \intersect W) <= g[s]
                         /\ g[s] <= high * Cardinality(s)
           T == {s \in SUBSET D : ~ Bounded(s)}
<1>1. Sums(f, D, g)
  BY SumsExist
<1>2. T = {}
  <2> SUFFICES ASSUME T # {} PROVE FALSE
    OBVIOUS
  <2>1. PICK s \in T : \A t \in T : t \subseteq s => t = s
    <3>1. T \in SUBSET SUBSET D
      OBVIOUS
    <3> HIDE DEF T
    <3> QED
      BY <3>1, SmallestSet
  <2>2. IsFiniteSet(s) /\ Cardinality(s) \in Nat
        /\ IsFiniteSet(s \intersect W)
    <3>1. s \in SUBSET D /\ s \intersect W \in SUBSET D
      OBVIOUS
    <3>2. IsFiniteSet(s) /\ IsFiniteSet(s \intersect W)
      BY <3>1, FS_Subset
    <3> QED
      BY <3>2, FS_CardinalityType
  <2> HIDE DEF g
  <2>3. g[s] = IF s = {} THEN 0 ELSE f[Pick(s)] + g[Rest(s)]
    BY <1>1 DEF Sums
  <2>4. CASE s = {}
    <3>1. Cardinality(s) = 0 /\ s \intersect W = {}
      BY <2>4, FS_EmptySet
    <3> QED
      BY <2>3, <2>4, <3>1
  <2>5. CASE s # {}
    <3> DEFINE n == Cardinality(Rest(s))
               m == Cardinality(Rest(s) \intersect W)
               y == g[Rest(s)]
               z == f[Pick(s)]
    <3>1. Pick(s) \in s /\ Rest(s) \subseteq s /\ Rest(s) # s
      BY <2>5, RestIsSmaller
    <3>2. Bounded(Rest(s))
      BY <2>1, <3>1
    <3>3. n = Cardinality(s) - 1 /\ n \in Nat
      <4>1. IsFiniteSet(Rest(s)) /\ n = Cardinality(s) - 1
        BY <2>2, <3>1, FS_RemoveElement DEF Rest
      <4> QED
        BY <4>1, FS_CardinalityType
    <3>4. z \in Nat /\ z <= high /\ (Pick(s) \in W => low <= z)
      BY <3>1
    <3>5. y \in Nat /\ low * m <= y /\ y <= high * n
      BY <3>2
    <3>6. g[s] = z + y
      BY <2>3, <2>5
    <3>7. /\ m \in Nat
          /\ Cardinality(s \intersect W) = IF Pick(s) \in W THEN m + 1 ELSE m
      <4>1. CASE Pick(s) \in W
        <5>1. /\ Rest(s) \intersect W = (s \intersect W) \ {Pick(s)}
              /\ Pick(s) \in s \intersect W
          BY <3>1, <4>1 DEF Rest
        <5>2. /\ IsFiniteSet(Rest(s) \intersect W)
              /\ m = Cardinality(s \intersect W) - 1
          <6>1. \A x \in s \intersect W :
                  /\ IsFiniteSet((s \intersect W) \ {x})
                  /\ Cardinality((s \intersect W) \ {x})
                       = Cardinality(s \intersect W) - 1
            BY <2>2, FS_RemoveElement
          <6> QED
            BY <5>1, <6>1
        <5>3. m \in Nat /\ Cardinality(s \intersect W) \in Nat
          BY <2>2, <5>2, FS_CardinalityType
        <5> DEFINE k == Cardinality(s \intersect W)
        <5>4. m = k - 1 /\ m \in Nat /\ k \in Nat
          BY <5>2, <5>3
        <5> HIDE DEF m, k
        <5>5. k = m + 1
          BY <5>4
        <5> QED
          BY <4>1, <5>4, <5>5 DEF k
      <4>2. CASE Pick(s) \notin W
        <5>1. Rest(s) \intersect W = s \intersect W
          BY <4>2 DEF Rest
        <5>2. m = Cardinality(s \intersect W)
          BY <5>1
        <5>3. m \in Nat
          BY <2>2, <5>2, FS_CardinalityType
        <5> HIDE DEF m
        <5> QED
          BY <4>2, <5>2, <5>3
      <4> QED
        BY <4>1, <4>2
    <3> HIDE DEF n, m, y, z
    <3>8. /\ low * (m + 1) = low * m + low /\ high * (n + 1) = high * n + high
          /\ low * m \in Nat /\ high * n \in Nat
      <4>1. \A k, l \in Nat : k * (l + 1) = k * l + k /\ k * l \in Nat
        OBVIOUS
      <4> QED
        BY <3>3, <3>7, <4>1
    <3>9. Cardinality(s) = n + 1
      BY <2>2, <3>3
    <3>10. z + y \in Nat /\ z + y <= high * Cardinality(s)
      BY <3>4, <3>5, <3>8, <3>9
    <3>11. low * Cardinality(s \intersect W) <= z + y
      <4>1. CASE Pick(s) \in W
        BY <3>4, <3>5, <3>7, <3>8, <4>1
      <4>2. CASE Pick(s) \notin W
        BY <3>4, <3>5, <3>7, <3>8, <4>2
      <4> QED
        BY <4>1, <4>2
    <3>12. Bounded(s)
      BY <3>6, <3>10, <3>11
    <3> QED
      BY <3>12
  <2> QED
    BY <2>4, <2>5
<1>3. SumFunction(f) = g[D]
  BY SumIsIterated
<1> HIDE DEF g
<1>4. Bounded(D)
  BY <1>2
<1>5. D \intersect W = W
  OBVIOUS
<1> QED
  BY <1>3, <1>4, <1>5

\* A function on a finite set has a greatest value.
LEMMA GreatestValue ==
  ASSUME NEW D, IsFiniteSet(D), D # {}, NEW f \in [D -> Nat]
  PROVE  \E x \in D : \A y \in D : f[y] <= f[x]
<1> DEFINE Top(s) == \E x \in s : \A y \in s : f[y] <= f[x]
           T == {s \in SUBSET D : s # {} /\ ~ Top(s)}
<1> SUFFICES ASSUME T # {} PROVE FALSE
  OBVIOUS
<1>1. PICK s \in T : \A t \in T : t \subseteq s => t = s
  <2>1. T \in SUBSET SUBSET D
    OBVIOUS
  <2> HIDE DEF T
  <2> QED
    BY <2>1, SmallestSet
<1>2. Pick(s) \in s /\ Rest(s) \subseteq s /\ Rest(s) # s
  BY RestIsSmaller
<1>3. \A y \in s : y = Pick(s) \/ y \in Rest(s)
  BY DEF Rest
<1>4. CASE Rest(s) = {}
  BY <1>2, <1>3, <1>4
<1>5. CASE Rest(s) # {}
  <2>1. PICK x \in Rest(s) : \A y \in Rest(s) : f[y] <= f[x]
    BY <1>1, <1>2, <1>5
  <2>2. f[x] \in Nat /\ f[Pick(s)] \in Nat /\ \A y \in s : f[y] \in Nat
    BY <1>2
  <2>3. CASE f[Pick(s)] <= f[x]
    BY <1>2, <1>3, <2>1, <2>3
  <2>4. CASE f[x] <= f[Pick(s)]
    BY <1>2, <1>3, <2>1, <2>2, <2>4
  <2> QED
    BY <2>2, <2>3, <2>4
<1> QED
  BY <1>4, <1>5
=============================================================================
