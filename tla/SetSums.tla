------------------------------ MODULE SetSums ------------------------------
(***************************************************************************)
(* Lemmas about the sum of a weight over a finite set, as the folds of the *)
(* community modules compute it: one chosen element after another.  The    *)
(* sum is the number of units of the set, the pairs of an element and one  *)
(* of 1 to its weight; facts about cardinalities are then facts about sums. *)
(***************************************************************************)
EXTENDS Integers, FiniteSets, FiniteSetTheorems, WellFoundedInduction,
        TLAPS

\* The units of the elements of s, where w gives the weights.
Units(w, s) == {p \in s \X Nat : 1 <= p[2] /\ p[2] <= w[p[1]]}

\* f is the function that the fold over U defines.
SumsUp(f, w, U) ==
  f = [s \in SUBSET U |->
         IF s = {} THEN 0
         ELSE w[CHOOSE x \in s : TRUE] + f[s \ {CHOOSE x \in s : TRUE}]]

\* Two sets of units have no unit in common where the sets have no element,
\* and the units of a union are those of its parts.
LEMMA UnitsParts ==
  ASSUME NEW w, NEW s, NEW t
  PROVE  /\ Units(w, s \cup t) = Units(w, s) \cup Units(w, t)
         /\ s \cap t = {} => Units(w, s) \cap Units(w, t) = {}
         /\ s \subseteq t => Units(w, s) \subseteq Units(w, t)
  BY DEF Units

\* An element has as many units as it weighs.
LEMMA UnitsOne ==
  ASSUME NEW w, NEW x, w[x] \in Nat
  PROVE  IsFiniteSet(Units(w, {x})) /\ Cardinality(Units(w, {x})) = w[x]
<1>1. Units(w, {x}) = {x} \X (1..w[x])
  <2>1. ASSUME NEW p \in Units(w, {x}) PROVE p \in {x} \X (1..w[x])
    BY DEF Units
  <2>2. ASSUME NEW p \in {x} \X (1..w[x]) PROVE p \in Units(w, {x})
    BY DEF Units
  <2> QED BY <2>1, <2>2
<1>2. IsFiniteSet({x}) /\ Cardinality({x}) = 1
  BY FS_Singleton, Zenon
<1>3. \A n \in Nat : IsFiniteSet(1..n) /\ Cardinality(1..n) = n
  BY FS_Interval
<1>4. IsFiniteSet(1..w[x]) /\ Cardinality(1..w[x]) = w[x]
  BY <1>3
<1>5. ASSUME NEW S, IsFiniteSet(S), Cardinality(S) = 1,
             NEW T, IsFiniteSet(T), Cardinality(T) = w[x]
      PROVE  IsFiniteSet(S \X T) /\ Cardinality(S \X T) = w[x]
  <2>1. /\ IsFiniteSet(S \X T)
        /\ Cardinality(S \X T) = Cardinality(S) * Cardinality(T)
    BY <1>5, FS_Product
  <2>2. 1 * w[x] = w[x]
    OBVIOUS
  <2>3. QED BY <1>5, <2>1, <2>2, Zenon
<1>6. /\ IsFiniteSet({x} \X (1..w[x]))
      /\ Cardinality({x} \X (1..w[x])) = w[x]
  BY <1>2, <1>4, <1>5, Zenon
<1>7. QED BY <1>1, <1>6, Zenon

\* The units of a finite set are finitely many.
LEMMA UnitsFinite ==
  ASSUME NEW w, NEW s, IsFiniteSet(s), \A x \in s : w[x] \in Nat
  PROVE  IsFiniteSet(Units(w, s)) /\ Cardinality(Units(w, s)) \in Nat
<1> DEFINE Parts == {Units(w, {x}) : x \in s}
           part == [x \in s |-> Units(w, {x})]
<1>1. part \in Surjection(s, Parts)
  BY DEF Surjection
<1>2. IsFiniteSet(Parts)
  BY <1>1, FS_Surjection
<1>3. \A T \in Parts : IsFiniteSet(T)
  BY UnitsOne
<1>4. Units(w, s) = UNION Parts
  BY DEF Units
<1>5. IsFiniteSet(Units(w, s))
  BY <1>2, <1>3, <1>4, FS_UNION
<1>6. QED BY <1>5, FS_CardinalityType

\* The units of disjoint sets add up.
LEMMA UnitsAdd ==
  ASSUME NEW w, NEW s, NEW t, s \cap t = {},
         IsFiniteSet(s), \A x \in s : w[x] \in Nat,
         IsFiniteSet(t), \A x \in t : w[x] \in Nat
  PROVE  Cardinality(Units(w, s \cup t))
           = Cardinality(Units(w, s)) + Cardinality(Units(w, t))
<1>1. /\ IsFiniteSet(Units(w, s)) /\ Cardinality(Units(w, s)) \in Nat
      /\ IsFiniteSet(Units(w, t)) /\ Cardinality(Units(w, t)) \in Nat
  BY UnitsFinite
<1>2. /\ Units(w, s \cup t) = Units(w, s) \cup Units(w, t)
      /\ Units(w, s) \cap Units(w, t) = {}
  BY UnitsParts
<1>3. Cardinality(Units(w, s) \cap Units(w, t)) = 0
  BY <1>2, FS_EmptySet
<1>4. Cardinality(Units(w, s) \cup Units(w, t))
        = Cardinality(Units(w, s)) + Cardinality(Units(w, t))
          - Cardinality(Units(w, s) \cap Units(w, t))
  BY <1>1, FS_Union
<1>5. Cardinality(Units(w, s \cup t))
        = Cardinality(Units(w, s) \cup Units(w, t))
  BY <1>2, Zenon
<1>6. QED BY <1>1, <1>3, <1>4, <1>5

\* A part of a set has no more units than the set.
LEMMA UnitsMonotone ==
  ASSUME NEW w, NEW s, NEW t, s \subseteq t,
         IsFiniteSet(t), \A x \in t : w[x] \in Nat
  PROVE  Cardinality(Units(w, s)) <= Cardinality(Units(w, t))
<1>1. IsFiniteSet(Units(w, t))
  BY UnitsFinite
<1>2. QED BY <1>1, UnitsParts, FS_Subset

\* A set has at least the units of one that is mapped into it one to one,
\* without loss of weight.
LEMMA UnitsImage ==
  ASSUME NEW v, NEW s, NEW w, NEW t, NEW h \in Injection(s, t),
         IsFiniteSet(t), \A y \in t : w[y] \in Nat,
         \A x \in s : v[x] = w[h[x]]
  PROVE  /\ IsFiniteSet(s)
         /\ Cardinality(Units(v, s)) <= Cardinality(Units(w, t))
<1> DEFINE g == [p \in Units(v, s) |-> <<h[p[1]], p[2]>>]
<1>0. h \in [s -> t] /\ \A x, y \in s : h[x] = h[y] => x = y
  BY DEF Injection, IsInjective
<1>1. ASSUME NEW p \in Units(v, s)
      PROVE  g[p] \in Units(w, t) /\ g[p][1] = h[p[1]] /\ g[p][2] = p[2]
  BY <1>0 DEF Units
<1>2. ASSUME NEW p \in Units(v, s), NEW q \in Units(v, s), g[p] = g[q]
      PROVE  p = q
  <2>1. h[p[1]] = h[q[1]] /\ p[2] = q[2]
    BY <1>1, <1>2
  <2>2. p \in s \X Nat /\ q \in s \X Nat
    BY DEF Units
  <2>3. p[1] = q[1]
    BY <1>0, <2>1, <2>2
  <2>4. QED BY <2>1, <2>2, <2>3
<1>3. g \in Injection(Units(v, s), Units(w, t))
  <2>1. g \in [Units(v, s) -> Units(w, t)]
    BY <1>1
  <2>2. QED BY <2>1, <1>2 DEF Injection, IsInjective
<1>4. IsFiniteSet(Units(w, t))
  BY UnitsFinite
<1>5. QED BY <1>3, <1>4, FS_Injection

-----------------------------------------------------------------------------
(* The fold. *)

\* A set is what one chosen element leaves, and that element.
LEMMA OneChosen ==
  ASSUME NEW s, s # {}
  PROVE  LET x == CHOOSE y \in s : TRUE
         IN  x \in s /\ s = (s \ {x}) \cup {x} /\ (s \ {x}) \cap {x} = {}
  OBVIOUS

\* The number of units is a solution of the equation of the fold.
LEMMA UnitsSumUp ==
  ASSUME NEW U, IsFiniteSet(U), NEW w, \A x \in U : w[x] \in Nat
  PROVE  SumsUp([s \in SUBSET U |-> Cardinality(Units(w, s))], w, U)
<1> DEFINE g == [s \in SUBSET U |-> Cardinality(Units(w, s))]
           x(s) == CHOOSE y \in s : TRUE
<1>1. ASSUME NEW s \in SUBSET U, s = {} PROVE g[s] = 0
  BY <1>1, FS_EmptySet DEF Units
<1>2. ASSUME NEW s \in SUBSET U, s # {}
      PROVE  g[s] = w[x(s)] + g[s \ {x(s)}]
  <2>1. x(s) \in s /\ s = (s \ {x(s)}) \cup {x(s)}
    BY <1>2
  <2>2. /\ IsFiniteSet(s \ {x(s)}) /\ IsFiniteSet({x(s)})
        /\ (s \ {x(s)}) \cap {x(s)} = {}
    BY <2>1, FS_Subset, FS_Singleton
  <2>3. Cardinality(Units(w, s))
          = Cardinality(Units(w, s \ {x(s)})) + Cardinality(Units(w, {x(s)}))
    BY <2>1, <2>2, UnitsAdd
  <2>4. Cardinality(Units(w, {x(s)})) = w[x(s)] /\ w[x(s)] \in Nat
    BY <2>1, UnitsOne
  <2>5. Cardinality(Units(w, s \ {x(s)})) \in Nat
    BY <2>1, <2>2, UnitsFinite
  <2>6. s \ {x(s)} \in SUBSET U
    OBVIOUS
  <2>7. g[s] = Cardinality(Units(w, s))
        /\ g[s \ {x(s)}] = Cardinality(Units(w, s \ {x(s)}))
    BY <2>6
  <2> HIDE DEF g, x
  <2>8. QED BY <2>3, <2>4, <2>5, <2>7
<1>3. \A s \in SUBSET U :
         g[s] = IF s = {} THEN 0 ELSE w[x(s)] + g[s \ {x(s)}]
  BY <1>1, <1>2
<1>4. g = [s \in SUBSET U |->
             IF s = {} THEN 0 ELSE w[x(s)] + g[s \ {x(s)}]]
  <2>1. g = [s \in SUBSET U |-> g[s]]
    OBVIOUS
  <2> HIDE DEF g
  <2>2. QED BY <2>1, <1>3
<1>5. QED BY <1>4, Zenon DEF SumsUp

\* Among parts of a finite set there is one that no other is a part of.
LEMMA SmallestPart ==
  ASSUME NEW U, IsFiniteSet(U), NEW B \in SUBSET (SUBSET U), B # {}
  PROVE  \E s \in B : \A t \in B : t \subseteq s => t = s
<1>1. IsWellFoundedOn(StrictSubsetOrdering(U), SUBSET U)
  BY FS_StrictSubsetOrderingWellFounded, FS_FiniteSubsetsOfFinite
<1>2. PICK s \in B : \A t \in B : ~(<<t, s>> \in StrictSubsetOrdering(U))
  BY <1>1, WFMin, Zenon
<1>3. ASSUME NEW t \in B, t \subseteq s, t # s PROVE FALSE
  <2>1. <<t, s>> \in (SUBSET U) \X (SUBSET U)
    OBVIOUS
  <2>2. <<t, s>> \in StrictSubsetOrdering(U)
    BY <2>1, <1>3 DEF StrictSubsetOrdering
  <2>3. QED BY <2>2, <1>2
<1>4. QED BY <1>3

\* Whatever function solves the equation of the fold, it counts the units.
LEMMA SumIsCount ==
  ASSUME NEW U, IsFiniteSet(U), NEW w, \A x \in U : w[x] \in Nat,
         NEW f, SumsUp(f, w, U)
  PROVE  \A s \in SUBSET U : f[s] = Cardinality(Units(w, s))
<1> DEFINE g == [s \in SUBSET U |-> Cardinality(Units(w, s))]
           x(s) == CHOOSE y \in s : TRUE
           B == {s \in SUBSET U : f[s] # g[s]}
<1>1. \A s \in SUBSET U :
         f[s] = IF s = {} THEN 0 ELSE w[x(s)] + f[s \ {x(s)}]
  BY Zenon DEF SumsUp
<1>2. \A s \in SUBSET U :
         g[s] = IF s = {} THEN 0 ELSE w[x(s)] + g[s \ {x(s)}]
  <2>1. SumsUp(g, w, U)
    BY UnitsSumUp, Zenon
  <2> HIDE DEF g
  <2>2. QED BY <2>1, Zenon DEF SumsUp
<1>3. ASSUME B # {} PROVE FALSE
  <2>1. PICK s \in B : \A t \in B : t \subseteq s => t = s
    <3>1. B \in SUBSET (SUBSET U)
      OBVIOUS
    <3> HIDE DEF B
    <3>2. QED BY <1>3, <3>1, SmallestPart
  <2>2. s \in SUBSET U /\ f[s] # g[s]
    BY <2>1
  <2>3. s # {}
    BY <1>1, <1>2, <2>2
  <2>4. x(s) \in s
    BY <2>3
  <2>5. s \ {x(s)} \in SUBSET U /\ s \ {x(s)} \subseteq s /\ s \ {x(s)} # s
    BY <2>2, <2>4
  <2>6. s \ {x(s)} \notin B
    BY <2>1, <2>5
  <2>7. f[s \ {x(s)}] = g[s \ {x(s)}]
    BY <2>5, <2>6
  <2> HIDE DEF g, x, B
  <2>8. QED BY <1>1, <1>2, <2>2, <2>3, <2>7
<1>4. QED BY <1>3

=============================================================================
