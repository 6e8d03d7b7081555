-------------------------- MODULE ArithmeticLemmas --------------------------
(***************************************************************************)
(* Facts the proofs of the components share: about division, about Min and *)
(* Max of FiniteSetsExt, and about SumFunctionOnSet of Functions, a sum    *)
(* over a finite set.  The last is defined by a recursion on the set, so   *)
(* each fact about it rests on a least counterexample.                     *)
(***************************************************************************)
EXTENDS Integers, FiniteSetsExt, Functions, FiniteSetTheorems, WellFoundedInduction, TLAPS

\* Division by a positive number rounds down.
LEMMA Division ==
  ASSUME NEW a \in Nat, NEW d \in Nat \ {0}
  PROVE  /\ a \div d \in Nat
         /\ d * (a \div d) <= a
         /\ a < d * (a \div d) + d
  OBVIOUS

\* A quotient is determined by its remainder being below the divisor.
LEMMA QuotientLe ==
  ASSUME NEW d \in Nat \ {0}, NEW q \in Int, NEW p \in Int, d * q < d * p + d
  PROVE  q <= p
  OBVIOUS

\* The least of two numbers is one of them.
LEMMA MinOfTwo ==
  ASSUME NEW a \in Int, NEW b \in Int
  PROVE  /\ Min({a, b}) \in {a, b}
         /\ Min({a, b}) <= a /\ Min({a, b}) <= b
<1>1. \E x \in {a, b} : \A z \in {a, b} : x <= z
  OBVIOUS
<1>2. QED
  BY <1>1 DEF Min

\* The greater of two numbers is one of them.
LEMMA MaxOfTwo ==
  ASSUME NEW a \in Int, NEW b \in Int
  PROVE  /\ Max({a, b}) \in {a, b}
         /\ Max({a, b}) >= a /\ Max({a, b}) >= b
<1>1. \E x \in {a, b} : \A z \in {a, b} : x >= z
  OBVIOUS
<1>2. QED
  BY <1>1 DEF Max

\* The least of three numbers is one of them.
LEMMA MinOfThree ==
  ASSUME NEW a \in Int, NEW b \in Int, NEW c \in Int
  PROVE  /\ Min({a, b, c}) \in {a, b, c}
         /\ Min({a, b, c}) <= a /\ Min({a, b, c}) <= b /\ Min({a, b, c}) <= c
<1>1. \E x \in {a, b, c} : \A z \in {a, b, c} : x <= z
  OBVIOUS
<1>2. QED
  BY <1>1 DEF Min

\* A nonempty set of natural numbers has a least one.
LEMMA MinInSet ==
  ASSUME NEW S \in SUBSET Nat, S # {}
  PROVE  Min(S) \in S /\ \A x \in S : Min(S) <= x
<1>1. PICK x \in S : \A z \in S : ~ (<<z, x>> \in OpToRel(<, Nat))
  BY WFMin, NatLessThanWellFounded
<1>2. ASSUME NEW z \in S PROVE x <= z
  <2>1. x \in Nat /\ z \in Nat
    OBVIOUS
  <2>2. ~ (z < x)
    BY <1>1, <2>1 DEF OpToRel
  <2>3. QED
    BY <2>1, <2>2
<1>3. QED
  BY <1>2 DEF Min

\* A nonempty set of natural numbers below a bound has a greatest one.
LEMMA MaxInSet ==
  ASSUME NEW S \in SUBSET Nat, S # {}, NEW b \in Nat, \A x \in S : x <= b
  PROVE  Max(S) \in S /\ \A x \in S : x <= Max(S)
<1> DEFINE T == {b - x : x \in S}
<1>1. T \in SUBSET Nat /\ T # {}
  <2>1. \A x \in S : b - x \in Nat
    OBVIOUS
  <2>2. QED
    BY <2>1
<1>2. PICK t \in T : \A z \in T : ~ (<<z, t>> \in OpToRel(<, Nat))
  BY <1>1, WFMin, NatLessThanWellFounded
<1>3. \A z \in T : t <= z
  <2>1. SUFFICES ASSUME NEW z \in T PROVE t <= z
    OBVIOUS
  <2>2. t \in Nat /\ z \in Nat
    BY <1>1
  <2>3. ~ (z < t)
    BY <1>2, <2>2 DEF OpToRel
  <2>4. QED
    BY <2>2, <2>3
<1>4. PICK m \in S : t = b - m
  OBVIOUS
<1>5. ASSUME NEW x \in S PROVE m >= x
  <2>1. b - x \in T
    OBVIOUS
  <2> HIDE DEF T
  <2>2. b - m <= b - x
    BY <1>3, <1>4, <2>1
  <2>3. x \in Nat /\ m \in Nat
    OBVIOUS
  <2>4. QED
    BY <2>2, <2>3
<1>6. Max(S) \in S /\ \A x \in S : Max(S) >= x
  BY <1>5 DEF Max
<1>7. QED
  BY <1>6

-----------------------------------------------------------------------------
(* Sums over a finite set.                                                 *)

\* The recursion that SumFunctionOnSet(g, S) unfolds.
Pick1(s) == CHOOSE x \in s : TRUE

\* h is the sum of g over the parts of S, one picked element after the other.
Recursion(h, g, S) ==
  h = [s \in SUBSET S |->
         IF s = {} THEN 0 ELSE g[Pick1(s)] + h[s \ {Pick1(s)}]]

\* SumFunctionOnSet takes whatever satisfies the recursion.
LEMMA SumUnfold ==
  ASSUME NEW g, NEW S
  PROVE  SumFunctionOnSet(g, S) = (CHOOSE h : Recursion(h, g, S))[S]
BY DEF SumFunctionOnSet, FoldFunctionOnSet, MapThenFoldSet, Recursion, Pick1

\* The parts of S of at most n elements, and the recursion over these alone.
Smaller(S, n) == {s \in SUBSET S : Cardinality(s) <= n}

PartialRecursion(h, g, S, n) ==
  h = [s \in Smaller(S, n) |->
         IF s = {} THEN 0 ELSE g[Pick1(s)] + h[s \ {Pick1(s)}]]

\* Picking an element leaves a smaller part.
LEMMA PickedLess ==
  ASSUME NEW S, IsFiniteSet(S), NEW n \in Nat \ {0}, NEW s \in Smaller(S, n), s # {}
  PROVE  /\ Pick1(s) \in s
         /\ s \ {Pick1(s)} \in Smaller(S, n - 1)
<1>1. Pick1(s) \in s
  BY DEF Pick1
<1>2. IsFiniteSet(s) /\ s \subseteq S /\ Cardinality(s) <= n
  BY FS_Subset DEF Smaller
<1>3. Cardinality(s \ {Pick1(s)}) = Cardinality(s) - 1 /\ Cardinality(s) \in Nat
  BY <1>1, <1>2, FS_RemoveElement, FS_CardinalityType
<1>4. Cardinality(s \ {Pick1(s)}) <= n - 1
  BY <1>2, <1>3
<1>5. QED
  BY <1>1, <1>2, <1>4 DEF Smaller

\* The recursion has a solution over small parts: a least n without one would
\* have one, built on the solution for n - 1.
LEMMA PartialExists ==
  ASSUME NEW g, NEW S, IsFiniteSet(S), NEW n \in Nat
  PROVE  \E h : PartialRecursion(h, g, S, n)
<1> DEFINE Bad == {i \in Nat : ~ \E h : PartialRecursion(h, g, S, i)}
<1>1. SUFFICES Bad = {}
  OBVIOUS
<1>2. SUFFICES ASSUME Bad # {} PROVE FALSE
  OBVIOUS
<1>3. PICK m \in Bad : \A i \in Bad : m <= i
  <2>1. Bad \in SUBSET Nat
    OBVIOUS
  <2>2. QED
    BY <1>2, <2>1, MinInSet
<1>4. m # 0
  <2> DEFINE h == [s \in Smaller(S, 0) |-> 0]
  <2>1. ASSUME NEW s \in Smaller(S, 0) PROVE s = {}
    <3>1. s \subseteq S /\ Cardinality(s) <= 0
      BY DEF Smaller
    <3>2. IsFiniteSet(s) /\ Cardinality(s) \in Nat
      BY <3>1, FS_Subset, FS_CardinalityType
    <3>3. QED
      BY <3>1, <3>2, FS_EmptySet
  <2>2. PartialRecursion(h, g, S, 0)
    BY <2>1 DEF PartialRecursion
  <2>3. QED
    BY <2>2
<1>5. m - 1 \in Nat /\ m - 1 \notin Bad /\ m \in Nat \ {0}
  BY <1>3, <1>4
<1>6. PICK k : PartialRecursion(k, g, S, m - 1)
  BY <1>5
<1> DEFINE Next(s) == IF s = {} THEN 0 ELSE g[Pick1(s)] + k[s \ {Pick1(s)}]
           h == [s \in Smaller(S, m) |-> Next(s)]
<1>7. ASSUME NEW s \in Smaller(S, m - 1) PROVE k[s] = Next(s) /\ s \in Smaller(S, m)
  <2>1. k[s] = Next(s)
    BY <1>6 DEF PartialRecursion
  <2>2. s \subseteq S /\ Cardinality(s) <= m - 1
    BY DEF Smaller
  <2>3. Cardinality(s) \in Nat
    BY <2>2, FS_Subset, FS_CardinalityType
  <2>4. Cardinality(s) <= m
    BY <1>5, <2>2, <2>3
  <2>5. QED
    BY <2>1, <2>2, <2>4 DEF Smaller
<1>8. ASSUME NEW s \in Smaller(S, m), s # {}
      PROVE  h[s] = g[Pick1(s)] + h[s \ {Pick1(s)}]
  <2>1. s \ {Pick1(s)} \in Smaller(S, m - 1)
    BY <1>5, <1>8, PickedLess
  <2>2. h[s \ {Pick1(s)}] = k[s \ {Pick1(s)}]
    BY <1>7, <2>1
  <2>3. QED
    BY <1>8, <2>2
<1>9. \A s \in Smaller(S, m) :
        h[s] = IF s = {} THEN 0 ELSE g[Pick1(s)] + h[s \ {Pick1(s)}]
  BY <1>8
<1>10. PartialRecursion(h, g, S, m)
  <2>1. DOMAIN h = Smaller(S, m) /\ h = [s \in Smaller(S, m) |-> h[s]]
    OBVIOUS
  <2> HIDE DEF h
  <2>2. QED
    BY <1>9, <2>1 DEF PartialRecursion
<1>11. QED
  BY <1>3, <1>10

\* So it has one over all parts of a finite set.
LEMMA RecursionExists ==
  ASSUME NEW g, NEW S, IsFiniteSet(S)
  PROVE  \E h : Recursion(h, g, S)
<1>1. Cardinality(S) \in Nat
  BY FS_CardinalityType
<1>2. PICK h : PartialRecursion(h, g, S, Cardinality(S))
  BY <1>1, PartialExists
<1>3. Smaller(S, Cardinality(S)) = SUBSET S
  <2>1. \A s \in SUBSET S : Cardinality(s) <= Cardinality(S)
    BY FS_Subset
  <2>2. QED
    BY <2>1 DEF Smaller
<1>4. Recursion(h, g, S)
  BY <1>2, <1>3 DEF Recursion, PartialRecursion
<1>5. QED
  BY <1>4

\* Sums over parts of S are what any such recursion gives.
LEMMA RecursionUnique ==
  ASSUME NEW g, NEW S, NEW T \in SUBSET S, IsFiniteSet(T), NEW h, NEW k,
         Recursion(h, g, S), Recursion(k, g, T)
  PROVE  h[T] = k[T]
<1> DEFINE Bad == {n \in Nat : \E s \in SUBSET T : Cardinality(s) = n /\ h[s] # k[s]}
<1>1. SUFFICES Bad = {}
  <2>1. T \in SUBSET T /\ Cardinality(T) \in Nat
    BY FS_CardinalityType
  <2>2. QED
    BY <1>1, <2>1
<1>2. SUFFICES ASSUME Bad # {} PROVE FALSE
  OBVIOUS
<1>3. PICK m \in Bad : \A i \in Bad : m <= i
  <2>1. Bad \in SUBSET Nat
    OBVIOUS
  <2>2. QED
    BY <1>2, <2>1, MinInSet
<1>4. PICK s \in SUBSET T : Cardinality(s) = m /\ h[s] # k[s]
  BY <1>3
<1>5. s \in SUBSET S /\ s \in SUBSET T
  OBVIOUS
<1>6. /\ h[s] = IF s = {} THEN 0 ELSE g[Pick1(s)] + h[s \ {Pick1(s)}]
      /\ k[s] = IF s = {} THEN 0 ELSE g[Pick1(s)] + k[s \ {Pick1(s)}]
  BY <1>5 DEF Recursion
<1>7. s # {} /\ h[s \ {Pick1(s)}] # k[s \ {Pick1(s)}]
  BY <1>4, <1>6
<1>8. Pick1(s) \in s
  BY <1>7 DEF Pick1
<1>9. Cardinality(s \ {Pick1(s)}) = m - 1 /\ m \in Nat /\ m - 1 \in Nat
  <2>1. IsFiniteSet(s)
    BY <1>5, FS_Subset
  <2>2. Cardinality(s \ {Pick1(s)}) = Cardinality(s) - 1
    BY <2>1, <1>8, FS_RemoveElement
  <2>3. Cardinality(s \ {Pick1(s)}) \in Nat
    BY <2>1, FS_Subset, FS_CardinalityType
  <2>4. QED
    BY <1>3, <1>4, <2>2, <2>3
<1>10. m - 1 \in Bad
  BY <1>7, <1>9
<1>11. QED
  BY <1>3, <1>9, <1>10

\* Induction over the parts of a finite set; G is the set of those that have
\* the property in question.
LEMMA FiniteSetInduction ==
  ASSUME NEW S, IsFiniteSet(S), NEW G, {} \in G,
         \A T \in SUBSET S : \A x \in S \ T : T \in G => T \cup {x} \in G
  PROVE  S \in G
<1> DEFINE Bad == {n \in Nat : \E s \in SUBSET S : Cardinality(s) = n /\ s \notin G}
<1>1. SUFFICES Bad = {}
  <2>1. S \in SUBSET S /\ Cardinality(S) \in Nat
    BY FS_CardinalityType
  <2>2. QED
    BY <1>1, <2>1
<1>2. SUFFICES ASSUME Bad # {} PROVE FALSE
  OBVIOUS
<1>3. PICK m \in Bad : \A i \in Bad : m <= i
  <2>1. Bad \in SUBSET Nat
    OBVIOUS
  <2>2. QED
    BY <1>2, <2>1, MinInSet
<1>4. PICK s \in SUBSET S : Cardinality(s) = m /\ s \notin G
  BY <1>3
<1>5. PICK x \in s : TRUE
  BY <1>4
<1> DEFINE t == s \ {x}
<1>6. t \in SUBSET S /\ x \in S \ t /\ s = t \cup {x}
  OBVIOUS
<1>7. t \notin G
  BY <1>4, <1>6
<1>8. Cardinality(t) = m - 1 /\ m - 1 \in Nat
  <2>1. IsFiniteSet(s)
    BY FS_Subset
  <2>2. Cardinality(t) = Cardinality(s) - 1
    BY <2>1, <1>5, FS_RemoveElement
  <2>3. Cardinality(t) \in Nat
    BY <1>6, FS_Subset, FS_CardinalityType
  <2>4. QED
    BY <1>3, <1>4, <2>2, <2>3
<1>9. m - 1 \in Bad
  BY <1>6, <1>7, <1>8
<1>10. QED
  BY <1>3, <1>8, <1>9

-----------------------------------------------------------------------------

\* The empty sum.
LEMMA SumOfNone ==
  ASSUME NEW g
  PROVE  SumFunctionOnSet(g, {}) = 0
<1>1. IsFiniteSet({})
  BY FS_EmptySet
<1>2. PICK h : Recursion(h, g, {})
  BY <1>1, RecursionExists
<1>3. Recursion(CHOOSE k : Recursion(k, g, {}), g, {})
  BY <1>2
<1>4. QED
  BY <1>3, SumUnfold DEF Recursion

\* The sum over a set is the picked term and the sum over the others.
LEMMA SumPicked ==
  ASSUME NEW g, NEW S, IsFiniteSet(S), S # {}
  PROVE  /\ Pick1(S) \in S
         /\ SumFunctionOnSet(g, S) = g[Pick1(S)] + SumFunctionOnSet(g, S \ {Pick1(S)})
<1> DEFINE T == S \ {Pick1(S)}
           h == CHOOSE h : Recursion(h, g, S)
           k == CHOOSE k : Recursion(k, g, T)
<1>1. Pick1(S) \in S
  BY DEF Pick1
<1>2. IsFiniteSet(T) /\ T \in SUBSET S /\ T \in SUBSET T
  BY FS_Subset
<1>3. Recursion(h, g, S)
  BY RecursionExists
<1>4. Recursion(k, g, T)
  BY <1>2, RecursionExists
<1>5. SumFunctionOnSet(g, S) = h[S] /\ SumFunctionOnSet(g, T) = k[T]
  BY SumUnfold
<1> HIDE DEF h, k
<1>6. h[T] = k[T]
  <2> HIDE DEF T
  <2>1. IsFiniteSet(T) /\ T \in SUBSET S
    BY <1>2
  <2>2. QED
    BY <2>1, <1>3, <1>4, RecursionUnique
<1>7. h[S] = g[Pick1(S)] + h[T]
  BY <1>3 DEF Recursion
<1>8. QED
  BY <1>1, <1>5, <1>6, <1>7

\* All terms are numbers.
Naturals(g, S) == \A x \in S : g[x] \in Nat

\* A sum of natural numbers is one.
LEMMA SumIsNat ==
  ASSUME NEW g, NEW S, IsFiniteSet(S), Naturals(g, S)
  PROVE  SumFunctionOnSet(g, S) \in Nat
<1> DEFINE Bad == {n \in Nat : \E s \in SUBSET S :
                                 Cardinality(s) = n /\ SumFunctionOnSet(g, s) \notin Nat}
<1>1. SUFFICES Bad = {}
  <2>1. S \in SUBSET S /\ Cardinality(S) \in Nat
    BY FS_CardinalityType
  <2>2. QED
    BY <1>1, <2>1
<1>2. SUFFICES ASSUME Bad # {} PROVE FALSE
  OBVIOUS
<1>3. PICK m \in Bad : \A i \in Bad : m <= i
  <2>1. Bad \in SUBSET Nat
    OBVIOUS
  <2>2. QED
    BY <1>2, <2>1, MinInSet
<1>4. PICK s \in SUBSET S : Cardinality(s) = m /\ SumFunctionOnSet(g, s) \notin Nat
  BY <1>3
<1>5. s # {} /\ IsFiniteSet(s)
  <2>1. SumFunctionOnSet(g, {}) = 0
    BY SumOfNone
  <2>2. IsFiniteSet(s)
    BY FS_Subset
  <2>3. QED
    BY <1>4, <2>1, <2>2
<1> DEFINE x == Pick1(s)
           t == s \ {x}
<1>6. x \in s /\ SumFunctionOnSet(g, s) = g[x] + SumFunctionOnSet(g, t)
  BY <1>5, SumPicked
<1> HIDE DEF x
<1>7. g[x] \in Nat
  BY <1>6 DEF Naturals
<1>8. t \in SUBSET S /\ SumFunctionOnSet(g, t) \notin Nat
  BY <1>4, <1>6, <1>7
<1>9. Cardinality(t) = m - 1 /\ m - 1 \in Nat
  <2>1. Cardinality(t) = Cardinality(s) - 1
    BY <1>5, <1>6, FS_RemoveElement
  <2>2. Cardinality(t) \in Nat
    BY <1>8, FS_Subset, FS_CardinalityType
  <2>3. QED
    BY <1>3, <1>4, <2>1, <2>2
<1>10. m - 1 \in Bad
  BY <1>8, <1>9
<1>11. QED
  BY <1>3, <1>9, <1>10

\* The order of summation does not matter.
LEMMA SumLess ==
  ASSUME NEW g, NEW S, IsFiniteSet(S), Naturals(g, S), NEW y \in S
  PROVE  SumFunctionOnSet(g, S) = g[y] + SumFunctionOnSet(g, S \ {y})
<1> DEFINE Sum(s) == SumFunctionOnSet(g, s)
           Bad == {n \in Nat : \E s \in SUBSET S :
                     Cardinality(s) = n /\ \E z \in s : Sum(s) # g[z] + Sum(s \ {z})}
<1>1. SUFFICES Bad = {}
  <2>1. S \in SUBSET S /\ Cardinality(S) \in Nat
    BY FS_CardinalityType
  <2> HIDE DEF Sum
  <2>2. Sum(S) = g[y] + Sum(S \ {y})
    BY <1>1, <2>1
  <2>3. QED
    BY <2>2 DEF Sum
<1>2. SUFFICES ASSUME Bad # {} PROVE FALSE
  OBVIOUS
<1> HIDE DEF Sum
<1>3. PICK m \in Bad : \A i \in Bad : m <= i
  <2>1. Bad \in SUBSET Nat
    OBVIOUS
  <2>2. QED
    BY <1>2, <2>1, MinInSet
<1>4. PICK s \in SUBSET S : Cardinality(s) = m /\ \E z \in s : Sum(s) # g[z] + Sum(s \ {z})
  BY <1>3
<1>5. PICK z \in s : Sum(s) # g[z] + Sum(s \ {z})
  BY <1>4
<1>6. IsFiniteSet(s)
  BY FS_Subset
<1>7. PICK c \in s : Sum(s) = g[c] + Sum(s \ {c})
  <2>1. SumFunctionOnSet(g, s) = g[Pick1(s)] + SumFunctionOnSet(g, s \ {Pick1(s)})
        /\ Pick1(s) \in s
    BY <1>5, <1>6, SumPicked
  <2>2. QED
    BY <2>1 DEF Sum
<1>8. ASSUME NEW e \in s
      PROVE  /\ \A q \in s \ {e} : Sum(s \ {e}) = g[q] + Sum((s \ {e}) \ {q})
  <2> DEFINE t == s \ {e}
  <2>1. Cardinality(t) = m - 1 /\ m - 1 \in Nat
    <3>1. Cardinality(t) = Cardinality(s) - 1
      BY <1>6, FS_RemoveElement
    <3>2. Cardinality(t) \in Nat
      BY <1>6, FS_Subset, FS_CardinalityType
    <3>3. QED
      BY <1>3, <1>4, <3>1, <3>2
  <2>2. m - 1 \notin Bad
    BY <1>3, <2>1
  <2>3. t \in SUBSET S
    OBVIOUS
  <2> HIDE DEF t
  <2>4. \A q \in t : Sum(t) = g[q] + Sum(t \ {q})
    BY <2>1, <2>2, <2>3
  <2>5. QED
    BY <2>4 DEF t
<1>9. z # c
  BY <1>5, <1>7
<1>10. (s \ {c}) \ {z} = (s \ {z}) \ {c}
  OBVIOUS
<1> DEFINE rest == (s \ {z}) \ {c}
<1>11. Sum(s \ {c}) = g[z] + Sum(rest) /\ Sum(s \ {z}) = g[c] + Sum(rest)
  BY <1>8, <1>9, <1>10
<1>12. g[c] \in Nat /\ g[z] \in Nat /\ Sum(rest) \in Nat
  <2>1. IsFiniteSet(rest) /\ Naturals(g, rest)
    BY <1>6, FS_Subset DEF Naturals
  <2> HIDE DEF rest
  <2>2. SumFunctionOnSet(g, rest) \in Nat
    BY <2>1, SumIsNat
  <2>3. QED
    BY <2>2 DEF Naturals, Sum
<1> HIDE DEF rest
<1>13. QED
  BY <1>5, <1>7, <1>11, <1>12

\* One more term.
LEMMA SumMore ==
  ASSUME NEW g, NEW S, IsFiniteSet(S), NEW y, y \notin S, Naturals(g, S \cup {y})
  PROVE  SumFunctionOnSet(g, S \cup {y}) = g[y] + SumFunctionOnSet(g, S)
<1> DEFINE T == S \cup {y}
<1>1. IsFiniteSet(T) /\ y \in T /\ T \ {y} = S
  BY FS_AddElement
<1> HIDE DEF T
<1>2. SumFunctionOnSet(g, T) = g[y] + SumFunctionOnSet(g, T \ {y})
  BY <1>1, SumLess DEF T
<1>3. QED
  BY <1>1, <1>2 DEF T

\* What an induction over the parts of S needs of a part and one more element.
LEMMA SumGrows ==
  ASSUME NEW g, NEW S, IsFiniteSet(S), Naturals(g, S), NEW T \in SUBSET S, NEW x \in S \ T
  PROVE  /\ SumFunctionOnSet(g, T) \in Nat /\ g[x] \in Nat
         /\ SumFunctionOnSet(g, T \cup {x}) = g[x] + SumFunctionOnSet(g, T)
<1>1. IsFiniteSet(T) /\ Naturals(g, T) /\ Naturals(g, T \cup {x}) /\ g[x] \in Nat
  BY FS_Subset DEF Naturals
<1>2. QED
  BY <1>1, SumIsNat, SumMore

\* The same terms have the same sum.
LEMMA SumSame ==
  ASSUME NEW g, NEW h, NEW S, IsFiniteSet(S), Naturals(g, S), \A x \in S : g[x] = h[x]
  PROVE  SumFunctionOnSet(g, S) = SumFunctionOnSet(h, S)
<1> DEFINE Good == {T \in SUBSET S : SumFunctionOnSet(g, T) = SumFunctionOnSet(h, T)}
<1>1. {} \in Good
  BY SumOfNone
<1>2. ASSUME NEW T \in SUBSET S, NEW x \in S \ T, T \in Good PROVE T \cup {x} \in Good
  <2>1. SumFunctionOnSet(g, T \cup {x}) = g[x] + SumFunctionOnSet(g, T)
    BY SumGrows
  <2>2. Naturals(h, S)
    BY DEF Naturals
  <2>3. SumFunctionOnSet(h, T \cup {x}) = h[x] + SumFunctionOnSet(h, T)
    BY <2>2, SumGrows
  <2>4. QED
    BY <1>2, <2>1, <2>3
<1>3. S \in Good
  <2> HIDE DEF Good
  <2>1. QED
    BY <1>1, <1>2, FiniteSetInduction
<1>4. QED
  BY <1>3

\* The sum over two sets that are apart.
LEMMA SumApart ==
  ASSUME NEW g, NEW S, NEW R, IsFiniteSet(S), IsFiniteSet(R), S \cap R = {},
         Naturals(g, S \cup R)
  PROVE  SumFunctionOnSet(g, S \cup R) = SumFunctionOnSet(g, S) + SumFunctionOnSet(g, R)
<1> DEFINE Good == {T \in SUBSET S : SumFunctionOnSet(g, T \cup R) =
                      SumFunctionOnSet(g, T) + SumFunctionOnSet(g, R)}
<1>1. Naturals(g, S) /\ Naturals(g, R) /\ IsFiniteSet(S \cup R)
  BY FS_Union DEF Naturals
<1>2. SumFunctionOnSet(g, R) \in Nat
  BY <1>1, SumIsNat
<1>3. {} \in Good
  <2>1. {} \cup R = R
    OBVIOUS
  <2>2. QED
    BY <1>2, <2>1, SumOfNone
<1>4. ASSUME NEW T \in SUBSET S, NEW x \in S \ T, T \in Good PROVE T \cup {x} \in Good
  <2>1. /\ SumFunctionOnSet(g, T \cup {x}) = g[x] + SumFunctionOnSet(g, T)
        /\ SumFunctionOnSet(g, T) \in Nat /\ g[x] \in Nat
    BY <1>1, SumGrows
  <2>2. T \cup R \in SUBSET (S \cup R) /\ x \in (S \cup R) \ (T \cup R)
    OBVIOUS
  <2>3. SumFunctionOnSet(g, (T \cup R) \cup {x}) = g[x] + SumFunctionOnSet(g, T \cup R)
    <3> DEFINE U == S \cup R
               V == T \cup R
    <3>1. IsFiniteSet(U) /\ Naturals(g, U) /\ V \in SUBSET U /\ x \in U \ V
      BY <1>1, <2>2
    <3> HIDE DEF U, V
    <3>2. SumFunctionOnSet(g, V \cup {x}) = g[x] + SumFunctionOnSet(g, V)
      BY <3>1, SumGrows
    <3>3. QED
      BY <3>2 DEF V
  <2>4. (T \cup R) \cup {x} = (T \cup {x}) \cup R /\ T \cup {x} \in SUBSET S
    OBVIOUS
  <2>5. SumFunctionOnSet(g, T \cup R) = SumFunctionOnSet(g, T) + SumFunctionOnSet(g, R)
    BY <1>4
  <2>6. SumFunctionOnSet(g, (T \cup {x}) \cup R) =
          SumFunctionOnSet(g, T \cup {x}) + SumFunctionOnSet(g, R)
    <3> DEFINE s == SumFunctionOnSet(g, T)
               r == SumFunctionOnSet(g, R)
               u == SumFunctionOnSet(g, T \cup R)
    <3>1. s \in Nat /\ r \in Nat /\ u = s + r /\ g[x] \in Nat
      BY <1>2, <2>1, <2>5
    <3>2. SumFunctionOnSet(g, (T \cup {x}) \cup R) = g[x] + u
      BY <2>3, <2>4
    <3>3. SumFunctionOnSet(g, T \cup {x}) = g[x] + s
      BY <2>1
    <3> HIDE DEF s, r, u
    <3>4. g[x] + u = (g[x] + s) + r
      BY <3>1
    <3>5. QED
      BY <3>2, <3>3, <3>4 DEF r
  <2>7. QED
    BY <2>4, <2>6
<1>5. S \in Good
  <2> HIDE DEF Good
  <2>1. QED
    BY <1>3, <1>4, FiniteSetInduction
<1>6. QED
  BY <1>5

\* A sum over the images of a set under a map that is one to one.
Renames(f, S, R) ==
  /\ \A x \in S : f[x] \in R
  /\ \A x, y \in S : f[x] = f[y] => x = y
  /\ \A z \in R : \E x \in S : f[x] = z

\* Renaming the places of the terms leaves the sum.
LEMMA SumRenamed ==
  ASSUME NEW g, NEW h, NEW f, NEW S, NEW R, IsFiniteSet(S), Renames(f, S, R),
         Naturals(h, S), \A x \in S : h[x] = g[f[x]]
  PROVE  SumFunctionOnSet(g, R) = SumFunctionOnSet(h, S)
<1> DEFINE Image(T) == {f[x] : x \in T}
           Good == {T \in SUBSET S : /\ IsFiniteSet(Image(T))
                                     /\ SumFunctionOnSet(g, Image(T)) = SumFunctionOnSet(h, T)}
<1> USE DEF Renames
<1>1. \A x \in S : h[x] \in Nat
  BY DEF Naturals
<1>2. {} \in Good
  <2>1. Image({}) = {}
    OBVIOUS
  <2>2. QED
    BY <2>1, SumOfNone, FS_EmptySet
<1>3. ASSUME NEW T \in SUBSET S, NEW x \in S \ T, T \in Good PROVE T \cup {x} \in Good
  <2>1. /\ SumFunctionOnSet(h, T \cup {x}) = h[x] + SumFunctionOnSet(h, T)
        /\ T \cup {x} \in SUBSET S
    BY SumGrows
  <2>2. Image(T \cup {x}) = Image(T) \cup {f[x]} /\ f[x] \notin Image(T)
    OBVIOUS
  <2>3. \A z \in Image(T) \cup {f[x]} : g[z] \in Nat
    BY <1>1
  <2>4. /\ IsFiniteSet(Image(T))
        /\ SumFunctionOnSet(g, Image(T)) = SumFunctionOnSet(h, T)
    BY <1>3
  <2>5. h[x] = g[f[x]]
    OBVIOUS
  <2> DEFINE I == Image(T)
             J == Image(T \cup {x})
             z == f[x]
  <2>6. IsFiniteSet(I) /\ z \notin I /\ Naturals(g, I \cup {z}) /\ J = I \cup {z}
    BY <2>2, <2>3, <2>4 DEF Naturals
  <2>7. h[x] = g[z] /\ SumFunctionOnSet(g, I) = SumFunctionOnSet(h, T)
    BY <2>4, <2>5
  <2>8. SUFFICES IsFiniteSet(J) /\ SumFunctionOnSet(g, J) = SumFunctionOnSet(h, T \cup {x})
    BY <2>1
  <2> HIDE DEF I, J, z
  <2>9. IsFiniteSet(J) /\ SumFunctionOnSet(g, J) = g[z] + SumFunctionOnSet(g, I)
    BY <2>6, FS_AddElement, SumMore
  <2>10. QED
    BY <2>1, <2>7, <2>9
<1>4. S \in Good
  <2> HIDE DEF Good
  <2>1. QED
    BY <1>2, <1>3, FiniteSetInduction
<1>5. Image(S) = R
  OBVIOUS
<1>6. QED
  BY <1>4, <1>5

\* A sum of zeros.
LEMMA SumOfZeros ==
  ASSUME NEW g, NEW S, IsFiniteSet(S), \A x \in S : g[x] = 0
  PROVE  SumFunctionOnSet(g, S) = 0
<1> DEFINE Good == {T \in SUBSET S : SumFunctionOnSet(g, T) = 0}
<1>1. {} \in Good
  BY SumOfNone
<1>2. ASSUME NEW T \in SUBSET S, NEW x \in S \ T, T \in Good PROVE T \cup {x} \in Good
  <2>1. Naturals(g, S)
    BY DEF Naturals
  <2>2. SumFunctionOnSet(g, T \cup {x}) = g[x] + SumFunctionOnSet(g, T)
    BY <2>1, SumGrows
  <2>3. QED
    BY <1>2, <2>2
<1>3. S \in Good
  <2> HIDE DEF Good
  <2>1. QED
    BY <1>1, <1>2, FiniteSetInduction
<1>4. QED
  BY <1>3

\* A sum over S by the values in R that the map q takes on it.
SumsBy(r, g, q, S, R) ==
  \A y \in R : r[y] = SumFunctionOnSet(g, {x \in S : q[x] = y})

\* Summing up class by class gives the sum.
LEMMA SumByValue ==
  ASSUME NEW g, NEW q, NEW r, NEW S, NEW R, IsFiniteSet(S), IsFiniteSet(R), Naturals(g, S),
         \A x \in S : q[x] \in R,
         SumsBy(r, g, q, S, R)
  PROVE  SumFunctionOnSet(r, R) = SumFunctionOnSet(g, S)
<1> DEFINE Part(T) == [y \in R |-> SumFunctionOnSet(g, {x \in T : q[x] = y})]
           Good == {T \in SUBSET S : SumFunctionOnSet(Part(T), R) = SumFunctionOnSet(g, T)}
<1>1. ASSUME NEW T \in SUBSET S PROVE Naturals(Part(T), R)
  <2>1. ASSUME NEW y \in R PROVE SumFunctionOnSet(g, {x \in T : q[x] = y}) \in Nat
    <3> DEFINE P == {x \in T : q[x] = y}
    <3>1. IsFiniteSet(P) /\ Naturals(g, P)
      BY FS_Subset DEF Naturals
    <3> HIDE DEF P
    <3>2. SumFunctionOnSet(g, P) \in Nat
      BY <3>1, SumIsNat
    <3>3. QED
      BY <3>2 DEF P
  <2>2. QED
    BY <2>1 DEF Naturals
<1>2. {} \in Good
  <2>1. \A y \in R : Part({})[y] = 0
    <3>1. \A y \in R : {x \in {} : q[x] = y} = {}
      OBVIOUS
    <3>2. QED
      BY <3>1, SumOfNone
  <2> DEFINE zero == Part({})
  <2>2. \A y \in R : zero[y] = 0
    BY <2>1
  <2> HIDE DEF zero
  <2>3. SumFunctionOnSet(zero, R) = 0
    BY <2>2, SumOfZeros
  <2>4. QED
    BY <2>3, SumOfNone DEF zero
<1>3. ASSUME NEW T \in SUBSET S, NEW x \in S \ T, T \in Good PROVE T \cup {x} \in Good
  <2> DEFINE U == T \cup {x}
             a == Part(T)
             b == Part(U)
             v == q[x]
  <2>1. U \in SUBSET S /\ v \in R
    OBVIOUS
  <2>2. \A y \in R \ {v} : b[y] = a[y]
    <3>1. \A y \in R \ {v} : {z \in U : q[z] = y} = {z \in T : q[z] = y}
      OBVIOUS
    <3>2. QED
      BY <3>1
  <2>3. b[v] = g[x] + a[v] /\ g[x] \in Nat
    <3> DEFINE P == {z \in T : q[z] = v}
    <3>1. {z \in U : q[z] = v} = P \cup {x} /\ P \in SUBSET S /\ x \in S \ P
      OBVIOUS
    <3>2. a[v] = SumFunctionOnSet(g, P) /\ b[v] = SumFunctionOnSet(g, P \cup {x})
      <4>1. /\ a[v] = SumFunctionOnSet(g, {z \in T : q[z] = v})
            /\ b[v] = SumFunctionOnSet(g, {z \in U : q[z] = v})
        <5>1. \A y \in R : /\ a[y] = SumFunctionOnSet(g, {z \in T : q[z] = y})
                            /\ b[y] = SumFunctionOnSet(g, {z \in U : q[z] = y})
          OBVIOUS
        <5> HIDE DEF a, b, v, U
        <5>2. QED
          BY <2>1, <5>1
      <4> HIDE DEF a, b, v, U
      <4>2. QED
        BY <3>1, <4>1
    <3>3. P \in SUBSET S /\ x \in S \ P
      BY <3>1
    <3> HIDE DEF P
    <3>4. SumFunctionOnSet(g, P \cup {x}) = g[x] + SumFunctionOnSet(g, P) /\ g[x] \in Nat
      BY <3>3, SumGrows
    <3>5. QED
      BY <3>2, <3>4
  <2>4. Naturals(a, R) /\ Naturals(b, R)
    BY <1>1, <2>1
  <2>5. SumFunctionOnSet(a, R) = SumFunctionOnSet(g, T)
    BY <1>3
  <2>6. SumFunctionOnSet(g, U) = g[x] + SumFunctionOnSet(g, T)
    BY SumGrows
  <2>7. SUFFICES SumFunctionOnSet(b, R) = SumFunctionOnSet(g, U)
    BY <2>1
  <2> HIDE DEF a, b, v, U
  <2> DEFINE Q == R \ {v}
  <2>8. IsFiniteSet(Q) /\ Naturals(a, Q) /\ Naturals(b, Q)
    BY <2>4, FS_Subset DEF Naturals
  <2>9. /\ SumFunctionOnSet(a, R) = a[v] + SumFunctionOnSet(a, Q)
        /\ SumFunctionOnSet(b, R) = b[v] + SumFunctionOnSet(b, Q)
    BY <2>1, <2>4, SumLess
  <2>10. SumFunctionOnSet(b, Q) = SumFunctionOnSet(a, Q)
    <3>1. \A y \in Q : b[y] = a[y]
      BY <2>2
    <3> HIDE DEF Q
    <3>2. QED
      BY <2>8, <3>1, SumSame
  <2>11. SumFunctionOnSet(a, Q) \in Nat /\ a[v] \in Nat
    BY <2>1, <2>4, <2>8, SumIsNat DEF Naturals
  <2> HIDE DEF Q
  <2>12. QED
    BY <2>3, <2>5, <2>6, <2>9, <2>10, <2>11
<1>4. S \in Good
  <2> HIDE DEF Good
  <2>1. QED
    BY <1>2, <1>3, FiniteSetInduction
<1>5. SumFunctionOnSet(Part(S), R) = SumFunctionOnSet(g, S)
  BY <1>4
<1>6. \A y \in R : Part(S)[y] = r[y]
  BY DEF SumsBy
<1>7. Naturals(Part(S), R)
  BY <1>1
<1> DEFINE p == Part(S)
<1>8. Naturals(p, R) /\ \A y \in R : p[y] = r[y]
  BY <1>6, <1>7
<1> HIDE DEF p
<1>9. SumFunctionOnSet(p, R) = SumFunctionOnSet(r, R)
  BY <1>8, SumSame
<1>10. QED
  BY <1>5, <1>9 DEF p

\* A sum of ones counts.
LEMMA SumOfOnes ==
  ASSUME NEW g, NEW S, IsFiniteSet(S), \A x \in S : g[x] = 1
  PROVE  SumFunctionOnSet(g, S) = Cardinality(S)
<1> DEFINE Good == {T \in SUBSET S : SumFunctionOnSet(g, T) = Cardinality(T)}
<1>1. {} \in Good
  BY SumOfNone, FS_EmptySet
<1>2. ASSUME NEW T \in SUBSET S, NEW x \in S \ T, T \in Good PROVE T \cup {x} \in Good
  <2>1. Naturals(g, S)
    BY DEF Naturals
  <2>2. SumFunctionOnSet(g, T \cup {x}) = g[x] + SumFunctionOnSet(g, T)
    BY <2>1, SumGrows
  <2>3. IsFiniteSet(T)
    BY FS_Subset
  <2>4. Cardinality(T \cup {x}) = Cardinality(T) + 1 /\ Cardinality(T) \in Nat
    BY <2>3, FS_AddElement, FS_CardinalityType
  <2>5. QED
    BY <1>2, <2>2, <2>4
<1>3. S \in Good
  <2> HIDE DEF Good
  <2>1. QED
    BY <1>1, <1>2, FiniteSetInduction
<1>4. QED
  BY <1>3

\* A sum over pairs, one first component after the other.
SumsPairs(r, g, N, I) ==
  \A i \in N : r[i] = SumFunctionOnSet([p \in I |-> g[<<i, p>>]], I)

\* Summing up one first component after the other gives the sum.
LEMMA SumOfPairs ==
  ASSUME NEW g, NEW r, NEW N, NEW I, IsFiniteSet(N), IsFiniteSet(I), Naturals(g, N \X I),
         SumsPairs(r, g, N, I)
  PROVE  SumFunctionOnSet(r, N) = SumFunctionOnSet(g, N \X I)
<1> DEFINE S == N \X I
           q == [s \in S |-> s[1]]
<1>1. IsFiniteSet(S) /\ Naturals(g, S) /\ \A s \in S : q[s] \in N
  BY FS_Product
<1>2. ASSUME NEW i \in N PROVE r[i] = SumFunctionOnSet(g, {s \in S : q[s] = i})
  <2> DEFINE T == {s \in S : q[s] = i}
             h == [p \in I |-> g[<<i, p>>]]
             place == [p \in I |-> <<i, p>>]
  <2>1. \A p \in I : <<i, p>> \in S
    OBVIOUS
  <2>2. Naturals(h, I) /\ \A p \in I : h[p] = g[place[p]]
    BY <2>1 DEF Naturals
  <2>3. Renames(place, I, T)
    BY DEF Renames
  <2>4. r[i] = SumFunctionOnSet(h, I)
    BY DEF SumsPairs
  <2> HIDE DEF T, h, place
  <2>5. SumFunctionOnSet(g, T) = SumFunctionOnSet(h, I)
    BY <2>2, <2>3, SumRenamed
  <2>6. QED
    BY <2>4, <2>5 DEF T
<1>3. SumsBy(r, g, q, S, N)
  BY <1>2 DEF SumsBy
<1> HIDE DEF S, q
<1>4. SumFunctionOnSet(r, N) = SumFunctionOnSet(g, S)
  BY <1>1, <1>3, SumByValue
<1>5. QED
  BY <1>4 DEF S
=============================================================================
