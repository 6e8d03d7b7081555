--------------------------- MODULE ZimgPlanProofs ---------------------------
(***************************************************************************)
(* The division of a frame, proved for every size, budget of workers and   *)
(* machine.                                                                *)
(*                                                                         *)
(* The argument in one paragraph.  The k-th boundary on the destination is *)
(* the part k \div n of its extent, made even; it grows with k, and the    *)
(* source's boundary, a part of the source chosen by the destination's,    *)
(* grows with that.  The check of up_compute_stripe_bounds that no stripe  *)
(* is empty makes both strict, and strict boundaries from 0 to the extent  *)
(* cut it into parts; all but the last are even, so that this survives the *)
(* halving for chroma.  The search is a maximum over the rows of a maximum *)
(* over the columns, and the columns tried for a number of rows are all    *)
(* that could fit beside them, so its maximum is the overall one.  Workers *)
(* are no more than the CPUs because their number is within the budget,    *)
(* and their pins differ because the k-th CPU of the mask has rank k.      *)
(***************************************************************************)
EXTENDS ZimgPlan, ArithmeticLemmas, FiniteSetTheorems

-----------------------------------------------------------------------------
(* Boundaries.                                                             *)

\* Quotients grow with the dividend.
LEMMA QuotientMonotone ==
  ASSUME NEW a \in Nat, NEW b \in Nat, a <= b, NEW d \in Nat \ {0}
  PROVE  a \div d <= b \div d
<1> DEFINE p == a \div d
           q == b \div d
<1>1. p \in Nat /\ q \in Nat /\ d * p <= a /\ b < d * q + d
  BY Division
<1> HIDE DEF p, q
<1>2. d * p \in Int /\ d * q \in Int
  BY <1>1
<1>3. d * p < d * q + d
  BY <1>1, <1>2
<1>4. p <= q
  BY <1>1, <1>3, QuotientLe
<1>5. QED
  BY <1>4 DEF p, q

\* The part x \div m of a grows with x, from nothing to all of it.
LEMMA PartOf ==
  ASSUME NEW a \in Nat, NEW m \in Nat \ {0}
  PROVE  /\ \A x \in 0..m : (x * a) \div m \in 0..a
         /\ \A x, y \in 0..m : x <= y => (x * a) \div m <= (y * a) \div m
<1>1. ASSUME NEW x \in Nat, NEW y \in Nat, x <= y
      PROVE  (x * a) \div m <= (y * a) \div m
  <2>1. x * a \in Nat /\ y * a \in Nat
    OBVIOUS
  <2>2. x * a <= y * a
    BY <1>1
  <2>3. QED
    BY <2>1, <2>2, QuotientMonotone
<1>2. (m * a) \div m = a
  <2> DEFINE p == m * a
             q == p \div m
  <2>1. p \in Nat
    OBVIOUS
  <2> HIDE DEF p
  <2>2. q \in Nat /\ m * q <= p /\ p < m * q + m
    BY <2>1, Division
  <2> HIDE DEF q
  <2>3. m * q \in Nat /\ m * a \in Nat /\ p = m * a
    BY <2>2 DEF p
  <2>4. m * q < m * a + m /\ m * a < m * q + m
    BY <2>1, <2>2, <2>3
  <2>5. q <= a /\ a <= q
    BY <2>2, <2>4, QuotientLe
  <2>6. q = a
    BY <2>2, <2>5
  <2>7. QED
    BY <2>6 DEF p, q
<1>3. ASSUME NEW x \in 0..m PROVE (x * a) \div m \in 0..a
  <2>1. x \in Nat /\ x <= m /\ m \in Nat
    OBVIOUS
  <2>2. x * a \in Nat
    BY <2>1
  <2>3. (x * a) \div m \in Nat
    BY <2>2, Division
  <2>4. (x * a) \div m <= a
    BY <1>1, <1>2, <2>1
  <2>5. QED
    BY <2>3, <2>4
<1>4. QED
  BY <1>1, <1>3

\* UP_ALIGN_DOWN_2 keeps the order and makes a number even.
LEMMA AlignedDown ==
  /\ \A x \in Nat : AlignDown2(x) \in Nat /\ AlignDown2(x) <= x /\ AlignDown2(x) % 2 = 0
  /\ \A x, y \in Nat : x <= y => AlignDown2(x) <= AlignDown2(y)
BY DEF AlignDown2

\* A boundary of up_compute_stripe_bounds on either side: they lie within the
\* extent, in order, and are even but for the last.
Bounds(b, n, extent) ==
  /\ b \in [0..n -> Nat]
  /\ b[0] = 0 /\ b[n] = extent
  /\ \A i, j \in 0..n : i <= j => b[i] <= b[j]
  /\ \A k \in 0..n - 1 : b[k] % 2 = 0

LEMMA DstBounds ==
  ASSUME NEW n \in Nat \ {0}, NEW dst \in Nat \ {0}
  PROVE  Bounds([k \in 0..n |-> DstAt(k, n, dst)], n, dst)
<1> DEFINE P(k) == (k * dst) \div n
           D(k) == DstAt(k, n, dst)
<1>1. /\ \A k \in 0..n : P(k) \in 0..dst
      /\ \A i, j \in 0..n : i <= j => P(i) <= P(j)
  BY PartOf
<1>2. /\ D(0) = 0 /\ D(n) = dst
      /\ \A k \in 1..n - 1 : D(k) = AlignDown2(P(k))
  BY DEF DstAt
<1> HIDE DEF P, D
<1>3. \A k \in 1..n - 1 : D(k) \in 0..dst /\ D(k) % 2 = 0
  <2>1. SUFFICES ASSUME NEW k \in 1..n - 1 PROVE D(k) \in 0..dst /\ D(k) % 2 = 0
    OBVIOUS
  <2>2. P(k) \in Nat /\ P(k) <= dst
    BY <1>1
  <2>3. QED
    BY <1>2, <2>2, AlignedDown
<1>4. \A k \in 0..n : k = 0 \/ k = n \/ k \in 1..n - 1
  OBVIOUS
<1>5. \A k \in 0..n : D(k) \in 0..dst
  BY <1>2, <1>3, <1>4
<1>6. \A k \in 0..n - 1 : D(k) % 2 = 0
  BY <1>2, <1>3
<1>7. ASSUME NEW i \in 0..n, NEW j \in 0..n, i <= j PROVE D(i) <= D(j)
  <2>1. CASE i = 0 \/ j = n \/ i = j
    BY <1>2, <1>5, <2>1
  <2>2. CASE i \in 1..n - 1 /\ j \in 1..n - 1
    <3>1. P(i) \in Nat /\ P(j) \in Nat /\ P(i) <= P(j)
      BY <1>1, <1>7
    <3>2. QED
      BY <1>2, <2>2, <3>1, AlignedDown
  <2>3. QED
    BY <1>7, <2>1, <2>2
<1>8. QED
  <2> DEFINE b == [k \in 0..n |-> D(k)]
  <2>1. b \in [0..n -> Nat] /\ \A k \in 0..n : b[k] = D(k)
    BY <1>5
  <2> HIDE DEF b
  <2>2. Bounds(b, n, dst)
    BY <1>2, <1>6, <1>7, <2>1 DEF Bounds
  <2>3. QED
    BY <2>2 DEF b, D

LEMMA SrcBounds ==
  ASSUME NEW n \in Nat \ {0}, NEW src \in Nat \ {0}, NEW dst \in Nat \ {0}
  PROVE  Bounds([k \in 0..n |-> SrcAt(k, n, src, dst)], n, src)
<1> DEFINE D(k) == DstAt(k, n, dst)
           P(k) == (D(k) * src) \div dst
           S(k) == SrcAt(k, n, src, dst)
<1>1. /\ \A k \in 0..n : D(k) \in 0..dst
      /\ \A i, j \in 0..n : i <= j => D(i) <= D(j)
  <2> DEFINE b == [k \in 0..n |-> D(k)]
  <2>1. Bounds(b, n, dst)
    BY DstBounds
  <2>2. \A k \in 0..n : b[k] = D(k)
    OBVIOUS
  <2> HIDE DEF b, D
  <2>3. \A k \in 0..n : b[k] \in 0..dst
    BY <2>1 DEF Bounds
  <2>4. QED
    BY <2>1, <2>2, <2>3 DEF Bounds
<1>2. /\ S(0) = 0 /\ S(n) = src
      /\ \A k \in 1..n - 1 : S(k) = AlignDown2((src * D(k)) \div dst)
  BY DEF SrcAt
<1> HIDE DEF D, S
<1>3. \A k \in 1..n - 1 : S(k) = AlignDown2(P(k))
  <2>1. ASSUME NEW k \in 1..n - 1 PROVE src * D(k) = D(k) * src
    <3>1. D(k) \in Int
      BY <1>1
    <3>2. QED
      BY <3>1
  <2>2. QED
    BY <1>2, <2>1
<1>4. /\ \A k \in 0..n : P(k) \in 0..src
      /\ \A i, j \in 0..n : i <= j => P(i) <= P(j)
  BY <1>1, PartOf
<1> HIDE DEF P
<1>5. \A k \in 1..n - 1 : S(k) \in 0..src /\ S(k) % 2 = 0
  <2>1. SUFFICES ASSUME NEW k \in 1..n - 1 PROVE S(k) \in 0..src /\ S(k) % 2 = 0
    OBVIOUS
  <2>2. P(k) \in Nat /\ P(k) <= src
    BY <1>4
  <2>3. QED
    BY <1>3, <2>2, AlignedDown
<1>6. \A k \in 0..n : k = 0 \/ k = n \/ k \in 1..n - 1
  OBVIOUS
<1>7. \A k \in 0..n : S(k) \in 0..src
  BY <1>2, <1>5, <1>6
<1>8. \A k \in 0..n - 1 : S(k) % 2 = 0
  BY <1>2, <1>5
<1>9. ASSUME NEW i \in 0..n, NEW j \in 0..n, i <= j PROVE S(i) <= S(j)
  <2>1. CASE i = 0 \/ j = n \/ i = j
    BY <1>2, <1>7, <2>1
  <2>2. CASE i \in 1..n - 1 /\ j \in 1..n - 1
    <3>1. P(i) \in Nat /\ P(j) \in Nat /\ P(i) <= P(j)
      BY <1>4, <1>9
    <3>2. QED
      BY <1>3, <2>2, <3>1, AlignedDown
  <2>3. QED
    BY <1>9, <2>1, <2>2
<1>10. QED
  <2> DEFINE b == [k \in 0..n |-> S(k)]
  <2>1. b \in [0..n -> Nat] /\ \A k \in 0..n : b[k] = S(k)
    BY <1>7
  <2> HIDE DEF b
  <2>2. Bounds(b, n, src)
    BY <1>2, <1>8, <1>9, <2>1 DEF Bounds
  <2>3. QED
    BY <2>2 DEF b, S

-----------------------------------------------------------------------------
(* Partitions.                                                             *)

Steps(b, n, extent) ==
  /\ b \in [0..n -> Nat]
  /\ b[0] = 0 /\ b[n] = extent
  /\ \A i, j \in 0..n : i <= j => b[i] <= b[j]
  /\ \A i \in 0..n - 1 : b[i] < b[i + 1]

Parted(b, n, extent) ==
  /\ \A i \in 0..n - 1 : b[i]..b[i + 1] - 1 # {}
  /\ \A i, j \in 0..n - 1 :
       i # j => (b[i]..b[i + 1] - 1) \cap (b[j]..b[j + 1] - 1) = {}
  /\ UNION {b[i]..b[i + 1] - 1 : i \in 0..n - 1} = 0..extent - 1

\* Boundaries in strict order cut an extent into parts.
LEMMA Cut ==
  ASSUME NEW n \in Nat \ {0}, NEW extent \in Nat, NEW b, Steps(b, n, extent)
  PROVE  Parted(b, n, extent)
<1> /\ b \in [0..n -> Nat]
    /\ b[0] = 0 /\ b[n] = extent
    /\ \A i, j \in 0..n : i <= j => b[i] <= b[j]
    /\ \A i \in 0..n - 1 : b[i] < b[i + 1]
  BY DEF Steps
<1>1. \A i \in 0..n : b[i] \in Nat
  OBVIOUS
<1>2. \A i \in 0..n - 1 : i \in 0..n /\ i + 1 \in 0..n
  OBVIOUS
<1>3. ASSUME NEW i \in 0..n - 1 PROVE b[i]..b[i + 1] - 1 # {}
  <2>1. b[i] \in b[i]..b[i + 1] - 1
    BY <1>1, <1>2
  <2>2. QED
    BY <2>1
<1>4. ASSUME NEW i \in 0..n - 1, NEW j \in 0..n - 1, i < j
      PROVE  (b[i]..b[i + 1] - 1) \cap (b[j]..b[j + 1] - 1) = {}
  <2>1. b[i + 1] <= b[j]
    BY <1>2, <1>4
  <2>2. b[i + 1] \in Nat /\ b[j] \in Nat /\ b[i] \in Nat /\ b[j + 1] \in Nat
    BY <1>1, <1>2
  <2>3. QED
    BY <2>1, <2>2
<1>5. ASSUME NEW i \in 0..n - 1, NEW j \in 0..n - 1, i # j
      PROVE  (b[i]..b[i + 1] - 1) \cap (b[j]..b[j + 1] - 1) = {}
  <2>1. i < j \/ j < i
    BY <1>5
  <2>2. QED
    BY <1>4, <2>1
<1>6. ASSUME NEW i \in 0..n - 1 PROVE b[i]..b[i + 1] - 1 \subseteq 0..extent - 1
  <2>1. b[i] \in Nat /\ b[i + 1] \in Nat /\ b[i + 1] <= extent
    BY <1>1, <1>2
  <2>2. QED
    BY <2>1
<1>7. ASSUME NEW x \in 0..extent - 1
      PROVE  \E i \in 0..n - 1 : x \in b[i]..b[i + 1] - 1
  <2> DEFINE L == {i \in 0..n - 1 : b[i] <= x}
             m == Max(L)
  <2>1. L \in SUBSET Nat /\ 0 \in L /\ \A i \in L : i <= n
    OBVIOUS
  <2>2. m \in L /\ \A i \in L : i <= m
    BY <2>1, MaxInSet
  <2> HIDE DEF m
  <2>3. m \in 0..n - 1 /\ b[m] <= x /\ b[m] \in Nat /\ b[m + 1] \in Nat
    BY <1>1, <1>2, <2>2
  <2>4. x < b[m + 1]
    <3>1. CASE m + 1 = n
      BY <3>1
    <3>2. CASE m + 1 # n
      <4>1. m + 1 \in 0..n - 1 /\ ~(m + 1 <= m)
        BY <2>3, <3>2
      <4>2. m + 1 \notin L
        BY <2>2, <4>1
      <4>3. QED
        BY <2>3, <4>1, <4>2
    <3>3. QED
      BY <3>1, <3>2
  <2>5. x \in b[m]..b[m + 1] - 1
    BY <2>3, <2>4
  <2>6. QED
    BY <2>3, <2>5
<1>8. UNION {b[i]..b[i + 1] - 1 : i \in 0..n - 1} = 0..extent - 1
  BY <1>6, <1>7
<1>9. QED
  BY <1>3, <1>5, <1>8 DEF Parted

\* Samples of luma and of a subsampled plane.
LEMMA Subsampled ==
  ASSUME NEW s \in {0, 1}, NEW x \in Nat
  PROVE  /\ x \div 2 ^ s \in Nat
         /\ s = 0 => x \div 2 ^ s = x /\ ChromaDim(x, s) = x
         /\ s = 1 => x \div 2 ^ s = x \div 2 /\ ChromaDim(x, s) = (x + 1) \div 2
<1>1. CASE s = 0
  <2>1. 2 ^ s = 1
    BY <1>1
  <2>2. x \div 1 = x /\ (x + 1 - 1) \div 1 = x
    OBVIOUS
  <2>3. QED
    BY <1>1, <2>1, <2>2 DEF ChromaDim
<1>2. CASE s = 1
  <2>1. 2 ^ s = 2
    BY <1>2
  <2>2. x + 2 - 1 = x + 1
    OBVIOUS
  <2>3. x \div 2 \in Nat
    OBVIOUS
  <2>4. QED
    BY <1>2, <2>1, <2>2, <2>3 DEF ChromaDim
<1>3. QED
  BY <1>1, <1>2

\* What the copies of the cells move of a plane: the part between two
\* boundaries, whichever way its size is computed.
PlaneParted(d, n, extent, s) ==
  /\ \A i \in 0..n - 1 : /\ PlaneCols(d[i], d[i + 1], s) = PlaneRows(d[i], d[i + 1], s)
                         /\ PlaneRows(d[i], d[i + 1], s) \subseteq 0..ChromaDim(extent, s) - 1
                         /\ PlaneRows(d[i], d[i + 1], s) # {}
  /\ \A i, j \in 0..n - 1 :
       i # j => PlaneRows(d[i], d[i + 1], s) \cap PlaneRows(d[j], d[j + 1], s) = {}
  /\ UNION {PlaneRows(d[i], d[i + 1], s) : i \in 0..n - 1} = 0..ChromaDim(extent, s) - 1

LEMMA PlaneParts ==
  ASSUME NEW n \in Nat \ {0}, NEW extent \in Nat \ {0}, NEW s \in {0, 1},
         s = 0 \/ extent % 2 = 0,
         NEW d, Bounds(d, n, extent), \A i \in 0..n - 1 : d[i] < d[i + 1]
  PROVE  PlaneParted(d, n, extent, s)
<1> DEFINE b == [k \in 0..n |-> d[k] \div 2 ^ s]
<1>1. /\ d \in [0..n -> Nat] /\ d[0] = 0 /\ d[n] = extent
      /\ \A i, j \in 0..n : i <= j => d[i] <= d[j]
      /\ \A k \in 0..n - 1 : d[k] % 2 = 0
  BY DEF Bounds
<1>2. \A k \in 0..n : d[k] \in Nat /\ (s = 1 => d[k] % 2 = 0)
  <2>1. \A k \in 0..n : k = n \/ k \in 0..n - 1
    OBVIOUS
  <2>2. QED
    BY <1>1, <2>1
<1>3. \A k \in 0..n : b[k] \in Nat /\ b[k] = IF s = 0 THEN d[k] ELSE d[k] \div 2
  <2>1. SUFFICES ASSUME NEW k \in 0..n
                 PROVE  b[k] \in Nat /\ b[k] = IF s = 0 THEN d[k] ELSE d[k] \div 2
    OBVIOUS
  <2>2. b[k] = d[k] \div 2 ^ s
    OBVIOUS
  <2>3. d[k] \in Nat
    BY <1>2
  <2>4. /\ d[k] \div 2 ^ s \in Nat
        /\ s = 0 => d[k] \div 2 ^ s = d[k]
        /\ s = 1 => d[k] \div 2 ^ s = d[k] \div 2
    BY <2>3, Subsampled
  <2> HIDE DEF b
  <2>5. s = 0 \/ s = 1
    OBVIOUS
  <2>6. QED
    BY <2>2, <2>4, <2>5
<1>4. b \in [0..n -> Nat] /\ \A k \in 0..n : d[k] \div 2 ^ s = b[k]
  <2>1. \A k \in 0..n : d[k] \div 2 ^ s = b[k]
    OBVIOUS
  <2>2. \A k \in 0..n : d[k] \div 2 ^ s \in Nat
    BY <1>3, <2>1
  <2>3. QED
    BY <2>1, <2>2
<1> HIDE DEF b
<1>5. 0 \in 0..n /\ n \in 0..n /\ \A i \in 0..n - 1 : i \in 0..n /\ i + 1 \in 0..n
  OBVIOUS
<1>6. b[0] = 0 /\ b[n] = ChromaDim(extent, s)
  <2>1. b[0] = 0
    BY <1>1, <1>3, <1>5
  <2>2. /\ s = 0 => ChromaDim(extent, s) = extent
        /\ s = 1 => ChromaDim(extent, s) = (extent + 1) \div 2
    BY Subsampled
  <2>3. extent % 2 = 0 => (extent + 1) \div 2 = extent \div 2
    OBVIOUS
  <2>4. b[n] = IF s = 0 THEN extent ELSE extent \div 2
    BY <1>1, <1>3, <1>5
  <2>5. QED
    BY <2>1, <2>2, <2>3, <2>4
<1>7. \A i, j \in 0..n : i <= j => b[i] <= b[j]
  <2>1. SUFFICES ASSUME NEW i \in 0..n, NEW j \in 0..n, i <= j PROVE b[i] <= b[j]
    OBVIOUS
  <2>2. d[i] \in Nat /\ d[j] \in Nat /\ d[i] <= d[j]
    BY <1>1, <1>2, <2>1
  <2>3. d[i] \div 2 <= d[j] \div 2
    BY <2>2
  <2>4. QED
    BY <1>3, <2>2, <2>3
<1>8. \A i \in 0..n - 1 :
        b[i] < b[i + 1] /\ b[i + 1] - b[i] = ChromaDim(d[i + 1] - d[i], s)
  <2>1. SUFFICES ASSUME NEW i \in 0..n - 1
                 PROVE  b[i] < b[i + 1] /\ b[i + 1] - b[i] = ChromaDim(d[i + 1] - d[i], s)
    OBVIOUS
  <2> DEFINE u == d[i]
             v == d[i + 1]
  <2>2. u \in Nat /\ v \in Nat /\ u < v /\ (s = 1 => u % 2 = 0 /\ v % 2 = 0)
    BY <1>2, <1>5
  <2>3. /\ b[i] = IF s = 0 THEN u ELSE u \div 2
        /\ b[i + 1] = IF s = 0 THEN v ELSE v \div 2
    BY <1>3, <1>5
  <2> HIDE DEF u, v
  <2>4. v - u \in Nat
    BY <2>2
  <2>5. /\ s = 0 => ChromaDim(v - u, s) = v - u
        /\ s = 1 => ChromaDim(v - u, s) = (v - u + 1) \div 2
    BY <2>4, Subsampled
  <2>6. s = 1 => u \div 2 < v \div 2 /\ (v - u + 1) \div 2 = v \div 2 - u \div 2
    BY <2>2
  <2>7. b[i] < b[i + 1] /\ b[i + 1] - b[i] = ChromaDim(v - u, s)
    BY <2>2, <2>3, <2>5, <2>6
  <2>8. QED
    BY <2>7 DEF u, v
<1>9. \A i \in 0..n - 1 : PlaneRows(d[i], d[i + 1], s) = b[i]..b[i + 1] - 1
  BY <1>4, <1>5 DEF PlaneRows
<1>10. \A i \in 0..n - 1 : PlaneCols(d[i], d[i + 1], s) = b[i]..b[i + 1] - 1
  <2>1. SUFFICES ASSUME NEW i \in 0..n - 1
                 PROVE  PlaneCols(d[i], d[i + 1], s) = b[i]..b[i + 1] - 1
    OBVIOUS
  <2>2. PlaneCols(d[i], d[i + 1], s) = b[i]..b[i] + ChromaDim(d[i + 1] - d[i], s) - 1
    BY <1>4, <1>5 DEF PlaneCols
  <2>3. b[i] \in Nat /\ b[i + 1] \in Nat /\ b[i + 1] - b[i] = ChromaDim(d[i + 1] - d[i], s)
    BY <1>3, <1>5, <1>8
  <2>4. b[i] + ChromaDim(d[i + 1] - d[i], s) - 1 = b[i + 1] - 1
    BY <2>3
  <2>5. QED
    BY <2>2, <2>4, Zenon
<1>11. b[n] \in Nat
  BY <1>3, <1>5
<1>12. Parted(b, n, ChromaDim(extent, s))
  <2>1. Steps(b, n, ChromaDim(extent, s))
    BY <1>4, <1>6, <1>7, <1>8 DEF Steps
  <2> DEFINE e == ChromaDim(extent, s)
  <2>2. e \in Nat /\ Steps(b, n, e)
    BY <1>6, <1>11, <2>1, Zenon
  <2> HIDE DEF e
  <2>3. Parted(b, n, e)
    BY <2>2, Cut
  <2>4. QED
    BY <2>3 DEF e
<1>13. {PlaneRows(d[i], d[i + 1], s) : i \in 0..n - 1} = {b[i]..b[i + 1] - 1 : i \in 0..n - 1}
  BY <1>9
<1>14. UNION {PlaneRows(d[i], d[i + 1], s) : i \in 0..n - 1} = 0..ChromaDim(extent, s) - 1
  BY <1>12, <1>13 DEF Parted
<1>15. \A i \in 0..n - 1 : PlaneRows(d[i], d[i + 1], s) \subseteq 0..ChromaDim(extent, s) - 1
  BY <1>14
<1>16. QED
  BY <1>9, <1>10, <1>12, <1>14, <1>15 DEF Parted, PlaneParted

\* A line of scratch is as wide as the plane of its cell.
LEMMA ScratchHolds ==
  ASSUME NEW width \in Nat, NEW s \in {0, 1}
  PROVE  PlaneCols(0, width, s) \subseteq 0..ScratchPitch(width, s) - 1
<1> DEFINE c == ChromaDim(width, s)
           q == (c + PitchAlign - 1) \div PitchAlign
<1>1. c \in Nat
  <2>1. (width + 1) \div 2 \in Nat
    OBVIOUS
  <2>2. QED
    BY <2>1, Subsampled
<1>2. PitchAlign \in Nat \ {0}
  BY GridAssumption
<1>3. PlaneCols(0, width, s) = 0..c - 1
  <2>1. 0 \div 2 = 0 /\ width - 0 = width /\ 0 \in Nat
    OBVIOUS
  <2>2. 0 \div 2 ^ s = 0
    <3>1. s = 0 \/ s = 1
      OBVIOUS
    <3>2. /\ s = 0 => 0 \div 2 ^ s = 0
          /\ s = 1 => 0 \div 2 ^ s = 0 \div 2
      BY <2>1, Subsampled, Zenon
    <3>3. QED
      BY <2>1, <3>1, <3>2, Zenon
  <2>3. PlaneCols(0, width, s) = 0..0 + c - 1
    BY <2>1, <2>2, Zenon DEF PlaneCols
  <2>4. 0 + c - 1 = c - 1
    BY <1>1
  <2>5. QED
    BY <2>3, <2>4, Zenon
<1> HIDE DEF c
<1>4. c + PitchAlign - 1 \in Nat
  BY <1>1, <1>2
<1>5. q \in Nat /\ c + PitchAlign - 1 < PitchAlign * q + PitchAlign
  BY <1>2, <1>4, Division
<1> HIDE DEF q
<1>6. PitchAlign * q \in Nat
  BY <1>2, <1>5
<1>7. c <= PitchAlign * q
  BY <1>1, <1>2, <1>5, <1>6
<1>8. ScratchPitch(width, s) = PitchAlign * q
  BY DEF ScratchPitch, c, q
<1>9. QED
  BY <1>1, <1>3, <1>6, <1>7, <1>8

-----------------------------------------------------------------------------
(* The search.                                                             *)

\* Either axis of a grid as the properties look at it.
Axis(n, src, dst) == n \in Nat \ {0} /\ AxisPartitionOk(n, src, dst)

\* What cells move of both sides of an axis, by rows and by columns.
AxisParted(n, src, dst, s) ==
  LET St(i) == Stripe(i, n, src, dst)
      SrcRows(i) == PlaneRows(St(i).srcStart, St(i).srcEnd, s)
      DstRows(i) == PlaneRows(St(i).dstStart, St(i).dstEnd, s)
      SrcCols(i) == PlaneCols(St(i).srcStart, St(i).srcEnd, s)
      DstCols(i) == PlaneCols(St(i).dstStart, St(i).dstEnd, s)
  IN  /\ Partition(SrcRows, n, ChromaDim(src, s))
      /\ Partition(DstRows, n, ChromaDim(dst, s))
      /\ Partition(SrcCols, n, ChromaDim(src, s))
      /\ Partition(DstCols, n, ChromaDim(dst, s))
      /\ \A i \in 0..n - 1 : /\ SrcRows(i) \subseteq 0..ChromaDim(src, s) - 1
                             /\ DstRows(i) \subseteq 0..ChromaDim(dst, s) - 1
                             /\ St(i).dstEnd - St(i).dstStart \in Nat

\* up_compute_stripe_bounds for every stripe of an axis.
LEMMA AxisParts ==
  ASSUME NEW n, NEW src \in Nat \ {0}, NEW dst \in Nat \ {0}, Axis(n, src, dst),
         NEW s \in {0, 1}, s = 0 \/ src % 2 = 0, dst % 2 = 0
  PROVE  AxisParted(n, src, dst, s)
<1> DEFINE St(i) == Stripe(i, n, src, dst)
           S == [k \in 0..n |-> SrcAt(k, n, src, dst)]
           D == [k \in 0..n |-> DstAt(k, n, dst)]
<1>1. n \in Nat \ {0} /\ \A i \in 0..n - 1 : NotDegenerate(St(i))
  BY DEF Axis, AxisPartitionOk
<1>2. \A i \in 0..n - 1 : i \in 0..n /\ i + 1 \in 0..n
  BY <1>1
<1>3. \A i \in 0..n - 1 : /\ St(i).srcStart = S[i] /\ St(i).srcEnd = S[i + 1]
                          /\ St(i).dstStart = D[i] /\ St(i).dstEnd = D[i + 1]
  BY <1>2 DEF Stripe
<1>4. Bounds(S, n, src) /\ Bounds(D, n, dst)
  BY <1>1, SrcBounds, DstBounds
<1> HIDE DEF S, D, St
<1>5. \A i \in 0..n - 1 : S[i] < S[i + 1] /\ D[i] < D[i + 1]
  <2>1. SUFFICES ASSUME NEW i \in 0..n - 1 PROVE S[i] < S[i + 1] /\ D[i] < D[i + 1]
    OBVIOUS
  <2>2. S[i] \in Nat /\ S[i + 1] \in Nat /\ D[i] \in Nat /\ D[i + 1] \in Nat
    BY <1>2, <1>4 DEF Bounds
  <2>3. S[i + 1] > S[i] /\ D[i + 1] > D[i]
    BY <1>1, <1>3 DEF NotDegenerate
  <2>4. QED
    BY <2>2, <2>3
<1>6. PlaneParted(S, n, src, s)
  BY <1>1, <1>4, <1>5, PlaneParts
<1>7. PlaneParted(D, n, dst, s)
  BY <1>1, <1>4, <1>5, PlaneParts
<1> DEFINE SrcRows(i) == PlaneRows(St(i).srcStart, St(i).srcEnd, s)
           DstRows(i) == PlaneRows(St(i).dstStart, St(i).dstEnd, s)
           SrcCols(i) == PlaneCols(St(i).srcStart, St(i).srcEnd, s)
           DstCols(i) == PlaneCols(St(i).dstStart, St(i).dstEnd, s)
<1>8. \A i \in 0..n - 1 : /\ SrcRows(i) = PlaneRows(S[i], S[i + 1], s)
                          /\ SrcCols(i) = PlaneRows(S[i], S[i + 1], s)
                          /\ DstRows(i) = PlaneRows(D[i], D[i + 1], s)
                          /\ DstCols(i) = PlaneRows(D[i], D[i + 1], s)
  BY <1>3, <1>6, <1>7 DEF PlaneParted
<1> HIDE DEF SrcRows, DstRows, SrcCols, DstCols
<1>9. /\ {SrcRows(i) : i \in 0..n - 1} = {PlaneRows(S[i], S[i + 1], s) : i \in 0..n - 1}
      /\ {SrcCols(i) : i \in 0..n - 1} = {PlaneRows(S[i], S[i + 1], s) : i \in 0..n - 1}
      /\ {DstRows(i) : i \in 0..n - 1} = {PlaneRows(D[i], D[i + 1], s) : i \in 0..n - 1}
      /\ {DstCols(i) : i \in 0..n - 1} = {PlaneRows(D[i], D[i + 1], s) : i \in 0..n - 1}
  BY <1>8
<1>10. Partition(SrcRows, n, ChromaDim(src, s)) /\ Partition(SrcCols, n, ChromaDim(src, s))
  BY <1>6, <1>8, <1>9 DEF Partition, PlaneParted
<1>11. Partition(DstRows, n, ChromaDim(dst, s)) /\ Partition(DstCols, n, ChromaDim(dst, s))
  BY <1>7, <1>8, <1>9 DEF Partition, PlaneParted
<1>12. \A i \in 0..n - 1 : /\ SrcRows(i) \subseteq 0..ChromaDim(src, s) - 1
                           /\ DstRows(i) \subseteq 0..ChromaDim(dst, s) - 1
  BY <1>6, <1>7, <1>8 DEF PlaneParted
<1>13. \A i \in 0..n - 1 : St(i).dstEnd - St(i).dstStart \in Nat
  <2>1. SUFFICES ASSUME NEW i \in 0..n - 1 PROVE St(i).dstEnd - St(i).dstStart \in Nat
    OBVIOUS
  <2>2. D[i] \in Nat /\ D[i + 1] \in Nat /\ D[i] < D[i + 1]
    BY <1>2, <1>4, <1>5 DEF Bounds
  <2>3. QED
    BY <1>3, <2>2
<1>14. QED
  BY <1>10, <1>11, <1>12, <1>13 DEF SrcRows, DstRows, SrcCols, DstCols, St, AxisParted

\* up__largest_valid_split: the largest number of stripes that is valid.
Largest(n, start, src, dst) ==
  /\ Axis(n, src, dst)
  /\ n = 1 \/ n <= start
  /\ \A m \in 1..start : AxisPartitionOk(m, src, dst) => m <= n

LEMMA SplitLargest ==
  ASSUME NEW start \in Int, NEW src \in Nat \ {0}, NEW dst \in Nat \ {0}
  PROVE  Largest(LargestValidSplit(start, src, dst), start, src, dst)
<1> DEFINE S == {1} \cup {n \in 2..start : AxisPartitionOk(n, src, dst)}
           b == IF start >= 1 THEN start ELSE 1
<1>1. S \in SUBSET Nat /\ S # {} /\ b \in Nat /\ \A x \in S : x <= b
  OBVIOUS
<1>2. AxisPartitionOk(1, src, dst)
  BY DEF AxisPartitionOk, NotDegenerate, Stripe, SrcAt, DstAt
<1>3. /\ \A n \in S : n \in Nat \ {0} /\ AxisPartitionOk(n, src, dst) /\ (n = 1 \/ n <= start)
      /\ \A m \in 1..start : AxisPartitionOk(m, src, dst) => m \in S
  BY <1>2
<1> HIDE DEF b, S
<1>4. Max(S) \in S /\ \A x \in S : x <= Max(S)
  BY <1>1, MaxInSet
<1>5. Largest(Max(S), start, src, dst)
  BY <1>3, <1>4 DEF Largest, Axis
<1>6. QED
  BY <1>5 DEF LargestValidSplit, S

\* The budget is a number of workers there may be.
LEMMA BudgetBounds ==
  ASSUME NEW threads \in Int
  PROVE  /\ GridBudget(threads) \in Nat \ {0}
         /\ GridBudget(threads) <= TileThreadsMax
         /\ \A n \in Nat \ {0} : threads <= n => GridBudget(threads) <= n
<1> DEFINE m == Max({threads, 1})
           r == Min({m, TileThreadsMax})
<1>1. 1 \in Int /\ TileThreadsMax \in Nat \ {0} /\ TileThreadsMax \in Int
  BY GridAssumption
<1>2. m \in {threads, 1} /\ m >= 1
  BY <1>1, MaxOfTwo, Zenon
<1> HIDE DEF m
<1>3. m \in Int
  BY <1>2
<1>4. r \in {m, TileThreadsMax} /\ r <= m /\ r <= TileThreadsMax
  BY <1>1, <1>3, MinOfTwo, Zenon
<1> HIDE DEF r
<1>5. /\ r \in Nat \ {0} /\ r <= TileThreadsMax
      /\ \A n \in Nat \ {0} : threads <= n => r <= n
  BY <1>1, <1>2, <1>3, <1>4
<1>6. QED
  BY <1>5 DEF GridBudget, m, r

\* How many cells of a least extent there is room for.
Room(extent, minimum) == IF minimum > 0 THEN Max({extent \div minimum, 1}) ELSE 1

LEMMA RoomType ==
  ASSUME NEW extent \in Nat, NEW minimum \in Nat
  PROVE  Room(extent, minimum) \in Nat \ {0}
<1>1. CASE minimum > 0
  <2> DEFINE q == extent \div minimum
             m == Max({q, 1})
  <2>1. q \in Int /\ 1 \in Int
    BY <1>1, Division
  <2> HIDE DEF q
  <2>2. m \in {q, 1} /\ m >= 1
    BY <2>1, MaxOfTwo, Zenon
  <2> HIDE DEF m
  <2>3. m \in Nat \ {0}
    BY <2>1, <2>2
  <2>4. QED
    BY <1>1, <2>3 DEF Room, m, q
<1>2. CASE ~(minimum > 0)
  BY <1>2 DEF Room
<1>3. QED
  BY <1>1, <1>2

\* up__tile_axis_limit: the room there is, within the budget.
LEMMA LimitIs ==
  ASSUME NEW extent \in Nat, NEW minimum \in Nat, NEW fallback \in Nat \ {0},
         minimum > 0 \/ fallback = 1, NEW budget \in Nat \ {0}
  PROVE  LET limit == AxisLimit(extent, minimum, fallback, budget)
         IN  /\ limit \in Nat \ {0}
             /\ limit <= budget
             /\ limit <= Room(extent, minimum)
             /\ limit = budget \/ limit = Room(extent, minimum)
<1> DEFINE l == IF minimum > 0 THEN extent \div minimum ELSE fallback
           m == Max({l, 1})
           r == Min({m, budget})
<1>1. m = Room(extent, minimum)
  <2>1. CASE minimum > 0
    BY <2>1 DEF Room
  <2>2. CASE ~(minimum > 0)
    <3>1. l = 1 /\ 1 \in Int
      BY <2>2
    <3>2. m = Max({1, 1})
      BY <3>1
    <3>3. Max({1, 1}) = 1
      BY MaxOfTwo
    <3>4. QED
      BY <2>2, <3>2, <3>3 DEF Room
  <2>3. QED
    BY <2>1, <2>2
<1>2. m \in Nat \ {0} /\ m \in Int /\ budget \in Int
  BY <1>1, RoomType
<1> HIDE DEF m
<1>3. r \in {m, budget} /\ r <= m /\ r <= budget
  BY <1>2, MinOfTwo, Zenon
<1> HIDE DEF r
<1>4. r \in Nat \ {0} /\ (r = budget \/ r = m)
  BY <1>2, <1>3
<1>5. AxisLimit(extent, minimum, fallback, budget) = r
  BY DEF AxisLimit, r, m, l
<1>6. QED
  BY <1>1, <1>3, <1>4, <1>5

\* up_zimg_io_req_t as zimg_build_io_req fills it.
Request == [threads : Int, srcW : Nat \ {0}, srcH : Nat \ {0}, dstW : Nat \ {0},
            dstH : Nat \ {0}, stripeMin : Nat \ {0}, colMin : Nat \ {0},
            srcZerocopy : BOOLEAN, dstZerocopy : BOOLEAN]

\* A grid the limits allow.
Fitting(g, q, colMin) ==
  /\ g.rows \in Nat \ {0} /\ g.cols \in Nat \ {0}
  /\ g.rows * g.cols <= GridBudget(q.threads)
  /\ g.rows <= Room(q.dstH, q.stripeMin)
  /\ g.cols <= Room(q.dstW, colMin)
  /\ AxisPartitionOk(g.rows, q.srcH, q.dstH)
  /\ AxisPartitionOk(g.cols, q.srcW, q.dstW)

\* What the search tries for the columns, with r rows.
LEMMA ColsLargest ==
  ASSUME NEW q \in Request, NEW colMin \in Nat, NEW r \in Nat \ {0},
         r <= GridBudget(q.threads)
  PROVE  LET c == ColsFor(r, q, colMin)
         IN  /\ Axis(c, q.srcW, q.dstW) /\ r * c <= GridBudget(q.threads)
             /\ c <= Room(q.dstW, colMin)
             /\ \A m \in Nat \ {0} :
                  /\ AxisPartitionOk(m, q.srcW, q.dstW)
                  /\ r * m <= GridBudget(q.threads) /\ m <= Room(q.dstW, colMin)
                  => m <= c
<1> DEFINE budget == GridBudget(q.threads)
           room == Room(q.dstW, colMin)
           limit == AxisLimit(q.dstW, colMin, 1, budget)
           most == ColLimit(q, colMin)
           quot == budget \div r
           start == Min({quot, most})
           c == ColsFor(r, q, colMin)
<1>1. /\ q.threads \in Int /\ q.srcW \in Nat \ {0} /\ q.dstW \in Nat \ {0} /\ q.dstW \in Nat
  BY DEF Request
<1>2. budget \in Nat \ {0} /\ room \in Nat \ {0} /\ r <= budget
  BY <1>1, BudgetBounds, RoomType
<1> HIDE DEF budget
<1>3. limit \in Nat \ {0} /\ limit <= budget /\ limit <= room /\ (limit = budget \/ limit = room)
  BY <1>1, <1>2, LimitIs
<1> HIDE DEF limit, room
<1>4. Largest(most, limit, q.srcW, q.dstW)
  <2>1. limit \in Int
    BY <1>3
  <2>2. most = LargestValidSplit(limit, q.srcW, q.dstW)
    BY DEF most, ColLimit, limit, budget
  <2>3. QED
    BY <1>1, <2>1, <2>2, SplitLargest
<1> HIDE DEF most
<1>5. most \in Nat \ {0} /\ (most = 1 \/ most <= limit)
  BY <1>4 DEF Largest, Axis
<1>6. quot \in Nat /\ r * quot <= budget /\ budget < r * quot + r
  BY <1>2, Division
<1> HIDE DEF quot
<1>7. start \in {quot, most} /\ start <= quot /\ start <= most
  <2>1. quot \in Int /\ most \in Int
    BY <1>5, <1>6
  <2>2. QED
    BY <2>1, MinOfTwo, Zenon
<1> HIDE DEF start
<1>8. start \in Int
  BY <1>5, <1>6, <1>7
<1>9. Largest(c, start, q.srcW, q.dstW)
  <2>1. c = LargestValidSplit(start, q.srcW, q.dstW)
    BY DEF c, ColsFor, start, quot, most, budget
  <2>2. QED
    BY <1>1, <1>8, <2>1, SplitLargest
<1> HIDE DEF c
<1>10. Axis(c, q.srcW, q.dstW) /\ c \in Nat \ {0} /\ (c = 1 \/ c <= start)
  BY <1>9 DEF Largest, Axis
<1>11. r * c <= budget
  <2>1. CASE c = 1
    BY <1>2, <2>1
  <2>2. CASE c <= start
    <3>1. c <= quot
      BY <1>6, <1>7, <1>8, <1>10, <2>2
    <3>2. r * c <= r * quot /\ r * c \in Nat /\ r * quot \in Nat
      BY <1>6, <1>10, <3>1
    <3>3. QED
      BY <1>2, <1>6, <3>2
  <2>3. QED
    BY <1>10, <2>1, <2>2
<1>12. c <= room
  BY <1>2, <1>3, <1>5, <1>7, <1>8, <1>10
<1>13. ASSUME NEW m \in Nat \ {0}, AxisPartitionOk(m, q.srcW, q.dstW), r * m <= budget, m <= room
       PROVE  m <= c
  <2>1. m <= quot
    <3>1. r * m < r * quot + r
      <4>1. r * m \in Nat /\ r * quot \in Nat
        BY <1>6
      <4>2. QED
        BY <1>2, <1>6, <1>13, <4>1
    <3>2. QED
      BY <1>6, <3>1, QuotientLe
  <2>2. m <= budget
    <3>1. m <= r * m /\ r * m \in Nat
      OBVIOUS
    <3>2. QED
      BY <1>2, <1>13, <3>1
  <2>3. m \in 1..limit
    BY <1>3, <1>13, <2>2
  <2>4. m <= most
    BY <1>4, <1>13, <2>3 DEF Largest
  <2>5. m \in 1..start
    BY <1>7, <1>8, <2>1, <2>4
  <2>6. QED
    BY <1>9, <1>13, <2>5 DEF Largest
<1>14. QED
  BY <1>10, <1>11, <1>12, <1>13 DEF c, budget, room

\* up_decide_tile_grid: no grid that fits has more cells, or as many and more
\* rows.
LEMMA GridLargest ==
  ASSUME NEW q \in Request, NEW colMin \in Nat
  PROVE  LET g == DecideTileGrid(q, colMin)
         IN  /\ Fitting(g, q, colMin)
             /\ \A h \in [rows : Nat, cols : Nat] :
                  Fitting(h, q, colMin) =>
                    \/ h.rows * h.cols < g.rows * g.cols
                    \/ h.rows * h.cols = g.rows * g.cols /\ h.rows <= g.rows
<1> DEFINE budget == GridBudget(q.threads)
           room == Room(q.dstH, q.stripeMin)
           limit == AxisLimit(q.dstH, q.stripeMin, budget, budget)
           most == RowLimit(q)
           Col(r) == ColsFor(r, q, colMin)
           Size(r) == r * Col(r)
           R == RowCandidates(q)
           Best == {r \in R : \A p \in R : Size(p) <= Size(r)}
           rows == Max(Best)
<1>1. /\ q.threads \in Int /\ q.srcH \in Nat \ {0} /\ q.dstH \in Nat \ {0} /\ q.dstH \in Nat
      /\ q.stripeMin \in Nat \ {0} /\ q.stripeMin \in Nat /\ q.stripeMin > 0
  BY DEF Request
<1>2. budget \in Nat \ {0} /\ room \in Nat \ {0}
  BY <1>1, BudgetBounds, RoomType
<1>3. limit \in Nat \ {0} /\ limit <= budget /\ limit <= room /\ (limit = budget \/ limit = room)
  <2> HIDE DEF budget
  <2>1. QED
    BY <1>1, <1>2, LimitIs
<1>4. Largest(most, limit, q.srcH, q.dstH)
  <2>1. limit \in Int
    BY <1>3
  <2>2. most = LargestValidSplit(limit, q.srcH, q.dstH)
    BY DEF RowLimit
  <2> HIDE DEF most, limit
  <2>3. QED
    BY <1>1, <2>1, <2>2, SplitLargest
<1>5. R = {r \in 1..most : AxisPartitionOk(r, q.srcH, q.dstH)}
  BY DEF RowCandidates
<1>6. \A r \in Nat \ {0} : r <= GridBudget(q.threads) =>
        /\ Axis(Col(r), q.srcW, q.dstW) /\ r * Col(r) <= GridBudget(q.threads)
        /\ Col(r) <= Room(q.dstW, colMin)
        /\ \A m \in Nat \ {0} :
             /\ AxisPartitionOk(m, q.srcW, q.dstW)
             /\ r * m <= GridBudget(q.threads) /\ m <= Room(q.dstW, colMin)
             => m <= Col(r)
  BY ColsLargest
<1>7. /\ DecideTileGrid(q, colMin).rows = rows
      /\ DecideTileGrid(q, colMin).cols = Col(rows)
  BY DEF DecideTileGrid
<1> HIDE DEF budget, room, limit, most, R, Col, rows, Best
<1>8. /\ R \subseteq Nat \ {0} /\ R # {}
      /\ \A r \in R : r <= budget /\ r <= room /\ AxisPartitionOk(r, q.srcH, q.dstH)
      /\ \A r \in 1..limit : AxisPartitionOk(r, q.srcH, q.dstH) => r \in R
  <2>1. most \in Nat \ {0} /\ most <= limit /\ most \in R
    BY <1>3, <1>4, <1>5 DEF Largest, Axis
  <2>2. R \subseteq Nat \ {0} /\ \A r \in R : r <= most /\ AxisPartitionOk(r, q.srcH, q.dstH)
    BY <1>5, <2>1
  <2>3. \A r \in R : r <= budget /\ r <= room
    <3>1. SUFFICES ASSUME NEW r \in R PROVE r <= budget /\ r <= room
      OBVIOUS
    <3>2. r \in Nat /\ r <= most
      BY <2>2
    <3>3. QED
      BY <1>2, <1>3, <2>1, <3>2
  <2>4. \A r \in 1..limit : AxisPartitionOk(r, q.srcH, q.dstH) => r \in R
    BY <1>4, <1>5, <2>1 DEF Largest
  <2>5. QED
    BY <2>1, <2>2, <2>3, <2>4
<1>9. ASSUME NEW r \in R
      PROVE  /\ Col(r) \in Nat \ {0} /\ Size(r) \in Nat /\ Size(r) <= budget
             /\ AxisPartitionOk(Col(r), q.srcW, q.dstW) /\ Col(r) <= Room(q.dstW, colMin)
  <2>1. r \in Nat \ {0} /\ r <= GridBudget(q.threads)
    BY <1>8 DEF budget
  <2>2. /\ Axis(Col(r), q.srcW, q.dstW) /\ r * Col(r) <= GridBudget(q.threads)
        /\ Col(r) <= Room(q.dstW, colMin)
    BY <1>6, <2>1
  <2>3. r * Col(r) \in Nat
    BY <2>1, <2>2 DEF Axis
  <2>4. QED
    BY <2>2, <2>3 DEF Axis, budget
<1> HIDE DEF Size
<1>10. Best # {}
  <2> DEFINE V == {Size(r) : r \in R}
  <2>1. V \in SUBSET Nat /\ V # {} /\ \A v \in V : v <= budget
    BY <1>8, <1>9
  <2>2. Max(V) \in V /\ \A v \in V : v <= Max(V)
    BY <1>2, <2>1, MaxInSet
  <2>3. PICK r \in R : Max(V) = Size(r)
    BY <2>2
  <2>4. \A p \in R : Size(p) <= Size(r)
    BY <2>2, <2>3
  <2>5. QED
    BY <2>4 DEF Best
<1>11. rows \in Best /\ \A r \in Best : r <= rows
  <2>1. Best \in SUBSET Nat /\ \A r \in Best : r <= budget
    BY <1>8 DEF Best
  <2>2. QED
    BY <1>2, <1>10, <2>1, MaxInSet DEF rows
<1>12. rows \in R /\ rows \in Nat \ {0} /\ \A p \in R : Size(p) <= Size(rows)
  BY <1>8, <1>11 DEF Best
<1>13. Fitting(DecideTileGrid(q, colMin), q, colMin)
  <2>1. /\ rows \in Nat \ {0} /\ Col(rows) \in Nat \ {0} /\ rows * Col(rows) <= budget
        /\ rows <= room /\ Col(rows) <= Room(q.dstW, colMin)
        /\ AxisPartitionOk(rows, q.srcH, q.dstH) /\ AxisPartitionOk(Col(rows), q.srcW, q.dstW)
    BY <1>8, <1>9, <1>12 DEF Size
  <2>2. QED
    BY <1>7, <2>1 DEF Fitting, budget, room
<1>14. ASSUME NEW h \in [rows : Nat, cols : Nat], Fitting(h, q, colMin)
       PROVE  \/ h.rows * h.cols < rows * Col(rows)
              \/ h.rows * h.cols = rows * Col(rows) /\ h.rows <= rows
  <2> DEFINE r == h.rows
             c == h.cols
  <2>1. /\ r \in Nat \ {0} /\ c \in Nat \ {0} /\ r * c <= budget /\ r <= room
        /\ c <= Room(q.dstW, colMin)
        /\ AxisPartitionOk(r, q.srcH, q.dstH) /\ AxisPartitionOk(c, q.srcW, q.dstW)
    BY <1>14 DEF Fitting, budget, room
  <2> HIDE DEF r, c
  <2>2. r <= budget /\ r * c \in Nat
    <3>1. r <= r * c /\ r * c \in Nat
      BY <2>1
    <3>2. QED
      BY <1>2, <2>1, <3>1
  <2>3. r \in 1..limit
    BY <1>2, <1>3, <2>1, <2>2
  <2>4. r \in R
    BY <1>8, <2>1, <2>3
  <2>5. c <= Col(r)
    BY <1>6, <2>1, <2>2 DEF budget
  <2>6. r * c <= Size(r)
    <3>1. Col(r) \in Nat
      BY <1>9, <2>4
    <3>2. r * c <= r * Col(r)
      BY <2>1, <2>5, <3>1
    <3>3. QED
      BY <3>2 DEF Size
  <2>7. Size(r) <= Size(rows) /\ Size(r) \in Nat /\ Size(rows) \in Nat
    BY <1>9, <1>12, <2>4
  <2>8. CASE r * c < Size(rows)
    BY <2>8 DEF Size, r, c
  <2>9. CASE ~(r * c < Size(rows))
    <3>1. r * c = Size(rows) /\ Size(r) = Size(rows)
      BY <2>2, <2>6, <2>7, <2>9
    <3>2. r \in Best
      BY <1>12, <2>4, <3>1 DEF Best
    <3>3. r <= rows
      BY <1>11, <3>2
    <3>4. QED
      BY <3>1, <3>3 DEF Size, r, c
  <2>10. QED
    BY <2>8, <2>9
<1>15. QED
  BY <1>7, <1>13, <1>14

-----------------------------------------------------------------------------
(* The plan.                                                               *)

\* The workers asked for are no more than the CPUs, and with a mask the CPUs
\* are those of the mask.
OfMachine ==
  /\ cpus \in SUBSET Nat /\ IsFiniteSet(cpus)
  /\ topology.allowed \in Nat \ {0} /\ req.threads <= topology.allowed
  /\ cpus # {} => topology = TopologyFromSet(cpus)

\* The request is one zimg_build_io_req fills in for a picture that fits, and
\* the plan is the one it resolves to.
IInv ==
  /\ req \in Request
  /\ req.dstW % 2 = 0 /\ req.dstH % 2 = 0
  /\ sub.w \in {0, 1} /\ sub.h \in {0, 1}
  /\ Fits(req.srcW, sub.w) /\ Fits(req.srcH, sub.h)
  /\ OfMachine
  /\ Resolved => plan = ResolveIoPlan(req)

\* The count that up_detect_cpu_topology answers.
LEMMA AllowedType ==
  ASSUME NEW set \in SUBSET Nat, IsFiniteSet(set), NEW online \in Int
  PROVE  DetectTopology(set, online).allowed \in Nat \ {0}
<1>1. CpuCountMax \in Int /\ CpuCountMax >= 1
  BY ThreadsAssumption DEF CpuCountMax
<1>2. CASE set = {}
  <2> DEFINE m == Max({online, 1})
             r == Min({m, CpuCountMax})
  <2>1. m \in {online, 1} /\ m >= 1
    BY MaxOfTwo
  <2> HIDE DEF m
  <2>2. m \in Int /\ m >= 1
    BY <2>1
  <2>3. r \in {m, CpuCountMax}
    BY <1>1, <2>2, MinOfTwo, Zenon
  <2> HIDE DEF r
  <2>4. DetectTopology(set, online).allowed = r
    BY <1>2 DEF DetectTopology, TopologyFromSysconf, ClampCoreCount, r, m
  <2>5. QED
    BY <1>1, <2>2, <2>3, <2>4
<1>3. CASE set # {}
  <2> DEFINE n == Cardinality(set)
             r == Min({n, CpuCountMax})
  <2>1. n \in Int /\ n >= 1
    BY <1>3, FS_CardinalityType, FS_EmptySet
  <2> HIDE DEF n
  <2>2. r \in {n, CpuCountMax}
    BY <1>1, <2>1, MinOfTwo, Zenon
  <2> HIDE DEF r
  <2>3. DetectTopology(set, online).allowed = r
    BY <1>3 DEF DetectTopology, TopologyFromSet, r, n
  <2>4. QED
    BY <1>1, <2>1, <2>2, <2>3
<1>4. QED
  BY <1>2, <1>3

\* up_threads_decide answers a number.
LEMMA ThreadsType ==
  ASSUME NEW pref \in Int, NEW cores \in Int
  PROVE  /\ ThreadsDecide(pref, cores) \in Int
         /\ cores >= 1 => ThreadsDecide(pref, cores) <= cores
<1> DEFINE known == Max({cores, 1})
           half == Max({known \div 2 - 2, 1})
           auto == Min({half, ThreadsAutoMax})
           wanted == IF pref <= 0 THEN auto ELSE pref
           most == Min({wanted, known, ThreadsMax})
           r == Max({most, 1})
<1>1. ThreadsMax \in Int /\ ThreadsAutoMax \in Int /\ 1 \in Int
  BY ThreadsAssumption
<1>2. known \in Int /\ (cores >= 1 => known <= cores)
  <2>1. known \in {cores, 1} /\ known >= cores /\ known >= 1
    BY MaxOfTwo
  <2> HIDE DEF known
  <2>2. QED
    BY <2>1
<1> HIDE DEF known
<1>3. half \in Int
  <2>1. known \div 2 - 2 \in Int
    BY <1>2
  <2>2. half \in {known \div 2 - 2, 1}
    BY <1>1, <2>1, MaxOfTwo, Zenon
  <2> HIDE DEF half
  <2>3. QED
    BY <2>1, <2>2
<1> HIDE DEF half
<1>4. auto \in Int
  <2>1. auto \in {half, ThreadsAutoMax}
    BY <1>1, <1>3, MinOfTwo, Zenon
  <2> HIDE DEF auto
  <2>2. QED
    BY <1>1, <1>3, <2>1
<1> HIDE DEF auto
<1>5. wanted \in Int
  BY <1>4
<1> HIDE DEF wanted
<1>6. most \in Int /\ most <= known
  <2>1. most \in {wanted, known, ThreadsMax} /\ most <= known
    BY <1>1, <1>2, <1>5, MinOfThree, Zenon
  <2> HIDE DEF most
  <2>2. QED
    BY <1>1, <1>2, <1>5, <2>1
<1> HIDE DEF most
<1>7. r \in {most, 1}
  BY <1>1, <1>6, MaxOfTwo, Zenon
<1> HIDE DEF r
<1>8. ThreadsDecide(pref, cores) = r
  BY DEF ThreadsDecide, known, half, auto, wanted, most, r
<1>9. QED
  BY <1>2, <1>6, <1>7, <1>8

LEMMA Initially == Init => IInv
<1> SUFFICES ASSUME Init PROVE IInv
  OBVIOUS
<1>1. PICK online \in Onlines : topology = DetectTopology(cpus, online)
  BY DEF Init
<1>2. cpus \in SUBSET Nat /\ IsFiniteSet(cpus) /\ online \in Int
  BY PlanAssumption DEF Init
<1>3. topology.allowed \in Nat \ {0}
  BY <1>1, <1>2, AllowedType
<1>4. PICK pref \in Prefs : req \in Requests(ThreadsDecide(pref, topology.allowed))
  BY DEF Init
<1>5. /\ ThreadsDecide(pref, topology.allowed) \in Int
      /\ ThreadsDecide(pref, topology.allowed) <= topology.allowed
  <2>1. pref \in Int
    BY PlanAssumption
  <2> DEFINE cores == topology.allowed
  <2>2. cores \in Int /\ cores >= 1
    BY <1>3
  <2> HIDE DEF cores
  <2>3. /\ ThreadsDecide(pref, cores) \in Int
        /\ ThreadsDecide(pref, cores) <= cores
    BY <2>1, <2>2, ThreadsType, Zenon
  <2>4. QED
    BY <2>3 DEF cores
<1> DEFINE threads == ThreadsDecide(pref, topology.allowed)
<1> HIDE DEF threads
<1>6. PICK w \in Widths, h \in Heights, sm \in StripeMins, cm \in ColMins,
           sz \in BOOLEAN, dz \in BOOLEAN :
        req = [threads |-> threads, srcW |-> w.src, dstW |-> w.dst, srcH |-> h.src,
               dstH |-> h.dst, stripeMin |-> sm, colMin |-> cm,
               srcZerocopy |-> sz, dstZerocopy |-> dz]
  <2>1. req \in Requests(threads)
    BY <1>4 DEF threads
  <2>2. QED
    BY <2>1 DEF Requests
<1>7. /\ w.src \in Nat \ {0} /\ w.dst \in Nat \ {0} /\ w.dst % 2 = 0
      /\ h.src \in Nat \ {0} /\ h.dst \in Nat \ {0} /\ h.dst % 2 = 0
      /\ sm \in Nat \ {0} /\ cm \in Nat \ {0}
  <2>1. /\ w \in [src : Nat \ {0}, dst : Nat \ {0}] /\ w.dst % 2 = 0
        /\ h \in [src : Nat \ {0}, dst : Nat \ {0}] /\ h.dst % 2 = 0
    BY PlanAssumption
  <2>2. sm \in Nat \ {0} /\ cm \in Nat \ {0}
    BY PlanAssumption
  <2>3. QED
    BY <2>1, <2>2
<1>8. threads \in Int /\ threads <= topology.allowed
  BY <1>5 DEF threads
<1>9. req \in Request
  BY <1>6, <1>7, <1>8 DEF Request
<1>10. req.dstW % 2 = 0 /\ req.dstH % 2 = 0
  BY <1>6, <1>7
<1>11. /\ sub.w \in {0, 1} /\ sub.h \in {0, 1} /\ stage = "open"
       /\ Fits(req.srcW, sub.w) /\ Fits(req.srcH, sub.h)
  BY DEF Init
<1>12. /\ req.threads <= topology.allowed
       /\ cpus # {} => topology = TopologyFromSet(cpus)
  BY <1>1, <1>6, <1>8 DEF DetectTopology
<1>13. QED
  BY <1>2, <1>3, <1>9, <1>10, <1>11, <1>12 DEF IInv, Resolved, OfMachine

LEMMA Preserved == IInv /\ [Next]_vars => IInv'
<1> SUFFICES ASSUME IInv, [Next]_vars PROVE IInv'
  OBVIOUS
<1>1. CASE Open
  BY <1>1 DEF Open, IInv, given, Resolved, ResolveIoPlan, OfMachine
<1>2. ASSUME NEW sa \in BOOLEAN, NEW da \in BOOLEAN, FirstFrame(sa, da) PROVE IInv'
  <2>1. /\ req' = [req EXCEPT !.srcZerocopy = req.srcZerocopy /\ sa,
                              !.dstZerocopy = req.dstZerocopy /\ da]
        /\ plan' = ResolveIoPlan(req') /\ sub' = sub
        /\ cpus' = cpus /\ topology' = topology
    BY <1>2 DEF FirstFrame, given
  <2>2. req \in Request
    BY DEF IInv
  <2>3. /\ req'.srcW = req.srcW /\ req'.srcH = req.srcH
        /\ req'.dstW = req.dstW /\ req'.dstH = req.dstH
        /\ req'.threads = req.threads
    BY <2>1, <2>2 DEF Request
  <2>4. req' \in Request
    <3> DEFINE a == req.srcZerocopy /\ sa
               b == req.dstZerocopy /\ da
    <3>1. a \in BOOLEAN /\ b \in BOOLEAN
      OBVIOUS
    <3>2. req' = [req EXCEPT !.srcZerocopy = a, !.dstZerocopy = b]
      BY <2>1
    <3> HIDE DEF a, b
    <3>3. QED
      BY <2>2, <3>1, <3>2 DEF Request
  <2>5. QED
    BY <2>1, <2>3, <2>4 DEF IInv, Fits, OfMachine
<1>3. CASE UNCHANGED vars
  BY <1>3 DEF vars, given, IInv, Resolved, ResolveIoPlan, OfMachine
<1>4. QED
  BY <1>1, <1>2, <1>3 DEF Next, Frozen

LEMMA Inductive == Spec => []IInv
BY Initially, Preserved, PTL DEF Spec

-----------------------------------------------------------------------------
(* The theorems.                                                           *)

\* The least width of a column that zimg_build_io_req's plan is decided with.
ColMinOf(q) == IF q.srcZerocopy THEN q.colMin ELSE 0

\* The grid of a resolved plan is the one the search finds.
LEMMA PlanFits ==
  ASSUME IInv, Resolved
  PROVE  LET g == [rows |-> plan.rows, cols |-> plan.cols]
         IN  /\ Fitting(g, req, ColMinOf(req))
             /\ \A h \in [rows : Nat, cols : Nat] :
                  Fitting(h, req, ColMinOf(req)) =>
                    \/ h.rows * h.cols < g.rows * g.cols
                    \/ h.rows * h.cols = g.rows * g.cols /\ h.rows <= g.rows
<1> DEFINE d == DecideTileGrid(req, ColMinOf(req))
<1>1. req \in Request /\ ColMinOf(req) \in Nat
  BY DEF IInv, Request, ColMinOf
<1>2. plan.rows = d.rows /\ plan.cols = d.cols
  BY DEF IInv, ResolveIoPlan, ColMinOf
<1>3. /\ Fitting(d, req, ColMinOf(req))
      /\ \A h \in [rows : Nat, cols : Nat] :
           Fitting(h, req, ColMinOf(req)) =>
             \/ h.rows * h.cols < d.rows * d.cols
             \/ h.rows * h.cols = d.rows * d.cols /\ h.rows <= d.rows
  BY <1>1, GridLargest
<1> HIDE DEF d
<1>4. QED
  BY <1>2, <1>3 DEF Fitting

LEMMA PartitionInvariant == IInv => GridPartitions
<1> SUFFICES ASSUME IInv, Resolved,
                    NEW s \in {[w |-> 0, h |-> 0], sub}
             PROVE  LET DstRows(r) == PlaneRows(RowStripe(r).dstStart, RowStripe(r).dstEnd, s.h)
                        SrcRows(r) == PlaneRows(RowStripe(r).srcStart, RowStripe(r).srcEnd, s.h)
                        DstCols(c) == PlaneCols(ColStripe(c).dstStart, ColStripe(c).dstEnd, s.w)
                        SrcCols(c) == PlaneCols(ColStripe(c).srcStart, ColStripe(c).srcEnd, s.w)
                    IN  /\ Partition(DstRows, plan.rows, ChromaDim(req.dstH, s.h))
                        /\ Partition(SrcRows, plan.rows, ChromaDim(req.srcH, s.h))
                        /\ Partition(DstCols, plan.cols, ChromaDim(req.dstW, s.w))
                        /\ Partition(SrcCols, plan.cols, ChromaDim(req.srcW, s.w))
                        /\ \A r \in 0..plan.rows - 1 :
                             /\ SrcRows(r) \subseteq 0..ScratchLines(req.srcH, s.h) - LinePad - 1
                             /\ DstRows(r) \subseteq 0..ScratchLines(req.dstH, s.h) - LinePad - 1
                        /\ \A c \in 0..plan.cols - 1 :
                             LET width == ColStripe(c).dstEnd - ColStripe(c).dstStart
                             IN  PlaneCols(0, width, s.w) \subseteq 0..ScratchPitch(width, s.w) - 1
  BY DEF GridPartitions
<1>1. /\ req.srcW \in Nat \ {0} /\ req.srcH \in Nat \ {0}
      /\ req.dstW \in Nat \ {0} /\ req.dstH \in Nat \ {0}
      /\ req.dstW % 2 = 0 /\ req.dstH % 2 = 0
  BY DEF IInv, Request
<1>2. /\ s.w \in {0, 1} /\ (s.w = 0 \/ req.srcW % 2 = 0)
      /\ s.h \in {0, 1} /\ (s.h = 0 \/ req.srcH % 2 = 0)
  BY DEF IInv, Fits
<1>3. Axis(plan.rows, req.srcH, req.dstH) /\ Axis(plan.cols, req.srcW, req.dstW)
  BY PlanFits DEF Fitting, Axis
<1>4. AxisParted(plan.rows, req.srcH, req.dstH, s.h)
  BY <1>1, <1>2, <1>3, AxisParts
<1>5. AxisParted(plan.cols, req.srcW, req.dstW, s.w)
  BY <1>1, <1>2, <1>3, AxisParts
<1>6. \A extent \in Nat : ScratchLines(extent, s.h) - LinePad - 1 = ChromaDim(extent, s.h) - 1
  <2>1. SUFFICES ASSUME NEW extent \in Nat
                 PROVE  ScratchLines(extent, s.h) - LinePad - 1 = ChromaDim(extent, s.h) - 1
    OBVIOUS
  <2>2. ChromaDim(extent, s.h) \in Nat
    <3>1. (extent + 1) \div 2 \in Nat
      OBVIOUS
    <3>2. QED
      BY <1>2, <3>1, Subsampled
  <2>3. LinePad \in Nat
    BY GridAssumption
  <2>4. QED
    BY <2>2, <2>3 DEF ScratchLines
<1>7. \A width \in Nat : PlaneCols(0, width, s.w) \subseteq 0..ScratchPitch(width, s.w) - 1
  BY <1>2, ScratchHolds
<1>8. QED
  BY <1>1, <1>4, <1>5, <1>6, <1>7 DEF AxisParted, RowStripe, ColStripe

LEMMA MaximalInvariant == IInv => GridMaximal
<1> SUFFICES ASSUME IInv, Resolved
             PROVE  /\ [rows |-> plan.rows, cols |-> plan.cols] \in FittingGrids
                    /\ \A g \in FittingGrids :
                         \/ g.rows * g.cols < NThreads(plan)
                         \/ g.rows * g.cols = NThreads(plan) /\ g.rows <= plan.rows
  BY DEF GridMaximal
<1> DEFINE budget == GridBudget(req.threads)
<1>1. /\ req \in Request /\ req.threads \in Int
      /\ req.stripeMin \in Nat \ {0} /\ req.colMin \in Nat \ {0}
  BY DEF IInv, Request
<1>2. budget \in Nat \ {0}
  BY <1>1, BudgetBounds
<1> HIDE DEF budget
<1>3. plan.srcZerocopy = req.srcZerocopy
  BY DEF IInv, ResolveIoPlan
<1>4. /\ Max({req.dstH \div req.stripeMin, 1}) = Room(req.dstH, req.stripeMin)
      /\ (IF plan.srcZerocopy THEN Max({req.dstW \div req.colMin, 1}) ELSE 1)
           = Room(req.dstW, ColMinOf(req))
  BY <1>1, <1>3 DEF Room, ColMinOf
<1>5. \A g \in [rows : 1..budget, cols : 1..budget] :
        g \in FittingGrids <=> Fitting(g, req, ColMinOf(req))
  BY <1>2, <1>4 DEF FittingGrids, Fitting, budget
<1> DEFINE p == [rows |-> plan.rows, cols |-> plan.cols]
<1>6. /\ Fitting(p, req, ColMinOf(req))
      /\ \A h \in [rows : Nat, cols : Nat] :
           Fitting(h, req, ColMinOf(req)) =>
             \/ h.rows * h.cols < plan.rows * plan.cols
             \/ h.rows * h.cols = plan.rows * plan.cols /\ h.rows <= plan.rows
  BY PlanFits
<1>7. p \in FittingGrids
  <2>1. /\ plan.rows \in Nat \ {0} /\ plan.cols \in Nat \ {0}
        /\ plan.rows * plan.cols <= budget
    BY <1>6 DEF Fitting, budget
  <2>2. plan.rows <= plan.rows * plan.cols /\ plan.cols <= plan.rows * plan.cols
        /\ plan.rows * plan.cols \in Nat
    BY <2>1
  <2>3. plan.rows \in 1..budget /\ plan.cols \in 1..budget
    BY <1>2, <2>1, <2>2
  <2>4. p \in [rows : 1..budget, cols : 1..budget]
    BY <2>3
  <2>5. QED
    BY <1>5, <1>6, <2>4
<1>8. \A g \in FittingGrids : g \in [rows : 1..budget, cols : 1..budget]
  BY DEF FittingGrids, budget
<1>9. \A g \in FittingGrids : g \in [rows : Nat, cols : Nat]
  BY <1>2, <1>8
<1>10. \A g \in FittingGrids : Fitting(g, req, ColMinOf(req))
  BY <1>5, <1>8
<1>11. QED
  BY <1>6, <1>7, <1>9, <1>10 DEF NThreads

\* Every rank up to the size of a finite set of numbers is some member's: the
\* ranks differ, and there are as many as members.
LEMMA RankTaken ==
  ASSUME NEW S \in SUBSET Nat, IsFiniteSet(S), NEW k \in 1..Cardinality(S)
  PROVE  \E c \in S : Cardinality({d \in S : d <= c}) = k
<1> DEFINE Below(c) == {d \in S : d <= c}
           n == Cardinality(S)
           rank == [c \in S |-> Cardinality(Below(c))]
<1>1. n \in Nat
  BY FS_CardinalityType
<1>2. \A c \in S : /\ IsFiniteSet(Below(c)) /\ Below(c) \subseteq S
                   /\ Cardinality(Below(c)) \in 1..n
  <2>1. SUFFICES ASSUME NEW c \in S
                 PROVE  /\ IsFiniteSet(Below(c)) /\ Below(c) \subseteq S
                        /\ Cardinality(Below(c)) \in 1..n
    OBVIOUS
  <2>2. Below(c) \in SUBSET S /\ c \in Below(c) /\ Below(c) # {}
    OBVIOUS
  <2> HIDE DEF Below
  <2>3. IsFiniteSet(Below(c)) /\ Cardinality(Below(c)) <= n
    BY <2>2, FS_Subset
  <2>4. Cardinality(Below(c)) \in Nat /\ Cardinality(Below(c)) # 0
    BY <2>2, <2>3, FS_CardinalityType, FS_EmptySet
  <2>5. QED
    BY <1>1, <2>2, <2>3, <2>4
<1>3. \A c, e \in S : Cardinality(Below(c)) = Cardinality(Below(e)) => c = e
  <2>1. ASSUME NEW c \in S, NEW e \in S, c < e
        PROVE  Cardinality(Below(c)) # Cardinality(Below(e))
    <3>1. Below(c) \in SUBSET Below(e) /\ Below(c) # Below(e)
      <4>1. c \in Nat /\ e \in Nat /\ e <= e /\ ~ (e <= c)
        BY <2>1
      <4>2. e \in Below(e) /\ e \notin Below(c)
        BY <4>1
      <4>3. \A d \in S : d <= c => d <= e
        BY <2>1
      <4>4. Below(c) \subseteq Below(e)
        BY <4>3
      <4>5. QED
        BY <4>2, <4>4
    <3> HIDE DEF Below
    <3>2. QED
      BY <1>2, <3>1, FS_Subset
  <2>2. \A c, e \in S : c = e \/ c < e \/ e < c
    OBVIOUS
  <2> HIDE DEF Below
  <2>3. QED
    BY <2>1, <2>2
<1> HIDE DEF Below, n
<1>4. rank \in Injection(S, 1..n)
  BY <1>2, <1>3 DEF Injection, IsInjective
<1>5. IsFiniteSet(1..n) /\ Cardinality(1..n) = n
  BY <1>1, FS_Interval
<1>6. rank \in Surjection(S, 1..n)
  BY <1>4, <1>5, FS_Injection DEF n
<1>7. QED
  BY <1>6 DEF Surjection, n, Below

LEMMA CpusInvariant == IInv => WorkersHaveCpus
<1> SUFFICES ASSUME IInv, Resolved
             PROVE  /\ NThreads(plan) <= topology.allowed
                    /\ cpus # {} =>
                         \A i \in 0..NThreads(plan) - 1 :
                           /\ PinnedTo(topology, i) \in cpus
                           /\ \A j \in 0..i - 1 : PinnedTo(topology, j) # PinnedTo(topology, i)
  BY DEF WorkersHaveCpus
<1> DEFINE workers == NThreads(plan)
<1>1. req.threads \in Int
  BY DEF IInv, Request
<1>2. /\ workers \in Nat \ {0} /\ workers <= topology.allowed /\ workers <= ThreadsMax
  <2>1. /\ plan.rows \in Nat \ {0} /\ plan.cols \in Nat \ {0}
        /\ plan.rows * plan.cols <= GridBudget(req.threads)
    BY PlanFits DEF Fitting
  <2>2. plan.rows * plan.cols \in Nat \ {0}
    BY <2>1
  <2>3. topology.allowed \in Nat \ {0} /\ req.threads <= topology.allowed
    BY DEF IInv, OfMachine
  <2>4. /\ GridBudget(req.threads) \in Nat \ {0}
        /\ GridBudget(req.threads) <= ThreadsMax
        /\ GridBudget(req.threads) <= topology.allowed
    BY <1>1, <2>3, BudgetBounds, LimitsAgree
  <2>5. ThreadsMax \in Nat
    BY ThreadsAssumption
  <2>6. QED
    BY <2>1, <2>2, <2>3, <2>4, <2>5 DEF NThreads
<1> HIDE DEF workers
<1>3. ASSUME cpus # {}
      PROVE  \A i \in 0..workers - 1 :
               /\ PinnedTo(topology, i) \in cpus
               /\ \A j \in 0..i - 1 : PinnedTo(topology, j) # PinnedTo(topology, i)
  <2> DEFINE n == Cardinality(cpus)
             len == Min({n, ThreadsMax})
             Rank(c) == Cardinality({d \in cpus : d <= c})
  <2>1. cpus \in SUBSET Nat /\ IsFiniteSet(cpus) /\ topology = TopologyFromSet(cpus)
    BY <1>3 DEF IInv, OfMachine
  <2>2. n \in Int /\ n \in Nat /\ ThreadsMax \in Int /\ CpuCountMax \in Int
    BY <2>1, FS_CardinalityType, ThreadsAssumption DEF CpuCountMax
  <2>3. \A k \in 1..n : Ascending(cpus)[k] \in cpus /\ Rank(Ascending(cpus)[k]) = k
    BY <2>1, RankTaken DEF Ascending
  <2>4. Ascending(cpus) \in Seq(cpus) /\ Len(Ascending(cpus)) = n
    <3>1. Ascending(cpus) \in [1..n -> cpus]
      BY <2>3 DEF Ascending
    <3>2. QED
      BY <2>2, <3>1
  <2> HIDE DEF n, Rank
  <2>5. Min({n, CpuCountMax}) <= n
    BY <2>2, MinOfTwo
  <2>6. workers <= n
    <3>1. topology.allowed = Min({n, CpuCountMax})
      BY <2>1 DEF TopologyFromSet, n
    <3> DEFINE allowed == topology.allowed
    <3>2. allowed <= n /\ allowed \in Nat /\ workers <= allowed
      BY <1>2, <2>5, <3>1 DEF IInv, OfMachine
    <3> HIDE DEF allowed
    <3>3. QED
      BY <1>2, <2>2, <3>2
  <2>7. len \in {n, ThreadsMax}
    BY <2>2, MinOfTwo
  <2> HIDE DEF len
  <2>8. len \in Int /\ len >= workers /\ len <= n
    <3>1. len <= n
      BY <2>2, MinOfTwo DEF len
    <3>2. QED
      BY <1>2, <2>2, <2>6, <2>7, <3>1
  <2>9. topology.pins = SubSeq(Ascending(cpus), 1, len)
    BY <2>1 DEF TopologyFromSet, len, n
  <2>10. Len(topology.pins) = len /\ \A k \in 1..len : topology.pins[k] = Ascending(cpus)[k]
    BY <1>2, <2>2, <2>4, <2>8, <2>9
  <2>11. \A i \in 0..workers - 1 :
           /\ PinnedTo(topology, i) = Ascending(cpus)[i + 1]
           /\ i + 1 \in 1..n
    <3>1. SUFFICES ASSUME NEW i \in 0..workers - 1
                   PROVE  /\ PinnedTo(topology, i) = Ascending(cpus)[i + 1]
                          /\ i + 1 \in 1..n
      OBVIOUS
    <3>2. i + 1 \in 1..len /\ i + 1 \in 1..n /\ i \in Nat /\ i < len
      BY <1>2, <2>2, <2>8
    <3>3. i % len = i
      BY <2>8, <3>2
    <3>4. PinnedTo(topology, i) = topology.pins[(i % len) + 1]
      BY <2>10, Zenon DEF PinnedTo
    <3>5. PinnedTo(topology, i) = topology.pins[i + 1]
      BY <3>3, <3>4, Zenon
    <3>6. QED
      BY <2>10, <3>2, <3>5, Zenon
  <2>12. SUFFICES ASSUME NEW i \in 0..workers - 1
                  PROVE  /\ PinnedTo(topology, i) \in cpus
                         /\ \A j \in 0..i - 1 : PinnedTo(topology, j) # PinnedTo(topology, i)
    OBVIOUS
  <2>13. PinnedTo(topology, i) \in cpus /\ Rank(PinnedTo(topology, i)) = i + 1
    BY <2>3, <2>11
  <2>14. \A j \in 0..i - 1 : Rank(PinnedTo(topology, j)) = j + 1
    <3>1. \A j \in 0..i - 1 : j \in 0..workers - 1
      BY <1>2
    <3>2. QED
      BY <2>3, <2>11, <3>1
  <2>15. \A j \in 0..i - 1 : j + 1 # i + 1
    BY <1>2
  <2>16. QED
    BY <2>13, <2>14, <2>15
<1>4. QED
  BY <1>2, <1>3 DEF workers

\* Whatever the sizes, the options and the machine, the stripes and tiles of
\* up_compute_stripe_bounds partition every plane on both sides, none is
\* empty, and what cells copy stays within the scratch planes.
THEOREM CellsPartition == Spec => []GridPartitions
BY Inductive, PartitionInvariant, PTL

\* The search of up_decide_tile_grid, which looks at one candidate number of
\* columns for each number of rows, misses no better grid.
THEOREM SearchIsComplete == Spec => []GridMaximal
BY Inductive, MaximalInvariant, PTL

\* On every machine, and for every option threads, up_threads_decide and
\* up_decide_tile_grid leave each worker a CPU of its own, and zimg_pool_on_spawn
\* pins it there.
THEOREM WorkersArePinned == Spec => []WorkersHaveCpus
BY Inductive, CpusInvariant, PTL
=============================================================================
