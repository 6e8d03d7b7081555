-------------------------- MODULE UsmStripesProofs --------------------------
(***************************************************************************)
(* The sharpening pass, proved for planes of any height, any number of     *)
(* workers, and every interleaving of their sweeps.                        *)
(*                                                                         *)
(* The argument in one paragraph.  YStart is monotonic and the stripes     *)
(* meet end to start, so they are disjoint (StripesDisjoint) and every row *)
(* is in one (StripesCover).  While a worker sweeps, the rows of its       *)
(* stripe above y are sharp and the others still as they were (StripeInv); *)
(* no other worker writes there.  A row it reads is in the part that is    *)
(* still as it was, or is next to the stripe: then it comes from the halo  *)
(* (SourceRow).  Hence the three rows it combines are the frame's own, and *)
(* when every worker has finished every row is sharp.                      *)
(***************************************************************************)
EXTENDS UsmStripes, ArithmeticLemmas, SequenceTheorems, TLAPS

USE DEF pool, sweep

WorkerPCs == {"parked", "armed", "blur", "combine", "finished", "gone"}
Contents  == {"before", "copied", "sharp", "spoiled"}
Lines     == {Null, Spoiled} \cup Nat

Typed ==
  /\ height \in Nat \ {0}
  /\ minRows \in Nat
  /\ pref \in Nat
  /\ n \in Nat
  /\ n <= pref
  /\ lazy \in {"fresh", "started", "failed"}
  /\ lazy = "started" <=> n > 0
  /\ broken \in BOOLEAN /\ inPlace \in BOOLEAN
  /\ pc \in {"idle", "wait", "join"}
  /\ result \in {"none", "ok", "unchanged", "uncertain"}
  /\ plane \in [Rows -> Contents]
  /\ n > 0 => /\ wpc \in [Workers -> WorkerPCs]
              /\ y \in [Workers -> Nat]
              /\ rows \in [Workers -> [up : Lines, mid : Lines, dn : Lines]]
              /\ halo \in [Workers -> [top : Lines, bot : Lines]]

\* What usm_pool_resolve_threads grants the stripes.
Least == IF minRows <= 0 THEN StripeMinRows ELSE minRows
FewEnough == pref = 1 \/ pref * Least <= height

Stripe(w) == YStart(w)..YEnd(w) - 1
Sweeping(w) == wpc[w] \in {"blur", "combine"}

\* Workers sweep only during a pass, with the halo taken before it.
CallerInv ==
  /\ pc # "idle" => result = "none" /\ n > 0
  /\ pc = "idle" => \A w \in Workers : wpc[w] \notin {"armed", "blur", "combine"}
  /\ pc # "idle" => \A w \in Workers :
       halo[w] = IF inPlace THEN SnapshotHalo(w) ELSE [top |-> Null, bot |-> Null]

StripeInv(w) ==
  /\ wpc[w] \in {"armed", "gone"} => \A r \in Stripe(w) : plane[r] = "before"
  /\ Sweeping(w) =>
       /\ y[w] \in YStart(w)..YEnd(w)
       /\ \A r \in Stripe(w) : plane[r] = IF r < y[w] THEN "sharp" ELSE "before"
       /\ y[w] < YEnd(w) => rows[w].up = Above(y[w]) /\ rows[w].mid = y[w]
  /\ wpc[w] = "combine" => y[w] < YEnd(w) /\ rows[w].dn = Below(y[w])
  /\ wpc[w] = "finished" => \A r \in Stripe(w) : plane[r] = "sharp"

SweepInv == pc # "idle" => \A w \in Workers : StripeInv(w)

IInv == Typed /\ FewEnough /\ CallerInv /\ SweepInv /\ FrameSharpened

-----------------------------------------------------------------------------
(* Arithmetic of the stripes.                                              *)

\* YStart, as the two inequalities that define it.
LEMMA StartIs ==
  ASSUME Typed, n > 0, NEW w \in Nat
  PROVE  /\ YStart(w) \in Nat /\ n * YStart(w) \in Nat /\ w * height \in Nat
         /\ n * YStart(w) <= w * height
         /\ w * height < n * YStart(w) + n
<1>1. w * height \in Nat /\ n \in Nat \ {0}
  BY DEF Typed
<1>2. YStart(w) \in Nat
  BY <1>1, Division DEF YStart
<1>3. n * YStart(w) \in Nat
  BY <1>1, <1>2
<1>4. QED
  BY <1>1, <1>2, <1>3, Division DEF YStart

\* The end of a stripe is the start of the next, the last one's the height.
LEMMA EndIs ==
  ASSUME Typed, NEW w \in Workers
  PROVE  /\ n > 0 /\ w \in Nat /\ w + 1 \in Nat /\ w + 1 <= n
         /\ YEnd(w) = YStart(w + 1)
         /\ w = n - 1 => YEnd(w) = height
<1>1. n \in Nat \ {0} /\ w \in 0..n - 1 /\ height \in Nat
  BY DEF Typed, Workers
<1>2. CASE w = n - 1
  <2>1. w + 1 = n
    BY <1>1, <1>2
  <2>2. (n * height) \div n = height
    BY <1>1
  <2>3. QED
    BY <1>1, <1>2, <2>1, <2>2 DEF YStart, YEnd
<1>3. CASE w # n - 1
  BY <1>1, <1>3 DEF YStart, YEnd
<1>4. QED
  BY <1>2, <1>3

\* Later stripes start no higher.
LEMMA StartMonotonic ==
  ASSUME Typed, n > 0, NEW v \in Nat, NEW w \in Nat, v <= w
  PROVE  YStart(v) <= YStart(w)
<1>1. v * height <= w * height
  BY DEF Typed
<1>2. /\ {YStart(v), n * YStart(v), v * height} \subseteq Nat
      /\ n * YStart(v) <= v * height
  BY StartIs
<1>3. /\ {YStart(w), n * YStart(w), w * height} \subseteq Nat
      /\ w * height < n * YStart(w) + n
  BY StartIs
<1>4. n \in Nat \ {0}
  BY DEF Typed
<1>5. n * YStart(v) < n * YStart(w) + n
  BY <1>1, <1>2, <1>3, <1>4
<1>6. QED
  BY <1>2, <1>3, <1>4, <1>5, QuotientLe

\* A stripe lies in the plane.
LEMMA StripeBounds ==
  ASSUME Typed, NEW w \in Workers
  PROVE  /\ YStart(w) \in Nat /\ YEnd(w) \in Nat
         /\ YStart(w) <= YEnd(w) /\ YEnd(w) <= height
<1>1. n - 1 \in Workers /\ w <= n - 1
  BY EndIs DEF Workers, Typed
<1>2. YEnd(n - 1) = height /\ YEnd(n - 1) = YStart(n - 1 + 1)
  BY <1>1, EndIs
<1>3. YStart(w) <= YStart(w + 1) /\ YStart(w + 1) <= YStart(n - 1 + 1)
  BY <1>1, EndIs, StartMonotonic DEF Typed
<1>4. QED
  BY <1>2, <1>3, EndIs, StartIs

\* No row is in two stripes.
LEMMA StripesDisjoint ==
  ASSUME Typed, NEW v \in Workers, NEW w \in Workers, v # w, NEW r \in Stripe(v)
  PROVE  r \notin Stripe(w)
<1>1. \A a, b \in Workers : a < b => YEnd(a) <= YStart(b)
  <2>1. SUFFICES ASSUME NEW a \in Workers, NEW b \in Workers, a < b
                 PROVE  YEnd(a) <= YStart(b)
    OBVIOUS
  <2>2. a + 1 <= b /\ b \in Nat
    BY <2>1, EndIs DEF Typed, Workers
  <2>3. QED
    BY <2>2, EndIs, StartMonotonic
<1>2. v < w \/ w < v
  BY DEF Typed, Workers
<1>3. QED
  BY <1>1, <1>2, StripeBounds DEF Stripe

\* Every row is in some stripe: in that of the largest worker that starts
\* no later than the row.
LEMMA StripesCover ==
  ASSUME Typed, n > 0, NEW r \in Rows
  PROVE  \E w \in Workers : r \in Stripe(w)
<1> DEFINE a == (r + 1) * n - 1
           w == a \div height
<1>1. /\ r \in Nat /\ r + 1 <= height /\ n \in Nat \ {0} /\ height \in Nat \ {0}
      /\ a \in Nat /\ a = n * r + n - 1 /\ n * (r + 1) = a + 1 /\ n * r \in Nat
  <2>1. r \in Nat /\ r + 1 <= height /\ n \in Nat \ {0} /\ height \in Nat \ {0}
    BY DEF Typed, Rows
  <2>2. n * r \in Nat /\ (r + 1) * n = n * r + n /\ n * (r + 1) = n * r + n
    BY <2>1
  <2>3. QED
    BY <2>1, <2>2
<1>2. w \in Nat /\ height * w <= a /\ a < height * w + height
  BY <1>1, Division
<1> HIDE DEF w
<1>3. w \in Workers
  <2>1. a < height * n
    BY <1>1
  <2>2. w < n
    BY <1>1, <1>2, <2>1
  <2>3. QED
    BY <1>1, <1>2, <2>2 DEF Workers
<1>4. YStart(w) <= r
  <2>1. /\ {YStart(w), n * YStart(w), w * height} \subseteq Nat
        /\ n * YStart(w) <= w * height
    BY <1>2, StartIs
  <2>2. w * height <= a
    BY <1>1, <1>2
  <2>3. n * YStart(w) < n * r + n
    BY <1>1, <2>1, <2>2
  <2>4. QED
    BY <1>1, <2>1, <2>3, QuotientLe
<1>5. r + 1 <= YStart(w + 1)
  <2>1. /\ {YStart(w + 1), n * YStart(w + 1), (w + 1) * height} \subseteq Nat
        /\ (w + 1) * height < n * YStart(w + 1) + n
    BY <1>2, StartIs
  <2>2. a < (w + 1) * height
    BY <1>1, <1>2
  <2>3. n * (r + 1) < n * YStart(w + 1) + n
    BY <1>1, <2>1, <2>2
  <2>4. QED
    BY <1>1, <2>1, <2>3, QuotientLe
<1>6. QED
  BY <1>1, <1>3, <1>4, <1>5, EndIs, StripeBounds DEF Stripe

\* As many stripes as usm_pool_resolve_threads grants are high enough.
LEMMA StripeHeight ==
  ASSUME Typed, FewEnough, NEW w \in Workers
  PROVE  YEnd(w) - YStart(w) >= Min({Least, height})
<1>1. /\ Least \in Nat /\ height \in Nat /\ n \in Nat \ {0} /\ w \in Nat /\ w + 1 \in Nat
      /\ pref \in Nat /\ n <= pref
  BY UsmAssumption, EndIs DEF Typed, Least
<1>2. Least \in Int /\ height \in Int
  BY <1>1
<1>3. /\ Min({Least, height}) \in {Least, height}
      /\ Min({Least, height}) <= Least /\ Min({Least, height}) <= height
  BY <1>2, MinOfTwo, Zenon
<1> DEFINE m == Min({Least, height})
<1>4. m \in Int /\ m <= Least /\ m <= height
  BY <1>2, <1>3
<1> HIDE DEF m
<1>5. /\ {YStart(w), n * YStart(w), w * height} \subseteq Nat
      /\ n * YStart(w) <= w * height
  BY <1>1, StartIs
<1>6. CASE n = 1
  <2>1. w = 0 /\ YEnd(w) = height
    BY <1>1, <1>6, EndIs DEF Workers
  <2>2. YStart(w) = 0
    BY <1>1, <1>5, <1>6, <2>1
  <2>3. YEnd(w) - YStart(w) >= m
    BY <1>1, <1>4, <2>1, <2>2
  <2>4. QED
    BY <2>3 DEF m
<1>7. CASE n > 1
  <2>1. n * Least <= height /\ n * Least \in Nat
    <3>1. pref * Least <= height
      BY <1>1, <1>7 DEF FewEnough
    <3>2. n * Least <= pref * Least
      BY <1>1
    <3>3. QED
      BY <1>1, <3>1, <3>2
  <2>2. /\ {YStart(w + 1), n * YStart(w + 1), (w + 1) * height} \subseteq Nat
        /\ (w + 1) * height < n * YStart(w + 1) + n
    <3>1. n > 0 /\ w + 1 \in Nat
      BY <1>1
    <3>2. /\ YStart(w + 1) \in Nat /\ n * YStart(w + 1) \in Nat /\ (w + 1) * height \in Nat
          /\ (w + 1) * height < n * YStart(w + 1) + n
      BY <3>1, StartIs, Zenon
    <3>3. QED
      BY <3>2
  <2>3. n * (YStart(w) + Least) < n * YStart(w + 1) + n
    <3>1. n * (YStart(w) + Least) = n * YStart(w) + n * Least
      BY <1>1, <1>5
    <3>2. (w + 1) * height = w * height + height
      BY <1>1
    <3>3. QED
      BY <1>1, <1>5, <2>1, <2>2, <3>1, <3>2
  <2>4. YStart(w) + Least <= YStart(w + 1)
    <3>1. YStart(w) + Least \in Int /\ YStart(w + 1) \in Int
      BY <1>1, <1>5, <2>2
    <3>2. QED
      BY <1>1, <2>3, <3>1, QuotientLe
  <2>5. YEnd(w) = YStart(w + 1)
    BY EndIs
  <2>6. YEnd(w) - YStart(w) >= m
    BY <1>1, <1>4, <1>5, <2>2, <2>4, <2>5
  <2>7. QED
    BY <2>6 DEF m
<1>8. QED
  BY <1>1, <1>6, <1>7

-----------------------------------------------------------------------------
(* How many workers there may be.                                          *)

\* up_threads_decide answers a positive number.
LEMMA DecidedCount ==
  ASSUME NEW p \in Int, NEW cores \in Int
  PROVE  ThreadsDecide(p, cores) \in Nat \ {0}
<1> DEFINE known  == Max({cores, 1})
           auto   == Min({Max({known \div 2 - 2, 1}), ThreadsAutoMax})
           wanted == IF p <= 0 THEN auto ELSE p
<1>0. 1 \in Int /\ ThreadsMax \in Int /\ ThreadsAutoMax \in Int
  BY ThreadsAssumption
<1>1. known \in Int
  BY MaxOfTwo
<1> HIDE DEF known
<1>2. known \div 2 - 2 \in Int
  BY <1>1
<1>3. Max({known \div 2 - 2, 1}) \in Int
  <2>1. Max({known \div 2 - 2, 1}) \in {known \div 2 - 2, 1}
    BY <1>0, <1>2, MaxOfTwo, Zenon
  <2>2. QED
    BY <1>2, <2>1
<1>4. auto \in Int
  <2>1. auto \in {Max({known \div 2 - 2, 1}), ThreadsAutoMax}
    BY <1>0, <1>3, MinOfTwo, Zenon
  <2>2. QED
    BY <1>0, <1>3, <2>1
<1>5. wanted \in Int
  BY <1>4
<1> HIDE DEF auto, wanted
<1>6. Min({wanted, known, ThreadsMax}) \in Int
  <2>1. Min({wanted, known, ThreadsMax}) \in {wanted, known, ThreadsMax}
    BY <1>0, <1>1, <1>5, MinOfThree, Zenon
  <2>2. QED
    BY <1>0, <1>1, <1>5, <2>1
<1>7. Max({Min({wanted, known, ThreadsMax}), 1}) \in Nat \ {0}
  <2>1. /\ Max({Min({wanted, known, ThreadsMax}), 1}) \in {Min({wanted, known, ThreadsMax}), 1}
        /\ Max({Min({wanted, known, ThreadsMax}), 1}) >= 1
    BY <1>0, <1>6, MaxOfTwo, Zenon
  <2>2. QED
    BY <1>6, <2>1
<1>8. QED
  BY <1>7 DEF ThreadsDecide, known, auto, wanted

\* So does up_usm_threads_decide.
LEMMA UsmDecidedCount ==
  ASSUME NEW user \in Int, NEW cores \in Int, NEW w \in Nat, NEW h \in Nat
  PROVE  UsmThreadsDecide(user, cores, w, h) \in Nat \ {0}
<1> DEFINE fitting == {i \in DOMAIN Tiers : w * h <= Tiers[i].pixels}
           p == IF user > 0 THEN user
                ELSE IF fitting = {} THEN LargeThreads ELSE Tiers[Min(fitting)].threads
<1>1. DOMAIN Tiers \subseteq Nat /\ \A i \in DOMAIN Tiers : Tiers[i].threads \in Int
  <2>1. Tiers \in Seq([pixels : Nat, threads : Nat \ {0}])
    BY UsmAssumption
  <2>2. DOMAIN Tiers = 1..Len(Tiers) /\ Len(Tiers) \in Nat
    BY <2>1
  <2>3. \A i \in 1..Len(Tiers) : Tiers[i] \in [pixels : Nat, threads : Nat \ {0}]
    BY <2>1, ElementOfSeq, Zenon
  <2>4. QED
    BY <2>2, <2>3
<1>2. fitting \in SUBSET Nat /\ fitting \subseteq DOMAIN Tiers
  BY <1>1
<1>3. fitting # {} => Min(fitting) \in DOMAIN Tiers
  BY <1>2, MinInSet
<1>4. p \in Int
  BY <1>1, <1>3, UsmAssumption
<1>5. ThreadsDecide(p, cores) \in Nat \ {0}
  BY <1>4, DecidedCount
<1>6. QED
  BY <1>5 DEF UsmThreadsDecide

\* usm_pool_resolve_threads grants one stripe, or as many as are high enough.
LEMMA ResolvedCount ==
  ASSUME NEW t \in Nat \ {0}, NEW h \in Nat \ {0}, NEW min \in Nat
  PROVE  LET least == IF min <= 0 THEN StripeMinRows ELSE min
             r == ResolveThreads(t, h, min)
         IN  r \in Nat /\ (r = 1 \/ r * least <= h)
<1> DEFINE least == IF min <= 0 THEN StripeMinRows ELSE min
           q == h \div least
           most == Max({q, 1})
           r == Min({t, ThreadsMax, most})
<1>1. least \in Nat \ {0}
  BY UsmAssumption
<1> HIDE DEF least
<1>2. q \in Nat /\ least * q <= h
  BY <1>1, Division
<1> HIDE DEF q
<1>0. {1, q, t, ThreadsMax} \subseteq Int
  BY <1>2, ThreadsAssumption
<1>3. most \in {q, 1} /\ most >= 1 /\ most \in Int
  <2>1. 1 \in Int /\ q \in Int
    BY <1>0
  <2>2. most \in {q, 1} /\ most >= 1
    BY <2>1, MaxOfTwo, Zenon
  <2>3. QED
    BY <1>0, <2>2
<1> HIDE DEF most
<1>4. r \in {t, ThreadsMax, most} /\ r <= most
  <2>1. t \in Int /\ ThreadsMax \in Int /\ most \in Int
    BY <1>0, <1>3
  <2>2. QED
    BY <2>1, MinOfThree, Zenon
<1>5. r \in Nat \ {0} /\ r <= most
  BY <1>3, <1>4, ThreadsAssumption
<1> HIDE DEF r
<1>6. r = 1 \/ r * least <= h
  <2>1. CASE most = 1
    BY <1>5, <2>1
  <2>2. CASE most = q
    <3>1. r * least <= q * least
      BY <1>1, <1>2, <1>5, <2>2
    <3>2. q * least = least * q /\ r * least \in Nat /\ least * q \in Nat
      BY <1>1, <1>2, <1>5
    <3>3. QED
      BY <1>2, <3>1, <3>2
  <2>3. QED
    BY <1>3, <2>1, <2>2
<1>7. QED
  BY <1>5, <1>6 DEF ResolveThreads, r, most, q, least

-----------------------------------------------------------------------------
(* The inductive invariant.                                                *)

\* A new pool has no worker, and asks for no more than are high enough.
LEMMA InitIInv == Init => IInv
<1> SUFFICES ASSUME Init PROVE IInv
  OBVIOUS
<1>1. /\ height \in Nat \ {0} /\ minRows \in Nat /\ n = 0
      /\ lazy = "fresh" /\ broken = FALSE /\ pc = "idle" /\ inPlace = FALSE
      /\ plane = Untouched /\ result = "none"
  BY UsmAssumption DEF Init
<1>2. PICK user \in Prefs, cores \in Cores, width \in Widths :
        pref = ResolveThreads(UsmThreadsDecide(user, cores, width, height), height, minRows)
  BY DEF Init
<1>3. user \in Int /\ cores \in Int /\ width \in Nat /\ height \in Nat
  BY <1>1, UsmAssumption
<1>4. UsmThreadsDecide(user, cores, width, height) \in Nat \ {0}
  BY <1>3, UsmDecidedCount, Zenon
<1>5. pref \in Nat /\ FewEnough
  BY <1>1, <1>2, <1>4, ResolvedCount DEF FewEnough, Least
<1>6. Typed
  <2>1. plane \in [Rows -> Contents]
    BY <1>1 DEF Untouched, Contents
  <2>2. n \in Nat /\ n <= pref /\ ~(n > 0)
    BY <1>1, <1>5
  <2>3. /\ lazy \in {"fresh", "started", "failed"} /\ lazy # "started"
        /\ broken \in BOOLEAN /\ inPlace \in BOOLEAN
        /\ pc \in {"idle", "wait", "join"}
        /\ result \in {"none", "ok", "unchanged", "uncertain"}
    BY <1>1
  <2>4. QED
    BY <1>1, <1>5, <2>1, <2>2, <2>3, Zenon DEF Typed
<1>7. Workers = {}
  BY <1>1 DEF Workers
<1>8. CallerInv /\ SweepInv /\ FrameSharpened
  BY <1>1, <1>7 DEF CallerInv, SweepInv, FrameSharpened
<1>9. QED
  BY <1>5, <1>6, <1>8 DEF IInv

\* Every step keeps the variables in their types.
LEMMA TypedStep == Typed /\ CallerInv /\ [Next]_vars => Typed'
<1> SUFFICES ASSUME Typed, CallerInv, [Next]_vars PROVE Typed'
  OBVIOUS
<1> USE DEF Typed, Rows, Workers, Contents, WorkerPCs
<1>1. CASE ApplyRefused \/ StartFails
  BY <1>1 DEF ApplyRefused, StartFails, Untouched
<1>2. ASSUME NEW same \in BOOLEAN, ApplyIdentity(same) PROVE Typed'
  BY <1>2 DEF ApplyIdentity
<1>3. ASSUME NEW same \in BOOLEAN, Apply(same) PROVE Typed'
  <2>1. \A w \in Workers : YStart(w) \in Nat /\ YEnd(w) \in Nat
    BY StripeBounds
  <2>2. halo' \in [Workers -> [top : Lines, bot : Lines]]
    BY <1>3, <2>1 DEF Apply, SnapshotHalo, Lines, Null
  <2>3. QED
    BY <1>3, <2>2 DEF Apply, Untouched
<1>4. ASSUME NEW created \in 1..pref, Start(created) PROVE Typed'
  BY <1>4 DEF Start, Lines
<1>5. ASSUME NEW w \in Workers, WorkerStep(w) PROVE Typed'
  <2>1. /\ wpc \in [Workers -> WorkerPCs] /\ y \in [Workers -> Nat] /\ n > 0
        /\ rows \in [Workers -> [up : Lines, mid : Lines, dn : Lines]]
        /\ YStart(w) \in Nat
    <3>1. n > 0
      BY EndIs
    <3>2. YStart(w) \in Nat
      BY StripeBounds
    <3>3. QED
      BY <3>1, <3>2
  <2>2. \A r : r \in Nat => PlaneRow(r) \in Lines
    BY DEF PlaneRow, Lines
  <2>3. \A r : r \in Nat => SrcRow(w, r) \in Lines
    BY <2>1, <2>2 DEF SrcRow
  <2>4. \A r : r \in Nat => Above(r) \in Nat /\ Below(r) \in Nat
    BY DEF Above, Below
  <2>5. CASE BlurFirst(w)
    BY <2>1, <2>3, <2>4, <2>5 DEF BlurFirst
  <2>6. CASE BlurBelow(w)
    BY <2>1, <2>3, <2>4, <2>6 DEF BlurBelow
  <2>7. CASE Combine(w)
    <3>1. wpc' \in [Workers -> WorkerPCs] /\ y' \in [Workers -> Nat]
      BY <2>1, <2>7 DEF Combine
    <3>2. \E c \in {"sharp", "spoiled"} : plane' = [plane EXCEPT ![y[w]] = c]
      BY <2>7 DEF Combine
    <3>3. plane' \in [Rows -> Contents]
      BY <3>2
    <3>4. rows' \in [Workers -> [up : Lines, mid : Lines, dn : Lines]]
      BY <2>1, <2>7 DEF Combine
    <3>5. QED
      BY <2>1, <2>7, <3>1, <3>3, <3>4 DEF Combine
  <2>8. CASE Finish(w) \/ Leave(w)
    BY <2>1, <2>8 DEF Finish, Leave
  <2>9. QED
    BY <1>5, <2>5, <2>6, <2>7, <2>8 DEF WorkerStep
<1>6. CASE Delivered \/ BarrierFails \/ Joined
  BY <1>6 DEF Delivered, BarrierFails, Joined
<1>7. CASE UNCHANGED vars
  BY <1>7 DEF vars
<1>8. QED
  BY <1>1, <1>2, <1>3, <1>4, <1>5, <1>6, <1>7 DEF Next

\* Nothing changes the size of the pool's plane or its limits.
LEMMA FewEnoughStep == FewEnough /\ [Next]_vars => FewEnough'
<1> SUFFICES ASSUME [Next]_vars PROVE pref' = pref /\ height' = height /\ minRows' = minRows
  BY DEF FewEnough, Least
<1>1. \A w \in Workers : WorkerStep(w) => UNCHANGED pool
  BY DEF WorkerStep, BlurFirst, BlurBelow, Combine, Finish, Leave
<1>2. QED
  BY <1>1 DEF Next, vars, ApplyRefused, StartFails, ApplyIdentity, Apply, Start,
              Delivered, BarrierFails, Joined

\* A worker moves only during a pass.
LEMMA StepInPass ==
  ASSUME Typed, CallerInv, NEW w \in Workers, WorkerStep(w)
  PROVE  /\ pc # "idle" /\ n > 0
         /\ pc' = pc /\ height' = height /\ n' = n /\ inPlace' = inPlace
         /\ halo' = halo /\ result' = result
<1>1. wpc[w] \in {"armed", "blur", "combine"}
  BY DEF WorkerStep, BlurFirst, BlurBelow, Combine, Finish, Leave
<1>2. pc # "idle" /\ n > 0
  BY <1>1 DEF CallerInv
<1>3. QED
  BY <1>2 DEF WorkerStep, BlurFirst, BlurBelow, Combine, Finish, Leave

\* A pass begins with the workers armed and the halo kept, and ends when
\* none of them sweeps.
LEMMA CallerStep == Typed /\ CallerInv /\ [Next]_vars => CallerInv'
<1> SUFFICES ASSUME Typed, CallerInv, [Next]_vars PROVE CallerInv'
  OBVIOUS
<1> USE DEF Workers
<1>1. CASE ApplyRefused \/ StartFails
  BY <1>1 DEF ApplyRefused, StartFails, CallerInv
<1>2. ASSUME NEW same \in BOOLEAN, ApplyIdentity(same) PROVE CallerInv'
  BY <1>2 DEF ApplyIdentity, CallerInv
<1>3. ASSUME NEW same \in BOOLEAN, Apply(same) PROVE CallerInv'
  BY <1>3 DEF Apply, CallerInv, Typed, SnapshotHalo, YStart, YEnd
<1>4. ASSUME NEW created \in 1..pref, Start(created) PROVE CallerInv'
  BY <1>4 DEF Start, CallerInv
<1>5. ASSUME NEW w \in Workers, WorkerStep(w) PROVE CallerInv'
  BY <1>5, StepInPass DEF CallerInv, SnapshotHalo, YStart, YEnd
<1>6. CASE Delivered \/ Joined
  BY <1>6 DEF Delivered, Joined, CallerInv
<1>7. CASE BarrierFails
  BY <1>7 DEF BarrierFails, CallerInv, SnapshotHalo, YStart, YEnd
<1>8. CASE UNCHANGED vars
  BY <1>8 DEF vars, CallerInv, SnapshotHalo, YStart, YEnd
<1>9. QED
  BY <1>1, <1>2, <1>3, <1>4, <1>5, <1>6, <1>7, <1>8 DEF Next

\* A row that is still as it was, or is next to the stripe, is read as it was.
LEMMA SourceRow ==
  ASSUME Typed, CallerInv, pc # "idle", NEW w \in Workers, NEW r \in Nat,
         \/ r \in Stripe(w) /\ plane[r] = "before"
         \/ r = YStart(w) - 1
         \/ r = YEnd(w) /\ r < height
  PROVE  SrcRow(w, r) = r
<1>1. /\ YStart(w) \in Nat /\ YEnd(w) \in Nat /\ YStart(w) <= YEnd(w)
      /\ halo[w] = IF inPlace THEN SnapshotHalo(w) ELSE [top |-> Null, bot |-> Null]
  BY StripeBounds DEF CallerInv
<1>2. CASE ~inPlace
  BY <1>1, <1>2 DEF SrcRow, PlaneRow
<1>3. CASE inPlace
  <2>1. /\ halo[w].top = IF YStart(w) > 0 THEN YStart(w) - 1 ELSE Null
        /\ halo[w].bot = IF YEnd(w) < height THEN YEnd(w) ELSE Null
    BY <1>1, <1>3 DEF SnapshotHalo
  <2>2. QED
    BY <1>1, <2>1 DEF SrcRow, PlaneRow, Null, Stripe
<1>4. QED
  BY <1>2, <1>3

\* A worker writes only rows of its own stripe.
LEMMA OtherStripe ==
  ASSUME Typed, CallerInv, SweepInv, NEW v \in Workers, NEW w \in Workers, v # w,
         WorkerStep(v)
  PROVE  StripeInv(w)'
<1>1. /\ pc # "idle" /\ n > 0 /\ StripeInv(w) /\ StripeInv(v)
      /\ Stripe(w)' = Stripe(w) /\ YStart(w)' = YStart(w) /\ YEnd(w)' = YEnd(w)
      /\ height' = height
  BY StepInPass DEF SweepInv, Stripe, YStart, YEnd
<1>2. wpc'[w] = wpc[w] /\ y'[w] = y[w] /\ rows'[w] = rows[w]
  BY <1>1 DEF Typed, WorkerStep, BlurFirst, BlurBelow, Combine, Finish, Leave
<1>3. \A r \in Stripe(w) : plane'[r] = plane[r]
  <2>1. CASE Combine(v)
    <3>1. y[v] \in Stripe(v)
      BY <1>1, <2>1, StripeBounds DEF Combine, StripeInv, Sweeping, Stripe
    <3>2. \A r \in Stripe(w) : r # y[v]
      BY <3>1, StripesDisjoint
    <3>3. \E c \in {"sharp", "spoiled"} : plane' = [plane EXCEPT ![y[v]] = c]
      BY <2>1 DEF Combine
    <3>4. \A r \in Stripe(w) : r \in Rows
      BY StripeBounds DEF Stripe, Rows, Typed
    <3>5. QED
      BY <3>2, <3>3, <3>4 DEF Typed
  <2>2. CASE ~Combine(v)
    BY <2>2 DEF WorkerStep, BlurFirst, BlurBelow, Finish, Leave
  <2>3. QED
    BY <2>1, <2>2
<1>4. QED
  BY <1>1, <1>2, <1>3 DEF StripeInv, Sweeping, Above, Below

\* A worker keeps its own stripe in order.
LEMMA OwnStripe ==
  ASSUME Typed, CallerInv, SweepInv, NEW w \in Workers, WorkerStep(w)
  PROVE  StripeInv(w)'
<1>1. /\ pc # "idle" /\ n > 0 /\ StripeInv(w) /\ height' = height
      /\ Stripe(w)' = Stripe(w) /\ YStart(w)' = YStart(w) /\ YEnd(w)' = YEnd(w)
  BY StepInPass DEF SweepInv, Stripe, YStart, YEnd
<1>2. /\ YStart(w) \in Nat /\ YEnd(w) \in Nat /\ YStart(w) <= YEnd(w) /\ YEnd(w) <= height
      /\ height \in Nat \ {0}
  BY StripeBounds DEF Typed
<1>3. /\ wpc \in [Workers -> WorkerPCs] /\ y \in [Workers -> Nat]
      /\ rows \in [Workers -> [up : Lines, mid : Lines, dn : Lines]]
      /\ plane \in [Rows -> Contents]
  BY <1>1 DEF Typed
<1>4. CASE BlurFirst(w)
  <2>1. \A r \in Stripe(w) : plane[r] = "before"
    BY <1>1, <1>4 DEF BlurFirst, StripeInv
  <2>2. /\ wpc'[w] = "blur" /\ y'[w] = YStart(w) /\ plane' = plane
        /\ rows'[w].up = SrcRow(w, Above(YStart(w))) /\ rows'[w].mid = SrcRow(w, YStart(w))
    BY <1>3, <1>4 DEF BlurFirst
  <2>3. YStart(w) < YEnd(w) => /\ SrcRow(w, Above(YStart(w))) = Above(YStart(w))
                               /\ SrcRow(w, YStart(w)) = YStart(w)
    <3>1. SUFFICES ASSUME YStart(w) < YEnd(w)
                   PROVE  /\ SrcRow(w, Above(YStart(w))) = Above(YStart(w))
                          /\ SrcRow(w, YStart(w)) = YStart(w)
      OBVIOUS
    <3>2. YStart(w) \in Stripe(w) /\ plane[YStart(w)] = "before"
      BY <1>2, <2>1, <3>1 DEF Stripe
    <3>3. /\ Above(YStart(w)) \in Nat
          /\ Above(YStart(w)) = YStart(w) - 1 \/ Above(YStart(w)) = YStart(w)
      BY <1>2 DEF Above
    <3>4. QED
      BY <1>1, <1>2, <3>2, <3>3, SourceRow
  <2>4. QED
    BY <1>1, <1>2, <2>1, <2>2, <2>3 DEF StripeInv, Sweeping, Stripe, Above, Below
<1>5. CASE BlurBelow(w)
  <2>1. /\ wpc[w] = "blur" /\ y[w] < YEnd(w) /\ y[w] \in YStart(w)..YEnd(w)
        /\ \A r \in Stripe(w) : plane[r] = IF r < y[w] THEN "sharp" ELSE "before"
        /\ rows[w].up = Above(y[w]) /\ rows[w].mid = y[w]
    BY <1>1, <1>5 DEF BlurBelow, StripeInv, Sweeping
  <2>2. /\ wpc'[w] = "combine" /\ y' = y /\ plane' = plane
        /\ rows'[w].up = rows[w].up /\ rows'[w].mid = rows[w].mid
        /\ rows'[w].dn = SrcRow(w, Below(y[w]))
    BY <1>3, <1>5 DEF BlurBelow
  <2>3. SrcRow(w, Below(y[w])) = Below(y[w])
    <3>1. Below(y[w]) \in Nat
      BY <1>2, <2>1 DEF Below
    <3>2. \/ Below(y[w]) \in Stripe(w) /\ plane[Below(y[w])] = "before"
          \/ Below(y[w]) = YEnd(w) /\ Below(y[w]) < height
      BY <1>2, <2>1 DEF Below, Stripe
    <3>3. QED
      BY <1>1, <3>1, <3>2, SourceRow
  <2>4. QED
    BY <1>1, <1>2, <2>1, <2>2, <2>3 DEF StripeInv, Sweeping, Above, Below
<1>6. CASE Combine(w)
  <2>1. /\ wpc[w] = "combine" /\ y[w] < YEnd(w) /\ y[w] \in YStart(w)..YEnd(w)
        /\ \A r \in Stripe(w) : plane[r] = IF r < y[w] THEN "sharp" ELSE "before"
        /\ rows[w].up = Above(y[w]) /\ rows[w].mid = y[w] /\ rows[w].dn = Below(y[w])
    BY <1>1, <1>6 DEF Combine, StripeInv, Sweeping
  <2>2. y[w] \in Stripe(w) /\ y[w] \in Rows /\ PlaneRow(y[w]) = y[w]
    BY <1>2, <2>1 DEF Stripe, Rows, PlaneRow
  <2>3. rows[w] = [up |-> Above(y[w]), mid |-> y[w], dn |-> Below(y[w])]
    BY <1>3, <2>1
  <2>4. plane' = [plane EXCEPT ![y[w]] = "sharp"]
    BY <1>6, <2>2, <2>3 DEF Combine
  <2>5. /\ wpc'[w] = "blur" /\ y'[w] = y[w] + 1
        /\ rows'[w].up = y[w] /\ rows'[w].mid = Below(y[w])
    BY <1>3, <1>6, <2>1 DEF Combine
  <2>6. \A r \in Stripe(w) : plane'[r] = IF r < y[w] + 1 THEN "sharp" ELSE "before"
    BY <1>2, <1>3, <2>1, <2>2, <2>4 DEF Stripe, Rows
  <2>7. y[w] + 1 < YEnd(w) => Above(y[w] + 1) = y[w] /\ Below(y[w]) = y[w] + 1
    BY <1>2, <2>1 DEF Above, Below
  <2>8. QED
    BY <1>1, <1>2, <2>1, <2>5, <2>6, <2>7 DEF StripeInv, Sweeping, Above, Below
<1>7. CASE Finish(w) \/ Leave(w)
  <2>1. /\ plane' = plane /\ y' = y /\ rows' = rows
        /\ \/ wpc[w] = "blur" /\ wpc'[w] = "finished" /\ y[w] = YEnd(w)
           \/ wpc[w] = "armed" /\ wpc'[w] = "gone"
    BY <1>3, <1>7 DEF Finish, Leave
  <2>2. QED
    BY <1>1, <1>2, <2>1 DEF StripeInv, Sweeping, Stripe
<1>8. QED
  BY <1>4, <1>5, <1>6, <1>7 DEF WorkerStep

\* The sweeps stay in order through every step.
LEMMA SweepStep == Typed /\ CallerInv /\ SweepInv /\ [Next]_vars => SweepInv'
<1> SUFFICES ASSUME Typed, CallerInv, SweepInv, [Next]_vars PROVE SweepInv'
  OBVIOUS
<1>1. CASE ApplyRefused \/ StartFails \/ Delivered \/ Joined
  BY <1>1 DEF ApplyRefused, StartFails, Delivered, Joined, SweepInv
<1>2. ASSUME NEW same \in BOOLEAN, ApplyIdentity(same) PROVE SweepInv'
  BY <1>2 DEF ApplyIdentity, SweepInv
<1>3. ASSUME NEW same \in BOOLEAN, Apply(same) PROVE SweepInv'
  <2>1. /\ plane' = Untouched /\ Workers' = Workers
        /\ \A w \in Workers : wpc'[w] = "armed" /\ Stripe(w)' = Stripe(w)
    BY <1>3 DEF Apply, Workers, Stripe, YStart, YEnd
  <2>2. \A w \in Workers : \A r \in Stripe(w) : r \in Rows
    BY StripeBounds DEF Stripe, Rows, Typed
  <2>3. \A w \in Workers : StripeInv(w)'
    BY <2>1, <2>2 DEF StripeInv, Sweeping, Untouched
  <2>4. QED
    BY <2>1, <2>3 DEF SweepInv
<1>4. ASSUME NEW created \in 1..pref, Start(created) PROVE SweepInv'
  BY <1>4 DEF Start, SweepInv
<1>5. ASSUME NEW v \in Workers, WorkerStep(v) PROVE SweepInv'
  <2>1. \A w \in Workers : StripeInv(w)'
    BY <1>5, OwnStripe, OtherStripe
  <2>2. Workers' = Workers
    BY <1>5, StepInPass DEF Workers
  <2>3. QED
    BY <2>1, <2>2 DEF SweepInv
<1>6. CASE BarrierFails \/ UNCHANGED vars
  <2>1. /\ pc' # "idle" => pc # "idle"
        /\ plane' = plane /\ wpc' = wpc /\ y' = y /\ rows' = rows
        /\ height' = height /\ n' = n
    BY <1>6 DEF BarrierFails, vars
  <2>2. \A w \in Workers : StripeInv(w) => StripeInv(w)'
    BY <2>1 DEF StripeInv, Sweeping, Stripe, YStart, YEnd, Above, Below
  <2>3. Workers' = Workers
    BY <2>1 DEF Workers
  <2>4. QED
    BY <2>1, <2>2, <2>3 DEF SweepInv
<1>7. QED
  BY <1>1, <1>2, <1>3, <1>4, <1>5, <1>6 DEF Next

\* A pass reports success when every worker has finished, so that every
\* stripe, and with them every row, is sharp.
LEMMA FrameSharpenedStep ==
  Typed /\ CallerInv /\ SweepInv /\ FrameSharpened /\ [Next]_vars => FrameSharpened'
<1> SUFFICES ASSUME Typed, CallerInv, SweepInv, FrameSharpened, [Next]_vars
             PROVE  FrameSharpened'
  OBVIOUS
<1>1. CASE ApplyRefused \/ StartFails
  BY <1>1 DEF ApplyRefused, StartFails, FrameSharpened, Untouched, Rows
<1>2. ASSUME NEW same \in BOOLEAN, ApplyIdentity(same) PROVE FrameSharpened'
  BY <1>2 DEF ApplyIdentity, FrameSharpened, Rows
<1>3. ASSUME NEW same \in BOOLEAN, Apply(same) PROVE FrameSharpened'
  BY <1>3 DEF Apply, FrameSharpened
<1>4. ASSUME NEW created \in 1..pref, Start(created) PROVE FrameSharpened'
  BY <1>4 DEF Start, FrameSharpened, Untouched, Rows
<1>5. ASSUME NEW w \in Workers, WorkerStep(w) PROVE FrameSharpened'
  BY <1>5, StepInPass DEF CallerInv, FrameSharpened
<1>6. CASE Delivered
  <2>1. /\ pc # "idle" /\ n > 0 /\ plane' = plane /\ height' = height /\ result' = "ok"
        /\ \A w \in Workers : wpc[w] = "finished" /\ StripeInv(w)
    BY <1>6 DEF Delivered, CallerInv, SweepInv
  <2>2. \A r \in Rows : plane[r] = "sharp"
    BY <2>1, StripesCover DEF StripeInv
  <2>3. QED
    BY <2>1, <2>2 DEF FrameSharpened, Rows
<1>7. CASE BarrierFails \/ Joined \/ UNCHANGED vars
  BY <1>7 DEF BarrierFails, Joined, vars, CallerInv, FrameSharpened, Untouched, Rows
<1>8. QED
  BY <1>1, <1>2, <1>3, <1>4, <1>5, <1>6, <1>7 DEF Next

-----------------------------------------------------------------------------
(* The theorems.                                                           *)

\* Every reachable state of a sharpening pool satisfies the conjunction.
THEOREM SweepsInOrder == Spec => []IInv
<1>1. Init => IInv
  BY InitIInv
<1>2. IInv /\ [Next]_vars => IInv'
  BY TypedStep, FewEnoughStep, CallerStep, SweepStep, FrameSharpenedStep DEF IInv
<1>3. QED
  BY <1>1, <1>2, PTL DEF Spec

\* Whatever the height of the plane, the number of workers and the order of
\* their reads and writes, in place or not, a pass that reports success has
\* sharpened every row from the three rows of the frame as it was, and one
\* that reports the frame unchanged has not touched it (usm_pool.c).
THEOREM PassSharpensFrame == Spec => []FrameSharpened
<1>1. IInv => FrameSharpened
  BY DEF IInv
<1>2. QED
  BY <1>1, SweepsInOrder, PTL

\* Whatever the options and the picture, no stripe of the workers that came
\* up is lower than the least height, unless the plane is.
THEOREM PassStripesHighEnough == Spec => []StripesHighEnough
<1>1. IInv => StripesHighEnough
  BY StripeHeight DEF IInv, StripesHighEnough, Least
<1>2. QED
  BY <1>1, SweepsInOrder, PTL
=============================================================================
