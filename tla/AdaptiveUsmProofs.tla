------------------------- MODULE AdaptiveUsmProofs --------------------------
(***************************************************************************)
(* The search for a number of workers and its two pools, proved for every  *)
(* limit, every window and every machine.                                  *)
(*                                                                         *)
(* The argument in two paragraphs.  Observing a time moves the tuner along *)
(* the phases and keeps the count in use a function of the phase (Moves,   *)
(* ObservedTuned).  The tuner owns a pool only while a count is on trial,  *)
(* and it is a pool of that count (OwnerInv): so a count that is adopted   *)
(* brings its own pool, and one that is not leaves none behind.  A pool    *)
(* that fails is either the trial pool, which is dropped before the frame  *)
(* ends while the filter's own is as it was, or the filter's own, which    *)
(* ends sharpening (FrameInv).                                             *)
(*                                                                         *)
(* On a steady machine a window holds what the count in use takes, and a   *)
(* disturbed frame sorts to one of its ends (Windowful), so the median is  *)
(* the time of that count.  The search therefore compares true times, and  *)
(* as its cursor passes every candidate but the best one                   *)
(* (NextCountSkipsNone), no candidate behind the cursor beats the best by  *)
(* five percent (Searched); when it settles, all are behind it.            *)
(***************************************************************************)
EXTENDS AdaptiveUsm, ArithmeticLemmas, SequenceTheorems, FiniteSetTheorems

Times == Costs \cup NoisyTimes \cup {Outlier}

Tuners == [limit : Nat, best : Nat, current : Nat, candidate : Nat, cursor : Nat,
           samples : Seq(Times), warmup : Nat, remaining : Nat, drift : Nat,
           base : Nat, trial : Nat, steady : Nat, phase : Phases]

\* A tuner between two windows: its counts are within the limit, and the count
\* in use follows from the phase.
Tuned(t) ==
  /\ t \in Tuners
  /\ t.limit \in 2..MaxLimit
  /\ t.best \in 1..t.limit /\ t.current \in 1..t.limit
  /\ t.candidate \in 0..t.limit /\ t.cursor \in 0..t.limit
  /\ t.warmup <= WarmupFrames /\ t.remaining <= RecheckFrames /\ t.drift <= 2
  /\ t.phase \in {"trial", "confirm"} => t.candidate \notin {0, t.best}
  /\ t.current = IF t.phase = "trial" THEN t.candidate ELSE t.best

TunerInv == Tuned(tuner) /\ Len(tuner.samples) < WindowSamples

PoolStates == [health : {"free", "fresh", "failed", "running", "broken"},
               asked : 0..MaxLimit, workers : 0..MaxLimit]
Works(p) == pool[p].health \in {"fresh", "running"}
OnTrial == tuner.phase \in {"trial", "confirm"}
Chosen == IF tuner.current = tuner.best THEN bestPool ELSE trial

\* Who owns what: the tuner has a pool only on trial, of the count on trial,
\* and one that has run before it is compared.
OwnerInv ==
  /\ pool \in [Pools -> PoolStates]
  /\ bestPool \in Pools \cup {None} /\ trial \in Pools \cup {None}
  /\ PoolsOwned
  /\ trial # None => enabled /\ OnTrial /\ pool[trial].asked = tuner.candidate
  /\ enabled => bestPool # None /\ pool[bestPool].asked = tuner.best
  /\ enabled /\ tuner.phase = "confirm" => trial # None /\ pool[trial].health = "running"
  /\ bestPool = None <=> pc = "off"

\* A frame: which pool sharpens it, and what its failure leaves behind.
FrameInv ==
  /\ enabled \in BOOLEAN /\ retained \in BOOLEAN /\ selected \in Pools \cup {None}
  /\ status \in {"ok", "failedUnchanged", "outputUncertain"}
  /\ pc \in {"idle", "select", "apply", "recover", "observe", "result", "off"}
  /\ pc \in {"select", "apply", "recover", "observe"} => ~retained /\ Works(bestPool)
  /\ pc = "select" => enabled /\ selected = bestPool
  /\ pc = "apply" => selected = IF enabled THEN Chosen ELSE bestPool
  /\ pc = "apply" => selected # None
  /\ pc = "recover" => status # "ok" /\ enabled /\ selected = trial /\ trial # None
  /\ pc = "observe" => /\ enabled /\ status = "ok"
                       /\ selected = Chosen /\ selected # None
                       /\ pool[selected].health = "running"
  /\ pc = "result" => IF status = "ok" \/ retained THEN Works(bestPool)
                      ELSE pool[bestPool].health \in {"failed", "broken"}

MachineInv == noisy \in BOOLEAN /\ cost \in [1..MaxLimit -> Costs]

IInv == TunerInv /\ OwnerInv /\ FrameInv /\ MachineInv

-----------------------------------------------------------------------------
(* The tuner.                                                              *)

\* up_tuner_next_count stays within the limit and goes up.
LEMMA NextCountBounds ==
  ASSUME NEW previous \in Nat, NEW limit \in Nat
  PROVE  /\ NextCount(previous, limit) \in 0..limit
         /\ NextCount(previous, limit) # 0 => NextCount(previous, limit) > previous
<1> DEFINE later == {c \in Counts : c > previous}
           S == later \cup {limit}
<1>1. CASE previous >= limit \/ later = {}
  BY <1>1 DEF NextCount
<1>2. CASE ~(previous >= limit \/ later = {})
  <2>1. S \in SUBSET Nat /\ S # {} /\ limit \in S /\ \A x \in S : x > previous
    BY <1>2 DEF Counts
  <2>2. NextCount(previous, limit) = Min(S)
    BY <1>2 DEF NextCount
  <2> HIDE DEF S
  <2>3. Min(S) \in S /\ \A x \in S : Min(S) <= x
    BY <2>1, MinInSet
  <2>4. Min(S) \in Nat /\ Min(S) <= limit /\ Min(S) > previous
    BY <2>1, <2>3
  <2>5. Min(S) \in 0..limit
    BY <2>4
  <2>6. QED
    BY <2>2, <2>4, <2>5
<1>3. QED
  BY <1>1, <1>2

\* How many elements of s come before x.
Below(s, x) == Cardinality({i \in DOMAIN s : s[i] <= x})

\* r is s with x after the first k elements.
Inserted(r, s, x, k) ==
  /\ k \in 0..Len(s)
  /\ r \in Seq(Times) /\ Len(r) = Len(s) + 1
  /\ \A i \in 1..k : r[i] = s[i]
  /\ r[k + 1] = x
  /\ \A i \in k + 1..Len(s) : r[i + 1] = s[i]

\* A number of indices, by where they lie.
LEMMA BelowBounds ==
  ASSUME NEW s \in Seq(Times), NEW x
  PROVE  /\ Below(s, x) \in 0..Len(s)
         /\ \A m \in 0..Len(s) :
              (\A i \in 1..Len(s) : s[i] <= x => i <= m) => Below(s, x) <= m
         /\ (\A i \in 1..Len(s) : s[i] <= x) => Below(s, x) = Len(s)
         /\ (\E i \in 1..Len(s) : s[i] <= x) => Below(s, x) >= 1
<1> DEFINE I == {i \in DOMAIN s : s[i] <= x}
           k == Cardinality(I)
           n == Len(s)
<1>1. n \in Nat /\ DOMAIN s = 1..n
  OBVIOUS
<1> HIDE DEF n
<1>2. \A m \in Nat : IsFiniteSet(1..m) /\ Cardinality(1..m) = m
  <2>1. \A m \in Nat : m \in Int /\ (IF 1 > m THEN 0 ELSE m - 1 + 1) = m
    OBVIOUS
  <2>2. QED
    BY <2>1, FS_Interval
<1>3. \A m \in Nat : I \subseteq 1..m => k <= m
  BY <1>2, FS_Subset
<1>4. I \subseteq 1..n
  BY <1>1
<1>5. k \in Nat /\ IsFiniteSet(I)
  BY <1>1, <1>2, <1>4, FS_CardinalityType, FS_Subset
<1>6. \A m \in 0..n : (\A i \in 1..n : s[i] <= x => i <= m) => I \subseteq 1..m
  BY <1>1
<1>7. (\A i \in 1..n : s[i] <= x) => I = 1..n
  BY <1>1
<1>8. (\E i \in 1..n : s[i] <= x) => I # {}
  BY <1>1
<1>9. I # {} => k # 0
  BY <1>5, FS_EmptySet
<1>10. k \in 0..n
  BY <1>1, <1>3, <1>4, <1>5
<1>11. \A m \in 0..n : (\A i \in 1..n : s[i] <= x => i <= m) => k <= m
  BY <1>1, <1>3, <1>6
<1>12. (\A i \in 1..n : s[i] <= x) => k = n
  BY <1>1, <1>2, <1>7
<1> HIDE DEF I, k
<1>13. (\E i \in 1..n : s[i] <= x) => k >= 1
  BY <1>5, <1>8, <1>9
<1>14. QED
  BY <1>10, <1>11, <1>12, <1>13 DEF Below, I, k, n

\* A sample is added, wherever it belongs.
LEMMA InsertAdds ==
  ASSUME NEW s \in Seq(Times), NEW x \in Times
  PROVE  Inserted(Insert(s, x), s, x, Below(s, x))
<1> DEFINE k == Below(s, x)
           n == Len(s)
           front == SubSeq(s, 1, k)
           back == SubSeq(s, k + 1, n)
<1>1. n \in Nat /\ \A i \in 1..n : s[i] \in Times
  OBVIOUS
<1>2. k \in 0..n
  BY BelowBounds
<1> HIDE DEF k, n
<1>3. k \in Int /\ n \in Int /\ k + 1 \in Int /\ 1 \in Int
  BY <1>1, <1>2
<1>4. front \in Seq(Times) /\ Len(front) = k /\ \A i \in 1..k : front[i] = s[i]
  <2>1. \A i \in 1..k : s[i] \in Times
    BY <1>1, <1>2
  <2>2. /\ front \in Seq(Times)
        /\ Len(front) = IF 1 <= k THEN k - 1 + 1 ELSE 0
        /\ \A i \in 1..k - 1 + 1 : front[i] = s[1 + i - 1]
    BY <1>3, <2>1, SubSeqProperties
  <2> HIDE DEF front
  <2>3. \A i \in 1..k : i \in 1..k - 1 + 1 /\ 1 + i - 1 = i
    BY <1>3
  <2>4. (IF 1 <= k THEN k - 1 + 1 ELSE 0) = k
    BY <1>1, <1>2
  <2>5. QED
    BY <2>2, <2>3, <2>4
<1>5. back \in Seq(Times) /\ Len(back) = n - k /\ \A i \in 1..n - k : back[i] = s[k + i]
  <2>1. \A i \in k + 1..n : s[i] \in Times
    BY <1>1, <1>2
  <2>2. /\ back \in Seq(Times)
        /\ Len(back) = IF k + 1 <= n THEN n - (k + 1) + 1 ELSE 0
        /\ \A i \in 1..n - (k + 1) + 1 : back[i] = s[k + 1 + i - 1]
    BY <1>3, <2>1, SubSeqProperties
  <2> HIDE DEF back
  <2>3. \A i \in 1..n - k : i \in 1..n - (k + 1) + 1 /\ k + 1 + i - 1 = k + i
    BY <1>3
  <2>4. (IF k + 1 <= n THEN n - (k + 1) + 1 ELSE 0) = n - k
    BY <1>1, <1>2
  <2>5. QED
    BY <2>2, <2>3, <2>4
<1> HIDE DEF front, back
<1> DEFINE one == <<x>>
           start == front \o one
           r == start \o back
<1>6. one \in Seq(Times) /\ Len(one) = 1 /\ one[1] = x
  OBVIOUS
<1> HIDE DEF one
<1>7. /\ start \in Seq(Times) /\ Len(start) = k + 1
      /\ \A i \in 1..k + 1 : start[i] = IF i <= k THEN front[i] ELSE one[i - k]
  <2>1. /\ start \in Seq(Times) /\ Len(start) = Len(front) + Len(one)
        /\ \A i \in 1..Len(front) + Len(one) :
             start[i] = IF i <= Len(front) THEN front[i] ELSE one[i - Len(front)]
    BY <1>4, <1>6, ConcatProperties
  <2>2. QED
    BY <1>4, <1>6, <2>1
<1> HIDE DEF start
<1>8. /\ r \in Seq(Times) /\ Len(r) = k + 1 + (n - k)
      /\ \A i \in 1..k + 1 + (n - k) :
           r[i] = IF i <= k + 1 THEN start[i] ELSE back[i - (k + 1)]
  <2>1. /\ r \in Seq(Times) /\ Len(r) = Len(start) + Len(back)
        /\ \A i \in 1..Len(start) + Len(back) :
             r[i] = IF i <= Len(start) THEN start[i] ELSE back[i - Len(start)]
    BY <1>5, <1>7, ConcatProperties
  <2>2. QED
    BY <1>5, <1>7, <2>1
<1> HIDE DEF r
<1>9. /\ Len(r) = n + 1
      /\ \A i \in 1..n + 1 :
           (i <= k + 1 => r[i] = start[i]) /\ (~(i <= k + 1) => r[i] = back[i - (k + 1)])
  <2>1. k + 1 + (n - k) = n + 1
    BY <1>3
  <2>2. QED
    BY <1>8, <2>1
<1>10. \A i \in 1..k : r[i] = s[i]
  <2>1. \A i \in 1..k : i \in 1..n + 1 /\ i \in 1..k + 1 /\ i <= k /\ i <= k + 1
    BY <1>1, <1>2
  <2>2. QED
    BY <1>4, <1>7, <1>9, <2>1
<1>11. r[k + 1] = x
  <2> DEFINE j == k + 1
  <2>1. j \in 1..n + 1 /\ j \in 1..k + 1 /\ j <= k + 1 /\ ~(j <= k) /\ j - k = 1
    BY <1>1, <1>2
  <2> HIDE DEF j
  <2>2. r[j] = start[j]
    BY <1>9, <2>1
  <2>3. start[j] = one[1]
    BY <1>7, <2>1
  <2>4. QED
    BY <1>6, <2>2, <2>3 DEF j
<1>12. \A i \in k + 1..n : r[i + 1] = s[i]
  <2>1. SUFFICES ASSUME NEW i \in k + 1..n PROVE r[i + 1] = s[i]
    OBVIOUS
  <2> DEFINE j == i + 1
             m == i - k
  <2>2. j \in 1..n + 1 /\ ~(j <= k + 1) /\ j - (k + 1) = m /\ m \in 1..n - k /\ k + m = i
    BY <1>1, <1>2
  <2> HIDE DEF j, m
  <2>3. r[j] = back[m]
    BY <1>9, <2>2
  <2>4. back[m] = s[i]
    BY <1>5, <2>2
  <2>5. QED
    BY <2>3, <2>4 DEF j
<1>13. Insert(s, x) = r
  BY DEF Insert, Below, front, back, k, n, one, start, r
<1>14. QED
  BY <1>2, <1>8, <1>9, <1>10, <1>11, <1>12, <1>13 DEF Inserted, n, k

\* A window has an even number of samples when it is looked at.
LEMMA MedianType ==
  ASSUME NEW s \in Seq(Times), Len(s) \in {WindowSamples, EarlySamples}
  PROVE  Median(s) \in Nat
<1>1. PICK h \in Nat \ {0} : Len(s) = 2 * h
  BY TunerAssumption
<1>2. Len(s) \div 2 = h
  BY <1>1
<1>3. s[h] \in Times /\ s[h + 1] \in Times
  <2>1. h \in 1..Len(s) /\ h + 1 \in 1..Len(s)
    BY <1>1
  <2>2. QED
    BY <2>1
<1>4. s[h] \in Nat /\ s[h + 1] \in Nat
  BY <1>3, TunerAssumption DEF Times
<1>5. Median(s) = s[h] + s[h + 1]
  BY <1>2 DEF Median
<1>6. QED
  BY <1>4, <1>5

\* What a window may change.
Moves(t, n) ==
  \/ n.phase = t.phase /\ n.best = t.best /\ n.candidate = t.candidate
  \/ t.phase = "base" /\ n.phase \in {"trial", "settled"} /\ n.best = t.best
  \/ t.phase = "trial" /\ n.phase = "confirm" /\ n.best = t.best /\ n.candidate = t.candidate
  \/ t.phase = "confirm" /\ n.phase = "base" /\ n.best \in {t.best, t.candidate}
  \/ t.phase = "settled" /\ n.phase = "base" /\ n.best = t.best

\* The fields of a tuner, one by one.
LEMMA Fields ==
  ASSUME NEW t, Tuned(t)
  PROVE  /\ t \in Tuners /\ MaxLimit \in Nat /\ WarmupFrames \in Nat
         /\ RecheckFrames \in Nat /\ CooldownFrames \in Nat
         /\ t.limit \in Nat /\ t.limit >= 2 /\ t.limit <= MaxLimit
         /\ t.best \in Nat /\ t.best >= 1 /\ t.best <= t.limit
         /\ t.current \in Nat /\ t.current >= 1 /\ t.current <= t.limit
         /\ t.candidate \in Nat /\ t.candidate <= t.limit
         /\ t.cursor \in Nat /\ t.cursor <= t.limit
         /\ t.warmup \in Nat /\ t.warmup <= WarmupFrames
         /\ t.remaining \in Nat /\ t.remaining <= RecheckFrames
         /\ t.drift \in Nat /\ t.drift <= 2
         /\ t.samples \in Seq(Times) /\ t.phase \in Phases
         /\ t.base \in Nat /\ t.trial \in Nat /\ t.steady \in Nat
         /\ t.phase \in {"trial", "confirm"} => t.candidate \notin {0, t.best}
         /\ t.current = IF t.phase = "trial" THEN t.candidate ELSE t.best
<1>1. t \in Tuners
  BY DEF Tuned
<1>2. /\ t.limit \in Nat /\ t.best \in Nat /\ t.current \in Nat /\ t.candidate \in Nat
      /\ t.cursor \in Nat /\ t.warmup \in Nat /\ t.remaining \in Nat /\ t.drift \in Nat
      /\ t.samples \in Seq(Times) /\ t.phase \in Phases
      /\ t.base \in Nat /\ t.trial \in Nat /\ t.steady \in Nat
  BY <1>1 DEF Tuners
<1>3. MaxLimit \in Nat /\ WarmupFrames \in Nat /\ RecheckFrames \in Nat /\ CooldownFrames \in Nat
  BY TunerAssumption
<1>4. /\ t.limit \in 2..MaxLimit /\ t.best \in 1..t.limit /\ t.current \in 1..t.limit
      /\ t.candidate \in 0..t.limit /\ t.cursor \in 0..t.limit
      /\ t.warmup <= WarmupFrames /\ t.remaining <= RecheckFrames /\ t.drift <= 2
  BY DEF Tuned
<1>5. t.limit >= 2 /\ t.limit <= MaxLimit /\ t.best >= 1 /\ t.best <= t.limit
  <2>1. t.limit \in Nat /\ t.best \in Nat
    BY <1>2
  <2>2. t.limit \in 2..MaxLimit /\ t.best \in 1..t.limit /\ MaxLimit \in Nat
    BY <1>3, <1>4
  <2>3. QED
    BY <2>1, <2>2
<1>6. /\ t.current >= 1 /\ t.current <= t.limit
      /\ t.candidate <= t.limit /\ t.cursor <= t.limit
  BY <1>2, <1>4
<1>7. /\ t.phase \in {"trial", "confirm"} => t.candidate \notin {0, t.best}
      /\ t.current = IF t.phase = "trial" THEN t.candidate ELSE t.best
  BY DEF Tuned
<1>8. QED
  BY <1>1, <1>2, <1>3, <1>4, <1>5, <1>6, <1>7, Zenon

LEMMA SettleTuned ==
  ASSUME NEW t, Tuned(t), NEW elapsed \in Nat
  PROVE  LET n == Settle([t EXCEPT !.cursor = 0], elapsed)
         IN  /\ Tuned(n) /\ n.samples = t.samples
             /\ n.phase = "settled" /\ n.best = t.best
<1> DEFINE n == Settle([t EXCEPT !.cursor = 0], elapsed)
<1>1. t \in Tuners /\ RecheckFrames \in Nat
  BY Fields
<1>2. n \in Tuners
  BY <1>1, Fields DEF Tuners, Settle, Phases
<1>3. /\ n.limit = t.limit /\ n.best = t.best /\ n.current = t.best
      /\ n.candidate = t.candidate /\ n.cursor = 0 /\ n.warmup = t.warmup
      /\ n.remaining = RecheckFrames /\ n.drift = 0 /\ n.phase = "settled" /\ n.samples = t.samples
  BY <1>1 DEF Tuners, Settle
<1> HIDE DEF n
<1>4. Tuned(n)
  BY <1>2, <1>3, Fields DEF Tuned
<1>5. QED
  BY <1>3, <1>4 DEF n

LEMMA BeginTrialTuned ==
  ASSUME NEW t, Tuned(t), t.phase = "base", NEW elapsed \in Nat
  PROVE  LET n == BeginTrial(t, elapsed)
         IN  Tuned(n) /\ n.samples = t.samples /\ Moves(t, n)
<1> DEFINE next == NextCount(t.cursor, t.limit)
           cursor == IF next = t.best THEN NextCount(next, t.limit) ELSE next
           n == BeginTrial(t, elapsed)
<1>1. /\ t.limit \in Nat /\ t.cursor \in Nat /\ t.best \in Nat /\ t.best >= 1
      /\ t \in Tuners
  BY Fields
<1>2. next \in 0..t.limit
  BY <1>1, NextCountBounds
<1>3. cursor \in 0..t.limit /\ cursor # t.best
  <2>1. CASE next = t.best
    <3>1. cursor = NextCount(t.best, t.limit)
      BY <2>1
    <3>2. /\ NextCount(t.best, t.limit) \in 0..t.limit
          /\ NextCount(t.best, t.limit) # 0 => NextCount(t.best, t.limit) > t.best
      BY <1>1, NextCountBounds
    <3>3. QED
      BY <1>1, <3>1, <3>2
  <2>2. CASE next # t.best
    BY <1>2, <2>2
  <2>3. QED
    BY <2>1, <2>2
<1>4. n = IF cursor = 0
          THEN Settle([t EXCEPT !.cursor = 0], elapsed)
          ELSE [t EXCEPT !.cursor = cursor, !.candidate = cursor, !.current = cursor,
                         !.base = elapsed, !.phase = "trial"]
  BY DEF BeginTrial
<1> HIDE DEF next, cursor, n
<1>5. CASE cursor = 0
  BY <1>4, <1>5, SettleTuned DEF Moves, n
<1>6. CASE cursor # 0
  <2>1. n = [t EXCEPT !.cursor = cursor, !.candidate = cursor, !.current = cursor,
                      !.base = elapsed, !.phase = "trial"]
    BY <1>4, <1>6
  <2>2. n \in Tuners
    <3>1. cursor \in Nat /\ "trial" \in Phases
      BY <1>1, <1>3 DEF Phases
    <3>2. QED
      BY <1>1, <2>1, <3>1 DEF Tuners
  <2>3. /\ n.limit = t.limit /\ n.best = t.best /\ n.current = cursor
        /\ n.candidate = cursor /\ n.cursor = cursor /\ n.warmup = t.warmup
        /\ n.remaining = t.remaining /\ n.drift = t.drift /\ n.phase = "trial"
        /\ n.samples = t.samples
    BY <1>1, <2>1 DEF Tuners
  <2>4. Tuned(n)
    BY <1>3, <1>6, <2>2, <2>3, Fields DEF Tuned
  <2>5. QED
    BY <2>3, <2>4 DEF n, Moves
<1>7. QED
  BY <1>5, <1>6

LEMMA WindowTuned ==
  ASSUME NEW t, Tuned(t), NEW elapsed \in Nat
  PROVE  LET n == Window(t, elapsed)
         IN  Tuned(n) /\ n.samples = t.samples /\ Moves(t, n)
<1> DEFINE n == Window(t, elapsed)
<1>1. t \in Tuners /\ t.drift \in Nat
  BY Fields
<1> HIDE DEF n
<1>2. CASE t.phase = "base"
  BY <1>2, BeginTrialTuned DEF Window, n
<1>3. CASE t.phase = "trial"
  <2>1. n = [t EXCEPT !.trial = elapsed, !.current = t.best, !.phase = "confirm"]
    BY <1>3 DEF Window, n
  <2>2. n \in Tuners
    BY <1>1, <2>1, Fields DEF Tuners, Phases
  <2>3. /\ n.limit = t.limit /\ n.best = t.best /\ n.current = t.best
        /\ n.candidate = t.candidate /\ n.cursor = t.cursor /\ n.warmup = t.warmup
        /\ n.remaining = t.remaining /\ n.drift = t.drift /\ n.phase = "confirm"
        /\ n.samples = t.samples
    BY <1>1, <2>1 DEF Tuners
  <2>4. Tuned(n)
    BY <1>3, <2>2, <2>3, Fields DEF Tuned
  <2>5. QED
    BY <1>3, <2>3, <2>4 DEF Moves, n
<1>4. CASE t.phase = "confirm"
  <2>1. PICK best \in {t.best, t.candidate} :
          n = [t EXCEPT !.best = best, !.current = best, !.phase = "base"]
    BY <1>4 DEF Window, Confirm, n
  <2>2. best \in Nat /\ best >= 1 /\ best <= t.limit
    <3>1. t.candidate \in Nat /\ t.candidate # 0 /\ t.candidate <= t.limit
          /\ t.best \in Nat /\ t.best >= 1 /\ t.best <= t.limit
      BY <1>4, Fields
    <3>2. QED
      BY <2>1, <3>1
  <2>3. n \in Tuners
    BY <1>1, <2>1, <2>2 DEF Tuners, Phases
  <2>4. /\ n.limit = t.limit /\ n.best = best /\ n.current = best
        /\ n.candidate = t.candidate /\ n.cursor = t.cursor /\ n.warmup = t.warmup
        /\ n.remaining = t.remaining /\ n.drift = t.drift /\ n.phase = "base"
        /\ n.samples = t.samples
    BY <1>1, <2>1 DEF Tuners
  <2>5. Tuned(n)
    BY <2>2, <2>3, <2>4, Fields DEF Tuned
  <2>6. QED
    BY <1>4, <2>1, <2>4, <2>5 DEF Moves, n
<1>5. CASE t.phase = "settled"
  <2>1. \/ n = t
        \/ \E d \in {0, t.drift + 1} : d < 3 /\ n = [t EXCEPT !.drift = d]
        \/ n = [t EXCEPT !.cursor = 0, !.phase = "base", !.drift = 0]
    BY <1>5 DEF Window, Monitor, n
  <2>2. CASE n = t
    BY <2>2 DEF Moves, n
  <2>3. ASSUME NEW d \in {0, t.drift + 1}, d < 3, n = [t EXCEPT !.drift = d]
        PROVE  Tuned(n) /\ n.samples = t.samples /\ Moves(t, n)
    <3>1. d \in Nat /\ d <= 2
      BY <1>1, <2>3
    <3>2. n \in Tuners
      BY <1>1, <2>3, <3>1 DEF Tuners
    <3>3. /\ n.limit = t.limit /\ n.best = t.best /\ n.current = t.current
          /\ n.candidate = t.candidate /\ n.cursor = t.cursor /\ n.warmup = t.warmup
          /\ n.remaining = t.remaining /\ n.drift = d /\ n.phase = t.phase
          /\ n.samples = t.samples
      BY <1>1, <2>3 DEF Tuners
    <3>4. QED
      BY <3>1, <3>2, <3>3, Fields DEF Tuned, Moves
  <2>4. CASE n = [t EXCEPT !.cursor = 0, !.phase = "base", !.drift = 0]
    <3>1. n \in Tuners
      BY <1>1, <2>4 DEF Tuners, Phases
    <3>2. /\ n.limit = t.limit /\ n.best = t.best /\ n.current = t.current
          /\ n.candidate = t.candidate /\ n.cursor = 0 /\ n.warmup = t.warmup
          /\ n.remaining = t.remaining /\ n.drift = 0 /\ n.phase = "base"
          /\ n.samples = t.samples
      BY <1>1, <2>4 DEF Tuners
    <3>3. Tuned(n)
      BY <1>5, <3>1, <3>2, Fields DEF Tuned
    <3>4. QED
      BY <1>5, <3>2, <3>3, Fields DEF Moves, n
  <2>5. QED
    BY <2>1, <2>2, <2>3, <2>4 DEF n
<1>6. QED
  BY <1>2, <1>3, <1>4, <1>5, Fields DEF Phases

LEMMA ObservedTuned ==
  ASSUME NEW t, Tuned(t), Len(t.samples) < WindowSamples, NEW x \in Times
  PROVE  LET n == Observed(t, x)
         IN  Tuned(n) /\ Len(n.samples) < WindowSamples /\ Moves(t, n)
<1> DEFINE n == Observed(t, x)
           remaining == Max({t.remaining - 1, 0})
           samples == Insert(t.samples, x)
           sampled == [t EXCEPT !.remaining = remaining, !.samples = samples]
           next == Window(sampled, Median(samples))
           over == Len(samples) = WindowSamples \/ TrialTooSlow(sampled)
<1>1. /\ t \in Tuners /\ t.remaining \in Nat /\ t.remaining <= RecheckFrames
      /\ RecheckFrames \in Nat /\ WarmupFrames \in Nat
      /\ t.samples \in Seq(Times)
  BY Fields
<1>2. WindowSamples \in Nat /\ WindowSamples > 0
  BY TunerAssumption
<1>3. CASE t.warmup > 0
  <2>1. n = [t EXCEPT !.warmup = t.warmup - 1]
    BY <1>3 DEF Observed
  <2>2. t.warmup - 1 \in Nat /\ t.warmup - 1 <= WarmupFrames
    BY <1>3, Fields
  <2> HIDE DEF n
  <2>3. n \in Tuners
    BY <1>1, <2>1, <2>2 DEF Tuners
  <2>4. /\ n.limit = t.limit /\ n.best = t.best /\ n.current = t.current
        /\ n.candidate = t.candidate /\ n.cursor = t.cursor /\ n.warmup = t.warmup - 1
        /\ n.remaining = t.remaining /\ n.drift = t.drift /\ n.phase = t.phase
        /\ n.samples = t.samples
    BY <1>1, <2>1 DEF Tuners
  <2>5. Tuned(n)
    BY <2>2, <2>3, <2>4, Fields DEF Tuned
  <2>6. QED
    BY <2>4, <2>5 DEF Moves, n
<1>4. CASE ~(t.warmup > 0)
  <2>1. remaining \in Nat /\ remaining <= RecheckFrames
    <3>1. t.remaining - 1 \in Int /\ 0 \in Int
      BY <1>1
    <3>2. remaining \in {t.remaining - 1, 0} /\ remaining >= 0
      BY <3>1, MaxOfTwo, Zenon
    <3> HIDE DEF remaining
    <3>3. QED
      BY <1>1, <3>2
  <2>2. samples \in Seq(Times) /\ Len(samples) = Len(t.samples) + 1 /\ Len(t.samples) \in Nat
    <3>1. samples \in Seq(Times) /\ Len(samples) = Len(t.samples) + 1
      BY <1>1, InsertAdds DEF Inserted
    <3>2. Len(t.samples) \in Nat
      BY <1>1
    <3>3. QED
      BY <3>1, <3>2, Zenon
  <2>3. n = IF over
            THEN [next EXCEPT !.samples = <<>>,
                              !.warmup = IF next.current # t.current THEN WarmupFrames
                                         ELSE next.warmup]
            ELSE sampled
    <3>1. sampled.samples = samples
      BY <1>1 DEF Tuners
    <3>2. QED
      BY <1>4, <3>1 DEF Observed
  <2> HIDE DEF remaining, samples, n
  <2>4. sampled \in Tuners
    BY <1>1, <2>1, <2>2 DEF Tuners
  <2>5. /\ sampled.limit = t.limit /\ sampled.best = t.best /\ sampled.current = t.current
        /\ sampled.candidate = t.candidate /\ sampled.cursor = t.cursor
        /\ sampled.warmup = t.warmup /\ sampled.remaining = remaining
        /\ sampled.drift = t.drift /\ sampled.phase = t.phase /\ sampled.samples = samples
    BY <1>1 DEF Tuners
  <2> HIDE DEF sampled
  <2>6. Tuned(sampled)
    BY <2>1, <2>4, <2>5, Fields DEF Tuned
  <2>7. CASE over
    <3>1. Len(samples) \in {WindowSamples, EarlySamples}
      BY <2>5, <2>7 DEF TrialTooSlow
    <3>2. Median(samples) \in Nat
      BY <2>2, <3>1, MedianType
    <3>3. Tuned(next) /\ Moves(sampled, next)
      BY <2>6, <3>2, WindowTuned
    <3> HIDE DEF next
    <3>4. PICK w \in {WarmupFrames, next.warmup} : n = [next EXCEPT !.samples = <<>>, !.warmup = w]
      BY <2>3, <2>7
    <3>5. next \in Tuners /\ w \in Nat /\ w <= WarmupFrames
      BY <1>1, <3>3, <3>4, Fields
    <3>6. <<>> \in Seq(Times) /\ Len(<<>>) = 0
      OBVIOUS
    <3>7. n \in Tuners
      BY <3>4, <3>5, <3>6 DEF Tuners
    <3>8. /\ n.limit = next.limit /\ n.best = next.best /\ n.current = next.current
          /\ n.candidate = next.candidate /\ n.cursor = next.cursor /\ n.warmup = w
          /\ n.remaining = next.remaining /\ n.drift = next.drift /\ n.phase = next.phase
          /\ n.samples = <<>>
      BY <3>4, <3>5 DEF Tuners
    <3>9. Tuned(n)
      BY <3>3, <3>5, <3>7, <3>8, Fields DEF Tuned
    <3>10. Moves(t, n)
      BY <2>5, <3>3, <3>8 DEF Moves
    <3>11. Len(n.samples) < WindowSamples
      BY <1>2, <3>6, <3>8
    <3>12. QED
      BY <3>9, <3>10, <3>11 DEF n
  <2>8. CASE ~over
    <3>1. n = sampled
      BY <2>3, <2>8
    <3>2. Len(samples) < WindowSamples
      BY <1>2, <2>2, <2>8
    <3>3. Tuned(n) /\ Len(n.samples) < WindowSamples /\ Moves(t, n)
      BY <2>5, <2>6, <3>1, <3>2 DEF Moves
    <3>4. QED
      BY <3>3 DEF n
  <2>9. QED
    BY <2>7, <2>8
<1>5. QED
  BY <1>3, <1>4

-----------------------------------------------------------------------------
(* The times of a steady machine: the counts by name take cost[n], and the *)
(* tuner is followed for any such function f.                              *)

\* Samples of a count that takes c, one of which may be the outlier: sorted,
\* that is the first or the last.
Windowful(s, c) ==
  \/ \A i \in 1..Len(s) : s[i] = c
  \/ /\ Outlier > c /\ Len(s) >= 1 /\ s[Len(s)] = Outlier
     /\ \A i \in 1..Len(s) - 1 : s[i] = c
  \/ /\ Outlier < c /\ Len(s) >= 1 /\ s[1] = Outlier
     /\ \A i \in 2..Len(s) : s[i] = c

CandidatesOf(limit) == {c \in Counts : c < limit} \cup {limit}

\* The candidates the search has put behind it.
Tried(t, c) ==
  /\ c \in CandidatesOf(t.limit)
  /\ t.phase = "base" => c <= t.cursor
  /\ t.phase \in {"trial", "confirm"} => c < t.cursor

\* What a trial compares is the times of the best count and of the candidate,
\* and no candidate that was tried beats the best count by five percent.
Searched(t, f) ==
  /\ t.phase \in {"trial", "confirm"} => t.cursor = t.candidate /\ t.base = 2 * f[t.best]
  /\ t.phase = "confirm" => t.trial = 2 * f[t.candidate]
  /\ \A c \in Nat : Tried(t, c) => 100 * f[c] >= 95 * f[t.best]

SteadyInv == ~noisy => Windowful(tuner.samples, cost[tuner.current]) /\ Searched(tuner, cost)

\* A sample of the same count keeps the window one of that count.
LEMMA InsertWindowful ==
  ASSUME NEW s \in Seq(Times), NEW c \in Times, Windowful(s, c),
         NEW x \in {c} \cup ({Outlier} \ {s[i] : i \in DOMAIN s})
  PROVE  Windowful(Insert(s, x), c)
<1> DEFINE r == Insert(s, x)
           k == Below(s, x)
           n == Len(s)
<1>1. /\ n \in Nat /\ DOMAIN s = 1..n /\ c \in Nat /\ Outlier \in Nat /\ x \in Times
      /\ x = c \/ x = Outlier
  BY TunerAssumption DEF Times
<1>2. Inserted(r, s, x, k)
  BY <1>1, InsertAdds
<1>3. /\ k \in 0..n
      /\ \A m \in 0..n : (\A i \in 1..n : s[i] <= x => i <= m) => k <= m
      /\ (\A i \in 1..n : s[i] <= x) => k = n
      /\ (\E i \in 1..n : s[i] <= x) => k >= 1
  BY BelowBounds
<1>4. /\ Len(r) = n + 1 /\ r[k + 1] = x
      /\ \A j \in 1..k : r[j] = s[j]
      /\ \A i \in k + 1..n : r[i + 1] = s[i]
  BY <1>2 DEF Inserted
<1> HIDE DEF r, k, n
<1>5. \A j \in 1..k : r[j] = s[j] /\ j \in 1..n
  BY <1>1, <1>3, <1>4
<1>6. \A i \in k + 1..n : r[i + 1] = s[i] /\ i \in 1..n
  BY <1>1, <1>3, <1>4
<1>7. ASSUME NEW j \in 1..n + 1
      PROVE  \/ j \in 1..k
             \/ j = k + 1
             \/ \E i \in k + 1..n : j = i + 1
  <2>1. CASE j > k + 1
    <3> DEFINE i == j - 1
    <3>1. i \in k + 1..n /\ j = i + 1
      BY <1>1, <1>3, <2>1
    <3> HIDE DEF i
    <3>2. QED
      BY <3>1
  <2>2. QED
    BY <1>1, <1>3, <2>1
<1>8. Len(r) >= 1 /\ Len(r) - 1 = n
  BY <1>1, <1>4
<1>9. CASE \A i \in 1..n : s[i] = c
  <2>1. CASE x = c
    <3>1. \A j \in 1..n + 1 : r[j] = c
      BY <1>4, <1>5, <1>6, <1>7, <1>9, <2>1
    <3>2. QED
      BY <1>4, <3>1 DEF Windowful, r
  <2>2. CASE x = Outlier /\ Outlier > c
    <3>1. k = n
      BY <1>1, <1>3, <1>9, <2>2
    <3>2. r[n + 1] = Outlier /\ \A j \in 1..n : r[j] = c
      BY <1>4, <1>5, <1>9, <2>2, <3>1
    <3>3. QED
      BY <1>4, <1>8, <2>2, <3>2 DEF Windowful, r
  <2>3. CASE x = Outlier /\ Outlier < c
    <3>1. k = 0
      BY <1>1, <1>3, <1>9, <2>3
    <3>2. r[1] = Outlier
      BY <1>4, <2>3, <3>1
    <3>3. \A j \in 2..n + 1 : r[j] = c
      <4>1. SUFFICES ASSUME NEW j \in 2..n + 1 PROVE r[j] = c
        OBVIOUS
      <4>2. j \in 1..n + 1 /\ j \notin 1..k /\ j # k + 1
        BY <1>1, <3>1
      <4>3. QED
        BY <1>6, <1>7, <1>9, <4>2
    <3>4. QED
      BY <1>4, <1>8, <2>3, <3>2, <3>3 DEF Windowful, r
  <2>4. QED
    BY <1>1, <2>1, <2>2, <2>3
<1>10. CASE Outlier > c /\ n >= 1 /\ s[n] = Outlier /\ \A i \in 1..n - 1 : s[i] = c
  <2>1. x = c /\ n \in 1..n
    BY <1>1, <1>10
  <2>2. \A i \in 1..n : s[i] <= x => i <= n - 1
    BY <1>1, <1>10, <2>1
  <2>3. k <= n - 1
    <3>1. n - 1 \in 0..n
      BY <1>1, <1>10
    <3>2. QED
      BY <1>3, <2>2, <3>1
  <2>4. r[n + 1] = Outlier
    <3>1. n \in k + 1..n
      BY <1>1, <1>3, <2>3
    <3>2. QED
      BY <1>6, <1>10, <3>1
  <2>5. \A j \in 1..n : r[j] = c
    <3>1. SUFFICES ASSUME NEW j \in 1..n PROVE r[j] = c
      OBVIOUS
    <3>2. j \in 1..n + 1
      BY <1>1
    <3>3. CASE j \in 1..k
      <4>1. j \in 1..n - 1
        BY <1>1, <1>3, <2>3, <3>3
      <4>2. QED
        BY <1>5, <1>10, <3>3, <4>1
    <3>4. CASE j = k + 1
      BY <1>4, <2>1, <3>4
    <3>5. ASSUME NEW i \in k + 1..n, j = i + 1 PROVE r[j] = c
      <4>1. i \in 1..n - 1
        BY <1>1, <1>3, <3>5
      <4>2. QED
        BY <1>6, <1>10, <3>5, <4>1
    <3>6. QED
      BY <1>7, <3>2, <3>3, <3>4, <3>5
  <2>6. QED
    BY <1>4, <1>8, <1>10, <2>4, <2>5 DEF Windowful, r
<1>11. CASE Outlier < c /\ n >= 1 /\ s[1] = Outlier /\ \A i \in 2..n : s[i] = c
  <2>1. x = c /\ 1 \in 1..n /\ s[1] <= x
    BY <1>1, <1>11
  <2>2. k >= 1
    BY <1>3, <2>1
  <2>3. r[1] = Outlier
    <3>1. 1 \in 1..k
      BY <1>1, <1>3, <2>2
    <3>2. QED
      BY <1>5, <1>11, <3>1
  <2>4. \A j \in 2..n + 1 : r[j] = c
    <3>1. SUFFICES ASSUME NEW j \in 2..n + 1 PROVE r[j] = c
      OBVIOUS
    <3>2. j \in 1..n + 1
      BY <1>1
    <3>3. CASE j \in 1..k
      <4>1. j \in 2..n
        BY <1>1, <1>3, <3>3
      <4>2. QED
        BY <1>5, <1>11, <3>3, <4>1
    <3>4. CASE j = k + 1
      BY <1>4, <2>1, <3>4
    <3>5. ASSUME NEW i \in k + 1..n, j = i + 1 PROVE r[j] = c
      <4>1. i \in 2..n
        BY <1>1, <1>3, <2>2, <3>5
      <4>2. QED
        BY <1>6, <1>11, <3>5, <4>1
    <3>6. QED
      BY <1>7, <3>2, <3>3, <3>4, <3>5
  <2>5. QED
    BY <1>4, <1>8, <1>11, <2>3, <2>4 DEF Windowful, r
<1>12. QED
  BY <1>9, <1>10, <1>11 DEF Windowful, n

\* The middle of a window is undisturbed.
LEMMA MedianWindowful ==
  ASSUME NEW s \in Seq(Times), NEW c \in Times, Windowful(s, c),
         Len(s) \in {WindowSamples, EarlySamples}
  PROVE  Median(s) = 2 * c
<1>1. PICK h \in Nat : h >= 2 /\ Len(s) = 2 * h
  BY TunerAssumption
<1>2. Len(s) \div 2 = h
  BY <1>1
<1>3. h \in 2..Len(s) - 1 /\ h + 1 \in 2..Len(s) - 1
  BY <1>1
<1>4. s[h] = c /\ s[h + 1] = c
  BY <1>1, <1>3 DEF Windowful
<1>5. c \in Nat
  BY TunerAssumption DEF Times
<1>6. QED
  BY <1>2, <1>4, <1>5 DEF Median

LEMMA CandidateBounds ==
  ASSUME NEW limit \in 2..64, NEW c \in CandidatesOf(limit)
  PROVE  c \in Nat /\ c \in 1..limit
BY DEF CandidatesOf, Counts

\* up_tuner_next_count skips no candidate, and ends with the last.
LEMMA NextCountSkipsNone ==
  ASSUME NEW previous \in Nat, NEW limit \in 2..64, NEW c \in CandidatesOf(limit),
         c > previous
  PROVE  NextCount(previous, limit) # 0 /\ NextCount(previous, limit) <= c
<1> DEFINE later == {d \in Counts : d > previous}
           S == later \cup {limit}
<1>1. c \in Nat /\ c <= limit /\ c \in Counts \cup {limit} /\ limit \in Nat /\ limit <= 64
  BY CandidateBounds DEF CandidatesOf
<1>2. ~(previous >= limit)
  BY <1>1
<1>3. 64 \in later
  BY <1>1, <1>2 DEF Counts
<1>4. NextCount(previous, limit) = Min(S)
  BY <1>2, <1>3 DEF NextCount
<1>5. S \in SUBSET Nat /\ S # {} /\ c \in S /\ \A d \in S : d > previous
  BY <1>1, <1>2 DEF Counts
<1> HIDE DEF S
<1>6. Min(S) \in S /\ \A d \in S : Min(S) <= d
  BY <1>5, MinInSet
<1>7. Min(S) \in Nat /\ Min(S) > previous
  BY <1>5, <1>6
<1>8. QED
  BY <1>4, <1>5, <1>6, <1>7

\* A tuner that has the same search behind it.
LEMMA SearchedSame ==
  ASSUME NEW t, NEW n, NEW f, Searched(t, f),
         n.limit = t.limit, n.best = t.best, n.candidate = t.candidate, n.cursor = t.cursor,
         n.base = t.base, n.trial = t.trial, n.phase = t.phase
  PROVE  Searched(n, f)
<1>1. \A c : Tried(n, c) <=> Tried(t, c)
  BY DEF Tried
<1>2. QED
  BY <1>1 DEF Searched

\* What a count takes is a number.
LEMMA CostTypes ==
  ASSUME NEW t, Tuned(t), NEW f \in [1..MaxLimit -> Costs]
  PROVE  /\ t.limit \in 2..64 /\ t.limit \in Nat
         /\ \A c \in 1..t.limit : f[c] \in Nat /\ f[c] \in Times
         /\ \A c : Tried(t, c) => c \in Nat /\ c \in 1..t.limit
<1>1. MaxLimit \in Nat /\ MaxLimit <= 64
  <2>1. MaxLimit \in 0..64
    BY TunerAssumption
  <2>2. QED
    BY <2>1
<1> DEFINE limit == t.limit
<1>2. limit \in Nat /\ limit >= 2 /\ limit <= MaxLimit
  BY Fields
<1> HIDE DEF limit
<1>3. limit \in 2..64
  BY <1>1, <1>2
<1>4. \A c \in 1..limit : c \in 1..MaxLimit
  BY <1>1, <1>2
<1>5. \A c \in 1..limit : f[c] \in Costs
  BY <1>4
<1>6. Costs \subseteq Nat
  BY TunerAssumption
<1>7. \A c : Tried(t, c) => c \in Nat /\ c \in 1..limit
  BY <1>3, CandidateBounds DEF Tried, limit
<1>8. QED
  BY <1>2, <1>3, <1>5, <1>6, <1>7 DEF Times, limit

\* A search that goes on has skipped none but the best count, and one that ends
\* has seen all (up_tuner_begin_trial).
LEMMA BeginTrialSearched ==
  ASSUME NEW t, Tuned(t), t.phase = "base", NEW f \in [1..MaxLimit -> Costs],
         Searched(t, f), NEW elapsed \in Nat, elapsed = 2 * f[t.best]
  PROVE  Searched(BeginTrial(t, elapsed), f)
<1> DEFINE next == NextCount(t.cursor, t.limit)
           cursor == IF next = t.best THEN NextCount(next, t.limit) ELSE next
           n == BeginTrial(t, elapsed)
<1>1. /\ t.limit \in Nat /\ t.cursor \in Nat /\ t.best \in Nat /\ t.best >= 1
      /\ t.best <= t.limit /\ t \in Tuners
  BY Fields
<1>2. t.limit \in 2..64 /\ f[t.best] \in Nat
  <2>1. t.best \in 1..t.limit
    BY <1>1
  <2>2. QED
    BY <2>1, CostTypes
<1>3. n = IF cursor = 0
          THEN Settle([t EXCEPT !.cursor = 0], elapsed)
          ELSE [t EXCEPT !.cursor = cursor, !.candidate = cursor, !.current = cursor,
                         !.base = elapsed, !.phase = "trial"]
  BY DEF BeginTrial
<1>4. next \in Nat
  <2>1. next \in 0..t.limit
    BY <1>1, NextCountBounds
  <2>2. QED
    BY <1>1, <2>1
<1>5. \A c \in CandidatesOf(t.limit) : c > t.cursor => next # 0 /\ next <= c
  BY <1>1, <1>2, NextCountSkipsNone
<1>6. next = t.best =>
        \A c \in CandidatesOf(t.limit) : c > t.best => cursor # 0 /\ cursor <= c
  BY <1>1, <1>2, NextCountSkipsNone
<1>7. cursor \in Nat
  <2>1. NextCount(t.best, t.limit) \in 0..t.limit
    BY <1>1, NextCountBounds
  <2>2. QED
    BY <1>1, <1>4, <2>1
<1>8. next # t.best => cursor = next
  OBVIOUS
<1> HIDE DEF next, cursor, n
\* A candidate the new cursor has passed was tried, or is the best count.
<1>9. ASSUME NEW c \in CandidatesOf(t.limit), cursor = 0 \/ c < cursor
      PROVE  c = t.best \/ Tried(t, c)
  <2>1. c \in Nat
    BY <1>2, CandidateBounds
  <2>2. CASE next = t.best
    <3>1. ~(c > t.best)
      BY <1>6, <1>7, <1>9, <2>1, <2>2
    <3>2. c < t.best => ~(c > t.cursor)
      BY <1>1, <1>5, <2>1, <2>2
    <3>3. QED
      BY <1>1, <2>1, <3>1, <3>2 DEF Tried
  <2>3. CASE next # t.best
    <3>1. ~(c > t.cursor)
      BY <1>4, <1>5, <1>8, <1>9, <2>1, <2>3
    <3>2. QED
      BY <1>1, <2>1, <3>1 DEF Tried
  <2>4. QED
    BY <2>2, <2>3
<1>10. ASSUME NEW c \in CandidatesOf(t.limit), cursor = 0 \/ c < cursor
       PROVE  100 * f[c] >= 95 * f[t.best]
  <2>1. c = t.best \/ Tried(t, c)
    BY <1>9, <1>10
  <2>2. c \in Nat
    BY <1>2, CandidateBounds
  <2>3. 100 * f[t.best] >= 95 * f[t.best]
    BY <1>2
  <2>4. QED
    BY <2>1, <2>2, <2>3 DEF Searched
<1>11. CASE cursor = 0
  <2>1. n.phase = "settled" /\ n.best = t.best /\ n.limit = t.limit
    BY <1>1, <1>3, <1>11 DEF Tuners, Settle
  <2>2. QED
    BY <1>10, <1>11, <2>1 DEF Searched, Tried, n
<1>12. CASE cursor # 0
  <2>1. /\ n.phase = "trial" /\ n.best = t.best /\ n.limit = t.limit
        /\ n.cursor = cursor /\ n.candidate = cursor /\ n.base = elapsed
    BY <1>1, <1>3, <1>12 DEF Tuners
  <2>2. QED
    BY <1>10, <2>1 DEF Searched, Tried, n
<1>13. QED
  BY <1>11, <1>12

\* A candidate is adopted or passed over by its own times and those of the best
\* count (up_tuner_confirm).
LEMMA ConfirmSearched ==
  ASSUME NEW t, Tuned(t), t.phase = "confirm", NEW f \in [1..MaxLimit -> Costs],
         Searched(t, f), NEW elapsed \in Nat, elapsed = 2 * f[t.best]
  PROVE  Searched(Confirm(t, elapsed), f)
<1> DEFINE n == Confirm(t, elapsed)
           b == f[t.best]
           d == f[t.candidate]
           wins == 100 * t.trial < 95 * Min({t.base, elapsed})
<1>1. /\ t.candidate \in 1..t.limit /\ t.best \in 1..t.limit /\ t \in Tuners
      /\ t.cursor = t.candidate /\ t.base = 2 * b /\ t.trial = 2 * d
  <2>1. /\ t.candidate \in Nat /\ t.candidate # 0 /\ t.candidate <= t.limit
        /\ t.best \in Nat /\ t.best >= 1 /\ t.best <= t.limit /\ t.limit \in Nat /\ t \in Tuners
    BY Fields
  <2>2. t.cursor = t.candidate /\ t.base = 2 * b /\ t.trial = 2 * d
    BY DEF Searched
  <2>3. QED
    BY <2>1, <2>2
<1>2. b \in Nat /\ d \in Nat
  BY <1>1, CostTypes
<1>3. Min({t.base, elapsed}) = 2 * b
  <2>1. 2 * b \in Int
    BY <1>2
  <2>2. Min({2 * b, 2 * b}) = 2 * b
    BY <2>1, MinOfTwo, Zenon
  <2>3. QED
    BY <1>1, <2>2
<1>4. wins <=> 100 * d < 95 * b
  <2>1. wins <=> 100 * (2 * d) < 95 * (2 * b)
    BY <1>1, <1>3
  <2> HIDE DEF wins, b, d
  <2>2. QED
    BY <1>2, <2>1
<1>5. /\ n.phase = "base" /\ n.limit = t.limit /\ n.cursor = t.candidate
      /\ n.best = IF wins THEN t.candidate ELSE t.best
  BY <1>1 DEF Confirm, Tuners
<1> HIDE DEF n, wins
<1>6. ASSUME NEW c \in Nat, Tried(n, c)
      PROVE  100 * f[c] >= 95 * f[n.best]
  <2>1. c = t.candidate \/ Tried(t, c)
    <3>1. c \in CandidatesOf(t.limit) /\ c <= t.candidate
      BY <1>5, <1>6 DEF Tried
    <3>2. t.candidate \in Nat
      BY <1>1
    <3>3. QED
      BY <1>1, <3>1, <3>2 DEF Tried
  <2>2. f[c] = d \/ 100 * f[c] >= 95 * b
    BY <2>1 DEF Searched
  <2>3. f[c] \in Nat
    BY <1>1, <2>1, CostTypes
  <2>4. f[n.best] = IF wins THEN d ELSE b
    BY <1>5
  <2> HIDE DEF b, d
  <2>5. QED
    BY <1>2, <1>4, <2>2, <2>3, <2>4
<1>7. QED
  BY <1>5, <1>6 DEF Searched, n

LEMMA WindowSearched ==
  ASSUME NEW t, Tuned(t), NEW f \in [1..MaxLimit -> Costs], Searched(t, f),
         NEW elapsed \in Nat, elapsed = 2 * f[t.current]
  PROVE  Searched(Window(t, elapsed), f)
<1> DEFINE n == Window(t, elapsed)
<1>1. t \in Tuners /\ t.phase \in Phases /\ t.current = IF t.phase = "trial" THEN t.candidate ELSE t.best
  BY Fields
<1>2. CASE t.phase = "base"
  BY <1>1, <1>2, BeginTrialSearched DEF Window
<1>3. CASE t.phase = "trial"
  <2>1. /\ n.phase = "confirm" /\ n.best = t.best /\ n.limit = t.limit /\ n.cursor = t.cursor
        /\ n.candidate = t.candidate /\ n.base = t.base /\ n.trial = 2 * f[t.candidate]
    BY <1>1, <1>3 DEF Window, Tuners
  <2> HIDE DEF n
  <2>2. \A c : Tried(n, c) <=> Tried(t, c)
    BY <1>3, <2>1 DEF Tried
  <2>3. QED
    BY <1>3, <2>1, <2>2 DEF Searched, n
<1>4. CASE t.phase = "confirm"
  BY <1>1, <1>4, ConfirmSearched DEF Window
<1>5. CASE t.phase = "settled"
  <2>1. \/ n = t
        \/ \E d \in {0, t.drift + 1} : n = [t EXCEPT !.drift = d]
        \/ n = [t EXCEPT !.cursor = 0, !.phase = "base", !.drift = 0]
    BY <1>5 DEF Window, Monitor
  <2> HIDE DEF n
  <2>2. CASE n = t \/ \E d \in {0, t.drift + 1} : n = [t EXCEPT !.drift = d]
    <3>1. /\ n.limit = t.limit /\ n.best = t.best /\ n.candidate = t.candidate
          /\ n.cursor = t.cursor /\ n.base = t.base /\ n.trial = t.trial /\ n.phase = t.phase
      BY <1>1, <2>2 DEF Tuners
    <3>2. QED
      BY <3>1, SearchedSame DEF n
  <2>3. CASE n = [t EXCEPT !.cursor = 0, !.phase = "base", !.drift = 0]
    <3>1. n.phase = "base" /\ n.cursor = 0 /\ n.limit = t.limit
      BY <1>1, <2>3 DEF Tuners
    <3>2. \A c : ~Tried(n, c)
      <4>1. \A c \in CandidatesOf(t.limit) : c \in 1..t.limit
        BY CostTypes, CandidateBounds
      <4>2. \A c \in 1..t.limit : ~(c <= 0)
        BY Fields
      <4>3. QED
        BY <3>1, <4>1, <4>2 DEF Tried
    <3>3. QED
      BY <3>1, <3>2 DEF Searched, n
  <2>4. QED
    BY <2>1, <2>2, <2>3
<1>6. QED
  BY <1>1, <1>2, <1>3, <1>4, <1>5 DEF Phases

\* A window of one count stays one, and is judged by what that count takes.
LEMMA ObservedSteady ==
  ASSUME NEW t, Tuned(t), Len(t.samples) < WindowSamples, NEW f \in [1..MaxLimit -> Costs],
         Windowful(t.samples, f[t.current]), Searched(t, f),
         NEW x \in {f[t.current]} \cup ({Outlier} \ {t.samples[i] : i \in DOMAIN t.samples})
  PROVE  LET n == Observed(t, x)
         IN  Windowful(n.samples, f[n.current]) /\ Searched(n, f)
<1> DEFINE n == Observed(t, x)
           remaining == Max({t.remaining - 1, 0})
           samples == Insert(t.samples, x)
           sampled == [t EXCEPT !.remaining = remaining, !.samples = samples]
           next == Window(sampled, Median(samples))
           over == Len(samples) = WindowSamples \/ TrialTooSlow(sampled)
           c == f[t.current]
<1>1. /\ t \in Tuners /\ t.samples \in Seq(Times) /\ t.remaining \in Nat
      /\ t.remaining <= RecheckFrames /\ RecheckFrames \in Nat
  BY Fields
<1>2. t.current \in 1..t.limit /\ c \in Nat /\ c \in Times
  <2>1. t.current \in 1..t.limit
    BY DEF Tuned
  <2>2. QED
    BY <2>1, CostTypes
<1>3. x \in Times
  BY <1>2 DEF Times
<1>4. CASE t.warmup > 0
  <2>1. n = [t EXCEPT !.warmup = t.warmup - 1]
    BY <1>4 DEF Observed
  <2> HIDE DEF n
  <2>2. /\ n.limit = t.limit /\ n.best = t.best /\ n.current = t.current
        /\ n.candidate = t.candidate /\ n.cursor = t.cursor /\ n.base = t.base
        /\ n.trial = t.trial /\ n.phase = t.phase /\ n.samples = t.samples
    BY <1>1, <2>1 DEF Tuners
  <2>3. Searched(n, f)
    BY <2>2, SearchedSame
  <2>4. QED
    BY <2>2, <2>3 DEF n
<1>5. CASE ~(t.warmup > 0)
  <2>1. remaining \in Nat /\ remaining <= RecheckFrames
    <3>1. t.remaining - 1 \in Int /\ 0 \in Int
      BY <1>1
    <3>2. remaining \in {t.remaining - 1, 0} /\ remaining >= 0
      BY <3>1, MaxOfTwo, Zenon
    <3> HIDE DEF remaining
    <3>3. QED
      BY <1>1, <3>2
  <2>2. samples \in Seq(Times)
    BY <1>1, <1>3, InsertAdds DEF Inserted
  <2>3. Windowful(samples, c)
    BY <1>1, <1>2, InsertWindowful
  <2>4. n = IF over
            THEN [next EXCEPT !.samples = <<>>,
                              !.warmup = IF next.current # t.current THEN WarmupFrames
                                         ELSE next.warmup]
            ELSE sampled
    <3>1. sampled.samples = samples
      BY <1>1 DEF Tuners
    <3>2. QED
      BY <1>5, <3>1 DEF Observed
  <2> HIDE DEF remaining, samples, n
  <2>5. sampled \in Tuners
    BY <1>1, <2>1, <2>2 DEF Tuners
  <2>6. /\ sampled.limit = t.limit /\ sampled.best = t.best /\ sampled.current = t.current
        /\ sampled.candidate = t.candidate /\ sampled.cursor = t.cursor
        /\ sampled.warmup = t.warmup /\ sampled.remaining = remaining
        /\ sampled.drift = t.drift /\ sampled.phase = t.phase /\ sampled.samples = samples
        /\ sampled.base = t.base /\ sampled.trial = t.trial
    BY <1>1 DEF Tuners
  <2> HIDE DEF sampled
  <2>7. Tuned(sampled)
    BY <2>1, <2>5, <2>6, Fields DEF Tuned
  <2>8. Searched(sampled, f)
    BY <2>6, SearchedSame
  <2>9. CASE over
    <3>1. Len(samples) \in {WindowSamples, EarlySamples}
      BY <2>6, <2>9 DEF TrialTooSlow
    <3>2. Median(samples) = 2 * c
      BY <1>2, <2>2, <2>3, <3>1, MedianWindowful
    <3>3. Median(samples) \in Nat
      BY <2>2, <3>1, MedianType
    <3>4. Tuned(next)
      BY <2>7, <3>3, WindowTuned
    <3>5. Searched(next, f)
      <4>1. Median(samples) = 2 * f[sampled.current]
        BY <2>6, <3>2
      <4>2. QED
        BY <2>7, <2>8, <3>3, <4>1, WindowSearched
    <3> HIDE DEF next
    <3>6. PICK w : n = [next EXCEPT !.samples = <<>>, !.warmup = w]
      BY <2>4, <2>9
    <3>7. next \in Tuners
      BY <3>4, Fields
    <3>8. /\ n.limit = next.limit /\ n.best = next.best /\ n.candidate = next.candidate
          /\ n.cursor = next.cursor /\ n.base = next.base /\ n.trial = next.trial
          /\ n.phase = next.phase /\ n.samples = <<>>
      BY <3>6, <3>7 DEF Tuners
    <3>9. Searched(n, f)
      BY <3>5, <3>8, SearchedSame
    <3>10. Windowful(<<>>, f[n.current])
      BY DEF Windowful
    <3>11. QED
      BY <3>8, <3>9, <3>10 DEF n
  <2>10. CASE ~over
    <3>1. n = sampled
      BY <2>4, <2>10
    <3>2. QED
      BY <2>3, <2>6, <2>8, <3>1 DEF n
  <2>11. QED
    BY <2>9, <2>10
<1>6. QED
  BY <1>4, <1>5

-----------------------------------------------------------------------------
(* The pools.                                                              *)

LEMMA Initially == Init => IInv
<1> SUFFICES ASSUME Init PROVE IInv
  OBVIOUS
<1>1. PICK limit \in 2..MaxLimit :
        \E initial \in 1..limit : \E p \in Pools :
          /\ tuner = TunerInit(initial, limit)
          /\ pool = [q \in Pools |-> IF q = p THEN NewPool(initial) ELSE NoPool]
          /\ bestPool = p
  BY DEF Init
<1>2. PICK initial \in 1..limit, p \in Pools :
        /\ tuner = TunerInit(initial, limit)
        /\ pool = [q \in Pools |-> IF q = p THEN NewPool(initial) ELSE NoPool]
        /\ bestPool = p
  BY <1>1
<1>3. /\ limit \in Nat /\ limit >= 2 /\ initial \in Nat /\ initial >= 1 /\ initial <= limit
      /\ initial \in 0..MaxLimit /\ WarmupFrames \in Nat /\ RecheckFrames \in Nat
      /\ WindowSamples > 0 /\ MaxLimit \in Nat /\ 0 \in 0..MaxLimit
  BY TunerAssumption
<1>4. TunerInv
  <2>1. tuner \in Tuners /\ tuner.samples = <<>>
    BY <1>2, <1>3 DEF TunerInit, Tuners, Phases
  <2>2. Tuned(tuner)
    BY <1>2, <1>3, <2>1 DEF TunerInit, Tuned
  <2>3. QED
    BY <1>3, <2>1, <2>2 DEF TunerInv
<1>5. /\ trial = None /\ selected = None /\ enabled = TRUE /\ retained = FALSE
      /\ status = "ok" /\ pc = "idle" /\ None \notin Pools
  BY TunerAssumption DEF Init
<1>6. pool \in [Pools -> PoolStates] /\ Allocated = {p}
      /\ pool[p].health = "fresh" /\ pool[p].asked = initial
  BY <1>2, <1>3 DEF PoolStates, NewPool, NoPool, Allocated
<1>7. tuner.best = initial /\ tuner.phase = "base"
  BY <1>2 DEF TunerInit
<1>8. PoolsOwned
  BY <1>2, <1>5, <1>6 DEF PoolsOwned
<1>9. OwnerInv
  BY <1>2, <1>5, <1>6, <1>7, <1>8 DEF OwnerInv
<1>10. FrameInv
  BY <1>5 DEF FrameInv
<1>11. MachineInv
  <2>1. Min(Costs) \in Costs
    BY TunerAssumption, MinInSet
  <2>2. QED
    BY <2>1 DEF Init, MachineInv
<1>12. QED
  BY <1>4, <1>9, <1>10, <1>11 DEF IInv

\* Destroying the pools of S leaves the others.
LEMMA WithoutLeaves ==
  ASSUME NEW S, pool \in [Pools -> PoolStates], MaxLimit \in Nat
  PROVE  /\ Without(S) \in [Pools -> PoolStates]
         /\ \A p \in Pools : Without(S)[p] = IF p \in S THEN NoPool ELSE pool[p]
<1>1. NoPool \in PoolStates
  BY DEF NoPool, PoolStates
<1>2. QED
  BY <1>1 DEF Without

\* After a stop the tuner owns nothing, and the filter's pool is as it was.
LEMMA StopOwns ==
  ASSUME OwnerInv, Stop, UNCHANGED <<tuner, bestPool>>, bestPool # None,
         pc' \notin {"idle", "off"}
  PROVE  OwnerInv' /\ pool'[bestPool] = pool[bestPool]
<1>1. /\ pool \in [Pools -> PoolStates] /\ bestPool \in Pools
      /\ trial # None => trial # bestPool
      /\ Allocated = {bestPool, trial} \ {None}
  BY DEF OwnerInv, PoolsOwned
<1>2. MaxLimit \in Nat /\ None \notin Pools
  BY TunerAssumption
<1>3. /\ pool' = Without({trial}) /\ trial' = None /\ enabled' = FALSE
  BY DEF Stop
<1>4. /\ pool' \in [Pools -> PoolStates]
      /\ \A p \in Pools : pool'[p] = IF p = trial THEN NoPool ELSE pool[p]
  BY <1>1, <1>2, <1>3, WithoutLeaves
<1>5. pool'[bestPool] = pool[bestPool]
  BY <1>1, <1>2, <1>4
<1>6. Allocated' = {bestPool}
  BY <1>1, <1>2, <1>4 DEF Allocated, NoPool
<1>7. PoolsOwned'
  BY <1>2, <1>1, <1>3, <1>6 DEF PoolsOwned
<1>8. QED
  BY <1>1, <1>3, <1>4, <1>5, <1>7 DEF OwnerInv

LEMMA FrameKeeps ==
  ASSUME IInv, Frame
  PROVE  OwnerInv' /\ FrameInv'
<1>1. /\ pc = "idle" /\ retained' = FALSE /\ selected' = bestPool
      /\ pc' = (IF enabled THEN "select" ELSE "apply")
      /\ tuner' = tuner /\ pool' = pool /\ bestPool' = bestPool /\ trial' = trial
      /\ enabled' = enabled /\ status' = status
  BY DEF Frame, poolVars
<1>2. OwnerInv'
  BY <1>1 DEF IInv, OwnerInv, PoolsOwned, Allocated, OnTrial
<1>3. Works(bestPool)' /\ bestPool # None /\ bestPool \in Pools \cup {None}
  BY <1>1 DEF IInv, OwnerInv, PoolsOwned, Works
<1>4. FrameInv'
  BY <1>1, <1>3 DEF IInv, FrameInv
<1>5. QED
  BY <1>2, <1>4

LEMMA SelectExistingKeeps ==
  ASSUME IInv, SelectExisting
  PROVE  OwnerInv' /\ FrameInv'
<1>1. /\ pc = "select" /\ pc' = "apply"
      /\ \/ tuner.current = tuner.best /\ selected' = selected
         \/ tuner.current # tuner.best /\ TrialCount = tuner.current /\ selected' = trial
      /\ tuner' = tuner /\ pool' = pool /\ bestPool' = bestPool /\ trial' = trial
      /\ enabled' = enabled /\ status' = status /\ retained' = retained
  BY DEF SelectExisting, poolVars
<1>2. OwnerInv'
  BY <1>1 DEF IInv, OwnerInv, PoolsOwned, Allocated, OnTrial
<1>3. /\ ~retained /\ Works(bestPool) /\ enabled /\ selected = bestPool /\ bestPool # None
      /\ bestPool \in Pools \cup {None} /\ trial \in Pools \cup {None}
  BY <1>1 DEF IInv, OwnerInv, FrameInv
<1>4. tuner.current \in Nat /\ tuner.current >= 1
  BY Fields DEF IInv, TunerInv
<1>5. selected' = Chosen /\ selected' # None
  BY <1>1, <1>3, <1>4 DEF Chosen, TrialCount
<1>6. Works(bestPool)' /\ Chosen' = Chosen
  BY <1>1, <1>3 DEF Works, Chosen
<1>7. FrameInv'
  BY <1>1, <1>3, <1>5, <1>6 DEF IInv, FrameInv
<1>8. QED
  BY <1>2, <1>7

LEMMA SelectNewKeeps ==
  ASSUME IInv, SelectNew
  PROVE  OwnerInv' /\ FrameInv'
<1>1. /\ pc = "select" /\ pc' = "apply" /\ tuner.current \notin {tuner.best, TrialCount}
      /\ tuner' = tuner /\ bestPool' = bestPool /\ status' = status /\ retained' = retained
  BY DEF SelectNew
<1>2. /\ ~retained /\ Works(bestPool) /\ enabled /\ selected = bestPool /\ bestPool # None
      /\ bestPool \in Pools /\ trial \in Pools \cup {None}
      /\ pool \in [Pools -> PoolStates] /\ Allocated = {bestPool, trial} \ {None}
      /\ trial # None => trial # bestPool
      /\ pool[bestPool].asked = tuner.best
  BY <1>1 DEF IInv, OwnerInv, FrameInv, PoolsOwned
<1>3. /\ tuner.phase = "trial" /\ tuner.current = tuner.candidate
      /\ tuner.current \in 0..MaxLimit /\ MaxLimit \in Nat /\ None \notin Pools
  <2>1. /\ tuner.current = IF tuner.phase = "trial" THEN tuner.candidate ELSE tuner.best
        /\ tuner.current \in Nat /\ tuner.current <= tuner.limit
        /\ tuner.limit \in Nat /\ tuner.limit <= MaxLimit
    BY Fields DEF IInv, TunerInv
  <2>2. MaxLimit \in Nat /\ None \notin Pools
    BY TunerAssumption
  <2>3. tuner.phase = "trial"
    BY <1>1, <2>1
  <2>4. QED
    BY <2>1, <2>2, <2>3
<1>4. ASSUME NEW p \in Pools \ (Allocated \ {trial}),
             pool' = [Without({trial}) EXCEPT ![p] = NewPool(tuner.current)],
             trial' = p, selected' = p, enabled' = enabled
      PROVE  OwnerInv' /\ FrameInv'
  <2>1. p # bestPool /\ p \in Pools
    BY <1>2, <1>3, <1>4
  <2>2. /\ Without({trial}) \in [Pools -> PoolStates]
        /\ \A q \in Pools : Without({trial})[q] = IF q = trial THEN NoPool ELSE pool[q]
    BY <1>2, <1>3, WithoutLeaves
  <2>3. NewPool(tuner.current) \in PoolStates
    BY <1>3 DEF NewPool, PoolStates
  <2>4. /\ pool' \in [Pools -> PoolStates] /\ pool'[p] = NewPool(tuner.current)
        /\ \A q \in Pools \ {p} : pool'[q] = IF q = trial THEN NoPool ELSE pool[q]
    BY <1>4, <2>1, <2>2, <2>3
  <2>5. pool'[bestPool] = pool[bestPool]
    BY <1>2, <2>1, <2>4
  <2>6. Allocated' = {bestPool, p}
    BY <1>2, <1>3, <2>1, <2>4, <2>5 DEF Allocated, NoPool, NewPool, Works
  <2>7. PoolsOwned'
    BY <1>1, <1>2, <1>3, <1>4, <2>1, <2>6 DEF PoolsOwned
  <2>8. pool'[p].asked = tuner.candidate
    BY <1>3, <2>4 DEF NewPool
  <2>9. OwnerInv'
    BY <1>1, <1>2, <1>3, <1>4, <2>1, <2>4, <2>5, <2>7, <2>8 DEF OwnerInv, OnTrial
  <2>10. Works(bestPool)' /\ selected' = Chosen' /\ selected' # None
    BY <1>1, <1>2, <1>3, <1>4, <2>1, <2>5 DEF Works, Chosen
  <2>11. FrameInv'
    BY <1>1, <1>2, <1>4, <2>1, <2>10 DEF IInv, FrameInv
  <2>12. QED
    BY <2>9, <2>11
<1>5. CASE Stop /\ UNCHANGED selected
  <2>1. OwnerInv' /\ pool'[bestPool] = pool[bestPool]
    BY <1>1, <1>2, <1>5, StopOwns DEF IInv
  <2>2. enabled' = FALSE
    BY <1>5 DEF Stop
  <2>3. Works(bestPool)'
    BY <1>1, <1>2, <2>1 DEF Works
  <2>4. FrameInv'
    BY <1>1, <1>2, <1>5, <2>2, <2>3 DEF IInv, FrameInv
  <2>5. QED
    BY <2>1, <2>4
<1>6. QED
  BY <1>4, <1>5 DEF SelectNew

Healths == {"free", "fresh", "failed", "running", "broken"}

\* A pool keeps its count when its health changes.
LEMMA PoolChanges ==
  ASSUME NEW r \in PoolStates, NEW h \in Healths
  PROVE  /\ r.health \in Healths /\ r.asked \in 0..MaxLimit
         /\ [r EXCEPT !.health = h] \in PoolStates
         /\ [r EXCEPT !.health = h].asked = r.asked
         /\ [r EXCEPT !.health = h].health = h
BY DEF PoolStates, Healths

\* ... and when its workers come up.
LEMMA PoolStarts ==
  ASSUME NEW r \in PoolStates, NEW n \in 0..MaxLimit,
         NEW q, q = [r EXCEPT !.health = "running", !.workers = n]
  PROVE  q \in PoolStates /\ q.asked = r.asked /\ q.health = "running"
BY DEF PoolStates, Healths

\* What up_usm_pool_apply leaves of the pool it was given.
LEMMA ApplyLeaves ==
  ASSUME IInv, Apply
  PROVE  \E r \in PoolStates :
           /\ pool' = [pool EXCEPT ![selected] = r]
           /\ r.asked = pool[selected].asked
           /\ status' \in {"ok", "failedUnchanged", "outputUncertain"}
           /\ IF status' = "ok" THEN r.health = "running" ELSE r.health \in {"failed", "broken"}
<1>1. /\ selected \in Pools /\ pool \in [Pools -> PoolStates] /\ selected \in Allocated
  BY DEF IInv, FrameInv, OwnerInv, PoolsOwned, Apply, Chosen
<1>2. pool[selected] \in PoolStates /\ pool[selected].health # "free"
  BY <1>1 DEF Allocated
<1>3. ASSUME NEW q \in Started(selected)
      PROVE  /\ q \in PoolStates /\ q.asked = pool[selected].asked
             /\ q.health # "running" => q.health \in {"failed", "broken"}
  <2>1. PICK r \in PoolStates : r = pool[selected]
    BY <1>2, Zenon
  <2>2. r.health # "free" /\ q \in (IF r.health # "fresh" THEN {r}
                                    ELSE {[r EXCEPT !.health = "failed"]} \cup
                                         {[r EXCEPT !.health = "running", !.workers = n] :
                                            n \in 1..r.asked})
    BY <1>2, <2>1, Zenon DEF Started
  <2>3. r.health \in Healths /\ r.asked \in 0..MaxLimit
    <3>1. "free" \in Healths
      BY DEF Healths
    <3>2. QED
      BY <3>1, PoolChanges, Zenon
  <2>4. 1..r.asked \subseteq 0..MaxLimit
    BY <2>3, TunerAssumption
  <2>6. CASE r.health # "fresh"
    <3>1. q = r
      BY <2>2, <2>6
    <3>2. r.health \in {"failed", "running", "broken"}
      BY <2>2, <2>3, <2>6 DEF Healths
    <3>3. QED
      BY <2>1, <3>1, <3>2, Zenon
  <2>7. CASE r.health = "fresh"
    <3>1. \/ q = [r EXCEPT !.health = "failed"]
          \/ \E n \in 1..r.asked : q = [r EXCEPT !.health = "running", !.workers = n]
      BY <2>2, <2>7, Zenon
    <3>2. ASSUME q = [r EXCEPT !.health = "failed"]
          PROVE  q \in PoolStates /\ q.asked = r.asked /\ q.health = "failed"
      <4>1. "failed" \in Healths
        BY DEF Healths
      <4>2. QED
        BY <3>2, <4>1, PoolChanges, Zenon
    <3>3. ASSUME NEW n \in 1..r.asked,
                 q = [r EXCEPT !.health = "running", !.workers = n]
          PROVE  q \in PoolStates /\ q.asked = r.asked /\ q.health = "running"
      <4>1. n \in 0..MaxLimit
        BY <2>4, Zenon
      <4>2. QED
        BY <3>3, <4>1, PoolStarts, Zenon
    <3>4. q \in PoolStates /\ q.asked = r.asked /\ q.health \in {"failed", "running"}
      BY <3>1, <3>2, <3>3, Zenon
    <3>5. QED
      BY <2>1, <3>4, Zenon
  <2>8. QED
    BY <2>6, <2>7
<1>4. PICK q \in Started(selected) :
        \/ /\ q.health = "running"
           /\ status' = "ok"
           /\ pool' = [pool EXCEPT ![selected] = q]
        \/ /\ q.health = "running" /\ q.asked > 1
           /\ status' = "outputUncertain"
           /\ pool' = [pool EXCEPT ![selected] = [q EXCEPT !.health = "broken"]]
        \/ /\ q.health # "running"
           /\ status' = "failedUnchanged"
           /\ pool' = [pool EXCEPT ![selected] = q]
  BY DEF Apply, UsmPoolApply
<1>5. /\ [q EXCEPT !.health = "broken"] \in PoolStates
      /\ [q EXCEPT !.health = "broken"].health = "broken"
      /\ [q EXCEPT !.health = "broken"].asked = q.asked
  <2>1. q \in PoolStates /\ "broken" \in Healths
    BY <1>3 DEF Healths
  <2>2. QED
    BY <2>1, PoolChanges, Zenon
<1>6. QED
  BY <1>3, <1>4, <1>5

LEMMA ApplyKeeps ==
  ASSUME IInv, Apply
  PROVE  OwnerInv' /\ FrameInv'
<1>1. PICK r \in PoolStates :
        /\ pool' = [pool EXCEPT ![selected] = r]
        /\ r.asked = pool[selected].asked
        /\ status' \in {"ok", "failedUnchanged", "outputUncertain"}
        /\ IF status' = "ok" THEN r.health = "running" ELSE r.health \in {"failed", "broken"}
  BY ApplyLeaves
<1>2. /\ pc = "apply"
      /\ pc' = (CASE status' # "ok" /\ selected # bestPool -> "recover"
                  [] status' = "ok" /\ enabled             -> "observe"
                  [] OTHER                                 -> "result")
      /\ tuner' = tuner /\ bestPool' = bestPool /\ trial' = trial /\ enabled' = enabled
      /\ retained' = retained /\ selected' = selected
  BY DEF Apply
<1>3. /\ pool \in [Pools -> PoolStates] /\ bestPool \in Pools /\ trial \in Pools \cup {None}
      /\ selected \in Pools /\ None \notin Pools
      /\ selected = IF enabled THEN Chosen ELSE bestPool
      /\ ~retained /\ retained \in BOOLEAN /\ enabled \in BOOLEAN /\ Works(bestPool)
  BY <1>2, TunerAssumption DEF IInv, FrameInv, OwnerInv
<1>4. /\ Allocated = {bestPool, trial} \ {None} /\ (trial # None => trial # bestPool)
      /\ (trial # None => enabled /\ OnTrial /\ pool[trial].asked = tuner.candidate)
      /\ (enabled => pool[bestPool].asked = tuner.best)
      /\ (enabled /\ tuner.phase = "confirm" => trial # None /\ pool[trial].health = "running")
  BY DEF IInv, OwnerInv, PoolsOwned
<1>5. /\ pool' \in [Pools -> PoolStates] /\ pool'[selected] = r
      /\ \A p \in Pools : p # selected => pool'[p] = pool[p]
      /\ \A p \in Pools : pool'[p].asked = pool[p].asked
  BY <1>1, <1>3
<1>6. selected \in Allocated /\ pc' \in {"recover", "observe", "result"}
  BY <1>2, <1>3, <1>4 DEF Chosen
<1>7. Allocated' = Allocated
  <2>1. pool'[selected].health # "free" /\ pool[selected].health # "free"
    BY <1>1, <1>5, <1>6 DEF Allocated
  <2>2. QED
    BY <1>3, <1>5, <2>1 DEF Allocated
<1>8. tuner.phase = "confirm" /\ enabled => selected = bestPool
  <2>1. tuner.current = IF tuner.phase = "trial" THEN tuner.candidate ELSE tuner.best
    BY Fields DEF IInv, TunerInv
  <2>2. QED
    BY <1>3, <2>1 DEF Chosen
<1>9. OwnerInv'
  <2>1. PoolsOwned'
    BY <1>2, <1>4, <1>6, <1>7 DEF PoolsOwned
  <2>2. enabled /\ tuner.phase = "confirm" => pool'[trial].health = "running"
    BY <1>3, <1>4, <1>5, <1>8
  <2>3. QED
    BY <1>2, <1>3, <1>4, <1>5, <1>6, <2>1, <2>2 DEF OwnerInv, OnTrial
<1>10. selected # bestPool => enabled /\ selected = trial /\ pool'[bestPool] = pool[bestPool]
  BY <1>3, <1>5 DEF Chosen
<1>11. status' = "ok" \/ selected # bestPool => Works(bestPool)'
  BY <1>1, <1>2, <1>3, <1>5, <1>10 DEF Works
<1>12. FrameInv'
  <2>1. CASE status' # "ok" /\ selected # bestPool
    <3>1. pc' = "recover"
      BY <1>2, <2>1
    <3>2. QED
      BY <1>1, <1>2, <1>3, <1>10, <1>11, <2>1, <3>1 DEF FrameInv
  <2>2. CASE status' = "ok" /\ enabled
    <3>1. pc' = "observe" /\ Chosen' = Chosen
      BY <1>2, <2>2 DEF Chosen
    <3>2. QED
      BY <1>1, <1>2, <1>3, <1>5, <1>11, <2>2, <3>1 DEF FrameInv
  <2>3. CASE ~(status' # "ok" /\ selected # bestPool) /\ ~(status' = "ok" /\ enabled)
    <3>1. pc' = "result" /\ selected = bestPool
      BY <1>2, <1>3, <2>3
    <3>2. QED
      BY <1>1, <1>2, <1>3, <1>5, <1>11, <2>3, <3>1 DEF FrameInv
  <2>4. QED
    BY <2>1, <2>2, <2>3
<1>13. QED
  BY <1>9, <1>12

LEMMA RecoverKeeps ==
  ASSUME IInv, Recover
  PROVE  OwnerInv' /\ FrameInv'
<1>1. /\ pc = "recover" /\ tuner' = tuner /\ bestPool' = bestPool /\ status' = status /\ Stop
      /\ IF status = "outputUncertain"
         THEN pc' = "result" /\ retained' = TRUE /\ selected' = selected
         ELSE pc' = "apply" /\ selected' = bestPool /\ retained' = retained
  BY DEF Recover
<1>2. ~retained /\ retained \in BOOLEAN /\ Works(bestPool) /\ bestPool \in Pools /\ None \notin Pools
  BY <1>1, TunerAssumption DEF IInv, FrameInv, OwnerInv
<1>3. OwnerInv' /\ pool'[bestPool] = pool[bestPool]
  BY <1>1, <1>2, StopOwns DEF IInv
<1>4. Works(bestPool)' /\ enabled' = FALSE
  BY <1>1, <1>2, <1>3 DEF Works, Stop
<1>5. FrameInv'
  BY <1>1, <1>2, <1>4 DEF IInv, FrameInv
<1>6. QED
  BY <1>3, <1>5

LEMMA UntimedKeeps ==
  ASSUME IInv, Untimed
  PROVE  OwnerInv' /\ FrameInv'
<1>1. /\ pc = "observe" /\ tuner' = tuner /\ bestPool' = bestPool /\ status' = status /\ Stop
      /\ pc' = "result" /\ retained' = retained /\ selected' = selected
  BY DEF Untimed
<1>2. /\ ~retained /\ retained \in BOOLEAN /\ Works(bestPool) /\ bestPool \in Pools
      /\ None \notin Pools /\ status = "ok"
  BY <1>1, TunerAssumption DEF IInv, FrameInv, OwnerInv
<1>3. OwnerInv' /\ pool'[bestPool] = pool[bestPool]
  BY <1>1, <1>2, StopOwns DEF IInv
<1>4. Works(bestPool)' /\ enabled' = FALSE
  BY <1>1, <1>2, <1>3 DEF Works, Stop
<1>5. FrameInv'
  BY <1>1, <1>2, <1>4 DEF IInv, FrameInv
<1>6. QED
  BY <1>3, <1>5

\* What the clock says is a time of the machine.
LEMMA TimesOfPool ==
  ASSUME TunerInv, MachineInv, NEW x \in Elapsed(tuner.current)
  PROVE  x \in Times
<1>1. tuner.current \in 1..MaxLimit
  <2>1. tuner.current \in Nat /\ tuner.current >= 1 /\ tuner.current <= tuner.limit
        /\ tuner.limit \in Nat /\ tuner.limit <= MaxLimit /\ MaxLimit \in Nat
    BY Fields DEF TunerInv
  <2>2. QED
    BY <2>1
<1>2. cost[tuner.current] \in Costs
  BY <1>1 DEF MachineInv
<1>3. QED
  BY <1>2 DEF Elapsed, Times

LEMMA TimedKeeps ==
  ASSUME IInv, Timed
  PROVE  TunerInv' /\ OwnerInv' /\ FrameInv'
<1>1. PICK x \in Elapsed(pool[selected].workers) : Accept(x)
  BY DEF Timed
<1>2. /\ pc = "observe" /\ pool[selected].workers = tuner.current /\ pc' = "result"
      /\ enabled' = enabled /\ retained' = retained /\ selected' = selected /\ status' = status
  BY DEF Timed
<1>3. x \in Times
  BY <1>1, <1>2, TimesOfPool DEF IInv
<1>4. tuner' = Observed(tuner, x)
  BY <1>1 DEF Accept
<1>5. Tuned(tuner') /\ Len(tuner'.samples) < WindowSamples /\ Moves(tuner, tuner')
  BY <1>3, <1>4, ObservedTuned DEF IInv, TunerInv
<1>6. TunerInv'
  BY <1>5 DEF TunerInv, Tuned, Tuners
<1>7. /\ pool \in [Pools -> PoolStates] /\ bestPool \in Pools /\ trial \in Pools \cup {None}
      /\ None \notin Pools /\ MaxLimit \in Nat
      /\ ~retained /\ retained \in BOOLEAN /\ enabled = TRUE /\ Works(bestPool)
      /\ status = "ok" /\ selected \in Pools
      /\ selected = Chosen /\ pool[selected].health = "running"
  BY <1>2, TunerAssumption DEF IInv, FrameInv, OwnerInv
<1>8. /\ Allocated = {bestPool, trial} \ {None} /\ (trial # None => trial # bestPool)
      /\ (trial # None => OnTrial /\ pool[trial].asked = tuner.candidate)
      /\ pool[bestPool].asked = tuner.best
      /\ (tuner.phase = "confirm" => trial # None /\ pool[trial].health = "running")
  BY <1>7 DEF IInv, OwnerInv, PoolsOwned
<1>9. tuner.phase = "trial" => selected = trial
  BY <1>7, Fields DEF IInv, TunerInv, Chosen
<1>10. CASE tuner'.best # tuner.best
  <2>1. /\ tuner.phase = "confirm" /\ tuner'.phase = "base" /\ tuner'.best = tuner.candidate
    BY <1>5, <1>10 DEF Moves
  <2>2. pool' = Without({bestPool}) /\ bestPool' = trial /\ trial' = None
    BY <1>1, <1>10 DEF Accept
  <2>3. trial \in Pools /\ trial # bestPool /\ pool[trial].health = "running"
        /\ pool[trial].asked = tuner.candidate
    BY <1>7, <1>8, <2>1
  <2>4. /\ pool' \in [Pools -> PoolStates]
        /\ \A p \in Pools : pool'[p] = IF p = bestPool THEN NoPool ELSE pool[p]
    BY <1>7, <2>2, WithoutLeaves
  <2>5. pool'[trial] = pool[trial]
    BY <2>3, <2>4
  <2>6. Allocated' = {trial}
    BY <1>7, <1>8, <2>3, <2>4 DEF Allocated, NoPool
  <2>7. PoolsOwned'
    BY <1>2, <1>7, <2>2, <2>3, <2>6 DEF PoolsOwned
  <2>8. OwnerInv'
    BY <1>2, <1>7, <2>1, <2>2, <2>3, <2>4, <2>5, <2>7 DEF OwnerInv
  <2>9. Works(bestPool)'
    BY <2>2, <2>3, <2>5 DEF Works
  <2>10. FrameInv'
    BY <1>2, <1>7, <2>9 DEF FrameInv
  <2>11. QED
    BY <1>6, <2>8, <2>10
<1>11. CASE tuner'.best = tuner.best /\ tuner.phase = "confirm" /\ tuner'.phase = "base"
  <2>1. pool' = Without({trial}) /\ trial' = None /\ bestPool' = bestPool
    BY <1>1, <1>11 DEF Accept
  <2>2. /\ pool' \in [Pools -> PoolStates]
        /\ \A p \in Pools : pool'[p] = IF p = trial THEN NoPool ELSE pool[p]
    BY <1>7, <2>1, WithoutLeaves
  <2>3. trial \in Pools /\ trial # bestPool /\ pool'[bestPool] = pool[bestPool]
    BY <1>7, <1>8, <1>11, <2>2
  <2>4. Allocated' = {bestPool}
    BY <1>7, <1>8, <2>2, <2>3 DEF Allocated, NoPool
  <2>5. PoolsOwned'
    BY <1>2, <1>7, <2>1, <2>4 DEF PoolsOwned
  <2>6. OwnerInv'
    BY <1>2, <1>7, <1>8, <1>11, <2>1, <2>2, <2>3, <2>5 DEF OwnerInv
  <2>7. Works(bestPool)'
    BY <1>7, <2>1, <2>3 DEF Works
  <2>8. FrameInv'
    BY <1>2, <1>7, <2>7 DEF FrameInv
  <2>9. QED
    BY <1>6, <2>6, <2>8
<1>12. CASE tuner'.best = tuner.best /\ ~(tuner.phase = "confirm" /\ tuner'.phase = "base")
  <2>1. pool' = pool /\ bestPool' = bestPool /\ trial' = trial
    BY <1>1, <1>12 DEF Accept, poolVars
  <2>2. trial # None => OnTrial' /\ pool[trial].asked = tuner'.candidate
    BY <1>5, <1>8, <1>12 DEF Moves, OnTrial
  <2>3. tuner'.phase = "confirm" => trial # None /\ pool[trial].health = "running"
    BY <1>5, <1>7, <1>8, <1>9, <1>12 DEF Moves
  <2>4. PoolsOwned'
    BY <1>2, <1>8, <2>1 DEF PoolsOwned, Allocated
  <2>5. OwnerInv'
    BY <1>2, <1>7, <1>8, <1>12, <2>1, <2>2, <2>3, <2>4 DEF OwnerInv
  <2>6. Works(bestPool)'
    BY <1>7, <2>1 DEF Works
  <2>7. FrameInv'
    BY <1>2, <1>7, <2>6 DEF FrameInv
  <2>8. QED
    BY <1>6, <2>5, <2>7
<1>13. QED
  BY <1>10, <1>11, <1>12

\* Both pools go when sharpening ends, and there is no other.
LEMMA DisableKeeps ==
  ASSUME IInv, DisableUsm, UNCHANGED <<tuner, retained, selected, status>>
  PROVE  OwnerInv' /\ FrameInv'
<1>1. /\ pool' = Without({trial, bestPool}) /\ trial' = None /\ bestPool' = None
      /\ enabled' = FALSE /\ pc' = "off"
  BY DEF DisableUsm
<1>2. /\ pool \in [Pools -> PoolStates] /\ MaxLimit \in Nat
      /\ Allocated = {bestPool, trial} \ {None}
  BY TunerAssumption DEF IInv, OwnerInv, PoolsOwned
<1>3. /\ pool' \in [Pools -> PoolStates]
      /\ \A p \in Pools : pool'[p] = IF p \in {trial, bestPool} THEN NoPool ELSE pool[p]
  BY <1>1, <1>2, WithoutLeaves
<1>4. Allocated' = {}
  BY <1>2, <1>3 DEF Allocated, NoPool
<1>5. OwnerInv'
  BY <1>1, <1>3, <1>4 DEF OwnerInv, PoolsOwned
<1>6. FrameInv'
  BY <1>1 DEF IInv, FrameInv
<1>7. QED
  BY <1>5, <1>6

LEMMA ResultKeeps ==
  ASSUME IInv, Result
  PROVE  OwnerInv' /\ FrameInv'
<1>1. /\ pc = "result" /\ tuner' = tuner /\ retained' = retained /\ selected' = selected
      /\ status' = status
  BY DEF Result
<1>2. CASE status = "ok" \/ retained
  <2>1. pc' = "idle" /\ pool' = pool /\ bestPool' = bestPool /\ trial' = trial /\ enabled' = enabled
    BY <1>2 DEF Result, poolVars
  <2>2. Works(bestPool) /\ bestPool # None
    BY <1>1, <1>2 DEF IInv, FrameInv, OwnerInv
  <2>3. PoolsOwned'
    BY <2>1, <2>2 DEF IInv, OwnerInv, PoolsOwned, Allocated, Works
  <2>4. OwnerInv'
    BY <1>1, <2>1, <2>2, <2>3 DEF IInv, OwnerInv, OnTrial
  <2>5. FrameInv'
    BY <1>1, <2>1 DEF IInv, FrameInv
  <2>6. QED
    BY <2>4, <2>5
<1>3. CASE ~(status = "ok" \/ retained)
  BY <1>1, <1>3, DisableKeeps DEF Result
<1>4. QED
  BY <1>2, <1>3

LEMMA Preserved == IInv /\ [Next]_vars => IInv'
<1> SUFFICES ASSUME IInv, [Next]_vars PROVE IInv'
  OBVIOUS
<1>1. ASSUME tuner' = tuner, machine' = machine, OwnerInv', FrameInv' PROVE IInv'
  BY <1>1 DEF IInv, TunerInv, Tuned, Tuners, MachineInv, machine
<1>2. CASE Frame
  <2>1. tuner' = tuner /\ machine' = machine
    BY <1>2 DEF Frame
  <2>2. OwnerInv' /\ FrameInv'
    BY <1>2, FrameKeeps
  <2>3. QED
    BY <1>1, <2>1, <2>2
<1>3. CASE SelectExisting
  BY <1>1, <1>3, SelectExistingKeeps DEF SelectExisting
<1>4. CASE SelectNew
  BY <1>1, <1>4, SelectNewKeeps DEF SelectNew
<1>5. CASE Apply
  BY <1>1, <1>5, ApplyKeeps DEF Apply
<1>6. CASE Recover
  <2>1. tuner' = tuner /\ machine' = machine
    BY <1>6 DEF Recover
  <2>2. OwnerInv' /\ FrameInv'
    BY <1>6, RecoverKeeps
  <2>3. QED
    BY <1>1, <2>1, <2>2
<1>7. CASE Untimed
  BY <1>1, <1>7, UntimedKeeps DEF Untimed
<1>8. CASE Timed
  <2>1. MachineInv'
    BY <1>8 DEF Timed, IInv, MachineInv, machine
  <2>2. QED
    BY <1>8, <2>1, TimedKeeps DEF IInv
<1>9. CASE Result
  BY <1>1, <1>9, ResultKeeps DEF Result
<1>10. CASE SwitchOff
  BY <1>1, <1>10, DisableKeeps DEF SwitchOff
<1>11. CASE UNCHANGED vars
  <2>1. OwnerInv'
    BY <1>11 DEF IInv, vars, poolVars, OwnerInv, PoolsOwned, Allocated, OnTrial
  <2>2. FrameInv'
    BY <1>11 DEF IInv, vars, poolVars, FrameInv, Works, Chosen
  <2>3. QED
    BY <1>1, <1>11, <2>1, <2>2 DEF vars
<1>12. QED
  BY <1>2, <1>3, <1>4, <1>5, <1>6, <1>7, <1>8, <1>9, <1>10, <1>11 DEF Next, FrameStep, Off

LEMMA Inductive == Spec => []IInv
BY Initially, Preserved, PTL DEF Spec

LEMMA InitiallySteady == Init => SteadyInv
<1> SUFFICES ASSUME Init PROVE Windowful(tuner.samples, cost[tuner.current]) /\ Searched(tuner, cost)
  BY DEF SteadyInv
<1>1. PICK limit \in 2..MaxLimit : \E initial \in 1..limit : tuner = TunerInit(initial, limit)
  BY DEF Init
<1>2. tuner.limit = limit /\ tuner.samples = <<>> /\ tuner.phase = "base" /\ tuner.cursor = 0
  BY <1>1 DEF TunerInit
<1>3. \A c : ~Tried(tuner, c)
  <2>1. limit \in 2..64
    <3>1. MaxLimit \in 0..64
      BY TunerAssumption
    <3>2. QED
      BY <3>1
  <2>2. \A c \in CandidatesOf(limit) : c \in 1..limit
    BY <2>1, CandidateBounds
  <2>3. QED
    BY <1>2, <2>2 DEF Tried
<1>4. QED
  BY <1>2, <1>3 DEF Windowful, Searched

\* The tuner learns of the machine only through the frames that are timed, and
\* a frame is timed only with the workers in use.
LEMMA SteadyPreserved == IInv /\ SteadyInv /\ [Next]_vars => SteadyInv'
<1> SUFFICES ASSUME IInv, SteadyInv, [Next]_vars, ~noisy'
             PROVE  Windowful(tuner.samples, cost[tuner.current])' /\ Searched(tuner, cost)'
  BY DEF SteadyInv
<1>1. noisy' = noisy /\ cost' = cost
  BY DEF Next, FrameStep, Frame, SelectExisting, SelectNew, Apply, Recover, Untimed, Timed,
         Result, SwitchOff, Off, vars, machine
<1>2. Windowful(tuner.samples, cost[tuner.current]) /\ Searched(tuner, cost)
  BY <1>1 DEF SteadyInv
<1>3. CASE Timed
  <2>1. PICK x \in Elapsed(tuner.current) : tuner' = Observed(tuner, x)
    BY <1>3 DEF Timed, Accept
  <2>2. x \in {cost[tuner.current]} \cup
              ({Outlier} \ {tuner.samples[i] : i \in DOMAIN tuner.samples})
    BY <1>1, <2>1 DEF Elapsed
  <2>3. Tuned(tuner) /\ Len(tuner.samples) < WindowSamples /\ cost \in [1..MaxLimit -> Costs]
    BY DEF IInv, TunerInv, MachineInv
  <2>4. Windowful(tuner'.samples, cost[tuner'.current]) /\ Searched(tuner', cost)
    BY <1>2, <2>1, <2>2, <2>3, ObservedSteady
  <2>5. QED
    BY <1>1, <2>4 DEF Windowful, Searched, Tried
<1>4. CASE ~Timed
  <2>1. tuner' = tuner
    BY <1>4 DEF Next, FrameStep, Frame, SelectExisting, SelectNew, Apply, Recover, Untimed,
                Result, SwitchOff, Off, vars
  <2>2. QED
    BY <1>1, <1>2, <2>1 DEF Windowful, Searched, Tried
<1>5. QED
  BY <1>3, <1>4

LEMMA Steady == Spec => []SteadyInv
<1>1. IInv /\ SteadyInv /\ [Next]_vars => SteadyInv'
  BY SteadyPreserved
<1>2. QED
  BY <1>1, InitiallySteady, Inductive, PTL DEF Spec

-----------------------------------------------------------------------------
\* Every state has the types the module declares (usm_adaptive.h and
\* worker_tuner.h: the counts stay within the limit, the windows within
\* UP_TUNER_SAMPLES).
THEOREM TypeCorrect == Spec => []TypeOK
<1>1. IInv => TypeOK
  <2> SUFFICES ASSUME IInv PROVE TypeOK
    OBVIOUS
  <2>1. Tuned(tuner) /\ Len(tuner.samples) < WindowSamples
    BY DEF IInv, TunerInv
  <2>2. /\ tuner.limit \in 2..MaxLimit
        /\ {tuner.best, tuner.current} \subseteq 1..tuner.limit
        /\ {tuner.candidate, tuner.cursor} \subseteq 0..tuner.limit
    BY <2>1 DEF Tuned
  <2>3. /\ tuner.samples \in Seq(Costs \cup NoisyTimes \cup {Outlier})
        /\ {tuner.base, tuner.trial, tuner.steady} \subseteq Nat
        /\ tuner.phase \in Phases
    BY <2>1, Fields DEF Times
  <2>4. /\ tuner.warmup \in 0..WarmupFrames /\ tuner.remaining \in 0..RecheckFrames
        /\ tuner.drift \in 0..2
    <3>1. /\ WarmupFrames \in Nat /\ tuner.warmup \in Nat /\ tuner.warmup <= WarmupFrames
          /\ RecheckFrames \in Nat /\ tuner.remaining \in Nat /\ tuner.remaining <= RecheckFrames
          /\ tuner.drift \in Nat /\ tuner.drift <= 2
      BY <2>1, Fields, Zenon
    <3>2. QED
      BY <3>1
  <2>5. /\ pool \in [Pools -> [health: {"free", "fresh", "failed", "running", "broken"},
                               asked: 0..MaxLimit, workers: 0..MaxLimit]]
        /\ {bestPool, trial, selected} \subseteq Pools \cup {None}
        /\ {enabled, retained, noisy} \subseteq BOOLEAN
        /\ status \in {"ok", "failedUnchanged", "outputUncertain"}
        /\ pc \in {"idle", "select", "apply", "recover", "observe", "result", "off"}
        /\ cost \in [1..MaxLimit -> Costs]
    BY DEF IInv, OwnerInv, FrameInv, MachineInv, PoolStates
  <2>6. QED
    BY <2>1, <2>2, <2>3, <2>4, <2>5 DEF TypeOK
<1>2. QED
  BY <1>1, Inductive, PTL

\* Every allocated pool has exactly one owner, and the filter's pool can
\* sharpen the next frame (up_usm_adaptive_accept, up_usm_adaptive_recover,
\* up_usm_adaptive_clear_trial, DisableUsm).
THEOREM PoolsStayOwned == Spec => []PoolsOwned
<1>1. IInv => PoolsOwned
  BY DEF IInv, OwnerInv
<1>2. QED
  BY <1>1, Inductive, PTL

\* While the search runs, the filter's pool has the best number of workers and
\* the trial pool the number on trial (up_usm_adaptive_select,
\* up_usm_adaptive_accept).
THEOREM PoolsFollowTuner == Spec => []PoolsMatchTuner
<1>1. IInv => PoolsMatchTuner
  BY DEF IInv, OwnerInv, PoolsMatchTuner
<1>2. QED
  BY <1>1, Inductive, PTL

\* Sharpening is given up only because the filter's own pool failed
\* (up_usm_adaptive_recover, ApplyUsmIfEnabled).
THEOREM TrialSpares == Spec => TrialFailureSpares
<1>1. IInv /\ [Next]_vars =>
        [pc = "result" /\ bestPool' = None => pool[bestPool].health \in {"failed", "broken"}]_vars
  <2> SUFFICES ASSUME IInv, [Next]_vars, pc = "result", bestPool' = None
               PROVE  pool[bestPool].health \in {"failed", "broken"}
    OBVIOUS
  <2>1. bestPool # None
    BY DEF IInv, OwnerInv
  <2>2. Result
    BY <2>1 DEF Next, FrameStep, Frame, SelectExisting, SelectNew, Apply, Recover, Untimed,
               Timed, SwitchOff, Off, vars, poolVars
  <2>3. ~(status = "ok" \/ retained)
    BY <2>1, <2>2 DEF Result, poolVars
  <2>4. QED
    BY <2>3 DEF IInv, FrameInv
<1>2. QED
  BY <1>1, Inductive, PTL DEF Spec, TrialFailureSpares

\* On a steady machine a window holds the times of the count in use, one
\* disturbed frame excepted, and what the end of a trial compares is the best
\* count before, the candidate, and the best count after: no sample survives a
\* change of pool, an early end of a trial or a return to the search
\* (up_worker_tuner_observe, up_tuner_window).
THEOREM WindowsStayCurrent == Spec => []WindowTimesCurrent
<1>1. IInv /\ SteadyInv => WindowTimesCurrent
  <2> SUFFICES ASSUME IInv, SteadyInv, ~noisy PROVE WindowTimesCurrent
    BY DEF WindowTimesCurrent
  <2>1. Windowful(tuner.samples, cost[tuner.current]) /\ Searched(tuner, cost)
    BY DEF SteadyInv
  <2>2. /\ tuner.samples \in Seq(Times)
        /\ tuner.phase \in {"trial", "confirm"} => tuner.candidate # tuner.best
    BY Fields DEF IInv, TunerInv
  <2>3. Len(tuner.samples) \in Nat /\ DOMAIN tuner.samples = 1..Len(tuner.samples)
    BY <2>2
  <2>4. \A i \in DOMAIN tuner.samples : tuner.samples[i] \in {cost[tuner.current], Outlier}
    <3> DEFINE n == Len(tuner.samples)
    <3>1. \A i \in 1..n : (i \in 1..n - 1 \/ i = n) /\ (i \in 2..n \/ i = 1)
      <4> HIDE DEF n
      <4>1. n \in Nat
        BY <2>3 DEF n
      <4>2. QED
        BY <4>1
    <3>2. QED
      BY <2>1, <2>3, <3>1 DEF Windowful
  <2>5. QED
    BY <2>1, <2>2, <2>4 DEF WindowTimesCurrent, Searched
<1>2. QED
  BY <1>1, Inductive, Steady, PTL

\* On a steady machine the search settles on a count that no other candidate
\* beats by five percent, for every table of times and although a frame of each
\* window was disturbed (up_tuner_next_count, up_tuner_begin_trial,
\* up_tuner_confirm).
THEOREM SearchSettlesWell == Spec => []SettledIsGood
<1>1. IInv /\ SteadyInv => SettledIsGood
  <2> SUFFICES ASSUME IInv, SteadyInv, ~noisy, tuner.phase = "settled", NEW c \in Candidates
               PROVE  100 * cost[c] >= 95 * cost[tuner.best]
    BY DEF SettledIsGood
  <2>1. Tried(tuner, c)
    BY DEF Tried, Candidates, CandidatesOf
  <2>2. c \in Nat
    BY <2>1, CostTypes DEF IInv, TunerInv, MachineInv
  <2>3. QED
    BY <2>1, <2>2 DEF SteadyInv, Searched
<1>2. QED
  BY <1>1, Inductive, Steady, PTL
=============================================================================
