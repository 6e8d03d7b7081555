-------------------------- MODULE AutoUpscaleProofs --------------------------
(***************************************************************************)
(* Ownership in AutoUpscale, proved for every length of the probe window,  *)
(* every size and content of the source, and every sequence of failures of *)
(* backends, picture pool and sharpening pools.                            *)
(*                                                                         *)
(* The argument in one paragraph.  At each point of a call it is known     *)
(* which pictures the filter holds (PictureInv) and whether the output is  *)
(* whole (PixelInv), so no exit releases a picture twice or forwards a     *)
(* torn one.  A context has an open backend exactly after Open, and zimg   *)
(* is left at the first fatal failure because the fallback is tried once   *)
(* and zimg is gone when it has been (BackendInv).  A broken pool exists   *)
(* only between the pass that broke it and the end of the same call, and a *)
(* skipped source has no pool (SharpenInv).                                *)
(*                                                                         *)
(* The second part is about PictureGeometry, the sizes Open plans for and  *)
(* the views Filter makes of its pictures: TargetIsUsable, ViewsAreSound.  *)
(***************************************************************************)
EXTENDS AutoUpscale, PictureGeometry, ArithmeticLemmas, TLAPS

USE DEF sysVars, usmVars, probeVars, picVars

Opening == {"probeInput", "open", "openFallback", "init"}
Scaling == {"process", "fallback", "drop", "usm", "usmApplied", "finish"}
Whole   == {"scaled", "sharp"}

\* What the argument needs of TypeOK.
Typed ==
  /\ config.pref \in Prefs /\ config.supports \subseteq Backends
  /\ pc \in Opening \cup Scaling \cup {"idle", "probe", "newPicture", "end"}
  /\ {backend, priv} \subseteq Backends \cup {"none"}
  /\ live \in SUBSET Backends
  /\ {fallbackTried, skipSharp, retained, fatal} \subseteq BOOLEAN

\* Which pictures the filter holds.
PictureInv ==
  /\ pc \in Opening => in = "none" /\ out = "none"
  /\ pc \in {"idle", "end"} =>
       in \in {"none", "released"} /\ out \in {"none", "released", "returned"}
  /\ pc \in {"probe", "newPicture"} => in = "held" /\ out = "none"
  /\ pc \in Scaling => in = "held" /\ out = "held"

\* What the output picture holds when it matters.
PixelInv ==
  /\ out = "returned" => pixels \in Whole
  /\ pc = "usm" => pixels = "scaled"
  /\ pc = "usmApplied" => usmStatus = "outputUncertain" \/ pixels \in Whole
  /\ pc = "finish" => pixels \in Whole

\* Which backend is open.
BackendInv ==
  /\ pc = "probeInput" => backend = "none"
  /\ pc \in {"open", "openFallback"} => backend # "none" /\ priv = "none" /\ live = {}
  /\ pc = "openFallback" => Pick("swscale") # "none"
  /\ pc = "init" => backend # "none"
  /\ pc \notin {"open", "openFallback"} => priv = backend /\ live = {backend} \ {"none"}
  /\ pc \in Opening => ~fallbackTried /\ ~fatal
  /\ fallbackTried => backend # "zimg"
  /\ fatal => backend # "zimg" \/ pc = "fallback"

\* What may be sharpened, and by which pool.
SharpenInv ==
  /\ usmPool = "broken" => pc = "usmApplied" /\ usmStatus # "ok" /\ ~retained
  /\ pc \in Opening \cup {"usmApplied"} => ~skipSharp
  /\ skipSharp => /\ usmPool = "none"
                  /\ pc = "finish" \/ out = "returned" => pixels = "scaled"

IInv == Typed /\ PictureInv /\ PixelInv /\ BackendInv /\ SharpenInv

-----------------------------------------------------------------------------
(* The inductive invariant.                                                *)

\* A filter that VLC has just asked to open holds nothing.
LEMMA InitIInv == Init => IInv
<1> SUFFICES ASSUME Init PROVE IInv
  OBVIOUS
<1>1. config \in Options
  BY DEF Init, Configs
<1>2. config.pref \in Prefs /\ config.supports \subseteq Backends
  BY <1>1 DEF Options
<1>3. Typed
  BY <1>2 DEF Init, Typed, Opening, Scaling
<1>4. PictureInv /\ PixelInv /\ BackendInv /\ SharpenInv
  BY DEF Init, PictureInv, PixelInv, BackendInv, SharpenInv, Opening, Scaling
<1>5. QED
  BY <1>3, <1>4 DEF IInv

\* Every step keeps the variables in their types.
LEMMA TypedStep == Typed /\ BackendInv /\ [Next]_vars => Typed'
<1> SUFFICES ASSUME Typed, BackendInv, [Next]_vars PROVE Typed'
  OBVIOUS
<1> USE DEF Typed, BackendInv, Opening, Scaling, Prefs, Backends
<1>1. CASE Decline
  BY <1>1 DEF Decline
<1>2. CASE PickBackend
  BY <1>2 DEF PickBackend, Pick, IfOk
<1>3. CASE OpenPreferred
  BY <1>3 DEF OpenPreferred, Opens, AllowFallback, Pick, IfOk
<1>4. CASE OpenFallback
  BY <1>4 DEF OpenFallback, Opens, Pick, IfOk
<1>5. CASE FinishOpen
  BY <1>5 DEF FinishOpen
<1>6. CASE Filter
  BY <1>6 DEF Filter, Released
<1>7. CASE ProbeStep
  BY <1>7 DEF ProbeStep, RunProbe, ObservePlane, DisableUsm
<1>8. CASE NewPicture
  BY <1>8 DEF NewPicture, Released
<1>9. CASE Process
  BY <1>9 DEF Process, Statuses
<1>10. CASE TryBackendFallback
  BY <1>10 DEF TryBackendFallback, Closes, Pick, IfOk
<1>11. CASE Drop
  BY <1>11 DEF Drop, Released
<1>12. CASE SkipUsm
  BY <1>12 DEF SkipUsm
<1>13. CASE UsmApply
  BY <1>13 DEF UsmApply, BestApplies
<1>14. CASE UsmApplied
  BY <1>14 DEF UsmApplied, DisableUsm
<1>15. CASE Finish
  BY <1>15 DEF Finish, Released
<1>16. CASE Close
  BY <1>16 DEF Close, Closes, DisableUsm
<1>17. CASE End
  BY <1>17 DEF End, vars
<1>18. CASE UNCHANGED vars
  BY <1>18 DEF vars
<1>19. QED
  BY <1>1, <1>2, <1>3, <1>4, <1>5, <1>6, <1>7, <1>8, <1>9,
     <1>10, <1>11, <1>12, <1>13, <1>14, <1>15, <1>16, <1>17, <1>18 DEF Next

\* Every exit of Filter gives back what the call holds there.
LEMMA PictureStep == Typed /\ PictureInv /\ [Next]_vars => PictureInv'
<1> SUFFICES ASSUME Typed, PictureInv, [Next]_vars PROVE PictureInv'
  OBVIOUS
<1> USE DEF Typed, PictureInv, Opening, Scaling
<1>1. CASE Decline
  BY <1>1 DEF Decline
<1>2. CASE PickBackend
  BY <1>2 DEF PickBackend, Pick, IfOk
<1>3. CASE OpenPreferred
  BY <1>3 DEF OpenPreferred, Opens, AllowFallback, Pick, IfOk
<1>4. CASE OpenFallback
  BY <1>4 DEF OpenFallback, Opens, Pick, IfOk
<1>5. CASE FinishOpen
  BY <1>5 DEF FinishOpen
<1>6. CASE Filter
  BY <1>6 DEF Filter, Released
<1>7. CASE ProbeStep
  BY <1>7 DEF ProbeStep, RunProbe, ObservePlane, DisableUsm
<1>8. CASE NewPicture
  BY <1>8 DEF NewPicture, Released
<1>9. CASE Process
  BY <1>9 DEF Process, Statuses
<1>10. CASE TryBackendFallback
  BY <1>10 DEF TryBackendFallback, Closes, Pick, IfOk
<1>11. CASE Drop
  BY <1>11 DEF Drop, Released
<1>12. CASE SkipUsm
  BY <1>12 DEF SkipUsm
<1>13. CASE UsmApply
  BY <1>13 DEF UsmApply, BestApplies
<1>14. CASE UsmApplied
  BY <1>14 DEF UsmApplied, DisableUsm
<1>15. CASE Finish
  BY <1>15 DEF Finish, Released
<1>16. CASE Close
  BY <1>16 DEF Close, Closes, DisableUsm
<1>17. CASE End
  BY <1>17 DEF End, vars
<1>18. CASE UNCHANGED vars
  BY <1>18 DEF vars
<1>19. QED
  BY <1>1, <1>2, <1>3, <1>4, <1>5, <1>6, <1>7, <1>8, <1>9,
     <1>10, <1>11, <1>12, <1>13, <1>14, <1>15, <1>16, <1>17, <1>18 DEF Next

\* Only a conversion that reports success, and a pass that did not spoil it,
\* leads to the return of the output.
LEMMA PixelStep == PictureInv /\ PixelInv /\ [Next]_vars => PixelInv'
<1> SUFFICES ASSUME PictureInv, PixelInv, [Next]_vars PROVE PixelInv'
  OBVIOUS
<1> USE DEF PictureInv, PixelInv, Opening, Scaling, Whole
<1>1. CASE Decline
  BY <1>1 DEF Decline
<1>2. CASE PickBackend
  BY <1>2 DEF PickBackend, Pick, IfOk
<1>3. CASE OpenPreferred
  BY <1>3 DEF OpenPreferred, Opens, AllowFallback, Pick, IfOk
<1>4. CASE OpenFallback
  BY <1>4 DEF OpenFallback, Opens, Pick, IfOk
<1>5. CASE FinishOpen
  BY <1>5 DEF FinishOpen
<1>6. CASE Filter
  BY <1>6 DEF Filter, Released
<1>7. CASE ProbeStep
  BY <1>7 DEF ProbeStep, RunProbe, ObservePlane, DisableUsm
<1>8. CASE NewPicture
  BY <1>8 DEF NewPicture, Released
<1>9. CASE Process
  BY <1>9 DEF Process, Statuses
<1>10. CASE TryBackendFallback
  BY <1>10 DEF TryBackendFallback, Closes, Pick, IfOk
<1>11. CASE Drop
  BY <1>11 DEF Drop, Released
<1>12. CASE SkipUsm
  BY <1>12 DEF SkipUsm
<1>13. CASE UsmApply
  BY <1>13 DEF UsmApply, BestApplies
<1>14. CASE UsmApplied
  BY <1>14 DEF UsmApplied, DisableUsm
<1>15. CASE Finish
  BY <1>15 DEF Finish, Released
<1>16. CASE Close
  BY <1>16 DEF Close, Closes, DisableUsm
<1>17. CASE End
  BY <1>17 DEF End, vars
<1>18. CASE UNCHANGED vars
  BY <1>18 DEF vars
<1>19. QED
  BY <1>1, <1>2, <1>3, <1>4, <1>5, <1>6, <1>7, <1>8, <1>9,
     <1>10, <1>11, <1>12, <1>13, <1>14, <1>15, <1>16, <1>17, <1>18 DEF Next

\* Opening, falling back and closing change backend, state and allocation
\* together.
LEMMA BackendStep == Typed /\ BackendInv /\ [Next]_vars => BackendInv'
<1> SUFFICES ASSUME Typed, BackendInv, [Next]_vars PROVE BackendInv'
  OBVIOUS
<1> USE DEF Typed, BackendInv, Opening, Scaling, Prefs, Backends
<1>1. CASE Decline
  BY <1>1 DEF Decline
<1>2. CASE PickBackend
  BY <1>2 DEF PickBackend, Pick, IfOk
<1>3. CASE OpenPreferred
  BY <1>3 DEF OpenPreferred, Opens, AllowFallback, Pick, IfOk
<1>4. CASE OpenFallback
  BY <1>4 DEF OpenFallback, Opens, Pick, IfOk
<1>5. CASE FinishOpen
  BY <1>5 DEF FinishOpen
<1>6. CASE Filter
  BY <1>6 DEF Filter, Released
<1>7. CASE ProbeStep
  BY <1>7 DEF ProbeStep, RunProbe, ObservePlane, DisableUsm
<1>8. CASE NewPicture
  BY <1>8 DEF NewPicture, Released
<1>9. CASE Process
  BY <1>9 DEF Process, Statuses
<1>10. CASE TryBackendFallback
  BY <1>10 DEF TryBackendFallback, Closes, Pick, IfOk
<1>11. CASE Drop
  BY <1>11 DEF Drop, Released
<1>12. CASE SkipUsm
  BY <1>12 DEF SkipUsm
<1>13. CASE UsmApply
  BY <1>13 DEF UsmApply, BestApplies
<1>14. CASE UsmApplied
  BY <1>14 DEF UsmApplied, DisableUsm
<1>15. CASE Finish
  BY <1>15 DEF Finish, Released
<1>16. CASE Close
  BY <1>16 DEF Close, Closes, DisableUsm
<1>17. CASE End
  BY <1>17 DEF End, vars, Pick, IfOk
<1>18. CASE UNCHANGED vars
  BY <1>18 DEF vars, Pick, IfOk
<1>19. QED
  BY <1>1, <1>2, <1>3, <1>4, <1>5, <1>6, <1>7, <1>8, <1>9,
     <1>10, <1>11, <1>12, <1>13, <1>14, <1>15, <1>16, <1>17, <1>18 DEF Next

\* A pool that breaks is dropped before the call ends; the probe drops it for
\* a grainy source before the frame is scaled.
LEMMA SharpenStep == Typed /\ PictureInv /\ PixelInv /\ SharpenInv /\ [Next]_vars => SharpenInv'
<1> SUFFICES ASSUME Typed, PictureInv, PixelInv, SharpenInv, [Next]_vars PROVE SharpenInv'
  OBVIOUS
<1> USE DEF Typed, PictureInv, PixelInv, SharpenInv, Opening, Scaling, Whole
<1>1. CASE Decline
  BY <1>1 DEF Decline
<1>2. CASE PickBackend
  BY <1>2 DEF PickBackend, Pick, IfOk
<1>3. CASE OpenPreferred
  BY <1>3 DEF OpenPreferred, Opens, AllowFallback, Pick, IfOk
<1>4. CASE OpenFallback
  BY <1>4 DEF OpenFallback, Opens, Pick, IfOk
<1>5. CASE FinishOpen
  BY <1>5 DEF FinishOpen
<1>6. CASE Filter
  BY <1>6 DEF Filter, Released
<1>7. CASE ProbeStep
  <2>1. /\ pc = "probe" /\ pc' = "newPicture"
        /\ out' = out /\ pixels' = pixels
    BY <1>7 DEF ProbeStep
  <2>2. \/ UNCHANGED usmVars
        \/ skipSharp' = TRUE /\ usmPool' = "none" /\ usmStatus' = usmStatus
           /\ retained' = retained
    BY <1>7 DEF ProbeStep, RunProbe, DisableUsm
  <2>3. QED
    BY <2>1, <2>2
<1>8. CASE NewPicture
  BY <1>8 DEF NewPicture, Released
<1>9. CASE Process
  BY <1>9 DEF Process, Statuses
<1>10. CASE TryBackendFallback
  BY <1>10 DEF TryBackendFallback, Closes, Pick, IfOk
<1>11. CASE Drop
  BY <1>11 DEF Drop, Released
<1>12. CASE SkipUsm
  BY <1>12 DEF SkipUsm
<1>13. CASE UsmApply
  BY <1>13 DEF UsmApply, BestApplies
<1>14. CASE UsmApplied
  BY <1>14 DEF UsmApplied, DisableUsm
<1>15. CASE Finish
  BY <1>15 DEF Finish, Released
<1>16. CASE Close
  BY <1>16 DEF Close, Closes, DisableUsm
<1>17. CASE End
  BY <1>17 DEF End, vars
<1>18. CASE UNCHANGED vars
  BY <1>18 DEF vars
<1>19. QED
  BY <1>1, <1>2, <1>3, <1>4, <1>5, <1>6, <1>7, <1>8, <1>9,
     <1>10, <1>11, <1>12, <1>13, <1>14, <1>15, <1>16, <1>17, <1>18 DEF Next

-----------------------------------------------------------------------------
(* The theorems.                                                           *)

\* Every reachable state of the filter satisfies all of it.
THEOREM OwnershipInvariant == Spec => []IInv
<1>1. Init => IInv
  BY InitIInv
<1>2. IInv /\ [Next]_vars => IInv'
  BY TypedStep, PictureStep, PixelStep, BackendStep, SharpenStep DEF IInv
<1>3. QED
  BY <1>1, <1>2, PTL DEF Spec

\* Whatever fails, a call of Filter releases the input once, and the output once
\* unless it returns it.
THEOREM PicturesOwned == Spec => []PicturesAccounted
<1>1. IInv => PicturesAccounted
  BY DEF IInv, PicturesAccounted, PictureInv, Opening, Scaling, Typed
<1>2. QED
  BY <1>1, OwnershipInvariant, PTL

\* VLC never gets a picture that the backend did not fill, or that a failed pass
\* left half written.
THEOREM ForwardsWhole == Spec => []ForwardedIsWhole
<1>1. IInv => ForwardedIsWhole
  BY DEF IInv, ForwardedIsWhole, PixelInv, Whole
<1>2. QED
  BY <1>1, OwnershipInvariant, PTL

\* The context's backend, its private state and what is allocated agree whenever
\* a frame can be processed, and a fatal failure of zimg is its last frame.
THEOREM ContextMatches == Spec => []ContextMatchesBackend
<1>1. IInv => ContextMatchesBackend
  BY DEF IInv, ContextMatchesBackend, BackendInv
<1>2. QED
  BY <1>1, OwnershipInvariant, PTL

\* No frame is offered to a sharpening pool that has failed.
THEOREM BrokenDropped == Spec => []BrokenPoolDropped
<1>1. IInv => BrokenPoolDropped
  BY DEF IInv, BrokenPoolDropped, SharpenInv
<1>2. QED
  BY <1>1, OwnershipInvariant, PTL

\* From the frame that closes the probe on, a grainy source is not sharpened.
THEOREM GrainySpared == Spec => []GrainyNotSharpened
<1>1. IInv => GrainyNotSharpened
  BY DEF IInv, GrainyNotSharpened, SharpenInv
<1>2. QED
  BY <1>1, OwnershipInvariant, PTL

-----------------------------------------------------------------------------
(* The probe's samples.                                                    *)

\* A plane as the program may see it: not empty, and luma is a number.
LumaOk(f) ==
  /\ f.w \in Nat \ {0} /\ f.h \in Nat \ {0}
  /\ \A x \in 0..f.w - 1, y \in 0..f.h - 1 : Pixel(f.shows, x, y) \in Nat

\* What the proofs use of the probe's constants.
LEMMA ProbeConstants ==
  /\ GridStep \in Nat \ {0} /\ BlockSize \in Nat \ {0} /\ BlockSize % GridStep = 0
  /\ MinFrames \in Nat \ {0} /\ MinSamples \in Nat \ {0}
  /\ SoftMean \in Nat /\ BlockyMean \in Nat /\ Outside \in Nat
BY ProbeAssumption

\* A byte is a number, inside the plane or outside.
LEMMA AtIsNat ==
  ASSUME NEW f, LumaOk(f), NEW x \in Int, NEW y \in Int
  PROVE  At(f, x, y) \in Nat
BY ProbeConstants DEF LumaOk, At, Columns, Rows

\* So are a square,
LEMMA SquareIsNat ==
  ASSUME NEW n \in Int
  PROVE  Square(n) \in Nat
BY DEF Square

\* and the energy at a place.
LEMMA EnergyIsNat ==
  ASSUME NEW f, LumaOk(f), NEW p, p[1] \in Int, p[2] \in Int
  PROVE  Energy(f, p) \in Nat
<1> DEFINE x == p[1]
           y == p[2]
<1>1. x \in Int /\ y \in Int
  OBVIOUS
<1> HIDE DEF x, y
<1>2. /\ At(f, x, y) \in Nat /\ At(f, x, y - 1) \in Nat /\ At(f, x, y + 1) \in Nat
      /\ At(f, x - 1, y) \in Nat /\ At(f, x + 1, y) \in Nat
  BY <1>1, AtIsNat
<1>3. Laplacian(f, x, y) \in Int
  BY <1>2 DEF Laplacian
<1>4. QED
  BY <1>3, SquareIsNat DEF Energy, x, y

\* Multiples of a step: past zero, the first is the step.
LEMMA MultipleFrom ==
  ASSUME NEW d \in Nat \ {0}, NEW i \in Nat, i % d = 0
  PROVE  i > 0 <=> i >= d
OBVIOUS

\* A multiple of a multiple is a multiple: block borders lie on the grid.
LEMMA MultipleOfMultiple ==
  ASSUME NEW d \in Nat \ {0}, NEW b \in Nat \ {0}, b % d = 0, NEW i \in Nat, i % b = 0
  PROVE  i % d = 0
<1>1. \A n \in Nat, e \in Nat \ {0} : n % e = n - e * (n \div e)
  OBVIOUS
<1> DEFINE q == i \div b
           r == b \div d
           k == r * q
           m == i \div d
<1>2. q \in Nat /\ r \in Nat /\ m \in Nat /\ d * m <= i /\ i < d * m + d
  BY Division
<1>3. i = b * q /\ b = d * r
  BY <1>1, <1>2
<1>4. k \in Nat /\ i = d * k
  <2>1. i = (d * r) * q
    BY <1>3
  <2> HIDE DEF q, r
  <2>2. QED
    BY <1>2, <2>1
<1>5. i % d = i - d * m
  BY <1>1
<1> HIDE DEF m, k
<1>6. k <= m /\ m <= k
  <2>1. d * k < d * m + d /\ d * m < d * k + d
    BY <1>2, <1>4
  <2>2. QED
    BY <1>2, <1>4, <2>1, QuotientLe
<1>7. k = m
  BY <1>2, <1>4, <1>6
<1>8. QED
  BY <1>4, <1>5, <1>7

\* The sum over a function's domain, named.
LEMMA SumFunctionIs ==
  ASSUME NEW g, NEW S, DOMAIN g = S
  PROVE  SumFunction(g) = SumFunctionOnSet(g, S)
BY DEF SumFunction

\* The sampled columns and rows are finite.
LEMMA MultiplesFinite ==
  ASSUME NEW f, f.w \in Nat, f.h \in Nat, NEW d
  PROVE  /\ IsFiniteSet(Multiples(d, Columns(f))) /\ IsFiniteSet(Multiples(d, Rows(f)))
         /\ Multiples(d, Columns(f)) \subseteq Nat /\ Multiples(d, Rows(f)) \subseteq Nat
<1>1. ASSUME NEW k \in Nat PROVE IsFiniteSet(0..k - 1)
  BY FS_Interval
<1>2. IsFiniteSet(0..f.w - 1) /\ IsFiniteSet(0..f.h - 1)
  BY <1>1
<1>3. /\ Multiples(d, Columns(f)) \subseteq 0..f.w - 1
      /\ Multiples(d, Rows(f)) \subseteq 0..f.h - 1
  BY DEF Multiples, Columns, Rows
<1>4. 0..f.w - 1 \subseteq Nat /\ 0..f.h - 1 \subseteq Nat
  OBVIOUS
<1>5. QED
  BY <1>2, <1>3, <1>4, FS_Subset, Zenon

\* There are finitely many samples of each kind.
LEMMA SamplesFinite ==
  ASSUME NEW f, f.w \in Nat, f.h \in Nat
  PROVE  IsFiniteSet(Interior(f)) /\ IsFiniteSet(Borders(f))
<1> DEFINE xs == Multiples(GridStep, Columns(f))
           ys == Multiples(GridStep, Rows(f))
           bx == Multiples(BlockSize, Columns(f)) \ {0}
           by == Multiples(BlockSize, Rows(f)) \ {0}
<1>1. IsFiniteSet(xs) /\ IsFiniteSet(ys) /\ IsFiniteSet(bx) /\ IsFiniteSet(by)
  BY MultiplesFinite, FS_Subset
<1>2. IsFiniteSet(xs \X ys) /\ IsFiniteSet(bx \X ys) /\ IsFiniteSet(xs \X by)
  <2> HIDE DEF xs, ys, bx, by
  <2>1. QED
    BY <1>1, FS_Product
<1>3. Interior(f) \subseteq xs \X ys
  BY DEF Interior
<1>4. IsFiniteSet(Interior(f))
  <2> HIDE DEF xs, ys
  <2>1. QED
    BY <1>2, <1>3, FS_Subset
<1>5. IsFiniteSet({<<p, <<p[1] - 1, p[2]>>>> : p \in bx \X ys})
  <2> DEFINE P == bx \X ys
             g == [p \in P |-> <<p, <<p[1] - 1, p[2]>>>>]
             T == {<<p, <<p[1] - 1, p[2]>>>> : p \in bx \X ys}
  <2>1. IsFiniteSet(P) /\ g \in Surjection(P, T)
    BY <1>2 DEF Surjection
  <2> HIDE DEF P, g, T
  <2>2. IsFiniteSet(T)
    BY <2>1, FS_Surjection
  <2>3. QED
    BY <2>2 DEF T, P
<1>6. IsFiniteSet({<<p, <<p[1], p[2] - 1>>>> : p \in xs \X by})
  <2> DEFINE P == xs \X by
             g == [p \in P |-> <<p, <<p[1], p[2] - 1>>>>]
             T == {<<p, <<p[1], p[2] - 1>>>> : p \in xs \X by}
  <2>1. IsFiniteSet(P) /\ g \in Surjection(P, T)
    BY <1>2 DEF Surjection
  <2> HIDE DEF P, g, T
  <2>2. IsFiniteSet(T)
    BY <2>1, FS_Surjection
  <2>3. QED
    BY <2>2 DEF T, P
<1>7. IsFiniteSet(Borders(f))
  BY <1>5, <1>6, FS_Union, FS_EmptySet DEF Borders
<1>8. QED
  BY <1>4, <1>7

\* The rows the probe sweeps, the columns it takes the Laplacian at, and the
\* rows it takes none in.
SampledRows(f) == Multiples(GridStep, Rows(f))
InnerColumns(f) == {x \in Multiples(GridStep, Columns(f)) : x >= GridStep /\ x < f.w - 1}
Margin(f, y) == y < GridStep \/ y + 1 >= f.h

\* r sums g over the interior samples of each row.
SumsRows(r, g, f) ==
  \A y \in SampledRows(f) :
    r[y] = IF Margin(f, y) THEN 0
           ELSE SumFunctionOnSet([x \in InnerColumns(f) |-> g[<<x, y>>]], InnerColumns(f))

\* The rows' sums add up to the sum over the interior.
LEMMA InteriorByRows ==
  ASSUME NEW f, LumaOk(f), NEW g, Naturals(g, Interior(f)), NEW r, SumsRows(r, g, f)
  PROVE  SumFunctionOnSet(r, SampledRows(f)) = SumFunctionOnSet(g, Interior(f))
<1> DEFINE I == Interior(f)
           R == SampledRows(f)
           X == InnerColumns(f)
           q == [p \in I |-> p[2]]
<1>1. IsFiniteSet(I) /\ IsFiniteSet(R) /\ IsFiniteSet(X) /\ R \subseteq Nat /\ X \subseteq Nat
  BY SamplesFinite, MultiplesFinite, FS_Subset DEF SampledRows, InnerColumns, LumaOk
<1>2. \A p \in I : q[p] \in R
  BY DEF Interior, SampledRows
<1>3. ASSUME NEW y \in R, Margin(f, y) PROVE {p \in I : q[p] = y} = {}
  <2>1. y \in Nat /\ y % GridStep = 0
    BY <1>1 DEF SampledRows, Multiples
  <2>2. ~ (y > 0 /\ y + 1 \in Rows(f))
    <3>1. y > 0 <=> y >= GridStep
      BY <2>1, ProbeConstants, MultipleFrom
    <3>2. f.h \in Nat /\ GridStep \in Nat
      BY ProbeConstants DEF LumaOk
    <3>3. QED
      BY <1>3, <2>1, <3>1, <3>2 DEF Margin, Rows
  <2>3. QED
    BY <2>2 DEF Interior
<1>4. ASSUME NEW y \in R, ~ Margin(f, y)
      PROVE  {p \in I : q[p] = y} = {<<x, y>> : x \in X}
  <2>1. y \in Nat /\ y \in Multiples(GridStep, Rows(f))
    BY <1>1 DEF SampledRows
  <2>2. y > 0 /\ y + 1 \in Rows(f)
    BY <1>4, <2>1, ProbeConstants DEF Margin, Rows, LumaOk
  <2>3. ASSUME NEW x \in Multiples(GridStep, Columns(f))
        PROVE  (x > 0 /\ x + 1 \in Columns(f)) <=> x \in X
    <3>1. x \in Nat /\ x % GridStep = 0
      BY MultiplesFinite DEF Multiples, LumaOk
    <3>2. x > 0 <=> x >= GridStep
      BY <3>1, ProbeConstants, MultipleFrom
    <3>3. x + 1 \in Columns(f) <=> x < f.w - 1
      BY <3>1 DEF Columns, LumaOk
    <3>4. QED
      BY <3>2, <3>3 DEF InnerColumns
  <2>4. ASSUME NEW p \in I, q[p] = y PROVE p \in {<<x, y>> : x \in X}
    <3>1. /\ p \in Multiples(GridStep, Columns(f)) \X Multiples(GridStep, Rows(f))
          /\ p[1] > 0 /\ p[1] + 1 \in Columns(f) /\ p[2] = y
      BY <2>4 DEF Interior
    <3>2. p[1] \in X /\ p = <<p[1], y>>
      BY <2>3, <3>1
    <3>3. QED
      BY <3>2
  <2>5. ASSUME NEW x \in X PROVE <<x, y>> \in I /\ q[<<x, y>>] = y
    <3>1. x \in Multiples(GridStep, Columns(f))
      BY DEF InnerColumns
    <3>2. x > 0 /\ x + 1 \in Columns(f)
      BY <2>3, <3>1
    <3>3. <<x, y>> \in I
      BY <2>1, <2>2, <3>1, <3>2 DEF Interior
    <3>4. QED
      BY <3>3
  <2> HIDE DEF I, X, q
  <2>6. QED
    BY <2>4, <2>5
<1>5. SumsBy(r, g, q, I, R)
  <2> SUFFICES ASSUME NEW y \in R
               PROVE  r[y] = SumFunctionOnSet(g, {p \in I : q[p] = y})
    BY DEF SumsBy
  <2>1. CASE Margin(f, y)
    <3>1. r[y] = 0
      BY <2>1 DEF SumsRows
    <3>2. QED
      BY <1>3, <2>1, <3>1, SumOfNone
  <2>2. CASE ~ Margin(f, y)
    <3> DEFINE T == {<<x, y>> : x \in X}
               h == [x \in X |-> g[<<x, y>>]]
               place == [x \in X |-> <<x, y>>]
    <3>1. r[y] = SumFunctionOnSet(h, X)
      BY <2>2 DEF SumsRows
    <3>2. {p \in I : q[p] = y} = T
      BY <1>4, <2>2
    <3>3. T \subseteq I
      BY <3>2
    <3>4. Naturals(h, X) /\ \A x \in X : h[x] = g[place[x]]
      BY <3>3 DEF Naturals
    <3>5. Renames(place, X, T)
      BY DEF Renames
    <3>6. IsFiniteSet(X)
      BY <1>1
    <3> HIDE DEF T, h, place, X
    <3>7. SumFunctionOnSet(g, T) = SumFunctionOnSet(h, X)
      BY <3>4, <3>5, <3>6, SumRenamed
    <3>8. QED
      BY <3>1, <3>2, <3>7
  <2>3. QED
    BY <2>1, <2>2
<1> HIDE DEF I, R, q
<1>6. Naturals(g, I)
  BY DEF I
<1>7. SumFunctionOnSet(r, R) = SumFunctionOnSet(g, I)
  BY <1>1, <1>2, <1>5, <1>6, SumByValue
<1>8. QED
  BY <1>7 DEF I, R

\* The columns of the vertical borders, and the columns in which a row has a
\* horizontal border above it.
DownColumns(f) == {x \in Multiples(BlockSize, Columns(f)) : x >= BlockSize}
AlongColumns(f, y) ==
  IF y < BlockSize \/ y % BlockSize # 0 THEN {} ELSE Multiples(GridStep, Columns(f))

\* The border left of a pixel, and the one above it.
LeftOf(x, y) == <<<<x, y>>, <<x - 1, y>>>>
AboveOf(x, y) == <<<<x, y>>, <<x, y - 1>>>>

\* r sums g over the borders that each row meets.
SumsBorders(r, g, f) ==
  \A y \in SampledRows(f) :
    r[y] = SumFunctionOnSet([x \in DownColumns(f) |-> g[LeftOf(x, y)]], DownColumns(f))
           + SumFunctionOnSet([x \in AlongColumns(f, y) |-> g[AboveOf(x, y)]],
                              AlongColumns(f, y))

\* The borders are those the sampled rows meet.
LEMMA BordersAre ==
  ASSUME NEW f, LumaOk(f), f.w > BlockSize, f.h > BlockSize
  PROVE  Borders(f) =
           {LeftOf(x, y) : x \in DownColumns(f), y \in SampledRows(f)}
           \cup UNION {{AboveOf(x, y) : x \in AlongColumns(f, y)} : y \in SampledRows(f)}
<1>1. ASSUME NEW i \in Nat, i % BlockSize = 0
      PROVE  (i # 0 <=> i >= BlockSize) /\ i % GridStep = 0
  <2>1. i > 0 <=> i >= BlockSize
    BY <1>1, ProbeConstants, MultipleFrom
  <2>2. i % GridStep = 0
    <3>1. /\ GridStep \in Nat \ {0} /\ BlockSize \in Nat \ {0} /\ BlockSize % GridStep = 0
          /\ i % BlockSize = 0
      BY <1>1, ProbeConstants
    <3>2. QED
      BY <3>1, MultipleOfMultiple
  <2>3. QED
    BY <2>1, <2>2
<1>2. Multiples(BlockSize, Columns(f)) \ {0} = DownColumns(f)
  BY <1>1 DEF DownColumns, Multiples, Columns, LumaOk
<1>3. ASSUME NEW y
      PROVE  y \in Multiples(BlockSize, Rows(f)) \ {0}
               <=> y \in SampledRows(f) /\ y >= BlockSize /\ y % BlockSize = 0
  BY <1>1 DEF SampledRows, Multiples, Rows, LumaOk
<1> DEFINE V == {<<p, <<p[1] - 1, p[2]>>>> :
                   p \in (Multiples(BlockSize, Columns(f)) \ {0}) \X Multiples(GridStep, Rows(f))}
           H == {<<p, <<p[1], p[2] - 1>>>> :
                   p \in Multiples(GridStep, Columns(f)) \X (Multiples(BlockSize, Rows(f)) \ {0})}
<1>4. Borders(f) = V \cup H
  BY ProbeConstants DEF Borders, LumaOk
<1>5. V = {LeftOf(x, y) : x \in DownColumns(f), y \in SampledRows(f)}
  BY <1>2 DEF LeftOf, SampledRows
<1>6. H = UNION {{AboveOf(x, y) : x \in AlongColumns(f, y)} : y \in SampledRows(f)}
  <2>1. ASSUME NEW b \in H PROVE \E y \in SampledRows(f) : \E x \in AlongColumns(f, y) : b = AboveOf(x, y)
    <3>1. PICK p \in Multiples(GridStep, Columns(f)) \X (Multiples(BlockSize, Rows(f)) \ {0}) :
                 b = <<p, <<p[1], p[2] - 1>>>>
      OBVIOUS
    <3>2. /\ p = <<p[1], p[2]>> /\ p[1] \in Multiples(GridStep, Columns(f))
          /\ p[2] \in Multiples(BlockSize, Rows(f)) \ {0}
      BY <3>1
    <3>3. p[2] \in SampledRows(f) /\ p[2] >= BlockSize /\ p[2] % BlockSize = 0
      BY <1>3, <3>2
    <3>4. p[2] \in Nat /\ BlockSize \in Nat
      BY <3>3, ProbeConstants, MultiplesFinite DEF SampledRows, LumaOk
    <3>5. p[1] \in AlongColumns(f, p[2])
      BY <3>2, <3>3, <3>4 DEF AlongColumns
    <3>6. b = AboveOf(p[1], p[2])
      BY <3>1, <3>2 DEF AboveOf
    <3>7. QED
      BY <3>3, <3>5, <3>6
  <2>2. ASSUME NEW y \in SampledRows(f), NEW x \in AlongColumns(f, y) PROVE AboveOf(x, y) \in H
    <3>1. y \in Nat /\ BlockSize \in Nat
      BY ProbeConstants, MultiplesFinite DEF SampledRows, LumaOk
    <3>2. x \in Multiples(GridStep, Columns(f)) /\ y >= BlockSize /\ y % BlockSize = 0
      BY <3>1 DEF AlongColumns
    <3>3. y \in Multiples(BlockSize, Rows(f)) \ {0}
      BY <1>3, <3>2
    <3> DEFINE p == <<x, y>>
    <3>4. p \in Multiples(GridStep, Columns(f)) \X (Multiples(BlockSize, Rows(f)) \ {0})
      BY <3>2, <3>3
    <3>5. AboveOf(x, y) = <<p, <<p[1], p[2] - 1>>>>
      BY DEF AboveOf
    <3> HIDE DEF p
    <3>6. QED
      BY <3>4, <3>5
  <2> HIDE DEF H
  <2>3. QED
    BY <2>1, <2>2
<1>7. QED
  BY <1>4, <1>5, <1>6

\* The rows' sums add up to the sum over the borders.
LEMMA BordersByRows ==
  ASSUME NEW f, LumaOk(f), f.w > BlockSize, f.h > BlockSize,
         NEW g, Naturals(g, Borders(f)), NEW r, SumsBorders(r, g, f)
  PROVE  SumFunctionOnSet(r, SampledRows(f)) = SumFunctionOnSet(g, Borders(f))
<1> DEFINE B == Borders(f)
           R == SampledRows(f)
           q == [b \in B |-> b[1][2]]
<1>1. IsFiniteSet(B) /\ IsFiniteSet(R) /\ R \subseteq Nat
  BY SamplesFinite, MultiplesFinite DEF SampledRows, LumaOk
<1>2. ASSUME NEW y \in R
      PROVE  {b \in B : q[b] = y} =
               {LeftOf(x, y) : x \in DownColumns(f)} \cup {AboveOf(x, y) : x \in AlongColumns(f, y)}
  <2>1. ASSUME NEW b \in B, q[b] = y
        PROVE  \/ \E x \in DownColumns(f) : b = LeftOf(x, y)
               \/ \E x \in AlongColumns(f, y) : b = AboveOf(x, y)
    <3>1. b[1][2] = y
      BY <2>1
    <3>2. \/ \E x \in DownColumns(f), z \in R : b = LeftOf(x, z)
          \/ \E z \in R : \E x \in AlongColumns(f, z) : b = AboveOf(x, z)
      BY BordersAre
    <3>3. QED
      BY <3>1, <3>2 DEF LeftOf, AboveOf
  <2>2. \A x \in DownColumns(f) : LeftOf(x, y) \in B
    BY BordersAre
  <2>3. \A x \in AlongColumns(f, y) : AboveOf(x, y) \in B
    BY BordersAre
  <2>4. \A x \in DownColumns(f) : q[LeftOf(x, y)] = y
    BY <2>2 DEF LeftOf
  <2>5. \A x \in AlongColumns(f, y) : q[AboveOf(x, y)] = y
    BY <2>3 DEF AboveOf
  <2> HIDE DEF B, q, R
  <2>6. QED
    BY <2>1, <2>2, <2>3, <2>4, <2>5
<1>3. \A b \in B : q[b] \in R
  BY BordersAre DEF LeftOf, AboveOf
<1>4. ASSUME NEW y \in R PROVE r[y] = SumFunctionOnSet(g, {b \in B : q[b] = y})
  <2> DEFINE D == DownColumns(f)
             A == AlongColumns(f, y)
             V == {LeftOf(x, y) : x \in D}
             H == {AboveOf(x, y) : x \in A}
             down == [x \in D |-> g[LeftOf(x, y)]]
             along == [x \in A |-> g[AboveOf(x, y)]]
             left == [x \in D |-> LeftOf(x, y)]
             above == [x \in A |-> AboveOf(x, y)]
  <2>1. IsFiniteSet(D) /\ IsFiniteSet(A) /\ D \subseteq Nat /\ A \subseteq Nat /\ y \in Nat
    BY <1>1, MultiplesFinite, FS_Subset, FS_EmptySet DEF DownColumns, AlongColumns, LumaOk
  <2>2. V \cup H \subseteq B
    BY <1>2
  <2>3. Naturals(g, V \cup H)
    BY <2>2 DEF Naturals
  <2>4. V \cap H = {}
    BY <2>1 DEF LeftOf, AboveOf
  <2>5. Renames(left, D, V) /\ Renames(above, A, H)
    BY DEF Renames, LeftOf, AboveOf
  <2>6. /\ Naturals(down, D) /\ \A x \in D : down[x] = g[left[x]]
        /\ Naturals(along, A) /\ \A x \in A : along[x] = g[above[x]]
    BY <2>3 DEF Naturals
  <2>7. IsFiniteSet(V) /\ IsFiniteSet(H)
    <3>1. V \subseteq B /\ H \subseteq B
      BY <2>2
    <3> HIDE DEF V, H
    <3>2. QED
      BY <1>1, <3>1, FS_Subset
  <2>8. r[y] = SumFunctionOnSet(down, D) + SumFunctionOnSet(along, A)
    BY DEF SumsBorders
  <2>9. {b \in B : q[b] = y} = V \cup H
    BY <1>2
  <2> HIDE DEF D, A, V, H, down, along, left, above, B, q, R
  <2>10. SumFunctionOnSet(g, V) = SumFunctionOnSet(down, D)
    <3>1. /\ IsFiniteSet(D) /\ Renames(left, D, V) /\ Naturals(down, D)
          /\ \A x \in D : down[x] = g[left[x]]
      BY <2>1, <2>5, <2>6
    <3>2. QED
      BY <3>1, SumRenamed
  <2>11. SumFunctionOnSet(g, H) = SumFunctionOnSet(along, A)
    <3>1. /\ IsFiniteSet(A) /\ Renames(above, A, H) /\ Naturals(along, A)
          /\ \A x \in A : along[x] = g[above[x]]
      BY <2>1, <2>5, <2>6
    <3>2. QED
      BY <3>1, SumRenamed
  <2>12. SumFunctionOnSet(g, V \cup H) = SumFunctionOnSet(g, V) + SumFunctionOnSet(g, H)
    BY <2>3, <2>4, <2>7, SumApart
  <2>13. QED
    BY <2>8, <2>9, <2>10, <2>11, <2>12
<1>5. SumsBy(r, g, q, B, R)
  BY <1>4 DEF SumsBy
<1> HIDE DEF B, R, q
<1>6. Naturals(g, B)
  BY DEF B
<1>7. SumFunctionOnSet(r, R) = SumFunctionOnSet(g, B)
  BY <1>1, <1>3, <1>5, <1>6, SumByValue
<1>8. QED
  BY <1>7 DEF B, R

\* What up_probe_metrics returns of the Laplacian is the sum and the number over
\* the interior samples.
LEMMA LapMetrics ==
  ASSUME NEW f, LumaOk(f)
  PROVE  /\ Metrics(f).lapSum = SumFunction([p \in Interior(f) |-> Energy(f, p)])
         /\ Metrics(f).lapN = Cardinality(Interior(f))
         /\ Metrics(f).lapSum \in Nat /\ Metrics(f).lapN \in Nat
<1> DEFINE I == Interior(f)
           R == SampledRows(f)
           X == InnerColumns(f)
           energy == [p \in Nat \X Nat |-> Energy(f, p)]
           inner == [p \in I |-> Energy(f, p)]
           ones == [p \in Nat \X Nat |-> 1]
           sums == [y \in R |-> LapRow(f, y).sum]
           counts == [y \in R |-> LapRow(f, y).n]
<1>1. IsFiniteSet(I) /\ IsFiniteSet(X) /\ X \subseteq Nat /\ R \subseteq Nat /\ I \subseteq Nat \X Nat
  BY SamplesFinite, MultiplesFinite, FS_Subset DEF InnerColumns, SampledRows, Interior, LumaOk
<1>2. Naturals(energy, I) /\ Naturals(inner, I) /\ Naturals(ones, I)
  <2>1. \A p \in I : Energy(f, p) \in Nat
    <3>1. \A p \in I : p[1] \in Int /\ p[2] \in Int
      BY <1>1
    <3>2. QED
      BY <3>1, EnergyIsNat
  <2>2. QED
    BY <1>1, <2>1 DEF Naturals
<1>3. Metrics(f).lapSum = SumFunctionOnSet(sums, R) /\ Metrics(f).lapN = SumFunctionOnSet(counts, R)
  BY SumFunctionIs DEF Metrics, SampledRows
<1>4. SumsRows(sums, energy, f)
  <2> SUFFICES ASSUME NEW y \in R
               PROVE  sums[y] = IF Margin(f, y) THEN 0
                                ELSE SumFunctionOnSet([x \in X |-> energy[<<x, y>>]], X)
    BY DEF SumsRows
  <2>1. y \in Nat
    BY <1>1
  <2>2. [x \in X |-> energy[<<x, y>>]] = [x \in X |-> Square(Laplacian(f, x, y))]
    BY <1>1, <2>1 DEF Energy
  <2> DEFINE h == [x \in X |-> Square(Laplacian(f, x, y))]
  <2>3. SumFunction(h) = SumFunctionOnSet(h, X)
    BY SumFunctionIs
  <2>4. LapRow(f, y).sum = IF Margin(f, y) THEN 0 ELSE SumFunction(h)
    BY DEF LapRow, InnerColumns, Margin, NoSamples
  <2>5. QED
    BY <2>2, <2>3, <2>4
<1>5. SumsRows(counts, ones, f)
  <2> SUFFICES ASSUME NEW y \in R
               PROVE  counts[y] = IF Margin(f, y) THEN 0
                                  ELSE SumFunctionOnSet([x \in X |-> ones[<<x, y>>]], X)
    BY DEF SumsRows
  <2> DEFINE h == [x \in X |-> ones[<<x, y>>]]
  <2>1. \A x \in X : h[x] = 1
    BY <1>1
  <2>2. IsFiniteSet(X)
    BY <1>1
  <2>3. LapRow(f, y).n = IF Margin(f, y) THEN 0 ELSE Cardinality(X)
    BY DEF LapRow, InnerColumns, Margin, NoSamples
  <2>4. SumFunctionOnSet(h, X) = Cardinality(X)
    <3> HIDE DEF h, X
    <3>1. QED
      BY <2>1, <2>2, SumOfOnes
  <2>5. QED
    BY <2>3, <2>4
<1> HIDE DEF I, R, X, energy, inner, ones, sums, counts
<1>6. SumFunctionOnSet(sums, R) = SumFunctionOnSet(energy, I)
  BY <1>2, <1>4, InteriorByRows DEF I, R
<1>7. SumFunctionOnSet(counts, R) = SumFunctionOnSet(ones, I)
  BY <1>2, <1>5, InteriorByRows DEF I, R
<1>8. SumFunctionOnSet(energy, I) = SumFunctionOnSet(inner, I)
  <2>1. \A p \in I : energy[p] = inner[p]
    BY <1>1 DEF energy, inner
  <2>2. QED
    BY <1>1, <1>2, <2>1, SumSame
<1>9. SumFunctionOnSet(ones, I) = Cardinality(I)
  <2>1. \A p \in I : ones[p] = 1
    BY <1>1 DEF ones
  <2>2. QED
    BY <1>1, <2>1, SumOfOnes
<1>10. SumFunctionOnSet(inner, I) \in Nat /\ Cardinality(I) \in Nat
  BY <1>1, <1>2, SumIsNat, FS_CardinalityType
<1>11. SumFunction(inner) = SumFunctionOnSet(inner, I)
  BY SumFunctionIs DEF inner
<1>12. QED
  BY <1>3, <1>6, <1>7, <1>8, <1>9, <1>10, <1>11 DEF inner, I

\* A step between two places, by what memory holds there.
StepAt(f, b) == Abs(At(f, b[1][1], b[1][2]) - At(f, b[2][1], b[2][2]))

\* It is a number.
LEMMA StepIsNat ==
  ASSUME NEW f, LumaOk(f), NEW b, b[1][1] \in Int, b[1][2] \in Int, b[2][1] \in Int, b[2][2] \in Int
  PROVE  StepAt(f, b) \in Nat
<1> DEFINE u == At(f, b[1][1], b[1][2])
           v == At(f, b[2][1], b[2][2])
<1>1. u \in Nat /\ v \in Nat
  BY AtIsNat
<1> HIDE DEF u, v
<1>2. Abs(u - v) \in Nat
  BY <1>1 DEF Abs
<1>3. QED
  BY <1>2 DEF StepAt, u, v

\* Both pixels of a border lie in the plane.
LEMMA BordersInside ==
  ASSUME NEW f, LumaOk(f), NEW b \in Borders(f)
  PROVE  /\ b \in (Nat \X Nat) \X (Nat \X Nat)
         /\ StepAt(f, b) = StepAcross(f, b)
<1>1. f.w > BlockSize /\ f.h > BlockSize
  BY ProbeConstants DEF Borders, LumaOk
<1>2. /\ SampledRows(f) \subseteq Rows(f) /\ DownColumns(f) \subseteq Columns(f)
      /\ \A y : AlongColumns(f, y) \subseteq Columns(f)
  BY DEF SampledRows, DownColumns, AlongColumns, Multiples
<1>3. Columns(f) \subseteq Nat /\ Rows(f) \subseteq Nat
  BY DEF Columns, Rows
<1>4. CASE \E x \in DownColumns(f), y \in SampledRows(f) : b = LeftOf(x, y)
  <2>1. PICK x \in DownColumns(f), y \in SampledRows(f) : b = LeftOf(x, y)
    BY <1>4
  <2>2. x \in Columns(f) /\ y \in Rows(f) /\ x - 1 \in Columns(f) /\ x - 1 \in Nat
    <3>1. x >= BlockSize /\ x \in Columns(f) /\ y \in Rows(f)
      BY <1>2 DEF DownColumns
    <3>2. QED
      BY <3>1, ProbeConstants DEF Columns, LumaOk
  <2>3. b[1][1] = x /\ b[1][2] = y /\ b[2][1] = x - 1 /\ b[2][2] = y
    BY <2>1 DEF LeftOf
  <2>4. b \in (Nat \X Nat) \X (Nat \X Nat)
    BY <1>3, <2>1, <2>2 DEF LeftOf
  <2>5. QED
    BY <2>2, <2>3, <2>4 DEF StepAt, StepAcross, At
<1>5. CASE \E y \in SampledRows(f) : \E x \in AlongColumns(f, y) : b = AboveOf(x, y)
  <2>1. PICK y \in SampledRows(f) : \E x \in AlongColumns(f, y) : b = AboveOf(x, y)
    BY <1>5
  <2>2. PICK x \in AlongColumns(f, y) : b = AboveOf(x, y)
    BY <2>1
  <2>3. x \in Columns(f) /\ y \in Rows(f) /\ y - 1 \in Rows(f) /\ y - 1 \in Nat
    <3>1. y >= BlockSize /\ x \in Columns(f) /\ y \in Rows(f)
      BY <1>2, <1>3, ProbeConstants DEF AlongColumns
    <3>2. QED
      BY <3>1, ProbeConstants DEF Rows, LumaOk
  <2>4. b[1][1] = x /\ b[1][2] = y /\ b[2][1] = x /\ b[2][2] = y - 1
    BY <2>2 DEF AboveOf
  <2>5. b \in (Nat \X Nat) \X (Nat \X Nat)
    BY <1>3, <2>2, <2>3 DEF AboveOf
  <2>6. QED
    BY <2>3, <2>4, <2>5 DEF StepAt, StepAcross, At
<1>6. QED
  BY <1>1, <1>4, <1>5, BordersAre

\* What up_probe_metrics returns of the borders is the sum and the number over
\* all borders.
LEMMA EdgeMetrics ==
  ASSUME NEW f, LumaOk(f)
  PROVE  /\ Metrics(f).edgeSum = SumFunction([b \in Borders(f) |-> StepAcross(f, b)])
         /\ Metrics(f).edgeN = Cardinality(Borders(f))
         /\ Metrics(f).edgeSum \in Nat /\ Metrics(f).edgeN \in Nat
<1> DEFINE B == Borders(f)
           R == SampledRows(f)
           P == (Int \X Int) \X (Int \X Int)
           steps == [b \in P |-> StepAt(f, b)]
           across == [b \in B |-> StepAcross(f, b)]
           ones == [b \in P |-> 1]
           sums == [y \in R |-> EdgeRows(f, y).sum]
           counts == [y \in R |-> EdgeRows(f, y).n]
<1>1. IsFiniteSet(B) /\ IsFiniteSet(R) /\ R \subseteq Nat
  BY SamplesFinite, MultiplesFinite DEF SampledRows, LumaOk
<1>2. /\ Metrics(f).edgeSum = SumFunctionOnSet(sums, R)
      /\ Metrics(f).edgeN = SumFunctionOnSet(counts, R)
  BY SumFunctionIs DEF Metrics, SampledRows
<1>3. \A b \in B : b \in P /\ StepAt(f, b) = StepAcross(f, b) /\ StepAt(f, b) \in Nat
  <2>1. SUFFICES ASSUME NEW b \in B
                 PROVE  b \in P /\ StepAt(f, b) = StepAcross(f, b) /\ StepAt(f, b) \in Nat
    OBVIOUS
  <2>2. b \in (Nat \X Nat) \X (Nat \X Nat) /\ StepAt(f, b) = StepAcross(f, b)
    BY BordersInside
  <2>3. b[1][1] \in Int /\ b[1][2] \in Int /\ b[2][1] \in Int /\ b[2][2] \in Int /\ b \in P
    BY <2>2
  <2>4. QED
    BY <2>2, <2>3, StepIsNat
<1>4. Naturals(steps, B) /\ Naturals(ones, B) /\ Naturals(across, B)
  BY <1>3 DEF Naturals
<1>5. SumFunctionOnSet(sums, R) = SumFunctionOnSet(steps, B)
      /\ SumFunctionOnSet(counts, R) = SumFunctionOnSet(ones, B)
  <2>1. CASE f.w <= BlockSize \/ f.h <= BlockSize
    <3>1. B = {}
      BY <2>1 DEF Borders
    <3>2. \A y \in R : sums[y] = 0 /\ counts[y] = 0
      BY <2>1 DEF EdgeRows, NoSamples
    <3> HIDE DEF B, R, sums, counts, steps, ones
    <3>3. SumFunctionOnSet(sums, R) = 0 /\ SumFunctionOnSet(counts, R) = 0
      BY <1>1, <3>2, SumOfZeros
    <3>4. QED
      BY <3>1, <3>3, SumOfNone
  <2>2. CASE ~ (f.w <= BlockSize \/ f.h <= BlockSize)
    <3>1. f.w > BlockSize /\ f.h > BlockSize
      BY <2>2, ProbeConstants DEF LumaOk
    <3>2. ASSUME NEW y \in R
          PROVE  /\ sums[y] =
                      SumFunctionOnSet([x \in DownColumns(f) |-> steps[LeftOf(x, y)]], DownColumns(f))
                      + SumFunctionOnSet([x \in AlongColumns(f, y) |-> steps[AboveOf(x, y)]],
                                         AlongColumns(f, y))
                 /\ counts[y] =
                      SumFunctionOnSet([x \in DownColumns(f) |-> ones[LeftOf(x, y)]], DownColumns(f))
                      + SumFunctionOnSet([x \in AlongColumns(f, y) |-> ones[AboveOf(x, y)]],
                                         AlongColumns(f, y))
      <4> DEFINE D == DownColumns(f)
                 A == AlongColumns(f, y)
                 left == [x \in D |-> Abs(At(f, x, y) - At(f, x - 1, y))]
                 up == [x \in A |-> Abs(At(f, x, y) - At(f, x, y - 1))]
                 onesD == [x \in D |-> ones[LeftOf(x, y)]]
                 onesA == [x \in A |-> ones[AboveOf(x, y)]]
      <4>1. IsFiniteSet(D) /\ IsFiniteSet(A) /\ D \subseteq Nat /\ A \subseteq Nat /\ y \in Nat
        BY <1>1, MultiplesFinite, FS_Subset, FS_EmptySet DEF DownColumns, AlongColumns, LumaOk
      <4>2. /\ \A x \in D : LeftOf(x, y) \in P
            /\ \A x \in A : AboveOf(x, y) \in P
        BY <4>1 DEF LeftOf, AboveOf
      <4>3. /\ EdgeRows(f, y).sum = SumFunction(left) + SumFunction(up)
            /\ EdgeRows(f, y).n = Cardinality(D) + Cardinality(A)
        BY <2>2 DEF EdgeRows, DownColumns, AlongColumns
      <4>4. SumFunction(left) = SumFunctionOnSet(left, D) /\ SumFunction(up) = SumFunctionOnSet(up, A)
        BY SumFunctionIs
      <4>5. left = [x \in D |-> steps[LeftOf(x, y)]]
        BY <4>2 DEF StepAt, LeftOf
      <4>6. up = [x \in A |-> steps[AboveOf(x, y)]]
        BY <4>2 DEF StepAt, AboveOf
      <4>7. (\A x \in D : onesD[x] = 1) /\ (\A x \in A : onesA[x] = 1)
        BY <4>2
      <4>8. sums[y] = EdgeRows(f, y).sum /\ counts[y] = EdgeRows(f, y).n
        OBVIOUS
      <4>9. SumFunctionOnSet(onesD, D) = Cardinality(D) /\ SumFunctionOnSet(onesA, A) = Cardinality(A)
        <5> HIDE DEF onesD, onesA, D, A
        <5>1. QED
          BY <4>1, <4>7, SumOfOnes
      <4> HIDE DEF sums, counts, steps, ones, P
      <4>10. QED
        BY <4>3, <4>4, <4>5, <4>6, <4>8, <4>9
    <3>3. SumsBorders(sums, steps, f) /\ SumsBorders(counts, ones, f)
      BY <3>2 DEF SumsBorders
    <3> HIDE DEF sums, counts, steps, ones, P
    <3>4. QED
      BY <1>4, <3>1, <3>3, BordersByRows
  <2>3. QED
    BY <2>1, <2>2
<1>6. \A b \in B : steps[b] = across[b] /\ ones[b] = 1
  BY <1>3
<1>7. SumFunction(across) = SumFunctionOnSet(across, B)
  BY SumFunctionIs
<1> HIDE DEF B, R, P, steps, across, ones, sums, counts
<1>8. SumFunctionOnSet(steps, B) = SumFunctionOnSet(across, B)
  BY <1>1, <1>4, <1>6, SumSame
<1>9. SumFunctionOnSet(ones, B) = Cardinality(B)
  BY <1>1, <1>6, SumOfOnes
<1>10. SumFunctionOnSet(across, B) \in Nat /\ Cardinality(B) \in Nat
  BY <1>1, <1>4, SumIsNat, FS_CardinalityType
<1>11. QED
  BY <1>2, <1>5, <1>7, <1>8, <1>9, <1>10 DEF across, B

-----------------------------------------------------------------------------
(* A sequence of frames of one size.                                       *)

\* The planes a source of size s may show.
Planes(s) == {[w |-> s.w, h |-> s.h, shows |-> c] : c \in Contents}

\* They are proper planes, with samples at the same places.
LEMMA PlanesAreOk ==
  ASSUME NEW s \in Sizes, NEW f \in Planes(s)
  PROVE  LumaOk(f) /\ Interior(f) = Interior(s) /\ Borders(f) = Borders(s)
<1>1. PICK c \in Contents : f = [w |-> s.w, h |-> s.h, shows |-> c]
  BY DEF Planes
<1>2. f.w = s.w /\ f.h = s.h /\ f.shows = c
  BY <1>1
<1>3. LumaOk(f)
  <2>1. s.w \in Nat \ {0} /\ s.h \in Nat \ {0}
    BY SourceAssumption
  <2>2. ASSUME NEW x \in 0..s.w - 1, NEW y \in 0..s.h - 1 PROVE Pixel(c, x, y) \in 0..255
    BY SourceAssumption, Zenon
  <2>3. ASSUME NEW x \in 0..s.w - 1, NEW y \in 0..s.h - 1 PROVE Pixel(c, x, y) \in Nat
    <3>1. Pixel(c, x, y) \in 0..255
      BY <2>2
    <3>2. QED
      BY <3>1
  <2>4. QED
    BY <1>2, <2>1, <2>3 DEF LumaOk
<1>4. Columns(f) = Columns(s) /\ Rows(f) = Rows(s)
  BY <1>2 DEF Columns, Rows
<1>5. QED
  BY <1>2, <1>3, <1>4 DEF Interior, Borders

\* A size alone determines finitely many samples.
LEMMA SizesAreOk ==
  ASSUME NEW s \in Sizes
  PROVE  IsFiniteSet(Interior(s)) /\ IsFiniteSet(Borders(s))
<1>1. s.w \in Nat /\ s.h \in Nat
  BY SourceAssumption
<1>2. QED
  BY <1>1, SamplesFinite

\* The sums of the metrics of a sequence of planes.
LapSums(q) == SumFunctionOnSet([i \in 1..Len(q) |-> Metrics(q[i]).lapSum], 1..Len(q))
EdgeSums(q) == SumFunctionOnSet([i \in 1..Len(q) |-> Metrics(q[i]).edgeSum], 1..Len(q))

\* They start from zero,
LEMMA SumsFromNone == LapSums(<<>>) = 0 /\ EdgeSums(<<>>) = 0
<1>1. 1..Len(<<>>) = {}
  OBVIOUS
<1>2. QED
  BY <1>1, SumOfNone DEF LapSums, EdgeSums

\* and grow by the metrics of each plane.
LEMMA SumsOfOneMore ==
  ASSUME NEW s \in Sizes, NEW q \in Seq(Planes(s)), NEW f \in Planes(s)
  PROVE  /\ LapSums(Append(q, f)) = LapSums(q) + Metrics(f).lapSum
         /\ EdgeSums(Append(q, f)) = EdgeSums(q) + Metrics(f).edgeSum
         /\ LapSums(q) \in Nat /\ EdgeSums(q) \in Nat
<1> DEFINE n == Len(q)
           N == 1..n
           N1 == N \cup {n + 1}
           q1 == Append(q, f)
           lap == [i \in N |-> Metrics(q[i]).lapSum]
           edge == [i \in N |-> Metrics(q[i]).edgeSum]
           lap1 == [i \in N1 |-> Metrics(q1[i]).lapSum]
           edge1 == [i \in N1 |-> Metrics(q1[i]).edgeSum]
<1>1. n \in Nat /\ Len(q1) = n + 1 /\ 1..Len(q1) = N1 /\ n + 1 \notin N
  OBVIOUS
<1>2. (\A i \in N : q1[i] = q[i] /\ q[i] \in Planes(s)) /\ q1[n + 1] = f
  OBVIOUS
<1>3. IsFiniteSet(N)
  BY <1>1, FS_Interval
<1>4. \A g \in Planes(s) : Metrics(g).lapSum \in Nat /\ Metrics(g).edgeSum \in Nat
  BY PlanesAreOk, LapMetrics, EdgeMetrics
<1>5. /\ lap1[n + 1] = Metrics(f).lapSum /\ edge1[n + 1] = Metrics(f).edgeSum
      /\ \A i \in N : lap1[i] = lap[i] /\ edge1[i] = edge[i]
  BY <1>2
<1>6. Naturals(lap, N) /\ Naturals(edge, N) /\ Naturals(lap1, N1) /\ Naturals(edge1, N1)
  BY <1>2, <1>4 DEF Naturals
<1>7. /\ LapSums(q) = SumFunctionOnSet(lap, N) /\ EdgeSums(q) = SumFunctionOnSet(edge, N)
      /\ LapSums(q1) = SumFunctionOnSet(lap1, N1) /\ EdgeSums(q1) = SumFunctionOnSet(edge1, N1)
  BY <1>1 DEF LapSums, EdgeSums
<1> HIDE DEF q1, lap, edge, lap1, edge1, N
<1>8. /\ SumFunctionOnSet(lap1, N1) = lap1[n + 1] + SumFunctionOnSet(lap1, N)
      /\ SumFunctionOnSet(edge1, N1) = edge1[n + 1] + SumFunctionOnSet(edge1, N)
  BY <1>1, <1>3, <1>6, SumMore
<1>9. /\ SumFunctionOnSet(lap1, N) = SumFunctionOnSet(lap, N)
      /\ SumFunctionOnSet(edge1, N) = SumFunctionOnSet(edge, N)
  BY <1>3, <1>5, <1>6, SumSame
<1>10. SumFunctionOnSet(lap, N) \in Nat /\ SumFunctionOnSet(edge, N) \in Nat
  BY <1>3, <1>6, SumIsNat
<1>11. lap1[n + 1] \in Nat /\ edge1[n + 1] \in Nat
  BY <1>6 DEF Naturals
<1>12. QED
  BY <1>5, <1>7, <1>8, <1>9, <1>10, <1>11 DEF q1

\* The sums over all samples of all frames are those the program keeps.
LEMMA TotalsAreSums ==
  ASSUME NEW s \in Sizes, NEW q \in Seq(Planes(s)), q # <<>>
  PROVE  LapTotal(q) = LapSums(q) /\ EdgeTotal(q) = EdgeSums(q)
<1> DEFINE N == 1..Len(q)
           I == Interior(s)
           B == Borders(s)
           energy == [z \in N \X I |-> Energy(q[z[1]], z[2])]
           across == [z \in N \X B |-> StepAcross(q[z[1]], z[2])]
           lap == [i \in N |-> Metrics(q[i]).lapSum]
           edge == [i \in N |-> Metrics(q[i]).edgeSum]
<1>1. 1 \in N /\ DOMAIN q = N /\ \A i \in N : q[i] \in Planes(s)
  OBVIOUS
<1>2. \A i \in N : LumaOk(q[i]) /\ Interior(q[i]) = I /\ Borders(q[i]) = B
  BY <1>1, PlanesAreOk
<1>3. IsFiniteSet(N) /\ IsFiniteSet(I) /\ IsFiniteSet(B)
  <2>1. IsFiniteSet(I) /\ IsFiniteSet(B)
    BY <1>1, <1>2, SamplesFinite DEF LumaOk
  <2>2. Len(q) \in Int
    OBVIOUS
  <2>3. QED
    BY <2>1, <2>2, FS_Interval
<1>4. LapTotal(q) = SumFunctionOnSet(energy, N \X I)
      /\ EdgeTotal(q) = SumFunctionOnSet(across, N \X B)
  <2>1. LapTotal(q) = SumFunction(energy) /\ EdgeTotal(q) = SumFunction(across)
    BY <1>1, <1>2 DEF LapTotal, EdgeTotal
  <2>2. QED
    BY <2>1, SumFunctionIs
<1>5. ASSUME NEW i \in N
      PROVE  /\ lap[i] = SumFunctionOnSet([p \in I |-> energy[<<i, p>>]], I)
             /\ edge[i] = SumFunctionOnSet([b \in B |-> across[<<i, b>>]], B)
  <2>1. /\ lap[i] = SumFunction([p \in I |-> Energy(q[i], p)])
        /\ edge[i] = SumFunction([b \in B |-> StepAcross(q[i], b)])
    BY <1>2, LapMetrics, EdgeMetrics
  <2>2. /\ [p \in I |-> energy[<<i, p>>]] = [p \in I |-> Energy(q[i], p)]
        /\ [b \in B |-> across[<<i, b>>]] = [b \in B |-> StepAcross(q[i], b)]
    OBVIOUS
  <2>3. QED
    BY <2>1, <2>2, SumFunctionIs
<1>6. Naturals(energy, N \X I) /\ Naturals(across, N \X B)
  <2>1. ASSUME NEW i \in N, NEW p \in I PROVE Energy(q[i], p) \in Nat
    <3>1. p[1] \in Int /\ p[2] \in Int
      BY DEF Interior, Multiples, Columns, Rows
    <3>2. QED
      BY <1>2, <3>1, EnergyIsNat
  <2>2. ASSUME NEW i \in N, NEW b \in B PROVE StepAcross(q[i], b) \in Nat
    <3>1. /\ b \in (Nat \X Nat) \X (Nat \X Nat) /\ LumaOk(q[i])
          /\ StepAt(q[i], b) = StepAcross(q[i], b)
      BY <1>2, BordersInside
    <3>2. QED
      BY <3>1, StepIsNat
  <2>3. QED
    BY <2>1, <2>2 DEF Naturals
<1>7. LapSums(q) = SumFunctionOnSet(lap, N) /\ EdgeSums(q) = SumFunctionOnSet(edge, N)
  BY DEF LapSums, EdgeSums
<1>8. SumsPairs(lap, energy, N, I) /\ SumsPairs(edge, across, N, B)
  BY <1>5 DEF SumsPairs
<1> HIDE DEF N, I, B, energy, across, lap, edge
<1>9. SumFunctionOnSet(lap, N) = SumFunctionOnSet(energy, N \X I)
  BY <1>3, <1>6, <1>8, SumOfPairs
<1>10. SumFunctionOnSet(edge, N) = SumFunctionOnSet(across, N \X B)
  BY <1>3, <1>6, <1>8, SumOfPairs
<1>11. QED
  BY <1>4, <1>7, <1>9, <1>10

\* A truncated mean against a bound, without the division.
LEMMA MeanFrom ==
  ASSUME NEW t \in Nat, NEW n \in Nat \ {0}, NEW m \in Int
  PROVE  t \div n >= m <=> t >= m * n
<1> DEFINE k == t \div n
<1>1. k \in Nat /\ n * k <= t /\ t < n * k + n
  BY Division
<1> HIDE DEF k
<1>2. ASSUME k >= m PROVE t >= m * n
  <2>1. PICK e \in Nat : k = m + e
    <3>1. k - m \in Nat /\ k = m + (k - m)
      BY <1>1, <1>2
    <3>2. QED
      BY <3>1
  <2>2. n * k = m * n + n * e /\ n * e >= 0
    BY <2>1
  <2>3. n * k \in Int /\ m * n \in Int /\ n * e \in Int
    BY <1>1, <2>1
  <2>4. QED
    BY <1>1, <2>2, <2>3
<1>3. ASSUME t >= m * n PROVE k >= m
  <2>1. n * m <= t
    BY <1>3
  <2>2. n * m < n * k + n
    BY <1>1, <2>1
  <2>3. QED
    BY <1>1, <2>2, QuotientLe
<1>4. QED
  BY <1>2, <1>3 DEF k

\* What the accumulator holds after the frames q.
Tally(s, q) ==
  [lapSum  |-> LapSums(q),  lapN  |-> Len(q) * Cardinality(Interior(s)),
   edgeSum |-> EdgeSums(q), edgeN |-> Len(q) * Cardinality(Borders(s)), frames |-> Len(q)]

\* The tally is made of numbers.
LEMMA CountsAreNat ==
  ASSUME NEW s \in Sizes, NEW q \in Seq(Planes(s)), NEW f \in Planes(s)
  PROVE  /\ Cardinality(Interior(s)) \in Nat /\ Cardinality(Borders(s)) \in Nat
         /\ LapSums(q) \in Nat /\ EdgeSums(q) \in Nat
         /\ Tally(s, q) \in [lapSum: Nat, lapN: Nat, edgeSum: Nat, edgeN: Nat, frames: Nat]
<1>1. LumaOk(f) /\ Interior(f) = Interior(s) /\ Borders(f) = Borders(s)
  BY PlanesAreOk
<1> DEFINE i == Cardinality(Interior(s))
           b == Cardinality(Borders(s))
<1>2. i \in Nat /\ b \in Nat
  BY <1>1, SamplesFinite, FS_CardinalityType DEF LumaOk
<1>3. LapSums(q) \in Nat /\ EdgeSums(q) \in Nat
  BY SumsOfOneMore
<1> HIDE DEF i, b
<1>4. Len(q) \in Nat /\ Len(q) * i \in Nat /\ Len(q) * b \in Nat
  BY <1>2
<1>5. QED
  BY <1>2, <1>3, <1>4 DEF Tally, i, b

\* The tally of any frames is made of numbers, of no frame too.
LEMMA TallyType ==
  ASSUME NEW s \in Sizes, NEW q \in Seq(Planes(s))
  PROVE  Tally(s, q) \in [lapSum: Nat, lapN: Nat, edgeSum: Nat, edgeN: Nat, frames: Nat]
<1>1. CASE q = <<>>
  <2>1. LapSums(q) = 0 /\ EdgeSums(q) = 0 /\ Len(q) = 0
    BY <1>1, SumsFromNone
  <2>2. Cardinality(Interior(s)) \in Nat /\ Cardinality(Borders(s)) \in Nat
    BY SizesAreOk, FS_CardinalityType
  <2>3. Len(q) * Cardinality(Interior(s)) \in Nat /\ Len(q) * Cardinality(Borders(s)) \in Nat
    BY <2>1, <2>2
  <2>4. QED
    BY <2>1, <2>3 DEF Tally
<1>2. CASE q # <<>>
  <2>1. ASSUME NEW P, q \in Seq(P) PROVE q[1] \in P
    BY <1>2, <2>1
  <2>2. q[1] \in Planes(s)
    BY <2>1
  <2>3. QED
    BY <2>2, CountsAreNat
<1>3. QED
  BY <1>1, <1>2

\* Observing a plane adds it to the tally.
LEMMA TallyOfOneMore ==
  ASSUME NEW s \in Sizes, NEW q \in Seq(Planes(s)), NEW f \in Planes(s)
  PROVE  Observe(Tally(s, q), Metrics(f)) = Tally(s, Append(q, f))
<1> DEFINE i == Cardinality(Interior(s))
           b == Cardinality(Borders(s))
           n == Len(q)
<1>1. LumaOk(f) /\ Interior(f) = Interior(s) /\ Borders(f) = Borders(s)
  BY PlanesAreOk
<1>2. Metrics(f).lapN = i /\ Metrics(f).edgeN = b
  BY <1>1, LapMetrics, EdgeMetrics
<1>3. i \in Nat /\ b \in Nat /\ n \in Nat /\ Len(Append(q, f)) = n + 1
  BY CountsAreNat
<1>4. /\ LapSums(Append(q, f)) = LapSums(q) + Metrics(f).lapSum
      /\ EdgeSums(Append(q, f)) = EdgeSums(q) + Metrics(f).edgeSum
  BY SumsOfOneMore
<1>5. n * i + i = (n + 1) * i /\ n * b + b = (n + 1) * b
  <2> HIDE DEF i, b, n
  <2>1. QED
    BY <1>3
<1>6. QED
  BY <1>2, <1>3, <1>4, <1>5 DEF Tally, Observe

\* The program's verdicts are those over the samples themselves.
LEMMA VerdictsAre ==
  ASSUME NEW s \in Sizes, NEW q \in Seq(Planes(s)), q # <<>>, NEW threshold \in Int
  PROVE  /\ ShouldSkipUsm(Tally(s, q), threshold) <=> Grainy(q, threshold)
         /\ ShouldBypass(Tally(s, q)) <=> Hopeless(q)
<1> DEFINE lap == LapSums(q)
           edge == EdgeSums(q)
           n == Len(q) * Cardinality(Interior(s))
           m == Len(q) * Cardinality(Borders(s))
           a == Tally(s, q)
<1>1. q[1] \in Planes(s)
  OBVIOUS
<1>2. /\ a.lapSum = lap /\ a.edgeSum = edge /\ a.lapN = n /\ a.edgeN = m /\ a.frames = Len(q)
  BY DEF Tally
<1>3. lap \in Nat /\ edge \in Nat /\ n \in Nat /\ m \in Nat
  <2>1. a \in [lapSum: Nat, lapN: Nat, edgeSum: Nat, edgeN: Nat, frames: Nat]
    BY <1>1, CountsAreNat
  <2> HIDE DEF a, lap, edge, n, m
  <2>2. QED
    BY <1>2, <2>1
<1>4. LapTotal(q) = lap /\ EdgeTotal(q) = edge
  BY TotalsAreSums
<1>5. LapCount(q) = n /\ EdgeCount(q) = m
  BY <1>1, PlanesAreOk DEF LapCount, EdgeCount
<1> HIDE DEF a, lap, edge, n, m
<1>6. ASSUME threshold > 0, n > 0
      PROVE  lap \div n > threshold <=> lap >= (threshold + 1) * n
  <2>1. lap \div n >= threshold + 1 <=> lap >= (threshold + 1) * n
    BY <1>3, <1>6, MeanFrom
  <2>2. lap \div n \in Int
    BY <1>3, <1>6, Division
  <2>3. QED
    BY <2>1, <2>2
<1>7. ASSUME n > 0 PROVE lap \div n < SoftMean <=> lap < SoftMean * n
  <2>1. lap \div n >= SoftMean <=> lap >= SoftMean * n
    BY <1>3, <1>7, ProbeConstants, MeanFrom
  <2>2. lap \div n \in Int /\ SoftMean \in Int /\ SoftMean * n \in Int
    BY <1>3, <1>7, ProbeConstants, Division
  <2>3. QED
    BY <1>3, <2>1, <2>2
<1>8. ASSUME m > 0 PROVE edge \div m > BlockyMean <=> edge >= (BlockyMean + 1) * m
  <2>1. edge \div m >= BlockyMean + 1 <=> edge >= (BlockyMean + 1) * m
    BY <1>3, <1>8, ProbeConstants, MeanFrom
  <2>2. edge \div m \in Int
    BY <1>3, <1>8, Division
  <2>3. QED
    BY <2>1, <2>2, ProbeConstants
<1>9. ShouldSkipUsm(a, threshold) <=> Grainy(q, threshold)
  BY <1>2, <1>4, <1>5, <1>6 DEF ShouldSkipUsm, Grainy
<1>10. (n >= MinSamples => n > 0) /\ (m >= MinSamples => m > 0)
  BY <1>3, ProbeConstants
<1>11. ShouldBypass(a) <=> Hopeless(q)
  BY <1>2, <1>4, <1>5, <1>7, <1>8, <1>10 DEF ShouldBypass, Hopeless
<1>12. QED
  BY <1>9, <1>11 DEF a

-----------------------------------------------------------------------------
(* The probe in the filter.                                                *)

\* The accumulator holds the tally of the frames seen, and the verdicts have
\* fallen if the window is full.
ProbeInv ==
  /\ config \in Configs
  /\ seen \in Seq(Planes(config.size)) /\ accum = Tally(config.size, seen)
  /\ pc \in Opening => seen = <<>>
  /\ Len(seen) <= ProbeWindow
  /\ probeActive => Len(seen) < ProbeWindow
  /\ VerdictFromWindow

\* The fields of a configuration.
LEMMA ConfigsAre ==
  ASSUME NEW c \in Configs
  PROVE  /\ c.pref \in Prefs /\ c.supports \subseteq Backends
         /\ c.size \in Sizes /\ c.threshold \in Int
         /\ c.advice \in BOOLEAN /\ c.adaptive \in BOOLEAN /\ c.hasY \in BOOLEAN /\ c.usm \in BOOLEAN
<1>1. c \in Options
  BY DEF Configs
<1>2. c.threshold \in Thresholds /\ Thresholds \subseteq Int
  BY <1>1, SourceAssumption DEF Options
<1>3. QED
  BY <1>1, <1>2 DEF Options

\* A sequence with one more element.
LEMMA Appended ==
  ASSUME NEW S, NEW q \in Seq(S), NEW x \in S
  PROVE  /\ Append(q, x) \in Seq(S) /\ Append(q, x) # <<>>
         /\ Len(Append(q, x)) = Len(q) + 1 /\ Len(q) \in Nat
<1>1. Append(q, x) \in Seq(S) /\ Len(Append(q, x)) = Len(q) + 1 /\ Len(q) \in Nat
  OBVIOUS
<1>2. Len(<<>>) = 0
  OBVIOUS
<1>3. Append(q, x) # <<>>
  BY <1>1, <1>2
<1>4. QED
  BY <1>1, <1>3

\* Before the first frame the tally is empty and nothing has been decided.
LEMMA ProbeInitially == Init => ProbeInv
<1> SUFFICES ASSUME Init PROVE ProbeInv
  OBVIOUS
<1>1. /\ config \in Configs /\ seen = <<>> /\ accum = NoFrames
      /\ probeActive = FALSE /\ skipSharp = FALSE /\ advised = FALSE
  BY DEF Init
<1>2. ProbeWindow \in Nat \ {0} /\ Len(seen) = 0
  BY <1>1, WindowAssumption
<1>3. accum = Tally(config.size, seen)
  <2> DEFINE i == Cardinality(Interior(config.size))
             b == Cardinality(Borders(config.size))
  <2>1. config.size \in Sizes
    BY <1>1, ConfigsAre
  <2>2. i \in Nat /\ b \in Nat
    BY <2>1, SizesAreOk, SamplesFinite, FS_CardinalityType
  <2>3. Len(seen) * i = 0 /\ Len(seen) * b = 0
    <3> HIDE DEF i, b
    <3>1. QED
      BY <1>2, <2>2
  <2>4. LapSums(seen) = 0 /\ EdgeSums(seen) = 0
    BY <1>1, SumsFromNone
  <2>5. QED
    BY <1>1, <1>2, <2>3, <2>4 DEF Tally, NoFrames
<1>4. VerdictFromWindow
  BY <1>1, <1>2 DEF VerdictFromWindow
<1>5. seen \in Seq(Planes(config.size))
  <2>1. \A S : <<>> \in Seq(S)
    OBVIOUS
  <2>2. QED
    BY <1>1, <2>1
<1>6. QED
  BY <1>1, <1>2, <1>3, <1>4, <1>5 DEF ProbeInv

\* A frame that the probe observes.
LEMMA RunProbeStep ==
  ASSUME ProbeInv, pc = "probe", pc' = "newPicture", config' = config,
         NEW f \in Planes(config.size), RunProbe(f)
  PROVE  ProbeInv'
<1> DEFINE s == config.size
           t == config.threshold
           q == Append(seen, f)
<1>1. /\ probeActive /\ seen' = q /\ accum' = Observe(accum, Metrics(f))
      /\ probeActive' = (accum'.frames < ProbeWindow)
      /\ IF probeActive' THEN advised' = advised /\ skipSharp' = skipSharp
         ELSE /\ advised' = (advised \/ (config.advice /\ ShouldBypass(accum')))
              /\ skipSharp' = (IF ShouldSkipUsm(accum', t) THEN TRUE ELSE skipSharp)
  BY DEF RunProbe, ObservePlane, Advise
<1>2. /\ config \in Configs /\ s \in Sizes /\ t \in Int /\ config.advice \in BOOLEAN
      /\ seen \in Seq(Planes(s)) /\ accum = Tally(s, seen)
  BY ConfigsAre DEF ProbeInv
<1>3. /\ Len(seen) \in Nat /\ Len(seen) < ProbeWindow /\ ProbeWindow \in Nat
      /\ skipSharp = FALSE /\ advised = FALSE
  <2>1. Len(seen) \in Nat /\ ProbeWindow \in Nat
    BY <1>2, Appended, WindowAssumption
  <2>2. Len(seen) < ProbeWindow
    BY <1>1 DEF ProbeInv
  <2>3. Len(seen) # ProbeWindow
    BY <2>1, <2>2
  <2>4. VerdictFromWindow
    BY DEF ProbeInv
  <2>5. QED
    BY <2>1, <2>2, <2>3, <2>4, Zenon DEF VerdictFromWindow
<1>4. q \in Seq(Planes(s)) /\ q # <<>> /\ Len(q) = Len(seen) + 1
  <2> DEFINE P == Planes(s)
  <2>1. seen \in Seq(P) /\ f \in P
    BY <1>2
  <2> HIDE DEF P
  <2>2. q \in Seq(P) /\ q # <<>> /\ Len(q) = Len(seen) + 1
    BY <2>1, Appended
  <2>3. QED
    BY <2>2 DEF P
<1>5. accum' = Tally(s, q)
  BY <1>1, <1>2, TallyOfOneMore
<1>6. accum'.frames = Len(q)
  BY <1>5 DEF Tally
<1>7. Len(q) <= ProbeWindow /\ (probeActive' <=> Len(q) < ProbeWindow)
  <2> HIDE DEF q
  <2>1. Len(q) = Len(seen) + 1 /\ probeActive' = (Len(q) < ProbeWindow)
    BY <1>1, <1>4, <1>6
  <2>2. Len(q) <= ProbeWindow
    BY <1>3, <2>1
  <2>3. QED
    BY <2>1, <2>2, Zenon
<1>8. /\ ShouldSkipUsm(accum', t) <=> Grainy(q, t)
      /\ ShouldBypass(accum') <=> Hopeless(q)
  <2>1. q \in Seq(Planes(s)) /\ q # <<>> /\ s \in Sizes /\ t \in Int
    BY <1>2, <1>4
  <2> HIDE DEF q, s, t
  <2>2. /\ ShouldSkipUsm(Tally(s, q), t) <=> Grainy(q, t)
        /\ ShouldBypass(Tally(s, q)) <=> Hopeless(q)
    BY <2>1, VerdictsAre
  <2>3. QED
    BY <1>5, <2>2
<1>9. /\ skipSharp' = (Len(q) = ProbeWindow /\ Grainy(q, t))
      /\ advised' = (Len(q) = ProbeWindow /\ config.advice /\ Hopeless(q))
  <2>1. CASE Len(q) < ProbeWindow
    <3>1. Len(q) # ProbeWindow /\ probeActive'
      BY <1>3, <1>4, <1>7, <2>1
    <3>2. QED
      BY <1>1, <1>3, <3>1
  <2>2. CASE ~ (Len(q) < ProbeWindow)
    <3>1. Len(q) = ProbeWindow /\ ~ probeActive'
      BY <1>3, <1>4, <1>7, <2>2
    <3>2. Grainy(q, t) \in BOOLEAN /\ Hopeless(q) \in BOOLEAN
      BY DEF Grainy, Hopeless
    <3> HIDE DEF q, t
    <3>3. QED
      BY <1>1, <1>2, <1>3, <1>8, <3>1, <3>2
  <2>3. QED
    BY <2>1, <2>2
<1>10. VerdictFromWindow'
  BY <1>1, <1>9 DEF VerdictFromWindow
<1>11. config' \in Configs /\ seen' \in Seq(Planes(config'.size)) /\ accum' = Tally(config'.size, seen')
  BY <1>1, <1>2, <1>4, <1>5
<1>12. pc' \notin Opening
  BY DEF Opening
<1>13. Len(seen') <= ProbeWindow /\ (probeActive' => Len(seen') < ProbeWindow)
  BY <1>1, <1>7
<1>14. QED
  BY <1>10, <1>11, <1>12, <1>13 DEF ProbeInv

\* Every step keeps the probe's invariant.
LEMMA ProbeInvStep == ProbeInv /\ [Next]_vars => ProbeInv'
<1> SUFFICES ASSUME ProbeInv, [Next]_vars PROVE ProbeInv'
  OBVIOUS
<1>1. ASSUME UNCHANGED <<config, probeVars, skipSharp>>, pc' \in Opening => pc \in Opening
      PROVE  ProbeInv'
  <2>1. /\ config' = config /\ seen' = seen /\ accum' = accum /\ probeActive' = probeActive
        /\ advised' = advised /\ skipSharp' = skipSharp
    BY <1>1
  <2>2. VerdictFromWindow'
    BY <2>1 DEF ProbeInv, VerdictFromWindow
  <2>3. QED
    BY <1>1, <2>1, <2>2 DEF ProbeInv
<1>2. CASE FinishOpen
  <2>1. /\ config' = config /\ seen' = seen /\ accum' = accum /\ advised' = advised
        /\ skipSharp' = skipSharp /\ pc = "init" /\ pc' = "idle"
    BY <1>2 DEF FinishOpen
  <2>2. seen = <<>> /\ Len(seen) < ProbeWindow
    BY <2>1, WindowAssumption DEF ProbeInv, Opening
  <2>3. VerdictFromWindow'
    BY <2>1 DEF ProbeInv, VerdictFromWindow
  <2>4. QED
    BY <2>1, <2>2, <2>3 DEF ProbeInv, Opening
<1>3. CASE ProbeStep
  <2>1. CASE UNCHANGED <<usmVars, probeVars>>
    <3>1. pc' \notin Opening /\ config' = config
      BY <1>3 DEF ProbeStep, Opening
    <3>2. QED
      BY <1>1, <2>1, <3>1
  <2>2. CASE \E c \in Contents :
               RunProbe([w |-> config.size.w, h |-> config.size.h, shows |-> c])
    <3>1. PICK c \in Contents : RunProbe([w |-> config.size.w, h |-> config.size.h, shows |-> c])
      BY <2>2
    <3> DEFINE f == [w |-> config.size.w, h |-> config.size.h, shows |-> c]
    <3>2. f \in Planes(config.size) /\ RunProbe(f)
      BY <3>1 DEF Planes
    <3>3. pc = "probe" /\ pc' = "newPicture" /\ config' = config
      BY <1>3 DEF ProbeStep
    <3> HIDE DEF f
    <3>4. QED
      BY <3>2, <3>3, RunProbeStep
  <2>3. QED
    BY <1>3, <2>1, <2>2 DEF ProbeStep
<1>4. CASE Decline
  BY <1>1, <1>4 DEF Decline, Opening
<1>5. CASE PickBackend
  BY <1>1, <1>5 DEF PickBackend, Opening
<1>6. CASE OpenPreferred
  BY <1>1, <1>6 DEF OpenPreferred, Opening
<1>7. CASE OpenFallback
  BY <1>1, <1>7 DEF OpenFallback, Opening
<1>8. CASE Filter
  BY <1>1, <1>8 DEF Filter, Opening
<1>9. CASE NewPicture
  BY <1>1, <1>9 DEF NewPicture, Opening
<1>10. CASE Process
  <2>1. pc' \in {"usm", "drop", "fallback"}
    BY <1>10 DEF Process, Statuses
  <2>2. QED
    BY <1>1, <1>10, <2>1 DEF Process, Opening
<1>11. CASE TryBackendFallback
  BY <1>1, <1>11 DEF TryBackendFallback, Opening
<1>12. CASE Drop
  BY <1>1, <1>12 DEF Drop, Opening
<1>13. CASE SkipUsm
  BY <1>1, <1>13 DEF SkipUsm, Opening
<1>14. CASE UsmApply
  BY <1>1, <1>14 DEF UsmApply, Opening
<1>15. CASE UsmApplied
  BY <1>1, <1>15 DEF UsmApplied, Opening, DisableUsm
<1>16. CASE Finish
  BY <1>1, <1>16 DEF Finish, Opening
<1>17. CASE Close
  BY <1>1, <1>17 DEF Close, Opening, DisableUsm
<1>18. CASE End
  BY <1>1, <1>18 DEF End, Opening, vars
<1>19. CASE UNCHANGED vars
  BY <1>1, <1>19 DEF vars
<1>20. QED
  BY <1>2, <1>3, <1>4, <1>5, <1>6, <1>7, <1>8, <1>9, <1>10, <1>11, <1>12, <1>13, <1>14, <1>15, <1>16, <1>17, <1>18, <1>19 DEF Next

\* ProbeInv holds in every reachable state.
LEMMA ProbeInvariant == Spec => []ProbeInv
<1>1. Init => ProbeInv
  BY ProbeInitially
<1>2. ProbeInv /\ [Next]_vars => ProbeInv'
  BY ProbeInvStep
<1>3. QED
  BY <1>1, <1>2, PTL DEF Spec

\* Whatever the sources show and wherever frames without a view fall, the probe
\* decides once, with the frame that fills the window, and what it decides is
\* what the samples inside the crop say, summed in any order and compared without
\* a truncated division.
THEOREM VerdictsFollow == Spec => []VerdictFromWindow
<1>1. ProbeInv => VerdictFromWindow
  BY DEF ProbeInv
<1>2. QED
  BY <1>1, ProbeInvariant, PTL

-----------------------------------------------------------------------------
(* Types.                                                                  *)

\* The part of TypeOK that no other invariant says.
RestTyped ==
  /\ usmPool \in {"none", "working", "broken"}
  /\ usmStatus \in {"ok", "failedUnchanged", "outputUncertain"}
  /\ usmAmount \in BOOLEAN /\ adaptive \in BOOLEAN /\ probeActive \in BOOLEAN
  /\ pixels \in {"none", "torn", "scaled", "sharp"}

LEMMA RestTypedStep == ProbeInv /\ RestTyped /\ [Next]_vars => RestTyped'
<1> SUFFICES ASSUME ProbeInv, RestTyped, [Next]_vars PROVE RestTyped'
  OBVIOUS
<1> USE DEF RestTyped
<1>1. CASE Decline
  BY <1>1 DEF Decline
<1>2. CASE PickBackend
  BY <1>2 DEF PickBackend
<1>3. CASE OpenPreferred
  BY <1>3 DEF OpenPreferred
<1>4. CASE OpenFallback
  BY <1>4 DEF OpenFallback
<1>5. CASE FinishOpen
  <2>1. config.adaptive \in BOOLEAN /\ Probed(config) \in BOOLEAN
    BY ConfigsAre DEF ProbeInv, Probed
  <2>2. QED
    BY <1>5, <2>1 DEF FinishOpen
<1>6. CASE Filter
  BY <1>6 DEF Filter
<1>7. CASE ProbeStep
  <2>1. CASE UNCHANGED <<usmVars, probeVars>>
    BY <1>7, <2>1 DEF ProbeStep
  <2>2. CASE \E c \in Contents :
               RunProbe([w |-> config.size.w, h |-> config.size.h, shows |-> c])
    <3>1. PICK f : RunProbe(f)
      BY <2>2
    <3>2. probeActive' \in BOOLEAN
      <4>1. accum'.frames \in Int /\ ProbeWindow \in Int
        <5>1. accum.frames = Len(seen) /\ Len(seen) \in Nat
          BY Appended DEF ProbeInv, Tally
        <5>2. accum'.frames = accum.frames + 1
          BY <3>1 DEF RunProbe, ObservePlane, Observe
        <5>3. QED
          BY <5>1, <5>2, WindowAssumption
      <4>2. (accum'.frames < ProbeWindow) \in BOOLEAN
        BY <4>1
      <4>3. probeActive' = (accum'.frames < ProbeWindow)
        BY <3>1, Zenon DEF RunProbe
      <4>4. QED
        BY <4>2, <4>3, Zenon
    <3>3. /\ usmStatus' = usmStatus
          /\ usmAmount' \in {FALSE, usmAmount} /\ adaptive' \in {FALSE, adaptive}
          /\ usmPool' \in {"none", usmPool}
      BY <3>1 DEF RunProbe, DisableUsm
    <3>4. pixels' = pixels
      BY <1>7 DEF ProbeStep
    <3>5. QED
      BY <3>2, <3>3, <3>4
  <2>3. QED
    BY <1>7, <2>1, <2>2 DEF ProbeStep
<1>8. CASE NewPicture
  BY <1>8 DEF NewPicture
<1>9. CASE Process
  BY <1>9 DEF Process
<1>10. CASE TryBackendFallback
  BY <1>10 DEF TryBackendFallback
<1>11. CASE Drop
  BY <1>11 DEF Drop
<1>12. CASE SkipUsm
  BY <1>12 DEF SkipUsm
<1>13. CASE UsmApply
  BY <1>13 DEF UsmApply, BestApplies
<1>14. CASE UsmApplied
  BY <1>14 DEF UsmApplied, DisableUsm
<1>15. CASE Finish
  BY <1>15 DEF Finish
<1>16. CASE Close
  BY <1>16 DEF Close, DisableUsm
<1>17. CASE End \/ UNCHANGED vars
  BY <1>17 DEF End, vars
<1>18. QED
  BY <1>1, <1>2, <1>3, <1>4, <1>5, <1>6, <1>7, <1>8, <1>9, <1>10, <1>11, <1>12, <1>13, <1>14,
     <1>15, <1>16, <1>17 DEF Next

\* TypeOK holds in every reachable state: the pictures are typed by where the
\* call is, the accumulator by being a tally.
THEOREM TypeCorrect == Spec => []TypeOK
<1>1. Init => RestTyped
  BY DEF Init, RestTyped
<1>2. Spec => []RestTyped
  <2>1. ProbeInv /\ RestTyped /\ [Next]_vars => RestTyped'
    BY RestTypedStep
  <2>2. QED
    BY <1>1, <2>1, ProbeInvariant, PTL DEF Spec
<1>3. IInv /\ ProbeInv /\ RestTyped => TypeOK
  <2> SUFFICES ASSUME IInv, ProbeInv, RestTyped PROVE TypeOK
    OBVIOUS
  <2>1. advised \in BOOLEAN
    BY DEF ProbeInv, VerdictFromWindow
  <2>2. {fallbackTried, usmAmount, adaptive, skipSharp, retained, probeActive, advised, fatal}
          \subseteq BOOLEAN
    BY <2>1 DEF IInv, Typed, RestTyped
  <2>3. {in, out} \subseteq {"none", "held", "released", "returned", "misused"}
    BY DEF IInv, Typed, PictureInv
  <2>4. accum \in [lapSum: Nat, lapN: Nat, edgeSum: Nat, edgeN: Nat, frames: 0..ProbeWindow]
    <3>1. accum = Tally(config.size, seen) /\ config.size \in Sizes
      BY ConfigsAre DEF ProbeInv
    <3>2. Tally(config.size, seen) \in
            [lapSum: Nat, lapN: Nat, edgeSum: Nat, edgeN: Nat, frames: Nat]
      BY <3>1, TallyType DEF ProbeInv
    <3>3. accum.frames <= ProbeWindow /\ ProbeWindow \in Nat
      BY <3>1, WindowAssumption DEF ProbeInv, Tally
    <3> HIDE DEF Tally
    <3>4. QED
      BY <3>1, <3>2, <3>3
  <2>5. pc \in {"probeInput", "open", "openFallback", "init", "idle", "probe",
                "newPicture", "process", "fallback", "drop", "usm", "usmApplied", "finish",
                "end"}
    BY DEF IInv, Typed, Opening, Scaling
  <2>6. QED
    BY <2>2, <2>3, <2>4, <2>5 DEF TypeOK, IInv, Typed, RestTyped, ProbeInv
<1>4. QED
  BY <1>2, <1>3, OwnershipInvariant, ProbeInvariant, PTL
-----------------------------------------------------------------------------
(* The promise to VLC.                                                     *)

\* The abstract state in the terms of the concrete one, one name each.
Scales   == Stage # "opening" /\ backend # "none"
Sharpens == usmAmount /\ usmPool # "none" /\ ~skipSharp

\* What PictureFilter's actions say of the mapped variables.
Idles(now, next) == Stage = now /\ Stage' = next
SameService == Scales' = Scales /\ Sharpens' = Sharpens
Works ==
  /\ Idles("busy", "busy")
  /\ in = "held" /\ in' = "held"
  /\ out \in {"none", "held"} /\ out' \in {out, "held"}
  /\ pixels' \in {pixels, "torn", "scaled"} \cup (IF Sharpens THEN {"sharp"} ELSE {})
  /\ Scales' \in {Scales, FALSE} /\ Sharpens' \in {Sharpens, FALSE}

\* Every step keeps the promise or does not show.
LEMMA KeepsPromise == IInv /\ [Next]_vars => [Promise!Next]_(Promise!vars)
<1> SUFFICES ASSUME IInv, [Next]_vars
             PROVE  Promise!Next \/ UNCHANGED <<Stage, in, out, pixels, Scales, Sharpens>>
  BY DEF Promise!vars, Promise!Pictures, Promise!Service, Scales, Sharpens
<1>0. Typed /\ PictureInv /\ PixelInv /\ BackendInv
  BY DEF IInv
<1>1. ASSUME Works PROVE Promise!Next
  BY <1>1 DEF Works, Idles, Scales, Sharpens, Promise!Next, Promise!Work
<1>2. ASSUME Idles("opening", "closed"), UNCHANGED <<in, out, pixels>>, SameService
      PROVE  Promise!Next
  BY <1>2 DEF Idles, SameService, Scales, Sharpens, Promise!Next, Promise!Decline,
              Promise!Pictures, Promise!Service
<1>3. ASSUME Idles("busy", "idle"), SameService, UNCHANGED pixels,
             in = "held", in' = "released",
             \/ out = "held" /\ out' = "returned" /\ pixels \in Whole
             \/ out = "held" /\ out' = "released"
             \/ out = "none" /\ out' = "none"
      PROVE  Promise!Next
  BY <1>3 DEF Idles, SameService, Scales, Sharpens, Whole, Promise!Next, Promise!Return,
              Promise!Refuse, Promise!Service
<1>4. CASE Decline
  <2>1. Idles("opening", "closed") /\ Scales = FALSE /\ Scales' = FALSE
    BY <1>0, <1>4 DEF Decline, Stage, Idles, Scales, BackendInv
  <2>2. SameService /\ UNCHANGED <<in, out, pixels>>
    BY <1>4, <2>1 DEF Decline, Sharpens, SameService
  <2>3. QED
    BY <1>2, <2>1, <2>2
<1>5. CASE PickBackend
  <2>1. UNCHANGED <<in, out, pixels>> /\ Sharpens' = Sharpens
    BY <1>5 DEF PickBackend, Sharpens
  <2>2. Stage = "opening" /\ Scales = FALSE /\ Scales' = FALSE
    BY <1>5 DEF PickBackend, Stage, Scales
  <2>3. Stage' \in {"opening", "closed"}
    BY <1>5 DEF PickBackend, Stage
  <2>4. QED
    BY <1>2, <2>1, <2>2, <2>3 DEF Idles, SameService
<1>6. CASE OpenPreferred \/ OpenFallback
  <2>1. UNCHANGED <<in, out, pixels>> /\ Sharpens' = Sharpens
    BY <1>6 DEF OpenPreferred, OpenFallback, Sharpens
  <2>2. Stage = "opening" /\ Scales = FALSE /\ Scales' = FALSE
    BY <1>6 DEF OpenPreferred, OpenFallback, Stage, Scales
  <2>3. Stage' \in {"opening", "closed"}
    BY <1>6 DEF OpenPreferred, OpenFallback, Stage
  <2>4. QED
    BY <1>2, <2>1, <2>2, <2>3 DEF Idles, SameService
<1>7. CASE FinishOpen
  <2>1. Stage = "opening" /\ Stage' = "idle" /\ UNCHANGED <<in, out, pixels>>
    BY <1>7 DEF FinishOpen, Stage
  <2>2. Scales' = TRUE
    BY <1>0, <1>7, <2>1 DEF FinishOpen, Scales, BackendInv
  <2>3. Sharpens' \in BOOLEAN
    BY DEF Sharpens
  <2>4. QED
    BY <2>1, <2>2, <2>3 DEF Scales, Sharpens, Promise!Next, Promise!Open, Promise!Pictures
<1>8. CASE Filter
  <2>1. SameService /\ Scales = (backend # "none") /\ Stage = "idle"
    BY <1>8 DEF Filter, Stage, Scales, Sharpens, SameService
  <2>2. CASE backend = "none"
    <3>1. Stage' = "idle" /\ in' = "released" /\ out' = "none" /\ pixels' = "none"
      BY <1>8, <2>2 DEF Filter, Released, Stage
    <3>2. QED
      BY <2>1, <2>2, <3>1 DEF Scales, Sharpens, SameService, Promise!Next, Promise!TurnAway,
                              Promise!Service
  <2>3. CASE backend # "none"
    <3>1. Stage' = "busy" /\ in' = "held" /\ out' = "none" /\ pixels' = "none"
      BY <1>8, <2>3 DEF Filter, Stage
    <3>2. QED
      BY <2>1, <2>3, <3>1 DEF Scales, Sharpens, SameService, Promise!Next, Promise!Call,
                              Promise!Service
  <2>4. QED
    BY <2>2, <2>3
<1>9. CASE ProbeStep
  <2>1. Idles("busy", "busy") /\ in = "held" /\ out = "none" /\ UNCHANGED <<in, out, pixels>>
    BY <1>0, <1>9 DEF ProbeStep, Stage, Idles, PictureInv
  <2>2. Scales' = Scales
    BY <1>9, <2>1 DEF ProbeStep, Scales, Idles
  <2>3. Sharpens' \in {Sharpens, FALSE}
    <3>1. CASE UNCHANGED <<usmVars, probeVars>>
      BY <3>1 DEF Sharpens
    <3>2. CASE \E c \in Contents :
                 RunProbe([w |-> config.size.w, h |-> config.size.h, shows |-> c])
      BY <3>2 DEF RunProbe, DisableUsm, Sharpens
    <3>3. QED
      BY <1>9, <3>1, <3>2 DEF ProbeStep
  <2>4. QED
    BY <1>1, <2>1, <2>2, <2>3 DEF Works
<1>10. CASE NewPicture
  <2>1. Stage = "busy" /\ in = "held" /\ out = "none" /\ Sharpens' = Sharpens
    BY <1>0, <1>10 DEF NewPicture, Stage, PictureInv, Sharpens
  <2>2. CASE pc' = "process"
    <3>1. out' = "held" /\ pixels' = "torn" /\ in' = "held" /\ Stage' = "busy" /\ Scales' = Scales
      BY <1>10, <2>1, <2>2 DEF NewPicture, Stage, Scales
    <3>2. QED
      BY <1>1, <2>1, <3>1 DEF Works, Idles
  <2>3. CASE pc' = "idle"
    <3>1. in' = "released" /\ out' = "none" /\ pixels' = pixels /\ Stage' = "idle" /\ Scales' = Scales
      BY <1>10, <2>1, <2>3 DEF NewPicture, Released, Stage, Scales
    <3>2. QED
      BY <1>3, <2>1, <3>1 DEF SameService, Idles
  <2>4. QED
    BY <1>10, <2>2, <2>3 DEF NewPicture
<1>11. CASE Process
  <2>1. in = "held" /\ out = "held" /\ UNCHANGED <<in, out>> /\ pixels' \in {"torn", "scaled"}
    BY <1>0, <1>11 DEF Process, PictureInv, Scaling
  <2>2. Idles("busy", "busy") /\ Sharpens' = Sharpens
    <3>1. pc' \in {"usm", "drop", "fallback"}
      BY <1>11 DEF Process, Statuses
    <3>2. QED
      BY <1>11, <3>1 DEF Process, Stage, Idles, Sharpens
  <2>3. Scales' = Scales
    BY <1>11, <2>2 DEF Process, Scales, Idles
  <2>4. QED
    BY <1>1, <2>1, <2>2, <2>3 DEF Works
<1>12. CASE TryBackendFallback
  <2>1. /\ Idles("busy", "busy") /\ in = "held" /\ out = "held" /\ UNCHANGED <<in, out, pixels>>
        /\ Sharpens' = Sharpens
    BY <1>0, <1>12 DEF TryBackendFallback, Stage, Idles, PictureInv, Scaling, Sharpens
  <2>2. backend' = backend \/ backend = "zimg"
    BY <1>12 DEF TryBackendFallback
  <2>3. Scales' \in {Scales, FALSE}
    BY <2>1, <2>2 DEF Scales, Idles
  <2>4. QED
    BY <1>1, <2>1, <2>3 DEF Works
<1>13. CASE Drop
  <2>1. in = "held" /\ out = "held" /\ in' = "released" /\ out' = "released" /\ UNCHANGED pixels
    BY <1>0, <1>13 DEF Drop, Released, PictureInv, Scaling
  <2>2. Idles("busy", "idle") /\ SameService
    BY <1>13 DEF Drop, Stage, Idles, Scales, Sharpens, SameService
  <2>3. QED
    BY <1>3, <2>1, <2>2
<1>14. CASE SkipUsm
  BY <1>14 DEF SkipUsm, Stage, Scales, Sharpens
<1>15. CASE UsmApply
  <2>1. in = "held" /\ out = "held" /\ UNCHANGED <<in, out>>
    BY <1>0, <1>15 DEF UsmApply, PictureInv, Scaling
  <2>2. Idles("busy", "busy")
    BY <1>15 DEF UsmApply, Stage, Idles
  <2>3. Sharpens = TRUE /\ Sharpens' \in {Sharpens, FALSE}
    BY <1>15 DEF UsmApply, Sharpens
  <2>4. pixels' \in {pixels, "torn", "sharp"}
    BY <1>15 DEF UsmApply, BestApplies
  <2>5. Scales' = Scales
    BY <1>15, <2>2 DEF UsmApply, Scales, Idles
  <2>6. QED
    BY <1>1, <2>1, <2>2, <2>3, <2>4, <2>5 DEF Works
<1>16. CASE UsmApplied
  <2>1. in = "held" /\ out = "held" /\ UNCHANGED <<in, out, pixels>>
    BY <1>0, <1>16 DEF UsmApplied, PictureInv, Scaling
  <2>2. Idles("busy", "busy")
    BY <1>16 DEF UsmApplied, Stage, Idles
  <2>3. Sharpens' \in {Sharpens, FALSE}
    BY <1>16 DEF UsmApplied, DisableUsm, Sharpens
  <2>4. Scales' = Scales
    BY <1>16, <2>2 DEF UsmApplied, Scales, Idles
  <2>5. QED
    BY <1>1, <2>1, <2>2, <2>3, <2>4 DEF Works
<1>17. CASE Finish
  <2>1. /\ in = "held" /\ out = "held" /\ in' = "released" /\ out' = "returned"
        /\ UNCHANGED pixels /\ pixels \in Whole
    BY <1>0, <1>17 DEF Finish, Released, PictureInv, PixelInv, Scaling
  <2>2. Idles("busy", "idle") /\ SameService
    BY <1>17 DEF Finish, Stage, Idles, Scales, Sharpens, SameService
  <2>3. QED
    BY <1>3, <2>1, <2>2
<1>18. CASE Close
  <2>1. Stage = "idle" /\ Stage' = "closed" /\ UNCHANGED <<in, out, pixels>>
    BY <1>18 DEF Close, Stage
  <2>2. Scales' = FALSE /\ Sharpens' = FALSE
    BY <1>18 DEF Close, Closes, DisableUsm, Scales, Sharpens
  <2>3. QED
    BY <2>1, <2>2 DEF Scales, Sharpens, Promise!Next, Promise!Close, Promise!Pictures
<1>19. CASE End \/ UNCHANGED vars
  BY <1>19 DEF End, vars, Stage, Scales, Sharpens
<1>20. QED
  BY <1>4, <1>5, <1>6, <1>7, <1>8, <1>9, <1>10, <1>11, <1>12, <1>13, <1>14, <1>15, <1>16,
     <1>17, <1>18, <1>19 DEF Next

\* For every source, every option and every sequence of failures the filter is a
\* PictureFilter: each picture is given back once or returned complete, and
\* service only degrades.
THEOREM Refinement == Spec => ImplementsPromise
<1>1. Init => Promise!Init
  BY DEF Init, Stage, Promise!Init
<1>2. QED
  BY <1>1, KeepsPromise, OwnershipInvariant, PTL DEF Spec, ImplementsPromise, Promise!Spec

-----------------------------------------------------------------------------
(* Sizes and views.  What Open computes is a function of the format, so    *)
(* the invariant only ties crop, target and view to it; the argument is in *)
(* the operators.  A crop lies in the window and is even where chroma is   *)
(* halved (CropInside); a target that is planned is even, in proportion    *)
(* and within the limits (PlanGivesTarget); so every region consists of    *)
(* whole groups of chroma samples (RegionsOk) and starts and ends at the   *)
(* same pixel in each plane (GroupsWhole, BytesWhole, AcceptedSound), and  *)
(* a picture VLC allocated for the format holds it (NegotiatedAccepted).   *)

Formats == [chroma : Chromas, w : AxesW, h : AxesH]
PlanOptions == [preset : {0} \cup PresetHeights, skipAbove : Skips, manyCores : BOOLEAN]

\* Crop and target are those of the format, and a view is that of a picture VLC
\* may have allocated.
GeometryInv ==
  /\ fmt \in Formats /\ opts \in PlanOptions
  /\ stage \in {"open", "engaged", "bypassed"}
  /\ view \in {"none", "accepted", "refused"}
  /\ stage = "engaged" =>
       /\ crop = ResolveSourceCrop(fmt)
       /\ target = PlanUpscale(crop.w.dim, crop.h.dim, opts)
       /\ target # NoTarget
  /\ view # "none" => /\ stage = "engaged" /\ side \in Sides /\ pic \in Pictures(side)
                      /\ view = "accepted" <=> ViewAccepted(pic, fmt.chroma, Region(side))

LEMMA GeometryInitially == GeometryInit => GeometryInv
BY DEF GeometryInit, GeometryInv, Formats, PlanOptions

LEMMA GeometryStep == GeometryInv /\ [GeometryNext]_geometryVars => GeometryInv'
<1> SUFFICES ASSUME GeometryInv, [GeometryNext]_geometryVars PROVE GeometryInv'
  OBVIOUS
<1>1. CASE Open
  BY <1>1 DEF GeometryInv, Open
<1>2. ASSUME NEW s \in Sides, NEW p \in Pictures(s), Frame(s, p)
      PROVE  GeometryInv'
  <2>1. /\ stage = "engaged" /\ side' = s /\ pic' = p
        /\ view' = IF ViewAccepted(p, fmt.chroma, Region(s)) THEN "accepted" ELSE "refused"
        /\ fmt' = fmt /\ opts' = opts /\ stage' = stage /\ crop' = crop /\ target' = target
    BY <1>2 DEF Frame
  <2>2. \A q \in Sides : Pictures(q)' = Pictures(q) /\ Region(q)' = Region(q)
    BY <2>1 DEF Pictures, Negotiated, Region
  <2>3. view' = "accepted" <=> ViewAccepted(p, fmt.chroma, Region(s))
    BY <2>1
  <2>4. pic' \in Pictures(side)' /\ Region(side)' = Region(s)
    BY <2>1, <2>2
  <2>5. QED
    BY <2>1, <2>3, <2>4 DEF GeometryInv
<1>3. CASE Return
  BY <1>3 DEF GeometryInv, Return
<1>4. CASE UNCHANGED geometryVars
  <2>1. \A q \in Sides : Pictures(q)' = Pictures(q) /\ Region(q)' = Region(q)
    BY <1>4 DEF geometryVars, Pictures, Negotiated, Region
  <2>2. view # "none" => Pictures(side)' = Pictures(side) /\ Region(side)' = Region(side)
    BY <1>4, <2>1 DEF GeometryInv, geometryVars
  <2>3. QED
    BY <1>4, <2>2 DEF GeometryInv, geometryVars
<1>5. QED
  BY <1>1, <1>2, <1>3, <1>4 DEF GeometryNext

\* What is known of every plane of every chroma.
PlaneOk(p, d) ==
  /\ p.xg \in {1, 2} /\ p.xb \in 1..4 /\ p.yg \in {1, 2}
  /\ p.xg = 2 => d.subW = 1
  /\ p.yg = 2 => d.subH = 1

LEMMA PlanesOk ==
  ASSUME NEW c \in Chromas, NEW i \in PlanesOf(c)
  PROVE  PlaneOk(Descriptors[c].planes[i], Descriptors[c])
<1>1. c \in {"I420", "I422", "I444", "NV12", "RV24", "RGBA"}
  BY DEF Chromas, Descriptors
<1>2. CASE c = "I420"
  <2>1. i \in 1..3
    BY <1>2 DEF PlanesOf, Descriptors
  <2>2. QED
    BY <1>2, <2>1 DEF PlaneOk, Descriptors, Plane, Luma
<1>3. CASE c = "I422"
  <2>1. i \in 1..3
    BY <1>3 DEF PlanesOf, Descriptors
  <2>2. QED
    BY <1>3, <2>1 DEF PlaneOk, Descriptors, Plane, Luma
<1>4. CASE c = "I444"
  <2>1. i \in 1..3
    BY <1>4 DEF PlanesOf, Descriptors
  <2>2. QED
    BY <1>4, <2>1 DEF PlaneOk, Descriptors, Plane, Luma
<1>5. CASE c = "NV12"
  <2>1. i \in 1..2
    BY <1>5 DEF PlanesOf, Descriptors
  <2>2. QED
    BY <1>5, <2>1 DEF PlaneOk, Descriptors, Plane, Luma
<1>6. CASE c = "RV24"
  <2>1. i = 1
    BY <1>6 DEF PlanesOf, Descriptors
  <2>2. QED
    BY <1>6, <2>1 DEF PlaneOk, Descriptors, Plane, Luma
<1>7. CASE c = "RGBA"
  <2>1. i = 1
    BY <1>7 DEF PlanesOf, Descriptors
  <2>2. QED
    BY <1>7, <2>1 DEF PlaneOk, Descriptors, Plane, Luma
<1>8. QED
  BY <1>1, <1>2, <1>3, <1>4, <1>5, <1>6, <1>7

LEMMA EvenBelow ==
  ASSUME NEW v \in Int
  PROVE  /\ Even(v) \in Int /\ Even(v) % 2 = 0 /\ v - 1 <= Even(v) /\ Even(v) <= v
         /\ v >= 0 => Even(v) >= 0
BY DEF Even

\* A format as VLC may announce it, on one axis.
AxisOk(axis) == axis.coded \in Nat /\ axis.visible \in Nat /\ axis.off \in 0..UintMax

LEMMA WindowType ==
  ASSUME NEW axis, AxisOk(axis)
  PROVE  Window(axis).off = axis.off /\ Window(axis).off \in Nat /\ Window(axis).dim \in Int
<1>1. UintMax \in Int /\ axis.off \in Nat
  BY GeometryAssumption DEF AxisOk
<1>2. QED
  BY <1>1 DEF Window, AxisOk

\* The crop of an axis lies in its window, and is even where chroma is halved
\* (ResolveSourceCrop, up_chroma_align_axis_even).
LEMMA CropInside ==
  ASSUME NEW axis, AxisOk(axis), NEW sub
  PROVE  LET r == ResolveAxis(axis, sub)
             w == Window(axis)
         IN  /\ r.off \in Nat /\ r.dim \in Int
             /\ r.dim > 0 => r.off >= axis.off /\ r.off + r.dim <= axis.off + w.dim
             /\ sub = 1 /\ r.dim > 0 => r.off % 2 = 0 /\ r.dim % 2 = 0
<1> DEFINE r == ResolveAxis(axis, sub)
           w == Window(axis)
           off == w.off
           dim == w.dim
           start == Even(off + 1)
           end == Even(off + dim)
<1>1. off = axis.off /\ off \in Nat /\ dim \in Int
  BY WindowType
<1>2. w = [off |-> off, dim |-> dim]
  BY DEF Window
<1>3. CASE sub # 1
  BY <1>1, <1>3 DEF ResolveAxis
<1>4. CASE sub = 1
  <2>1. r = CASE dim <= 0 -> [w EXCEPT !.dim = 0]
              [] start > UintMax -> [w EXCEPT !.dim = 0]
              [] OTHER -> [off |-> start, dim |-> Max2(end - start, 0)]
    BY <1>4 DEF ResolveAxis, AlignAxisEven
  <2>2. /\ start \in Int /\ start % 2 = 0 /\ off + 1 - 1 <= start /\ start <= off + 1 /\ start >= 0
        /\ end \in Int /\ end % 2 = 0 /\ end <= off + dim
    BY <1>1, EvenBelow
  <2> HIDE DEF r, w, off, dim, start, end
  <2>3. r = [off |-> off, dim |-> 0] \/ r = [off |-> start, dim |-> Max2(end - start, 0)]
    BY <1>2, <2>1
  <2>4. CASE r = [off |-> off, dim |-> 0]
    BY <1>1, <2>4 DEF r, w
  <2>5. CASE r = [off |-> start, dim |-> Max2(end - start, 0)]
    <3>1. r.off = start /\ r.dim = IF end - start > 0 THEN end - start ELSE 0
      BY <2>5 DEF Max2
    <3>2. r.off \in Nat /\ r.dim \in Int
      BY <2>2, <3>1
    <3>3. r.dim > 0 => r.off >= off /\ r.off + r.dim <= off + dim
      BY <1>1, <2>2, <3>1
    <3>4. r.dim > 0 => r.off % 2 = 0 /\ r.dim % 2 = 0
      BY <2>2, <3>1
    <3>5. QED
      BY <1>1, <3>2, <3>3, <3>4 DEF r, w, dim
  <2>6. QED
    BY <2>3, <2>4, <2>5
<1>5. QED
  BY <1>3, <1>4

\* A target of a source of w by h (up_plan_upscale).
TargetOk(t, w, h, o) ==
  /\ w \in 1..MaxDim /\ h \in 1..MaxDim
  /\ t.w \in 1..MaxDim /\ t.h \in 1..MaxDim
  /\ t.w >= w /\ t.h >= h /\ ~(t.w = w /\ t.h = h)
  /\ t.w % 2 = 0 /\ t.h % 2 = 0
  /\ t.w <= MaxRatio * w /\ t.h <= MaxRatio * h
  /\ (t.w + 2) * h > w * t.h
  /\ o.preset = 0 => t.h <= AutoHigh

LEMMA PlanGivesTarget ==
  ASSUME NEW w \in Int, NEW h \in Int, NEW o \in PlanOptions, PlanUpscale(w, h, o) # NoTarget
  PROVE  TargetOk(PlanUpscale(w, h, o), w, h, o)
<1> DEFINE T == DecideTargetHeight(h, o.preset, o.manyCores)
           t == ComputeTargetDims(w, h, T)
           wanted == IF o.preset = 0 THEN AutoTargetHeight(h, o.manyCores) ELSE o.preset
           hR == h * MaxRatio
           wT == w * T
           q == wT \div h
<1>1. /\ PlanUpscale(w, h, o) = t
      /\ w \in 1..MaxDim /\ h \in 1..MaxDim /\ T > h /\ TargetDimsOk(t) /\ PlanResultOk(w, h, t)
  BY DEF PlanUpscale, PlanInputsOk
<1>2. /\ MaxDim \in Nat /\ MaxRatio \in Nat /\ MaxRatio >= 1
      /\ AutoLow \in Nat /\ AutoHigh \in Nat /\ AutoLow <= AutoHigh /\ o.preset \in Nat
  <2>1. o.preset \in {0} \cup PresetHeights
    BY DEF PlanOptions
  <2>2. MaxDim \in Nat /\ MaxRatio \in Nat \ {0} /\ PresetHeights \subseteq 1..MaxDim
        /\ AutoLow \in 1..MaxDim /\ AutoHigh \in 1..MaxDim /\ AutoLow <= AutoHigh
    BY GeometryAssumption
  <2>3. \A x \in 1..MaxDim : x \in Nat
    OBVIOUS
  <2>4. o.preset \in Nat
    <3>1. o.preset = 0 \/ o.preset \in 1..MaxDim
      BY <2>1, <2>2
    <3>2. QED
      BY <2>3, <3>1
  <2>5. AutoLow \in Nat /\ AutoHigh \in Nat
    BY <2>2, <2>3
  <2>6. MaxRatio \in Nat /\ MaxRatio >= 1
    BY <2>2
  <2>7. QED
    BY <2>2, <2>4, <2>5, <2>6
<1>3. w \in Nat /\ h \in Nat /\ w >= 1 /\ h >= 1
  BY <1>1
<1>4. wanted \in Nat /\ (o.preset = 0 => wanted <= AutoHigh)
  BY <1>2 DEF AutoTargetHeight
<1>5. T = Max2(Min2(wanted, hR), h)
  BY DEF DecideTargetHeight
<1>6. t.w = Even(q) /\ t.h = Even(T)
  BY DEF ComputeTargetDims
<1>7. hR \in Nat
  BY <1>2, <1>3
<1> HIDE DEF T, t, wanted, hR
<1>8. T \in Nat /\ T <= hR /\ T <= wanted
  BY <1>1, <1>3, <1>4, <1>5, <1>7 DEF Max2, Min2
<1>9. wT \in Nat
  BY <1>3, <1>8
<1> HIDE DEF wT
<1>10. q \in Nat /\ h * q <= wT /\ wT < h * q + h
  BY <1>3, <1>9, Division
<1> HIDE DEF q
<1>11. /\ t.w % 2 = 0 /\ t.w \in Int /\ q - 1 <= t.w /\ t.w <= q
       /\ t.h % 2 = 0 /\ t.h \in Int /\ t.h <= T
  BY <1>6, <1>8, <1>10, EvenBelow
<1>12. t.h <= MaxRatio * h
  BY <1>2, <1>3, <1>8, <1>11 DEF hR
<1>13. t.w <= MaxRatio * w
  <2> DEFINE p == MaxRatio * w
             hp == h * p
             hq == h * q
  <2>1. p \in Nat
    BY <1>2, <1>3
  <2>2. w * T <= w * hR
    BY <1>3, <1>7, <1>8
  <2>3. w * hR = hp
    BY <1>2, <1>3 DEF hR
  <2>4. wT <= hp
    BY <2>2, <2>3 DEF wT
  <2>5. hq \in Nat /\ hp \in Nat
    BY <1>3, <1>10, <2>1
  <2> HIDE DEF p, hp, hq
  <2>6. hq < hp + h
    BY <1>3, <1>9, <1>10, <2>4, <2>5 DEF hq
  <2>7. q <= p
    <3>1. h \in Nat \ {0} /\ q \in Int /\ p \in Int
      BY <1>3, <1>10, <2>1
    <3>2. h * q < h * p + h
      BY <2>6 DEF hq, hp
    <3>3. QED
      BY <3>1, <3>2, QuotientLe
  <2>8. t.w <= p
    BY <1>10, <1>11, <2>1, <2>7
  <2>9. QED
    BY <2>8 DEF p
<1>14. (t.w + 2) * h > w * t.h
  <2> DEFINE x == t.w
             y == t.h
             hq == h * q
  <2>1. x \in Int /\ q - 1 <= x /\ y \in Int /\ y <= T
    BY <1>11
  <2> HIDE DEF x, y
  <2>2. w * y <= wT
    BY <1>3, <1>8, <2>1 DEF wT
  <2>3. (x + 2) * h >= (q + 1) * h
    BY <1>3, <1>10, <2>1
  <2>4. (q + 1) * h = h * q + h
    BY <1>3, <1>10
  <2>5. w * y \in Int /\ (x + 2) * h \in Int /\ (q + 1) * h \in Int /\ h * q \in Int
    BY <1>3, <1>10, <2>1
  <2>6. (x + 2) * h > w * y
    BY <1>3, <1>9, <1>10, <2>2, <2>3, <2>4, <2>5
  <2>7. QED
    BY <2>6 DEF x, y
<1>15. o.preset = 0 => t.h <= AutoHigh
  BY <1>2, <1>4, <1>8, <1>11
<1>16. QED
  BY <1>1, <1>11, <1>12, <1>13, <1>14, <1>15 DEF TargetOk, TargetDimsOk, PlanResultOk

\* The groups of one or two lines that an interval touches: when it starts with
\* a group they are those its length makes.
WholeGroups(off, dim, g) ==
  /\ off \div g \in Nat /\ (off \div g) * g = off
  /\ CeilDiv(dim, g) \in Nat /\ CeilDiv(off + dim, g) \in Int
  /\ CeilDiv(off + dim, g) - off \div g = CeilDiv(dim, g)
  /\ \A n \in Nat : /\ CeilDiv(n, g) \in Int
                    /\ off + dim <= n => CeilDiv(off + dim, g) <= CeilDiv(n, g)
  /\ dim > 0 => CeilDiv(dim, g) > 0

LEMMA GroupsWhole ==
  ASSUME NEW off \in Nat, NEW dim \in Nat, NEW g \in {1, 2}, g = 2 => off % 2 = 0
  PROVE  WholeGroups(off, dim, g)
BY DEF CeilDiv, WholeGroups

\* The same in bytes, b to a group.
WholeBytes(off, dim, g, b) ==
  LET start == off \div g
      count == CeilDiv(off + dim, g) - start
      touched == CeilDiv(dim, g) * b
  IN  /\ start * b \in Nat /\ touched \in Nat
      /\ count * b = touched
      /\ ((start * b) \div b) * g = off
      /\ \A n \in Nat : off + dim <= n => start * b + count * b <= CeilDiv(n, g) * b
      /\ dim > 0 => touched > 0

LEMMA BytesWhole ==
  ASSUME NEW off \in Nat, NEW dim \in Nat, NEW g \in {1, 2}, g = 2 => off % 2 = 0, NEW b \in 1..4
  PROVE  WholeBytes(off, dim, g, b)
<1> DEFINE start == off \div g
           part == CeilDiv(dim, g)
           whole == CeilDiv(off + dim, g)
<1>1. /\ start \in Nat /\ start * g = off
      /\ part \in Nat /\ whole \in Int /\ whole - start = part /\ (dim > 0 => part > 0)
      /\ \A n \in Nat : CeilDiv(n, g) \in Int /\ (off + dim <= n => whole <= CeilDiv(n, g))
  <2>1. WholeGroups(off, dim, g)
    BY GroupsWhole
  <2>2. QED
    BY <2>1 DEF WholeGroups
<1> HIDE DEF start, part, whole
<1>2. b \in {1, 2, 3, 4}
  OBVIOUS
<1>3. /\ start * b \in Nat /\ part * b \in Nat /\ (whole - start) * b = part * b
      /\ (start * b) \div b = start
      /\ start * b + (whole - start) * b = whole * b
      /\ dim > 0 => part * b > 0
  <2>1. CASE b = 1
    BY <1>1, <2>1
  <2>2. CASE b = 2
    BY <1>1, <2>2
  <2>3. CASE b = 3
    BY <1>1, <2>3
  <2>4. CASE b = 4
    BY <1>1, <2>4
  <2>5. QED
    BY <1>2, <2>1, <2>2, <2>3, <2>4
<1>4. \A n \in Nat : off + dim <= n => whole * b <= CeilDiv(n, g) * b
  <2>1. SUFFICES ASSUME NEW n \in Nat, off + dim <= n PROVE whole * b <= CeilDiv(n, g) * b
    OBVIOUS
  <2> DEFINE all == CeilDiv(n, g)
  <2>2. whole <= all /\ all \in Int
    BY <1>1, <2>1
  <2> HIDE DEF all
  <2>3. whole * b <= all * b
    BY <1>1, <1>2, <2>2
  <2>4. QED
    BY <2>3 DEF all
<1>5. QED
  BY <1>1, <1>3, <1>4 DEF WholeBytes, start, part, whole

-----------------------------------------------------------------------------
(* Regions and views.                                                      *)

\* A region of a picture lies in the window of its format, and starts with a
\* group of chroma.
RegionOk(a, r, sub) ==
  /\ a.coded \in Nat /\ a.off \in Nat /\ Window(a).dim \in Int
  /\ r.off \in Nat /\ r.dim \in Nat /\ r.dim > 0 /\ r.coded = a.coded
  /\ r.off >= a.off /\ r.off + r.dim <= a.off + Window(a).dim
  /\ sub = 1 => r.off % 2 = 0

LEMMA RegionsOk ==
  ASSUME GeometryInv, stage = "engaged", NEW s \in Sides
  PROVE  /\ RegionOk(Negotiated(s).w, Region(s).w, Descriptors[fmt.chroma].subW)
         /\ RegionOk(Negotiated(s).h, Region(s).h, Descriptors[fmt.chroma].subH)
<1> DEFINE subW == Descriptors[fmt.chroma].subW
           subH == Descriptors[fmt.chroma].subH
<1>1. /\ crop = [w |-> ResolveAxis(fmt.w, subW), h |-> ResolveAxis(fmt.h, subH)]
      /\ target = PlanUpscale(crop.w.dim, crop.h.dim, opts) /\ target # NoTarget
      /\ opts \in PlanOptions
  BY DEF GeometryInv, ResolveSourceCrop
<1>2. AxisOk(fmt.w) /\ AxisOk(fmt.h)
  BY GeometryAssumption DEF GeometryInv, Formats, AxisOk
<1> HIDE DEF subW, subH
<1>3. /\ crop.w.off \in Nat /\ crop.w.dim \in Int
      /\ crop.w.dim > 0 => /\ crop.w.off >= fmt.w.off
                           /\ crop.w.off + crop.w.dim <= fmt.w.off + Window(fmt.w).dim
      /\ subW = 1 /\ crop.w.dim > 0 => crop.w.off % 2 = 0
  <2>1. crop.w = ResolveAxis(fmt.w, subW)
    BY <1>1
  <2>2. QED
    BY <1>2, <2>1, CropInside
<1>4. /\ crop.h.off \in Nat /\ crop.h.dim \in Int
      /\ crop.h.dim > 0 => /\ crop.h.off >= fmt.h.off
                           /\ crop.h.off + crop.h.dim <= fmt.h.off + Window(fmt.h).dim
      /\ subH = 1 /\ crop.h.dim > 0 => crop.h.off % 2 = 0
  <2>1. crop.h = ResolveAxis(fmt.h, subH)
    BY <1>1
  <2>2. QED
    BY <1>2, <2>1, CropInside
<1>5. TargetOk(target, crop.w.dim, crop.h.dim, opts)
  BY <1>1, <1>3, <1>4, PlanGivesTarget
<1>6. MaxDim \in Nat /\ IntMax \in Nat /\ MaxDim <= IntMax
  BY GeometryAssumption
<1>7. crop.w.dim > 0 /\ crop.h.dim > 0 /\ target.w \in 1..MaxDim /\ target.h \in 1..MaxDim
  BY <1>3, <1>4, <1>5, <1>6 DEF TargetOk
<1>8. CASE s = "src"
  <2>1. /\ Negotiated(s).w = fmt.w /\ Negotiated(s).h = fmt.h
        /\ Region(s).w = [off |-> crop.w.off, dim |-> crop.w.dim, coded |-> fmt.w.coded]
        /\ Region(s).h = [off |-> crop.h.off, dim |-> crop.h.dim, coded |-> fmt.h.coded]
    BY <1>8 DEF Negotiated, Region
  <2>2. Window(fmt.w).dim \in Int /\ Window(fmt.h).dim \in Int
        /\ fmt.w.off \in Nat /\ fmt.h.off \in Nat /\ fmt.w.coded \in Nat /\ fmt.h.coded \in Nat
    BY <1>2, WindowType DEF AxisOk
  <2>3. RegionOk(fmt.w, Region(s).w, subW)
    BY <1>3, <1>7, <2>1, <2>2 DEF RegionOk
  <2>4. RegionOk(fmt.h, Region(s).h, subH)
    BY <1>4, <1>7, <2>1, <2>2 DEF RegionOk
  <2>5. QED
    BY <2>1, <2>3, <2>4 DEF subW, subH
<1>9. CASE s = "dst"
  <2>1. /\ Negotiated(s).w = [coded |-> target.w, visible |-> target.w, off |-> 0]
        /\ Negotiated(s).h = [coded |-> target.h, visible |-> target.h, off |-> 0]
        /\ Region(s).w = [off |-> 0, dim |-> target.w, coded |-> target.w]
        /\ Region(s).h = [off |-> 0, dim |-> target.h, coded |-> target.h]
    BY <1>9 DEF Negotiated, Region
  <2>2. \A n \in 1..MaxDim : /\ n \in Nat /\ n > 0 /\ n <= IntMax
                             /\ Window([coded |-> n, visible |-> n, off |-> 0]).dim = n
    BY <1>6 DEF Window
  <2>3. ASSUME NEW n \in 1..MaxDim, NEW sub
        PROVE  RegionOk([coded |-> n, visible |-> n, off |-> 0],
                        [off |-> 0, dim |-> n, coded |-> n], sub)
    <3> DEFINE a == [coded |-> n, visible |-> n, off |-> 0]
               r == [off |-> 0, dim |-> n, coded |-> n]
    <3>1. /\ a.coded = n /\ a.off = 0 /\ r.off = 0 /\ r.dim = n /\ r.coded = n
          /\ Window(a).dim = n /\ n \in Nat /\ n > 0
      BY <2>2
    <3> HIDE DEF a, r
    <3>2. RegionOk(a, r, sub)
      BY <3>1 DEF RegionOk
    <3>3. QED
      BY <3>2 DEF a, r
  <2>4. QED
    BY <1>7, <2>1, <2>3 DEF subW, subH
<1>10. QED
  BY <1>8, <1>9 DEF Sides

\* What is known of the picture that is looked at.
LEMMA PictureAxis ==
  ASSUME NEW s \in Sides, NEW p \in Pictures(s)
  PROVE  /\ p.chroma = fmt.chroma
         /\ p.w.visible \in {0, Negotiated(s).w.visible}
         /\ p.h.visible \in {0, Negotiated(s).h.visible}
<1>1. Negotiated(s).chroma = fmt.chroma
  BY DEF Negotiated, Sides
<1>2. QED
  BY <1>1 DEF Pictures

\* What a backend touches of a plane through a view that is accepted.
LEMMA AcceptedSound ==
  ASSUME GeometryInv, view = "accepted"
  PROVE  LET r == Region(side)
         IN  \A i \in PlanesOf(fmt.chroma) :
               LET p == Descriptors[fmt.chroma].planes[i]
                   e == Extent(r, p)
                   t == Touched(r.w.dim, r.h.dim, p)
               IN  /\ e.xBytes + t.rowBytes <= pic.planes[i].pitch
                   /\ e.y + t.height <= pic.planes[i].lines
                   /\ (e.xBytes \div p.xb) * p.xg = r.w.off /\ e.y * p.yg = r.h.off
                   /\ t.rowBytes = e.rowBytes /\ t.height = e.height
<1> DEFINE r == Region(side)
           d == Descriptors[fmt.chroma]
           x == r.w
           y == r.h
<1>1. /\ stage = "engaged" /\ side \in Sides /\ ViewAccepted(pic, fmt.chroma, r)
      /\ fmt.chroma \in Chromas
  BY DEF GeometryInv, Formats
<1>2. RegionOk(Negotiated(side).w, x, d.subW) /\ RegionOk(Negotiated(side).h, y, d.subH)
  BY <1>1, RegionsOk
<1>3. /\ x.off \in Nat /\ x.dim \in Nat /\ (d.subW = 1 => x.off % 2 = 0)
      /\ y.off \in Nat /\ y.dim \in Nat /\ (d.subH = 1 => y.off % 2 = 0)
  BY <1>2 DEF RegionOk
<1> SUFFICES ASSUME NEW i \in PlanesOf(fmt.chroma)
             PROVE  LET p == d.planes[i]
                        e == Extent(r, p)
                        t == Touched(r.w.dim, r.h.dim, p)
                    IN  /\ e.xBytes + t.rowBytes <= pic.planes[i].pitch
                        /\ e.y + t.height <= pic.planes[i].lines
                        /\ (e.xBytes \div p.xb) * p.xg = r.w.off /\ e.y * p.yg = r.h.off
                        /\ t.rowBytes = e.rowBytes /\ t.height = e.height
  OBVIOUS
<1> DEFINE p == d.planes[i]
           e == Extent(r, p)
           t == Touched(r.w.dim, r.h.dim, p)
<1>4. PlaneOk(p, d)
  BY <1>1, PlanesOk
<1>5. ExtentOk(pic.planes[i], e)
  BY <1>1 DEF ViewAccepted
<1> HIDE DEF p, d, r
<1>6. /\ p.xg \in {1, 2} /\ p.xb \in 1..4 /\ p.yg \in {1, 2}
      /\ p.xg = 2 => x.off % 2 = 0
      /\ p.yg = 2 => y.off % 2 = 0
  BY <1>3, <1>4 DEF PlaneOk
<1>7. WholeBytes(x.off, x.dim, p.xg, p.xb)
  BY <1>3, <1>6, BytesWhole
<1>8. WholeGroups(y.off, y.dim, p.yg)
  BY <1>3, <1>6, GroupsWhole
<1>9. /\ e.xBytes = (x.off \div p.xg) * p.xb
      /\ e.rowBytes = (CeilDiv(x.off + x.dim, p.xg) - x.off \div p.xg) * p.xb
      /\ e.y = y.off \div p.yg
      /\ e.height = CeilDiv(y.off + y.dim, p.yg) - y.off \div p.yg
  BY DEF Extent, Groups
<1>10. t.rowBytes = CeilDiv(x.dim, p.xg) * p.xb /\ t.height = CeilDiv(y.dim, p.yg)
  BY DEF Touched
<1> HIDE DEF e, t, x, y
<1>11. t.rowBytes = e.rowBytes /\ (e.xBytes \div p.xb) * p.xg = x.off
  BY <1>7, <1>9, <1>10 DEF WholeBytes
<1>12. t.height = e.height /\ e.y * p.yg = y.off
  BY <1>8, <1>9, <1>10 DEF WholeGroups
<1>13. e.xBytes + e.rowBytes <= pic.planes[i].pitch /\ e.y + e.height <= pic.planes[i].lines
  BY <1>5 DEF ExtentOk
<1>14. QED
  BY <1>11, <1>12, <1>13 DEF p, d, e, t, r, x, y

\* A picture as it was negotiated has a view.
LEMMA NegotiatedAccepted ==
  ASSUME GeometryInv, view # "none", Sane(Negotiated(side).w), Sane(Negotiated(side).h),
         AsNegotiated(pic, Negotiated(side))
  PROVE  view = "accepted"
<1> DEFINE f == Negotiated(side)
           r == Region(side)
           c == fmt.chroma
           d == Descriptors[c]
<1>1. /\ stage = "engaged" /\ side \in Sides /\ pic \in Pictures(side)
      /\ view = "accepted" <=> ViewAccepted(pic, c, r)
      /\ c \in Chromas
  BY DEF GeometryInv, Formats
<1>2. RegionOk(f.w, r.w, d.subW) /\ RegionOk(f.h, r.h, d.subH)
  BY <1>1, RegionsOk
<1>3. /\ pic.chroma = c /\ f.chroma = c
      /\ pic.w.visible \in {0, f.w.visible} /\ pic.h.visible \in {0, f.h.visible}
      /\ pic.w.coded = f.w.coded /\ pic.h.coded = f.h.coded
      /\ pic.planes = Allocate(c, f.w.coded, f.h.coded)
  BY <1>1, PictureAxis DEF AsNegotiated, Negotiated, Sides
<1>4. IntMax \in Nat
  BY GeometryAssumption
<1> HIDE DEF f, r, c, d
<1>5. ASSUME NEW a, NEW x, NEW q, NEW sub, RegionOk(a, x, sub), Sane(a),
             q.coded = a.coded, q.visible \in {0, a.visible}
      PROVE  /\ x.dim > 0 /\ x.off <= IntMax /\ AxisDeclared(q, x)
             /\ x.off + x.dim <= a.coded
  <2>1. /\ a.coded \in Nat /\ a.off \in Nat /\ Window(a).dim \in Int
        /\ x.off \in Nat /\ x.dim \in Nat /\ x.dim > 0 /\ x.coded = a.coded
        /\ x.off >= a.off /\ x.off + x.dim <= a.off + Window(a).dim
        /\ a.off + Window(a).dim <= a.coded /\ a.coded <= IntMax
    BY <1>5 DEF RegionOk, Sane
  <2>2. a.visible # 0 => x.dim <= a.visible
    <3>1. a.visible # 0 => Window(a).dim = a.visible \/ Window(a).dim = -1
      BY DEF Window
    <3>2. Window(a).dim >= x.dim
      BY <2>1
    <3>3. Window(a).dim # -1
      BY <2>1, <3>2
    <3>4. QED
      BY <3>1, <3>2, <3>3
  <2>3. x.off + x.dim <= a.coded /\ x.off <= IntMax
    BY <1>4, <2>1
  <2>4. QED
    BY <1>5, <2>1, <2>2, <2>3 DEF AxisDeclared
<1>6. /\ r.w.dim > 0 /\ r.w.off <= IntMax /\ AxisDeclared(pic.w, r.w)
      /\ r.w.off + r.w.dim <= f.w.coded
  BY <1>2, <1>3, <1>5 DEF f
<1>7. /\ r.h.dim > 0 /\ r.h.off <= IntMax /\ AxisDeclared(pic.h, r.h)
      /\ r.h.off + r.h.dim <= f.h.coded
  BY <1>2, <1>3, <1>5 DEF f
<1>8. ArgsOk(pic, c, r)
  BY <1>3, <1>6, <1>7 DEF ArgsOk
<1>9. ASSUME NEW i \in PlanesOf(c)
      PROVE  /\ i \in DOMAIN pic.planes
             /\ StorageOk(pic.planes[i], Descriptors[c].planes[i])
             /\ ExtentOk(pic.planes[i], Extent(r, Descriptors[c].planes[i]))
  <2> DEFINE p == Descriptors[c].planes[i]
             e == Extent(r, p)
             x == r.w
             y == r.h
             W == f.w.coded
             H == f.h.coded
  <2>1. /\ i \in DOMAIN pic.planes
        /\ pic.planes[i].pitch = CeilDiv(W, p.xg) * p.xb
        /\ pic.planes[i].lines = CeilDiv(H, p.yg)
        /\ pic.planes[i].pp = p.pp
    BY <1>3 DEF Allocate
  <2>2. PlaneOk(p, d)
    BY <1>1, PlanesOk DEF d
  <2>3. /\ x.off \in Nat /\ x.dim \in Nat /\ (d.subW = 1 => x.off % 2 = 0)
        /\ y.off \in Nat /\ y.dim \in Nat /\ (d.subH = 1 => y.off % 2 = 0)
        /\ W \in Nat /\ H \in Nat /\ x.dim > 0 /\ y.dim > 0
        /\ x.off + x.dim <= W /\ y.off + y.dim <= H
    BY <1>2, <1>6, <1>7 DEF RegionOk
  <2> HIDE DEF p
  <2>4. /\ p.xg \in {1, 2} /\ p.xb \in 1..4 /\ p.yg \in {1, 2}
        /\ p.xg = 2 => x.off % 2 = 0
        /\ p.yg = 2 => y.off % 2 = 0
    BY <2>2, <2>3 DEF PlaneOk
  <2>5. WholeBytes(x.off, x.dim, p.xg, p.xb)
    BY <2>3, <2>4, BytesWhole
  <2>6. WholeBytes(y.off, y.dim, p.yg, 1)
    BY <2>3, <2>4, BytesWhole
  <2>7. /\ e.xBytes = (x.off \div p.xg) * p.xb
        /\ e.rowBytes = (CeilDiv(x.off + x.dim, p.xg) - x.off \div p.xg) * p.xb
        /\ e.y = y.off \div p.yg
        /\ e.height = CeilDiv(y.off + y.dim, p.yg) - y.off \div p.yg
    BY DEF Extent, Groups
  <2> HIDE DEF e, x, y, W, H
  <2>8. /\ e.xBytes + e.rowBytes <= CeilDiv(W, p.xg) * p.xb
        /\ e.xBytes \in Nat /\ e.rowBytes \in Nat /\ e.rowBytes > 0
    BY <2>3, <2>5, <2>7 DEF WholeBytes
  <2>9. WholeGroups(y.off, y.dim, p.yg)
    BY <2>3, <2>4, GroupsWhole
  <2>10. /\ e.y \in Nat /\ e.height \in Nat /\ e.height > 0
         /\ e.y + e.height = CeilDiv(y.off + y.dim, p.yg)
         /\ CeilDiv(y.off + y.dim, p.yg) <= CeilDiv(H, p.yg)
         /\ CeilDiv(H, p.yg) \in Int
    BY <2>3, <2>7, <2>9 DEF WholeGroups
  <2>11. pic.planes[i].pitch > 0 /\ pic.planes[i].lines > 0
    <3> DEFINE pitch == CeilDiv(W, p.xg) * p.xb
    <3>1. pitch \in Int
      <4>1. CeilDiv(W, p.xg) \in Int
        BY <2>3, <2>4 DEF CeilDiv
      <4>2. QED
        BY <2>4, <4>1
    <3> HIDE DEF pitch
    <3>2. pitch > 0 /\ CeilDiv(H, p.yg) > 0
      BY <2>8, <2>10, <3>1 DEF pitch
    <3>3. QED
      BY <2>1, <3>2 DEF pitch, W, H
  <2>12. StorageOk(pic.planes[i], p)
    BY <2>1, <2>11 DEF StorageOk
  <2>13. ExtentOk(pic.planes[i], e)
    BY <2>1, <2>8, <2>10 DEF ExtentOk, W, H
  <2>14. QED
    BY <2>1, <2>12, <2>13 DEF p, e
<1>10. ViewAccepted(pic, c, r)
  BY <1>8, <1>9 DEF ViewAccepted
<1>11. QED
  BY <1>1, <1>10 DEF c, r

LEMMA GeometryInvariant == GeometrySpec => []GeometryInv
BY GeometryInitially, GeometryStep, PTL DEF GeometrySpec

\* An engaged filter has a target every backend can make: even, larger on some
\* axis and smaller on none, within the limits of size and ratio, hardly
\* narrower than the aspect asks for (up_plan_upscale, ResolveSourceCrop).
THEOREM TargetIsUsable == GeometrySpec => []TargetUsable
<1>1. GeometryInv => TargetUsable
  <2> SUFFICES ASSUME GeometryInv, stage = "engaged" PROVE TargetUsable
    BY DEF TargetUsable
  <2> DEFINE d == Descriptors[fmt.chroma]
             w == crop.w.dim
             h == crop.h.dim
  <2>1. /\ target = PlanUpscale(w, h, opts) /\ target # NoTarget /\ opts \in PlanOptions
        /\ w = ResolveAxis(fmt.w, d.subW).dim /\ h = ResolveAxis(fmt.h, d.subH).dim
    BY DEF GeometryInv, ResolveSourceCrop
  <2>2. AxisOk(fmt.w) /\ AxisOk(fmt.h)
    BY GeometryAssumption DEF GeometryInv, Formats, AxisOk
  <2> HIDE DEF d, w, h
  <2>3. w \in Int /\ (d.subW = 1 /\ w > 0 => w % 2 = 0)
    BY <2>1, <2>2, CropInside
  <2>4. h \in Int /\ (d.subH = 1 /\ h > 0 => h % 2 = 0)
    BY <2>1, <2>2, CropInside
  <2>5. TargetOk(target, w, h, opts)
    BY <2>1, <2>3, <2>4, PlanGivesTarget
  <2>6. w > 0 /\ h > 0 /\ target.w <= MaxDim /\ target.h <= MaxDim /\ target # [w |-> w, h |-> h]
    BY <2>3, <2>4, <2>5, GeometryAssumption DEF TargetOk
  <2>7. /\ target.w <= Min2(MaxDim, MaxRatio * w)
        /\ target.h <= Min2(MaxDim, MaxRatio * h)
    BY <2>5, <2>6 DEF TargetOk, Min2
  <2>8. QED
    BY <2>3, <2>4, <2>5, <2>6, <2>7 DEF TargetUsable, TargetOk, d, w, h
<1>2. QED
  BY <1>1, GeometryInvariant, PTL

\* A view that is accepted lies in the storage and over the visible window, no
\* plane is shifted against another, and a picture as negotiated is accepted
\* (up_picture_view_init, up_chroma_align_axis_even).
THEOREM ViewsAreSound == GeometrySpec => []ViewsSound
<1>1. GeometryInv => ViewsSound
  <2> SUFFICES ASSUME GeometryInv PROVE ViewsSound
    OBVIOUS
  <2> DEFINE r == Region(side)
             f == Negotiated(side)
  <2>1. ASSUME view = "accepted"
        PROVE  /\ r.w.off >= f.w.off /\ r.w.off + r.w.dim <= f.w.off + Window(f.w).dim
               /\ r.h.off >= f.h.off /\ r.h.off + r.h.dim <= f.h.off + Window(f.h).dim
    <3>1. stage = "engaged" /\ side \in Sides
      BY <2>1 DEF GeometryInv
    <3>2. QED
      BY <3>1, RegionsOk DEF RegionOk
  <2>2. view = "refused" /\ Sane(f.w) /\ Sane(f.h) => ~AsNegotiated(pic, f)
    BY NegotiatedAccepted
  <2>3. QED
    BY <2>1, <2>2, AcceptedSound DEF ViewsSound
<1>2. QED
  BY <1>1, GeometryInvariant, PTL
=============================================================================
