---------------------------- MODULE ContentProbe -----------------------------
(***************************************************************************)
(* content_probe.h: a frame is sampled on a coarse grid of its visible     *)
(* luma, squared Laplacians and steps across block borders are summed up   *)
(* over a window of frames, and the means decide whether the source is too *)
(* grainy to sharpen and whether upscaling it is advised against.          *)
(* Operators only, and a reference definition of the verdicts; AutoUpscale *)
(* drives them.  A plane is its size and what it shows.                    *)
(***************************************************************************)
EXTENDS Integers, Sequences, FiniteSets, Functions

CONSTANTS
  GridStep, BlockSize,     \* UP_PROBE_GRID_STEP, UP_PROBE_BLOCK_SIZE
  SoftMean, BlockyMean,    \* UP_PROBE_THRESH_SOFT_LAP_MEAN, _BLOCKY_EDGE_MEAN
  MinFrames, MinSamples,   \* UP_PROBE_MIN_FRAMES, _MIN_SAMPLES_PER_KIND
  Pixel(_, _, _),          \* the luma at x, y of what a plane shows
  Outside                  \* what memory holds around the visible plane

ASSUME ProbeAssumption ==
  /\ {GridStep, BlockSize, MinFrames, MinSamples} \subseteq Nat \ {0}
  /\ BlockSize % GridStep = 0
  /\ {SoftMean, BlockyMean, Outside} \subseteq Nat

Columns(f) == 0..f.w - 1
Rows(f) == 0..f.h - 1

\* A byte of the plane, or of what lies next to it.
At(f, x, y) ==
  IF x \in Columns(f) /\ y \in Rows(f) THEN Pixel(f.shows, x, y) ELSE Outside

Abs(n) == IF n < 0 THEN -n ELSE n
Square(n) == n * n
Multiples(step, set) == {i \in set : i % step = 0}

\* Samples of one kind: their sum and their number.
NoSamples == [sum |-> 0, n |-> 0]

Laplacian(f, x, y) ==
  4 * At(f, x, y) - (At(f, x, y - 1) + At(f, x, y + 1) + At(f, x - 1, y) + At(f, x + 1, y))

LapRowWhole(f, y) ==  \* MUTANT of LapRow: the last row has no row below it
  LET xs == {x \in Multiples(GridStep, Columns(f)) : x >= GridStep /\ x < f.w - 1}
      energy == [x \in xs |-> Square(Laplacian(f, x, y))]
  IN  IF y < GridStep THEN NoSamples
      ELSE [sum |-> SumFunction(energy), n |-> Cardinality(xs)]

\* up_probe__lap_row
LapRow(f, y) ==
  LET xs == {x \in Multiples(GridStep, Columns(f)) : x >= GridStep /\ x < f.w - 1}
      energy == [x \in xs |-> Square(Laplacian(f, x, y))]
  IN  IF y < GridStep \/ y + 1 >= f.h THEN NoSamples
      ELSE [sum |-> SumFunction(energy), n |-> Cardinality(xs)]

\* up_probe__edge_rows: the vertical borders that a row crosses, and the
\* horizontal one it lies below.
EdgeRows(f, y) ==
  LET down == {x \in Multiples(BlockSize, Columns(f)) : x >= BlockSize}
      along == IF y < BlockSize \/ y % BlockSize # 0 THEN {}
               ELSE Multiples(GridStep, Columns(f))
      left == [x \in down |-> Abs(At(f, x, y) - At(f, x - 1, y))]
      up == [x \in along |-> Abs(At(f, x, y) - At(f, x, y - 1))]
  IN  IF f.w <= BlockSize \/ f.h <= BlockSize THEN NoSamples
      ELSE [sum |-> SumFunction(left) + SumFunction(up),
            n |-> Cardinality(down) + Cardinality(along)]

\* up_probe_metrics: what the sampled rows add up to.
Metrics(f) ==
  LET rows == Multiples(GridStep, Rows(f))
  IN  [lapSum  |-> SumFunction([y \in rows |-> LapRow(f, y).sum]),
       lapN    |-> SumFunction([y \in rows |-> LapRow(f, y).n]),
       edgeSum |-> SumFunction([y \in rows |-> EdgeRows(f, y).sum]),
       edgeN   |-> SumFunction([y \in rows |-> EdgeRows(f, y).n])]

\* up_probe_accum_t, and up_probe_observe on it
NoFrames == [lapSum |-> 0, lapN |-> 0, edgeSum |-> 0, edgeN |-> 0, frames |-> 0]
Observe(a, m) ==
  [lapSum  |-> a.lapSum + m.lapSum,   lapN  |-> a.lapN + m.lapN,
   edgeSum |-> a.edgeSum + m.edgeSum, edgeN |-> a.edgeN + m.edgeN,
   frames  |-> a.frames + 1]

\* up_should_skip_usm_for_sharpness
ShouldSkipUsm(a, threshold) ==
  /\ threshold > 0
  /\ a.lapN > 0
  /\ a.lapSum \div a.lapN > threshold

\* up_should_bypass_for_content
ShouldBypass(a) ==
  /\ a.frames >= MinFrames
  /\ a.lapN >= MinSamples /\ a.edgeN >= MinSamples
  /\ a.lapSum \div a.lapN < SoftMean
  /\ a.edgeSum \div a.edgeN > BlockyMean

-----------------------------------------------------------------------------
(* Reference: the samples by their place in the plane, and the means        *)
(* without a division, over a sequence of planes of one size.              *)

Interior(f) ==
  {p \in Multiples(GridStep, Columns(f)) \X Multiples(GridStep, Rows(f)) :
     p[1] > 0 /\ p[2] > 0 /\ p[1] + 1 \in Columns(f) /\ p[2] + 1 \in Rows(f)}

\* Pairs of neighbouring pixels with a block border between them.
Borders(f) ==
  IF f.w <= BlockSize \/ f.h <= BlockSize THEN {}
  ELSE {<<p, <<p[1] - 1, p[2]>>>> :
          p \in (Multiples(BlockSize, Columns(f)) \ {0}) \X Multiples(GridStep, Rows(f))}
       \cup
       {<<p, <<p[1], p[2] - 1>>>> :
          p \in Multiples(GridStep, Columns(f)) \X (Multiples(BlockSize, Rows(f)) \ {0})}

Energy(f, p) == Square(Laplacian(f, p[1], p[2]))
StepAcross(f, b) ==
  Abs(Pixel(f.shows, b[1][1], b[1][2]) - Pixel(f.shows, b[2][1], b[2][2]))

LapTotal(seen) ==
  SumFunction([s \in (DOMAIN seen) \X Interior(seen[1]) |-> Energy(seen[s[1]], s[2])])
EdgeTotal(seen) ==
  SumFunction([s \in (DOMAIN seen) \X Borders(seen[1]) |-> StepAcross(seen[s[1]], s[2])])

LapCount(seen) == Len(seen) * Cardinality(Interior(seen[1]))
EdgeCount(seen) == Len(seen) * Cardinality(Borders(seen[1]))

Grainy(seen, threshold) ==
  /\ threshold > 0
  /\ LapCount(seen) > 0
  /\ LapTotal(seen) >= (threshold + 1) * LapCount(seen)

Hopeless(seen) ==
  /\ Len(seen) >= MinFrames
  /\ LapCount(seen) >= MinSamples /\ EdgeCount(seen) >= MinSamples
  /\ LapTotal(seen) < SoftMean * LapCount(seen)
  /\ EdgeTotal(seen) >= (BlockyMean + 1) * EdgeCount(seen)
=============================================================================
