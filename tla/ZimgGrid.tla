------------------------------ MODULE ZimgGrid -------------------------------
(***************************************************************************)
(* plane_utils.h and zimg_helpers.h: how the zimg backend divides a frame. *)
(* Each axis is cut into stripes at even boundaries, the two axes make a   *)
(* grid of cells, one per worker, and the grid decides together with the   *)
(* alignment of the pictures which sides are read or written without a     *)
(* copy.  Operators only: the code has no state here.                      *)
(***************************************************************************)
EXTENDS Integers, FiniteSetsExt

CONSTANTS
  TileThreadsMax,  \* UP_TILE_THREADS_MAX
  PitchAlign,      \* UP_PITCH_ALIGN
  LinePad          \* UP_SCRATCH_LINE_PAD

ASSUME GridAssumption == {TileThreadsMax, PitchAlign, LinePad} \subseteq Nat \ {0}

\* UP_ALIGN_DOWN_2
AlignDown2(x) == x - (x % 2)

\* up_compute_stripe_bounds: the k-th of the boundaries 0..n on the
\* destination, and the one on the source that is derived from it.
DstAt(k, n, dst) ==
  CASE k = 0 -> 0
    [] k = n -> dst
    [] OTHER -> AlignDown2((k * dst) \div n)

SrcAt(k, n, src, dst) ==
  CASE k = 0 -> 0
    [] k = n -> src
    [] OTHER -> AlignDown2((src * DstAt(k, n, dst)) \div dst)

Stripe(i, n, src, dst) ==
  [srcStart |-> SrcAt(i, n, src, dst), srcEnd |-> SrcAt(i + 1, n, src, dst),
   dstStart |-> DstAt(i, n, dst),      dstEnd |-> DstAt(i + 1, n, dst)]

DstOnlyNotDegenerate(s) ==  \* MUTANT of NotDegenerate: the source is not looked at
  s.dstEnd > s.dstStart

\* up_stripe_bounds_t as up_compute_stripe_bounds accepts it.
NotDegenerate(s) == s.srcEnd > s.srcStart /\ s.dstEnd > s.dstStart

\* up__axis_partition_ok
AxisPartitionOk(n, src, dst) ==
  \A i \in 0..n - 1 : NotDegenerate(Stripe(i, n, src, dst))

\* up__largest_valid_split
LargestValidSplit(start, src, dst) ==
  Max({1} \cup {n \in 2..start : AxisPartitionOk(n, src, dst)})

\* up__tile_axis_limit
AxisLimit(extent, minimum, fallback, budget) ==
  LET limit == IF minimum > 0 THEN extent \div minimum ELSE fallback
  IN  Min({Max({limit, 1}), budget})

\* The clamps of up_decide_tile_grid on its thread count.
GridBudget(threads) == Min({Max({threads, 1}), TileThreadsMax})

RowLimit(req) ==
  LET budget == GridBudget(req.threads)
  IN  LargestValidSplit(AxisLimit(req.dstH, req.stripeMin, budget, budget),
                        req.srcH, req.dstH)

ColLimit(req, colMin) ==
  LET budget == GridBudget(req.threads)
  IN  LargestValidSplit(AxisLimit(req.dstW, colMin, 1, budget), req.srcW, req.dstW)

\* The columns the search tries with r rows.
ColsFor(r, req, colMin) ==
  LargestValidSplit(Min({GridBudget(req.threads) \div r, ColLimit(req, colMin)}),
                    req.srcW, req.dstW)

RowCandidates(req) == {r \in 1..RowLimit(req) : AxisPartitionOk(r, req.srcH, req.dstH)}

DecideFewestRows(req, colMin) ==  \* MUTANT of DecideTileGrid: `>' for `>=' in the search
  LET Cells(r) == r * ColsFor(r, req, colMin)
      rows == Min({r \in RowCandidates(req) :
                     \A q \in RowCandidates(req) : Cells(q) <= Cells(r)})
  IN  [rows |-> rows, cols |-> ColsFor(rows, req, colMin)]

\* up_decide_tile_grid: the most cells, and of those grids the most rows.
DecideTileGrid(req, colMin) ==
  LET Cells(r) == r * ColsFor(r, req, colMin)
      rows == Max({r \in RowCandidates(req) :
                     \A q \in RowCandidates(req) : Cells(q) <= Cells(r)})
  IN  [rows |-> rows, cols |-> ColsFor(rows, req, colMin)]

\* up_zimg_resolve_io_plan: only a source that is read directly is tiled, and
\* tiles are never written directly.
ResolveIoPlan(req) ==
  LET grid == DecideTileGrid(req, IF req.srcZerocopy THEN req.colMin ELSE 0)
  IN  [rows |-> grid.rows, cols |-> grid.cols,
       srcZerocopy |-> req.srcZerocopy, dstZerocopy |-> req.dstZerocopy /\ grid.cols <= 1]

NThreads(plan) == plan.rows * plan.cols
ColTiled(plan) == plan.cols > 1

-----------------------------------------------------------------------------
(* Planes of a cell and of the scratch buffers.                            *)

\* up_chroma_dim: an extent halved `sub' times, rounded up.
ChromaDim(v, sub) == (v + 2 ^ sub - 1) \div 2 ^ sub

\* up_plane_pitch and up_plane_lines: a scratch plane for a w * h picture.
ScratchPitch(w, sub) ==
  PitchAlign * ((ChromaDim(w, sub) + PitchAlign - 1) \div PitchAlign)
ScratchLines(h, sub) == ChromaDim(h, sub) + LinePad

\* The rows of a plane that the copies of a cell move: worker_copy_in_stripe,
\* worker_copy_out_stripe and worker_copy_out_tile shift both ends down.
PlaneRows(start, end, sub) == start \div 2 ^ sub .. end \div 2 ^ sub - 1

\* The columns: the start is shifted down, the width is a ChromaDim.
PlaneCols(start, end, sub) ==
  start \div 2 ^ sub .. start \div 2 ^ sub + ChromaDim(end - start, sub) - 1
=============================================================================
