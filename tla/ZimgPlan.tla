------------------------------ MODULE ZimgPlan -------------------------------
(***************************************************************************)
(* The plan of the zimg backend from zimg_open to the first frame: it is   *)
(* resolved from the options, and once more when the first frame shows     *)
(* whether the pictures are aligned.  From then on it is frozen, one       *)
(* worker per cell.  A reference definition of the grid checks the search. *)
(***************************************************************************)
EXTENDS ZimgGrid, ThreadPolicy

CONSTANTS
  Heights, Widths,  \* bound: pairs of a source and a destination extent
  Prefs,            \* bound: values of the option threads
  CpuSets, Onlines, \* bound: affinity masks, and results of sysconf
  StripeMins,       \* bound: values of the option zimg-stripe-lines
  ColMins           \* bound: values for ZIMG_COL_MIN_WIDTH

\* The two headers name one limit; scaler_zimg.c asserts it.
ASSUME LimitsAgree == TileThreadsMax = ThreadsMax

\* Open has made the target even, and zimg_build_io_req resolves the least
\* extents; a mask names CPUs by number.
ASSUME PlanAssumption ==
  /\ \A e \in Heights \cup Widths : e \in [src : Nat \ {0}, dst : Nat \ {0}] /\ e.dst % 2 = 0
  /\ StripeMins \cup ColMins \subseteq Nat \ {0}
  /\ Prefs \subseteq Int /\ Onlines \subseteq Int
  /\ \A c \in CpuSets : c \in SUBSET Nat /\ IsFiniteSet(c)

VARIABLES
  cpus,      \* the affinity mask
  topology,  \* p->cpu_topology
  req,       \* up_zimg_io_req_t
  sub,       \* sub_w and sub_h of the chroma
  plan,      \* p->plan
  stage      \* "open", "opened" or "frozen"

given == <<cpus, topology, sub>>
vars == <<given, req, plan, stage>>

\* A subsampled picture has even extents: Open aligns the crop.
Fits(extent, s) == s = 0 \/ extent % 2 = 0

Requests(threads) ==
  {[threads |-> threads, srcW |-> w.src, dstW |-> w.dst, srcH |-> h.src, dstH |-> h.dst,
    stripeMin |-> sm, colMin |-> cm, srcZerocopy |-> sz, dstZerocopy |-> dz] :
     w \in Widths, h \in Heights, sm \in StripeMins, cm \in ColMins,
     sz \in BOOLEAN, dz \in BOOLEAN}

NoPlan == [rows |-> 1, cols |-> 1, srcZerocopy |-> FALSE, dstZerocopy |-> FALSE]

\* up_detect_cpu_topology, and zimg_build_io_req before a picture is known.
Init ==
  /\ cpus \in CpuSets
  /\ \E online \in Onlines : topology = DetectTopology(cpus, online)
  /\ sub \in {[w |-> 0, h |-> 0], [w |-> 1, h |-> 0], [w |-> 1, h |-> 1]}
  /\ \E pref \in Prefs : req \in Requests(ThreadsDecide(pref, topology.allowed))
  /\ Fits(req.srcW, sub.w) /\ Fits(req.srcH, sub.h)
  /\ plan = NoPlan
  /\ stage = "open"

\* zimg_open
Open ==
  /\ stage = "open"
  /\ plan' = ResolveIoPlan(req)
  /\ stage' = "opened"
  /\ UNCHANGED <<given, req>>

\* zimg_prepare_first_frame_io
FirstFrame(srcAligned, dstAligned) ==
  /\ stage = "opened"
  /\ req' = [req EXCEPT !.srcZerocopy = @ /\ srcAligned, !.dstZerocopy = @ /\ dstAligned]
  /\ plan' = ResolveIoPlan(req')
  /\ stage' = "frozen"
  /\ UNCHANGED given

Frozen == stage = "frozen" /\ UNCHANGED vars

Next == Open \/ (\E sa, da \in BOOLEAN : FirstFrame(sa, da)) \/ Frozen

Spec == Init /\ [][Next]_vars

-----------------------------------------------------------------------------
(* Properties.                                                             *)

Resolved == stage # "open"

RowStripe(r) == Stripe(r, plan.rows, req.srcH, req.dstH)
ColStripe(c) == Stripe(c, plan.cols, req.srcW, req.dstW)

\* Part(i), i \in 0..n - 1, are not empty and hold each of 0..extent - 1 once.
Partition(Part(_), n, extent) ==
  /\ \A i \in 0..n - 1 : Part(i) # {}
  /\ \A i, j \in 0..n - 1 : i # j => Part(i) \cap Part(j) = {}
  /\ UNION {Part(i) : i \in 0..n - 1} = 0..extent - 1

\* Every pixel of luma and of chroma, on both sides, belongs to exactly one
\* cell and no cell is empty: a grid the pool's construct hook would reject,
\* dropping every frame, is never chosen, and no two workers write one byte.
\* What cells copy lies within the planes of their scratch.
\* (plane_utils.h, REL-2; the partition promised above up_compute_stripe_bounds.)
GridPartitions ==
  Resolved =>
    \A s \in {[w |-> 0, h |-> 0], sub} :
      LET DstRows(r) == PlaneRows(RowStripe(r).dstStart, RowStripe(r).dstEnd, s.h)
          SrcRows(r) == PlaneRows(RowStripe(r).srcStart, RowStripe(r).srcEnd, s.h)
          DstCols(c) == PlaneCols(ColStripe(c).dstStart, ColStripe(c).dstEnd, s.w)
          SrcCols(c) == PlaneCols(ColStripe(c).srcStart, ColStripe(c).srcEnd, s.w)
      IN  /\ Partition(DstRows, plan.rows, ChromaDim(req.dstH, s.h))
          /\ Partition(SrcRows, plan.rows, ChromaDim(req.srcH, s.h))
          /\ Partition(DstCols, plan.cols, ChromaDim(req.dstW, s.w))
          /\ Partition(SrcCols, plan.cols, ChromaDim(req.srcW, s.w))
          /\ \A r \in 0..plan.rows - 1 :
               /\ SrcRows(r) \subseteq 0..ScratchLines(req.srcH, s.h) - LinePad - 1
               /\ DstRows(r) \subseteq 0..ScratchLines(req.dstH, s.h) - LinePad - 1
          /\ \A c \in 0..plan.cols - 1 :
               LET width == ColStripe(c).dstEnd - ColStripe(c).dstStart
               IN  PlaneCols(0, width, s.w) \subseteq 0..ScratchPitch(width, s.w) - 1

\* The grids that fit: by the floors on cells, the threads there are, and
\* without a degenerate cell.  Without direct reads there is one column.
FittingGrids ==
  LET budget == GridBudget(req.threads)
      Limit(extent, min) == Max({extent \div min, 1})
  IN  {g \in [rows : 1..budget, cols : 1..budget] :
         /\ g.rows * g.cols <= budget
         /\ g.rows <= Limit(req.dstH, req.stripeMin)
         /\ g.cols <= IF plan.srcZerocopy THEN Limit(req.dstW, req.colMin) ELSE 1
         /\ AxisPartitionOk(g.rows, req.srcH, req.dstH)
         /\ AxisPartitionOk(g.cols, req.srcW, req.dstW)}

\* The search finds a grid that fits and none that fits has more cells, or as
\* many with more rows: the frozen grid is the best for the frozen modes, too,
\* when the first frame has taken direct reads away.
GridMaximal ==
  Resolved =>
    /\ [rows |-> plan.rows, cols |-> plan.cols] \in FittingGrids
    /\ \A g \in FittingGrids :
         \/ g.rows * g.cols < NThreads(plan)
         \/ g.rows * g.cols = NThreads(plan) /\ g.rows <= plan.rows

\* There are never more workers than CPUs the process may use, and each is
\* pinned to a CPU of its own out of the affinity mask, also when that has
\* gaps or cannot be read (scaler.h, "each scaler worker thread to a distinct
\* CPU core"; thread_policy.h, "at most min(total_cores, UP_THREADS_MAX)").
WorkersHaveCpus ==
  Resolved =>
    /\ NThreads(plan) <= topology.allowed
    /\ cpus # {} => \A i \in 0..NThreads(plan) - 1 :
                      /\ PinnedTo(topology, i) \in cpus
                      /\ \A j \in 0..i - 1 : PinnedTo(topology, j) # PinnedTo(topology, i)
=============================================================================
