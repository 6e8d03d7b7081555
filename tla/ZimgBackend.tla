----------------------------- MODULE ZimgBackend -----------------------------
(***************************************************************************)
(* scaler_zimg.c: one instance of the zimg backend, from zimg_open to      *)
(* zimg_close.  The first valid frame decides which sides of the graphs    *)
(* touch VLC's pictures directly and freezes the grid; later frames reuse  *)
(* the graphs, with the plane pointers set anew before each dispatch.      *)
(* The pool is seen through what PoolGate and WorkerPool show of it.       *)
(***************************************************************************)
EXTENDS ZimgGrid, Sequences

CONSTANTS
  Geometries,       \* bound: sizes and worker budgets of an instance
  StripeMin,        \* up_zimg_stripe_min_lines
  ColMin,           \* ZIMG_COL_MIN_WIDTH
  DriftFatalMisses  \* UP_ZIMG_DRIFT_FATAL_MISSES

ASSUME BackendAssumption ==
  /\ DriftFatalMisses \in Nat \ {0}
  /\ StripeMin \in Int /\ ColMin \in Int
  /\ Geometries \subseteq [threads : Int, srcW : Nat \ {0}, srcH : Nat \ {0},
                           dstW : Nat \ {0}, dstH : Nat \ {0}]

VARIABLES
  ctx,     \* geometry, budget and the two zero-copy options of scaler_ctx_t
  pc,      \* VLC's thread: "new", "idle", "process", "wait", "join", "closed"
  frame,   \* the pictures of this call: views usable? addresses aligned?
  plan,    \* p->plan
  misses,  \* p->drift.misses
  pool,    \* p->pool: its lazy state, and broken
  cell,    \* per worker: copy_in, copy_out, col_tiled
  view,    \* per worker: what src, dst, vlc_src and vlc_dst point to
  buf,     \* per worker: the picture its part of the scratch holds
  step,    \* per worker: its place in zimg_worker_run
  result,  \* per worker: w->result is 0
  out,     \* per cell: what its part of VLC's output picture holds
  status   \* the last result of zimg_process

config == <<ctx, plan, misses>>
workers == <<cell, view, buf, step, result>>
vars == <<config, workers, pc, frame, pool, out, status>>

Workers == DOMAIN cell
Cells == 1..TileThreadsMax
AtRest(w) == step[w] \in {"parked", "finished", "gone"}
Everywhere(x) == [w \in Workers |-> x]

\* What was of this frame belongs to an earlier one.
Age(x) == IF x = "this" THEN "old" ELSE x

Pictures == [usable : BOOLEAN, srcAligned : BOOLEAN, dstAligned : BOOLEAN]

Contexts == [geom : Geometries, srcZerocopy : BOOLEAN, dstZerocopy : BOOLEAN]

\* zimg_build_io_req and up_zimg_resolve_io_plan: the plan for a size and for
\* what may be read and written directly.
IoPlan ==
  [geom \in Geometries |-> [src \in BOOLEAN |-> [dst \in BOOLEAN |->
     ResolveIoPlan([threads |-> geom.threads,
                    srcW |-> geom.srcW, srcH |-> geom.srcH,
                    dstW |-> geom.dstW, dstH |-> geom.dstH,
                    stripeMin |-> StripeMin, colMin |-> ColMin,
                    srcZerocopy |-> src, dstZerocopy |-> dst])]]]

PlanFor(srcAligned, dstAligned) ==
  IoPlan[ctx.geom][ctx.srcZerocopy /\ srcAligned][ctx.dstZerocopy /\ dstAligned]

Init ==
  /\ ctx \in Contexts
  /\ pc = "new"
  /\ frame = [usable |-> TRUE, srcAligned |-> TRUE, dstAligned |-> TRUE]
  /\ plan = [rows |-> 1, cols |-> 1, srcZerocopy |-> FALSE, dstZerocopy |-> FALSE]
  /\ misses = 0
  /\ pool = [lazy |-> "fresh", broken |-> FALSE]
  /\ cell = <<>> /\ view = <<>> /\ buf = <<>> /\ step = <<>> /\ result = <<>>
  /\ out = [c \in Cells |-> "untouched"]
  /\ status = "none"

Open ==
  /\ pc = "new"
  /\ pc' = "idle"
  /\ plan' = PlanFor(TRUE, TRUE)
  /\ UNCHANGED <<ctx, misses, workers, frame, pool, out, status>>

\* The ABI, the chroma or calloc: nothing is left in ctx->priv.
OpenFails ==
  /\ pc = "new"
  /\ pc' = "closed"
  /\ UNCHANGED <<config, workers, frame, pool, out, status>>

Process(pictures) ==
  /\ pc = "idle"
  /\ pc' = "process"
  /\ frame' = pictures
  /\ status' = "none"
  /\ out' = [c \in Cells |-> "untouched"]
  /\ view' = [w \in Workers |-> [side \in DOMAIN view[w] |-> Age(view[w][side])]]
  /\ buf' = [w \in Workers |-> [side \in DOMAIN buf[w] |-> Age(buf[w][side])]]
  /\ UNCHANGED <<config, cell, step, result, pool>>

Return(s) == pc' = "idle" /\ status' = s

\* up_worker_pool_poison, with every worker out of its callback.
Poison ==
  /\ pool' = [pool EXCEPT !.broken = TRUE]
  /\ step' = Everywhere("gone")

BrokenPool ==
  /\ pc = "process"
  /\ pool.broken
  /\ Return("fatal")
  /\ UNCHANGED <<config, workers, frame, pool, out>>

\* zimg_frame_views_init fails.
BadGeometry ==
  /\ pc = "process"
  /\ ~pool.broken
  /\ ~frame.usable
  /\ Return("transient")
  /\ UNCHANGED <<config, workers, frame, pool, out>>

Viewed == pc = "process" /\ ~pool.broken /\ frame.usable

\* zimg_prepare_first_frame_io
PrepareFirstFrameIo ==
  plan' = IF pool.lazy = "fresh"
          THEN PlanFor(frame.srcAligned, frame.dstAligned)
          ELSE plan

FrameIoSafeSource(p) ==  \* MUTANT of FrameIoSafe: the destination may drift
  p.srcZerocopy => frame.srcAligned

\* zimg_frame_io_safe
FrameIoSafe(p) ==
  /\ p.srcZerocopy => frame.srcAligned
  /\ p.dstZerocopy => frame.dstAligned

\* zimg_note_alignment_drift
NoteAlignmentDrift ==
  /\ Viewed
  /\ PrepareFirstFrameIo
  /\ ~FrameIoSafe(plan')
  /\ misses' = misses + 1
  /\ IF misses' >= DriftFatalMisses
     THEN Poison /\ Return("fatal")
     ELSE Return("transient") /\ UNCHANGED <<pool, step>>
  /\ UNCHANGED <<ctx, cell, view, buf, result, frame, out>>

\* zimg_ensure_lazy_init: a failure is never retried.
LazyFailed ==
  /\ Viewed
  /\ PrepareFirstFrameIo
  /\ FrameIoSafe(plan')
  /\ pool.lazy = "failed"
  /\ Return("fatal")
  /\ UNCHANGED <<ctx, misses, workers, frame, pool, out>>

LazyInitFails ==
  /\ Viewed
  /\ PrepareFirstFrameIo
  /\ FrameIoSafe(plan')
  /\ pool.lazy = "fresh"
  /\ pool' = [pool EXCEPT !.lazy = "failed"]
  /\ Return("fatal")
  /\ UNCHANGED <<ctx, misses, workers, frame, out>>

\* init_stripe_worker, for every cell: the modes are the plan's, for good.
\* Scratch exists on a side that copies; a column tile has its own.
LazyInit ==
  /\ Viewed
  /\ PrepareFirstFrameIo
  /\ FrameIoSafe(plan')
  /\ pool.lazy = "fresh"
  /\ pool' = [pool EXCEPT !.lazy = "started"]
  /\ LET ids == 1..NThreads(plan')
         Scratch(zerocopy) == IF zerocopy THEN "null" ELSE "scratch"
     IN  /\ cell' = [w \in ids |->
                       [copyIn |-> ~plan'.srcZerocopy, copyOut |-> ~plan'.dstZerocopy,
                        tiled |-> ColTiled(plan')]]
         /\ view' = [w \in ids |->
                       [src |-> Scratch(plan'.srcZerocopy),
                        dst |-> Scratch(plan'.dstZerocopy /\ ~ColTiled(plan')),
                        vlcSrc |-> "null", vlcDst |-> "null"]]
         /\ buf' = [w \in ids |-> [src |-> "junk", dst |-> "junk"]]
         /\ step' = [w \in ids |-> "parked"]
         /\ result' = [w \in ids |-> TRUE]
  /\ UNCHANGED <<ctx, misses, pc, frame, out, status>>

\* point_workers_planes, for both sides; worker_view_for picks the view.
PointWorkersPlanes(v) ==
  [v EXCEPT ![IF plan.srcZerocopy THEN "src" ELSE "vlcSrc"] = "this",
            ![IF plan.dstZerocopy THEN "dst" ELSE "vlcDst"] = "this"]

DispatchForgetsDrift ==  \* MUTANT of Dispatch: a good frame resets the count of misses
  /\ Viewed
  /\ PrepareFirstFrameIo
  /\ FrameIoSafe(plan')
  /\ pool.lazy = "started"
  /\ misses' = 0
  /\ view' = [w \in Workers |-> PointWorkersPlanes(view[w])]
  /\ step' = Everywhere("armed")
  /\ pc' = "wait"
  /\ UNCHANGED <<ctx, cell, buf, result, frame, pool, out, status>>

\* The rest of zimg_process up to the wait of up_worker_pool_dispatch.
Dispatch ==
  /\ Viewed
  /\ PrepareFirstFrameIo
  /\ FrameIoSafe(plan')
  /\ pool.lazy = "started"
  /\ view' = [w \in Workers |-> PointWorkersPlanes(view[w])]
  /\ step' = Everywhere("armed")
  /\ pc' = "wait"
  /\ UNCHANGED <<ctx, misses, cell, buf, result, frame, pool, out, status>>

-----------------------------------------------------------------------------
(* zimg_worker_run, on the threads of the pool.                            *)

\* worker_copy_in_stripe, if the cell copies: it moves as many columns as the
\* cell has, from the first one, so a tile would not get what it reads.
CopyIn(w) ==
  /\ step[w] = "armed"
  /\ step' = [step EXCEPT ![w] = "graph"]
  /\ buf' = IF ~cell[w].copyIn THEN buf
            ELSE [buf EXCEPT ![w].src = IF cell[w].tiled THEN "narrow" ELSE view[w].vlcSrc]
  /\ UNCHANGED <<config, cell, view, result, pc, frame, pool, out, status>>

\* What a part holds once x was written to it through a view.
Through(v, there, part, x) == IF v = there THEN x ELSE part

\* zimg_filter_graph_process: a failure leaves a half-resampled destination.
Graph(w, ok) ==
  /\ step[w] = "graph"
  /\ step' = [step EXCEPT ![w] = "emit"]
  /\ result' = [result EXCEPT ![w] = ok]
  /\ LET read == IF view[w].src = "scratch" THEN buf[w].src ELSE view[w].src
         made == IF ok THEN read ELSE "half"
     IN  /\ buf' = [buf EXCEPT ![w].dst = Through(view[w].dst, "scratch", @, made)]
         /\ out' = [out EXCEPT ![w] = Through(view[w].dst, "this", @, made)]
  /\ UNCHANGED <<config, cell, view, pc, frame, pool, status>>

\* worker_emit_output: worker_copy_out_tile or worker_copy_out_stripe.
EmitOutput(w) ==
  /\ step[w] = "emit"
  /\ step' = [step EXCEPT ![w] = "finished"]
  /\ out' = IF result[w] /\ (cell[w].tiled \/ cell[w].copyOut)
            THEN [out EXCEPT ![w] = Through(view[w].vlcDst, "this", @, buf[w].dst)]
            ELSE out
  /\ UNCHANGED <<config, cell, view, buf, result, pc, frame, pool, status>>

\* The gate fails, or a stop cancels the thread, before it sees the frame.
Leave(w) ==
  /\ step[w] = "armed"
  /\ Len(cell) > 1
  /\ step' = [step EXCEPT ![w] = "gone"]
  /\ UNCHANGED <<config, cell, view, buf, result, pc, frame, pool, out, status>>

CheckWorkerResultsFirst ==  \* MUTANT of CheckWorkerResults: looks at one worker
  /\ pc = "wait"
  /\ \A w \in Workers : step[w] = "finished"
  /\ IF result[1]
     THEN Return("ok") /\ step' = Everywhere("parked") /\ UNCHANGED pool
     ELSE Return("fatal") /\ Poison
  /\ UNCHANGED <<config, cell, view, buf, result, frame, out>>

\* zimg_check_worker_results, when the barrier has held.
CheckWorkerResults ==
  /\ pc = "wait"
  /\ \A w \in Workers : step[w] = "finished"
  /\ IF \A w \in Workers : result[w]
     THEN Return("ok") /\ step' = Everywhere("parked") /\ UNCHANGED pool
     ELSE Return("fatal") /\ Poison
  /\ UNCHANGED <<config, cell, view, buf, result, frame, out>>

\* The deadline, or a failing call: the pool is poisoned and its threads are
\* joined.  A single cell runs on the caller's thread, without a barrier.
BarrierFails ==
  /\ pc = "wait"
  /\ Len(cell) > 1
  /\ pc' = "join"
  /\ pool' = [pool EXCEPT !.broken = TRUE]
  /\ UNCHANGED <<config, workers, frame, out, status>>

Joined ==
  /\ pc = "join"
  /\ \A w \in Workers : AtRest(w)
  /\ Return("fatal")
  /\ step' = Everywhere("gone")
  /\ UNCHANGED <<config, cell, view, buf, result, frame, pool, out>>

Close ==
  /\ pc = "idle"
  /\ pc' = "closed"
  /\ step' = Everywhere("gone")
  /\ UNCHANGED <<config, cell, view, buf, result, frame, pool, out, status>>

Closed == pc = "closed" /\ UNCHANGED vars

ProcessStep ==
  \/ BrokenPool \/ BadGeometry \/ NoteAlignmentDrift
  \/ LazyFailed \/ LazyInitFails \/ LazyInit
  \/ Dispatch \/ CheckWorkerResults \/ BarrierFails \/ Joined

WorkerStep(w) ==
  \/ CopyIn(w) \/ EmitOutput(w) \/ Leave(w)
  \/ \E ok \in BOOLEAN : Graph(w, ok)

Next ==
  \/ Open \/ OpenFails \/ Close \/ Closed
  \/ \E pictures \in Pictures : Process(pictures)
  \/ ProcessStep
  \/ \E w \in Workers : WorkerStep(w)

Spec == Init /\ [][Next]_vars

\* Frames keep coming, and a call of zimg_process returns.
FairSpec ==
  /\ Spec
  /\ WF_vars(ProcessStep)
  /\ \A w \in Cells : WF_vars(w \in Workers /\ WorkerStep(w))
  /\ WF_vars(\E pictures \in Pictures : Process(pictures))

-----------------------------------------------------------------------------
(* Properties.                                                             *)

\* While a worker is in its callback, none of its four views shows a picture of
\* an earlier frame, which VLC may have freed or given to somebody else; and a
\* graph touches a picture directly only if its address and pitch are 32-byte
\* aligned, although the modes were chosen for the pictures of another frame
\* (zimg_view_aligned, "zimg requires every direct image address ...").
DirectIoSafe ==
  \A w \in Workers :
    /\ ~AtRest(w) => \A side \in DOMAIN view[w] : view[w][side] # "old"
    /\ step[w] = "graph" =>
         /\ view[w].src # "scratch" => frame.srcAligned
         /\ view[w].dst # "scratch" => frame.dstAligned

OutputIs ==
  CASE \A c \in Cells : out[c] = "untouched" -> "untouched"
    [] \A c \in 1..NThreads(plan) : out[c] = "this" -> "whole"
    [] OTHER -> "partial"

Abstract == INSTANCE ScalerBackend WITH
  phase <- CASE pc \in {"process", "wait", "join"} -> "busy" [] OTHER -> pc,
  output <- OutputIs,
  status <- status,
  usable <- ~pool.broken /\ pool.lazy # "failed"

\* The backend keeps the promise of scaler_backend_t: OK only with every cell
\* of the frozen grid filled from this frame's source, FATAL once and never OK
\* after it, and no byte of the output written outside the call, whatever the
\* first frame's storage was and whichever worker or barrier fails.
ImplementsBackend == Abstract!Spec

\* Storage that alternates between aligned and not cannot drop frames for ever:
\* incompatible frames that keep coming retire the backend (REL-3, the comment
\* above zimg_note_alignment_drift).
DriftFailsOver == []<><<NoteAlignmentDrift>>_vars => <>pool.broken
=============================================================================
