--------------------------- MODULE PictureGeometry ---------------------------
(***************************************************************************)
(* upscale_logic.h, chroma_classify.h and picture_view.h as autoupscale.c  *)
(* composes them: Open aligns the visible window of the negotiated format  *)
(* to the chroma's grid and plans the target; every later frame finds the  *)
(* same window in the planes of a picture, whose storage VLC may have      *)
(* allocated otherwise, or refuses the picture.                            *)
(*                                                                         *)
(* Sizes are scaled down with the constants that limit them.  The guards   *)
(* against overflow inside the helpers of upscale_logic.h are left out:    *)
(* up__plan_inputs_ok has refused such sizes before.                       *)
(***************************************************************************)
EXTENDS Integers

CONSTANTS
  MaxDim,        \* UP_MAX_DIM
  MaxRatio,      \* UP_MAX_RATIO
  IntMax,        \* INT_MAX
  UintMax,       \* UINT_MAX
  PresetHeights, \* UP_PRESET_HEIGHTS, without AUTO
  AutoLow,       \* 720
  AutoHigh,      \* 1080
  AxesW, AxesH,  \* bound: formats of one axis, [coded, visible, off]
  Skips,         \* bound: values of the option skip-above
  Growths        \* bound: by how much the storage of a picture differs

ASSUME GeometryAssumption ==
  /\ {MaxDim, MaxRatio} \subseteq Nat \ {0}
  /\ {IntMax, UintMax} \subseteq Nat /\ UintMax % 2 = 1
  /\ MaxDim <= IntMax /\ IntMax < UintMax
  /\ PresetHeights \subseteq 1..MaxDim
  /\ {AutoLow, AutoHigh} \subseteq 1..MaxDim /\ AutoLow <= AutoHigh
  /\ \A a \in AxesW \cup AxesH : a.coded \in Nat /\ a.visible \in Nat /\ a.off \in 0..UintMax

Max2(a, b) == IF a > b THEN a ELSE b
Min2(a, b) == IF a < b THEN a ELSE b
Even(v) == v - (v % 2)
CeilDiv(a, b) == (a + b - 1) \div b

-----------------------------------------------------------------------------
(* chroma_classify.h                                                       *)

\* A plane groups xg pixels of a row into xb bytes, and yg rows into one.
Plane(xg, xb, yg, pp) == [xg |-> xg, xb |-> xb, yg |-> yg, pp |-> pp]
Luma == Plane(1, 1, 1, 1)

\* up_chroma_descriptors.  YV12, NV21 and BGRA have the geometry of I420,
\* NV12 and RGBA: their planes or bytes are in another order.
Descriptors ==
  [I420 |-> [subW |-> 1, subH |-> 1,
             planes |-> <<Luma, Plane(2, 1, 2, 1), Plane(2, 1, 2, 1)>>],
   I422 |-> [subW |-> 1, subH |-> 0,
             planes |-> <<Luma, Plane(2, 1, 1, 1), Plane(2, 1, 1, 1)>>],
   I444 |-> [subW |-> 0, subH |-> 0, planes |-> <<Luma, Luma, Luma>>],
   NV12 |-> [subW |-> 1, subH |-> 1, planes |-> <<Luma, Plane(2, 2, 2, 1)>>],
   RV24 |-> [subW |-> 0, subH |-> 0, planes |-> <<Plane(1, 3, 1, 3)>>],
   RGBA |-> [subW |-> 0, subH |-> 0, planes |-> <<Plane(1, 4, 1, 4)>>]]

Chromas == DOMAIN Descriptors
PlanesOf(c) == DOMAIN Descriptors[c].planes

AlignAxisOutward(w) ==  \* MUTANT of AlignAxisEven: the start is rounded down, as for an offset alone
  [off |-> Even(w.off), dim |-> Max2(Even(w.off + w.dim) - Even(w.off), 0)]

\* up_chroma_align_axis_even on an interval: inward to even lines.
AlignAxisEven(w) ==
  LET start == Even(w.off + 1)
      end   == Even(w.off + w.dim)
  IN  CASE w.dim <= 0      -> [w EXCEPT !.dim = 0]
        [] start > UintMax -> [w EXCEPT !.dim = 0]
        [] OTHER           -> [off |-> start, dim |-> Max2(end - start, 0)]

-----------------------------------------------------------------------------
(* ResolveSourceCrop and upscale_logic.h                                   *)

\* The visible extent of one axis, or the coded one when it is not set.
Window(axis) ==
  LET dim == IF axis.visible # 0 THEN axis.visible ELSE axis.coded
  IN  [off |-> axis.off, dim |-> IF dim <= IntMax THEN dim ELSE -1]

ResolveAxis(axis, sub) ==
  IF sub = 1 THEN AlignAxisEven(Window(axis)) ELSE Window(axis)

ResolveSourceCrop(f) ==
  [w |-> ResolveAxis(f.w, Descriptors[f.chroma].subW),
   h |-> ResolveAxis(f.h, Descriptors[f.chroma].subH)]

\* up__auto_target_height
AutoTargetHeight(srcH, manyCores) ==
  IF manyCores /\ srcH * MaxRatio >= AutoHigh THEN AutoHigh ELSE AutoLow

\* up_decide_target_height; preset 0 is AUTO.
DecideTargetHeight(srcH, preset, manyCores) ==
  LET wanted == IF preset = 0 THEN AutoTargetHeight(srcH, manyCores) ELSE preset
  IN  Max2(Min2(wanted, srcH * MaxRatio), srcH)

PlanInputsOk(srcW, srcH, o) ==
  /\ srcW \in 1..MaxDim /\ srcH \in 1..MaxDim
  /\ ~(o.preset = 0 /\ o.skipAbove > 0 /\ srcH >= o.skipAbove)

ComputeTargetDims(srcW, srcH, targetH) ==
  [w |-> Even((srcW * targetH) \div srcH), h |-> Even(targetH)]

TargetDimsOk(t) == t.w \in 1..MaxDim /\ t.h \in 1..MaxDim

PlanResultOkEither(srcW, srcH, t) ==  \* MUTANT of PlanResultOk: one larger axis is enough
  t.w > srcW \/ t.h > srcH

\* up__plan_result_ok
PlanResultOk(srcW, srcH, t) ==
  /\ t.w >= srcW /\ t.h >= srcH
  /\ ~(t.w = srcW /\ t.h = srcH)

NoTarget == [w |-> 0, h |-> 0]

\* up_plan_upscale
PlanUpscale(srcW, srcH, o) ==
  LET targetH == DecideTargetHeight(srcH, o.preset, o.manyCores)
      t       == ComputeTargetDims(srcW, srcH, targetH)
  IN  IF /\ PlanInputsOk(srcW, srcH, o)
         /\ targetH > srcH
         /\ TargetDimsOk(t)
         /\ PlanResultOk(srcW, srcH, t)
      THEN t ELSE NoTarget

-----------------------------------------------------------------------------
(* picture_view.h                                                          *)

\* up_picture_plane_extent on one axis: the groups a window touches.
Groups(w, group) ==
  [start |-> w.off \div group, count |-> CeilDiv(w.off + w.dim, group) - w.off \div group]

Extent(region, p) ==
  LET x == Groups(region.w, p.xg)
      y == Groups(region.h, p.yg)
  IN  [xBytes |-> x.start * p.xb, rowBytes |-> x.count * p.xb,
       y |-> y.start, height |-> y.count]

StorageOk(stored, p) == stored.pitch > 0 /\ stored.lines > 0 /\ stored.pp = p.pp

ExtentOk(stored, e) ==
  /\ e.xBytes + e.rowBytes <= stored.pitch
  /\ e.y + e.height <= stored.lines

\* up_picture_declared_crop_ok on one axis.
AxisDeclared(axis, region) ==
  /\ region.off + region.dim <= region.coded
  /\ axis.coded >= region.coded
  /\ axis.visible # 0 => region.dim <= axis.visible

\* up_picture_view_args_ok
ArgsOk(pic, c, region) ==
  /\ region.w.dim > 0 /\ region.h.dim > 0
  /\ pic.chroma = c
  /\ region.w.off <= IntMax /\ region.h.off <= IntMax
  /\ AxisDeclared(pic.w, region.w) /\ AxisDeclared(pic.h, region.h)

\* up_picture_view_init
ViewAccepted(pic, c, region) ==
  /\ ArgsOk(pic, c, region)
  /\ \A i \in PlanesOf(c) :
       /\ i \in DOMAIN pic.planes
       /\ StorageOk(pic.planes[i], Descriptors[c].planes[i])
       /\ ExtentOk(pic.planes[i], Extent(region, Descriptors[c].planes[i]))

-----------------------------------------------------------------------------

VARIABLES
  fmt,    \* fmt_in.video: [chroma, w, h], each axis [coded, visible, off]
  opts,   \* preset, skip-above, and whether there are four cores
  stage,  \* "open", "engaged" or "bypassed"
  crop,   \* src_w, src_h, src_x_offset, src_y_offset of the scaler context
  target, \* dst_w, dst_h
  side,   \* "src" or "dst": the picture that is looked at
  pic,    \* that picture: its format's axes and its planes
  view    \* its view: "accepted", "refused" or "none"

geometryVars == <<fmt, opts, stage, crop, target, side, pic, view>>

Sides == {"src", "dst"}

GeometryInit ==
  /\ fmt \in [chroma : Chromas, w : AxesW, h : AxesH]
  /\ opts \in [preset : {0} \cup PresetHeights, skipAbove : Skips, manyCores : BOOLEAN]
  /\ stage = "open"
  /\ crop = "none" /\ target = NoTarget
  /\ side = "none" /\ pic = "none" /\ view = "none"

\* up_autoupscale_open, as far as sizes go.
Open ==
  /\ stage = "open"
  /\ crop' = ResolveSourceCrop(fmt)
  /\ target' = PlanUpscale(crop'.w.dim, crop'.h.dim, opts)
  /\ stage' = IF target' = NoTarget THEN "bypassed" ELSE "engaged"
  /\ UNCHANGED <<fmt, opts, side, pic, view>>

\* up_scaler_src_region and up_scaler_dst_region
Region(s) ==
  IF s = "src"
  THEN [w |-> [off |-> crop.w.off, dim |-> crop.w.dim, coded |-> fmt.w.coded],
        h |-> [off |-> crop.h.off, dim |-> crop.h.dim, coded |-> fmt.h.coded]]
  ELSE [w |-> [off |-> 0, dim |-> target.w, coded |-> target.w],
        h |-> [off |-> 0, dim |-> target.h, coded |-> target.h]]

\* picture_Setup of VLC, without its padding.
Allocate(c, w, h) ==
  [i \in PlanesOf(c) |->
     LET p == Descriptors[c].planes[i]
     IN  [pitch |-> CeilDiv(w, p.xg) * p.xb, lines |-> CeilDiv(h, p.yg), pp |-> p.pp]]

\* SetOutputFormat, and the format VLC negotiated for the input.
Negotiated(s) ==
  IF s = "src" THEN fmt
  ELSE [chroma |-> fmt.chroma, w |-> [coded |-> target.w, visible |-> target.w, off |-> 0],
                               h |-> [coded |-> target.h, visible |-> target.h, off |-> 0]]

\* A picture may be larger or smaller than negotiated, have lost its visible
\* size, or a plane with a line less.
Pictures(s) ==
  LET f == Negotiated(s)
      Axis(a, grown, kept) ==
        [coded |-> Max2(a.coded + grown, 0), visible |-> IF kept THEN a.visible ELSE 0]
      Stored(g, short) ==
        LET a == Allocate(f.chroma, Max2(f.w.coded + g, 0), Max2(f.h.coded + g, 0))
        IN  IF short = 0 THEN a ELSE [a EXCEPT ![short].lines = @ - 1]
  IN  {[chroma |-> f.chroma, w |-> Axis(f.w, g, kept), h |-> Axis(f.h, g, kept),
        planes |-> Stored(g, short)] :
         g \in Growths, kept \in BOOLEAN, short \in {0} \cup PlanesOf(f.chroma)}

\* The views of zimg_process, swscale_process, RunProbe and ApplyUsmIfEnabled.
Frame(s, p) ==
  /\ stage = "engaged"
  /\ view = "none"
  /\ side' = s
  /\ pic' = p
  /\ view' = IF ViewAccepted(p, fmt.chroma, Region(s)) THEN "accepted" ELSE "refused"
  /\ UNCHANGED <<fmt, opts, stage, crop, target>>

\* A view lives as long as the call that made it.
Return ==
  /\ view # "none"
  /\ side' = "none" /\ pic' = "none" /\ view' = "none"
  /\ UNCHANGED <<fmt, opts, stage, crop, target>>

GeometryNext == Open \/ Return \/ (\E s \in Sides : \E p \in Pictures(s) : Frame(s, p))

GeometrySpec == GeometryInit /\ [][GeometryNext]_geometryVars

-----------------------------------------------------------------------------
(* Properties.                                                             *)

\* An engaged filter has a target every backend can make: larger on some axis
\* and smaller on none, whole chroma samples on both sides, within the size
\* limit and at most MaxRatio times as large on either axis, hardly narrower
\* than the aspect asks for; and AUTO stays at or below AutoHigh.
\* (upscale_logic.h, "the pathological aspect-ratio case"; chroma_classify.h,
\* "the graph build rejects an image dimension that is not divisible".)
TargetUsable ==
  stage = "engaged" =>
    LET d == Descriptors[fmt.chroma]
        srcW == crop.w.dim
        srcH == crop.h.dim
    IN  /\ target.w >= srcW /\ target.h >= srcH /\ target # [w |-> srcW, h |-> srcH]
        /\ target.w % 2 = 0 /\ target.h % 2 = 0
        /\ d.subW = 1 => srcW % 2 = 0
        /\ d.subH = 1 => srcH % 2 = 0
        /\ target.w <= Min2(MaxDim, MaxRatio * srcW)
        /\ target.h <= Min2(MaxDim, MaxRatio * srcH)
        /\ (target.w + 2) * srcH > srcW * target.h
        /\ opts.preset = 0 => target.h <= AutoHigh

\* A format whose window lies within its coded size.
Sane(axis) == axis.off + Window(axis).dim <= axis.coded /\ axis.coded <= IntMax

\* What a backend reads or writes of a plane: the groups of a region whose
\* size, and not whose place, is all it knows (up_chroma_dim).
Touched(w, h, p) == [rowBytes |-> CeilDiv(w, p.xg) * p.xb, height |-> CeilDiv(h, p.yg)]

AsNegotiated(p, f) ==
  /\ p.w.coded = f.w.coded /\ p.h.coded = f.h.coded
  /\ p.planes = Allocate(f.chroma, f.w.coded, f.h.coded)

\* A view that is accepted lies in the storage, over pixels of the visible
\* window only; in every plane it starts at the very pixel where luma starts
\* and has the samples that a backend touches, so chroma is not shifted
\* against luma.  And pictures as negotiated are never refused: the filter
\* does not engage only to drop every frame.
\* (chroma_classify.h, "shifts chroma half a luma pel against luma - visible
\* colour fringing"; picture_view.h, up_picture_view_init.)
ViewsSound ==
  LET r == Region(side)
      f == Negotiated(side)
      Inside(a, w) == w.off >= a.off /\ w.off + w.dim <= a.off + Window(a).dim
  IN  /\ view = "accepted" =>
           /\ Inside(f.w, r.w) /\ Inside(f.h, r.h)
           /\ \A i \in PlanesOf(fmt.chroma) :
                LET p == Descriptors[fmt.chroma].planes[i]
                    e == Extent(r, p)
                    t == Touched(r.w.dim, r.h.dim, p)
                IN  /\ e.xBytes + t.rowBytes <= pic.planes[i].pitch
                    /\ e.y + t.height <= pic.planes[i].lines
                    /\ (e.xBytes \div p.xb) * p.xg = r.w.off /\ e.y * p.yg = r.h.off
                    /\ t.rowBytes = e.rowBytes /\ t.height = e.height
      /\ view = "refused" /\ Sane(f.w) /\ Sane(f.h) => ~AsNegotiated(pic, f)
=============================================================================
