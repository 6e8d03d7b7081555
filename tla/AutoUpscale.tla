---------------------------- MODULE AutoUpscale -----------------------------
(***************************************************************************)
(* autoupscale.c: one instance of the video filter, from Open to Close.    *)
(* VLC calls it from one thread: Open, then Filter for every picture, then *)
(* Close.  What matters is who owns what on every error path: the input    *)
(* and output pictures, the backend behind the scaler context, the         *)
(* sharpening pool.                                                        *)
(*                                                                         *)
(* The backends, the sharpening pool and VLC's picture pool are seen       *)
(* through the results their functions may return.  A zimg backend may     *)
(* fail fatally at any frame (lazy start, barrier, graph or storage drift);*)
(* swscale fails fatally only without a context.                           *)
(***************************************************************************)
EXTENDS ContentProbe

CONSTANTS
  ProbeWindow,  \* UP_PROBE_WINDOW_FRAMES
  Sizes,        \* bound: sizes of the source crop, [w, h]
  Thresholds,   \* bound: values of the option usm-sharp-threshold
  Contents      \* bound: what a source may show

ASSUME WindowAssumption == ProbeWindow \in Nat \ {0} /\ ProbeWindow >= MinFrames

\* A crop has pixels, and luma is a byte.
ASSUME SourceAssumption ==
  /\ Sizes # {} /\ \A s \in Sizes : s.w \in Nat \ {0} /\ s.h \in Nat \ {0}
  /\ Thresholds \subseteq Int
  /\ \A s \in Sizes : \A c \in Contents, x \in 0..s.w - 1, y \in 0..s.h - 1 :
       Pixel(c, x, y) \in 0..255

Backends == {"zimg", "swscale"}
Prefs    == {"auto"} \cup Backends

\* What a stream and the user's options decide once and for all: the backend
\* asked for, what each backend supports of this chroma and algorithm, whether
\* sharpening, its adaptive tuner and the advisory are asked for, the threshold
\* of the sharpness gate, the size, and whether the chroma has a Y plane.
Options == [pref: Prefs, supports: SUBSET Backends, usm: BOOLEAN, adaptive: BOOLEAN,
            advice: BOOLEAN, threshold: Thresholds, size: Sizes, hasY: BOOLEAN]

\* InitProbe: the sharpness gate needs the metrics without the advisory too.
Probed(c) == (c.advice \/ (c.threshold > 0 /\ c.usm)) /\ c.hasY

\* bound: the size matters to the probe alone, others have one.
Configs == {c \in Options : Probed(c) \/ c.size = CHOOSE s \in Sizes : TRUE}

VARIABLES
  config,
  pc,             \* where the calling thread is in Open, Filter or Close
  backend,        \* scaler.backend
  priv,           \* whose private state scaler.priv points to
  live,           \* backends whose private state is allocated
  fallbackTried,  \* fallback_tried
  usmAmount,      \* usm_amount_q8 > 0
  usmPool,        \* "none", or the state of the pool usm_pool points to
  adaptive,       \* usm_adaptive.enabled
  skipSharp,      \* usm_skip_sharp
  usmStatus,      \* what the last sharpening pass returned
  retained,       \* usm_adaptive.retained
  probeActive,    \* probe.active
  accum,          \* probe.accum
  advised,        \* probe.advice_logged
  seen,           \* history: the planes observed while the probe was active
  in,             \* the input picture of this call
  out,            \* the output picture of this call
  pixels,         \* what the output picture holds
  fatal           \* history: the zimg backend has reported a fatal failure

sysVars   == <<backend, priv, live, fallbackTried, fatal>>
usmVars   == <<usmAmount, usmPool, adaptive, skipSharp, usmStatus, retained>>
probeVars == <<probeActive, accum, advised, seen>>
picVars   == <<in, out, pixels>>
vars == <<config, pc, sysVars, usmVars, probeVars, picVars>>

TypeOK ==
  /\ config \in Configs
  /\ pc \in {"probeInput", "open", "openFallback", "init", "idle", "probe",
             "newPicture", "process", "fallback", "drop", "usm", "usmApplied", "finish",
             "end"}
  /\ {backend, priv} \subseteq Backends \cup {"none"}
  /\ live \in SUBSET Backends
  /\ usmPool \in {"none", "working", "broken"}
  /\ usmStatus \in {"ok", "failedUnchanged", "outputUncertain"}
  /\ {fallbackTried, usmAmount, adaptive, skipSharp, retained, probeActive, advised,
      fatal}
       \subseteq BOOLEAN
  /\ accum \in [lapSum: Nat, lapN: Nat, edgeSum: Nat, edgeN: Nat, frames: 0..ProbeWindow]
  /\ Len(seen) <= ProbeWindow
  /\ {in, out} \subseteq {"none", "held", "released", "returned", "misused"}
  /\ pixels \in {"none", "torn", "scaled", "sharp"}

Init ==
  /\ config \in Configs
  /\ pc = "probeInput"
  /\ backend = "none" /\ priv = "none" /\ live = {}
  /\ fallbackTried = FALSE /\ fatal = FALSE
  /\ usmAmount = FALSE /\ usmPool = "none" /\ adaptive = FALSE /\ skipSharp = FALSE
  /\ usmStatus = "ok" /\ retained = FALSE
  /\ probeActive = FALSE /\ accum = NoFrames /\ advised = FALSE /\ seen = <<>>
  /\ in = "none" /\ out = "none" /\ pixels = "none"

-----------------------------------------------------------------------------
(* Open.                                                                   *)

\* up_pick_zimg_if_ok, up_pick_swscale_if_ok
IfOk(b) == IF b \in config.supports THEN b ELSE "none"

\* scaler_pick: zimg first when the choice is free.
Pick(pref) ==
  IF pref = "auto" THEN (IF IfOk("zimg") # "none" THEN "zimg" ELSE IfOk("swscale"))
                   ELSE IfOk(pref)

\* be->open( ctx ): private state behind the context, or nothing at all.
Opens(b) == backend' = b /\ priv' = b /\ live' = live \cup {b}

\* RetireBackend, and the close of the current backend.
Closes == backend' = "none" /\ priv' = "none" /\ live' = live \ {priv}

\* The size is left alone (up_plan_upscale), the chroma is opaque, or the
\* filter state cannot be allocated.
Decline ==
  /\ pc = "probeInput"
  /\ pc' = "end"
  /\ UNCHANGED <<config, sysVars, usmVars, probeVars, picVars>>

PickBackend ==
  /\ pc = "probeInput"
  /\ pc' = IF Pick(config.pref) = "none" THEN "end" ELSE "open"
  /\ backend' = Pick(config.pref)
  /\ UNCHANGED <<config, priv, live, fallbackTried, fatal, usmVars, probeVars, picVars>>

AllowFallback == config.pref = "auto" /\ backend = "zimg"

OpenPreferred ==
  /\ pc = "open"
  /\ \/ Opens(backend) /\ pc' = "init"
     \/ /\ AllowFallback /\ Pick("swscale") # "none"
        /\ pc' = "openFallback"
        /\ UNCHANGED <<backend, priv, live>>
     \/ /\ ~(AllowFallback /\ Pick("swscale") # "none")
        /\ pc' = "end"
        /\ backend' = "none"
        /\ UNCHANGED <<priv, live>>
  /\ UNCHANGED <<config, fallbackTried, fatal, usmVars, probeVars, picVars>>

OpenFallback ==
  /\ pc = "openFallback"
  /\ \/ Opens(Pick("swscale")) /\ pc' = "init"
     \/ pc' = "end" /\ backend' = "none" /\ UNCHANGED <<priv, live>>
  /\ UNCHANGED <<config, fallbackTried, fatal, usmVars, probeVars, picVars>>

\* InitUsmPool, InitAdaptiveUsm and InitProbe.  The pool descriptor may fail
\* to allocate, and the tuner is of use only with more than one worker.
FinishOpen ==
  /\ pc = "init"
  /\ pc' = "idle"
  /\ \/ /\ config.usm /\ config.hasY
        /\ usmPool' = "working" /\ usmAmount' = TRUE
        /\ adaptive' \in {FALSE, config.adaptive}
     \/ UNCHANGED <<usmPool, usmAmount, adaptive>>
  /\ probeActive' = Probed(config)
  /\ UNCHANGED <<config, sysVars, skipSharp, usmStatus, retained, accum, advised, seen,
                 picVars>>

-----------------------------------------------------------------------------
(* Filter.                                                                 *)

\* picture_Release: a picture the filter does not hold must not be released.
Released(p) == IF p = "held" THEN "released" ELSE "misused"

\* A call of Filter.  Without a backend the picture is dropped at once.
Filter ==
  /\ pc = "idle"
  /\ in' = IF backend = "none" THEN Released("held") ELSE "held"
  /\ pc' = IF backend = "none" THEN "idle" ELSE "probe"
  /\ out' = "none"
  /\ pixels' = "none"
  /\ UNCHANGED <<config, sysVars, usmVars, probeVars>>

\* The amount is zeroed, the tuner stopped, the pool destroyed.
DisableUsm == usmAmount' = FALSE /\ adaptive' = FALSE /\ usmPool' = "none"

\* up_probe_metrics and up_probe_observe on a picture with a valid view.
ObservePlane(f) ==
  /\ probeActive
  /\ seen' = Append(seen, f)
  /\ accum' = Observe(accum, Metrics(f))

\* LogProbeVerdict, once the window is full.
Advise == advised' = (advised \/ (config.advice /\ ShouldBypass(accum')))

RunProbeMarksOnly(f) ==  \* MUTANT of RunProbe: the pool is left to be run
  /\ ObservePlane(f)
  /\ probeActive' = (accum'.frames < ProbeWindow)
  /\ IF probeActive' THEN UNCHANGED <<advised, usmVars>>
     ELSE /\ Advise
          /\ skipSharp' = (skipSharp \/ ShouldSkipUsm(accum', config.threshold))
          /\ UNCHANGED <<usmAmount, usmPool, adaptive, usmStatus, retained>>

RunProbeGoesOn(f) ==  \* MUTANT of RunProbe: the probe is not closed
  /\ ObservePlane(f)
  /\ UNCHANGED <<usmVars, probeActive, advised>>

\* RunProbe: the frame that fills the window closes the probe; a grainy source
\* loses its sharpening for good.
RunProbe(f) ==
  /\ ObservePlane(f)
  /\ probeActive' = (accum'.frames < ProbeWindow)
  /\ IF probeActive' THEN UNCHANGED <<advised, usmVars>>
     ELSE /\ Advise
          /\ IF ShouldSkipUsm(accum', config.threshold)
             THEN skipSharp' = TRUE /\ DisableUsm /\ UNCHANGED <<usmStatus, retained>>
             ELSE UNCHANGED usmVars

\* A picture without a valid view is not observed.
ProbeStep ==
  /\ pc = "probe"
  /\ pc' = "newPicture"
  /\ \/ \E c \in Contents : RunProbe([w |-> config.size.w, h |-> config.size.h, shows |-> c])
     \/ UNCHANGED <<usmVars, probeVars>>
  /\ UNCHANGED <<config, sysVars, picVars>>

NewPictureLeaksInput ==  \* MUTANT of NewPicture: the input is not released
  /\ pc = "newPicture"
  /\ \/ out' = "held" /\ pixels' = "torn" /\ pc' = "process"
     \/ pc' = "idle" /\ UNCHANGED <<out, pixels>>
  /\ UNCHANGED <<config, sysVars, usmVars, probeVars, in>>

\* filter_NewPicture: NULL when VLC's pool is exhausted.
NewPicture ==
  /\ pc = "newPicture"
  /\ \/ out' = "held" /\ pixels' = "torn" /\ pc' = "process" /\ UNCHANGED in
     \/ in' = Released(in) /\ pc' = "idle" /\ UNCHANGED <<out, pixels>>
  /\ UNCHANGED <<config, sysVars, usmVars, probeVars>>

\* What backend->process may return.
Statuses ==
  IF priv # backend THEN {"fatal"}
  ELSE {"ok", "transient"} \cup (IF backend = "zimg" THEN {"fatal"} ELSE {})

Process ==
  /\ pc = "process"
  /\ \E status \in Statuses :
       /\ pc' = CASE status = "ok" -> "usm" [] status = "transient" -> "drop"
                  [] status = "fatal" -> "fallback"
       /\ pixels' = IF status = "ok" THEN "scaled" ELSE "torn"
       /\ fatal' = (fatal \/ (status = "fatal" /\ backend = "zimg"))
  /\ UNCHANGED <<config, backend, priv, live, fallbackTried, usmVars, probeVars, in, out>>

TryBackendFallbackLeaks ==  \* MUTANT of TryBackendFallback: zimg is not closed first
  /\ pc = "fallback"
  /\ pc' = "drop"
  /\ fallbackTried' = TRUE
  /\ IF fallbackTried \/ backend # "zimg" THEN UNCHANGED <<backend, priv, live>>
     ELSE \/ Closes
          \/ config.pref # "zimg" /\ Pick("swscale") # "none" /\ Opens("swscale")
  /\ UNCHANGED <<config, fatal, usmVars, probeVars, picVars>>

\* Once, and for zimg only: close it and, unless the user forced it, open
\* swscale.  If that cannot be picked or opened no backend is left.
TryBackendFallback ==
  /\ pc = "fallback"
  /\ pc' = "drop"
  /\ fallbackTried' = TRUE
  /\ IF fallbackTried \/ backend # "zimg" THEN UNCHANGED <<backend, priv, live>>
     ELSE \/ Closes
          \/ /\ config.pref # "zimg" /\ Pick("swscale") # "none"
             /\ backend' = "swscale" /\ priv' = "swscale"
             /\ live' = (live \ {priv}) \cup {"swscale"}
  /\ UNCHANGED <<config, fatal, usmVars, probeVars, picVars>>

\* Both pictures are given back and Filter returns NULL.
Drop ==
  /\ pc = "drop"
  /\ out' = Released(out)
  /\ in' = Released(in)
  /\ pc' = "idle"
  /\ UNCHANGED <<config, sysVars, usmVars, probeVars, pixels>>

\* ApplyUsmIfEnabled with nothing to do: disabled, or no usable view.
SkipUsm ==
  /\ pc = "usm"
  /\ pc' = "finish"
  /\ UNCHANGED <<config, sysVars, usmVars, probeVars, picVars>>

\* up_usm_pool_apply on the pool usm_pool points to.  A pool that cannot start
\* or whose dispatch fails is of no use any more.
BestApplies ==
  \/ usmStatus' = "ok" /\ pixels' = "sharp" /\ UNCHANGED usmPool
  \/ usmStatus' = "failedUnchanged" /\ usmPool' = "broken" /\ UNCHANGED pixels
  \/ usmStatus' = "outputUncertain" /\ usmPool' = "broken" /\ pixels' = "torn"

UsmApplyStaleRetained ==  \* MUTANT of UsmApply: `retained' is not reset
  /\ pc = "usm"
  /\ usmAmount /\ usmPool # "none" /\ ~skipSharp
  /\ pc' = "usmApplied"
  /\ \/ BestApplies /\ adaptive' \in {FALSE, adaptive} /\ UNCHANGED retained
     \/ /\ adaptive /\ adaptive' = FALSE
        /\ \/ BestApplies /\ UNCHANGED retained
           \/ /\ usmStatus' = "outputUncertain" /\ retained' = TRUE
              /\ pixels' = "torn" /\ UNCHANGED usmPool
  /\ UNCHANGED <<config, sysVars, usmAmount, skipSharp, probeVars, in, out>>

\* up_usm_adaptive_apply.  The tuner may have the frame sharpened by a trial
\* pool, and adopt that one or give up afterwards.  If the trial pool fails
\* the tuner gives up; when that left the frame unchanged the best pool takes
\* over, otherwise the frame is lost but the best pool is retained.
UsmApply ==
  /\ pc = "usm"
  /\ usmAmount /\ usmPool # "none" /\ ~skipSharp
  /\ pc' = "usmApplied"
  /\ \/ BestApplies /\ adaptive' \in {FALSE, adaptive} /\ retained' = FALSE
     \/ /\ adaptive /\ adaptive' = FALSE
        /\ \/ BestApplies /\ retained' = FALSE
           \/ /\ usmStatus' = "outputUncertain" /\ retained' = TRUE
              /\ pixels' = "torn" /\ UNCHANGED usmPool
  /\ UNCHANGED <<config, sysVars, usmAmount, skipSharp, probeVars, in, out>>

UsmAppliedForwards ==  \* MUTANT of UsmApplied: every failure keeps the frame
  /\ pc = "usmApplied"
  /\ IF usmStatus = "ok" \/ retained THEN UNCHANGED <<usmAmount, adaptive, usmPool>>
                                     ELSE DisableUsm
  /\ pc' = "finish"
  /\ UNCHANGED <<config, sysVars, skipSharp, usmStatus, retained, probeVars, picVars>>

\* The tail of ApplyUsmIfEnabled and the test of FinishScaledFrame: a failure
\* that is not the trial pool's ends sharpening for this playback, and a frame
\* that workers may have half written is dropped.
UsmApplied ==
  /\ pc = "usmApplied"
  /\ IF usmStatus = "ok" \/ retained THEN UNCHANGED <<usmAmount, adaptive, usmPool>>
                                     ELSE DisableUsm
  /\ pc' = IF usmStatus = "outputUncertain" THEN "drop" ELSE "finish"
  /\ UNCHANGED <<config, sysVars, skipSharp, usmStatus, retained, probeVars, picVars>>

\* FinishScaledFrame: the output is returned, the input released.
Finish ==
  /\ pc = "finish"
  /\ in' = Released(in)
  /\ out' = "returned"
  /\ pc' = "idle"
  /\ UNCHANGED <<config, sysVars, usmVars, probeVars, pixels>>

Close ==
  /\ pc = "idle"
  /\ IF backend # "none" THEN Closes ELSE UNCHANGED <<backend, priv, live>>
  /\ DisableUsm
  /\ pc' = "end"
  /\ UNCHANGED <<config, fallbackTried, fatal, skipSharp, usmStatus, retained, probeVars,
                 picVars>>

\* Open was declined, or the filter is closed.
End == pc = "end" /\ UNCHANGED vars

-----------------------------------------------------------------------------
Next ==
  \/ Decline \/ PickBackend \/ OpenPreferred \/ OpenFallback \/ FinishOpen
  \/ Filter \/ ProbeStep \/ NewPicture \/ Process \/ TryBackendFallback \/ Drop
  \/ SkipUsm \/ UsmApply \/ UsmApplied \/ Finish
  \/ Close \/ End

Spec == Init /\ [][Next]_vars

-----------------------------------------------------------------------------
(* Properties.                                                             *)

\* Whatever fails on the way, a call of Filter releases the input exactly
\* once, and the output exactly once unless it returns it.
PicturesAccounted ==
  /\ "misused" \notin {in, out}
  /\ pc \in {"idle", "end"} => "held" \notin {in, out}

\* VLC never gets a picture the backend did not fill, or one that a failed
\* sharpening pass left half written.
ForwardedIsWhole == out = "returned" => pixels \in {"scaled", "sharp"}

\* The scaler context never points to state of another backend or to closed
\* state, and no backend's state is left behind: exactly the current backend
\* is open whenever a frame can be processed, and none after Close.  And a zimg
\* backend that failed fatally gets no further frame: its failure is sticky, so
\* keeping it would drop every picture of the playback.
ContextMatchesBackend ==
  /\ pc \notin {"open", "openFallback"} => priv = backend /\ live = {backend} \ {"none"}
  /\ pc \in {"idle", "process"} /\ fatal => backend # "zimg"

\* A sharpening pool that failed to start or to finish a dispatch is not
\* offered another frame, however the failures of trial pools and of the best
\* pool follow each other.
BrokenPoolDropped == pc = "idle" => usmPool # "broken"

\* A source found grainy is not sharpened any more, from the very frame that
\* closes the probe, and its pool is not kept for nothing.
GrainyNotSharpened ==
  skipSharp => usmPool = "none" /\ (out = "returned" => pixels = "scaled")

\* The verdicts fall once, with the frame that fills the window, and follow from
\* all of its frames and from pixels inside the crop alone: not from a single
\* noisy frame, not from what lies next to the crop in memory, and for a crop
\* too small to be sampled no mean is taken and nothing is disabled or advised.
\* (content_probe.h, up_probe_accum_t; RunProbe.)
VerdictFromWindow ==
  LET full == Len(seen) = ProbeWindow
  IN  /\ skipSharp = (full /\ Grainy(seen, config.threshold))
      /\ advised = (full /\ config.advice /\ Hopeless(seen))

Stage ==
  CASE pc \in {"probeInput", "open", "openFallback", "init"} -> "opening"
    [] pc = "idle" -> "idle"
    [] pc = "end" -> "closed"
    [] OTHER -> "busy"

Promise == INSTANCE PictureFilter WITH
  stage <- Stage, input <- in, output <- out, holds <- pixels,
  scales <- Stage # "opening" /\ backend # "none",
  sharpens <- usmAmount /\ usmPool # "none" /\ ~skipSharp

\* The filter keeps its promise to VLC: every call gives its pictures back or
\* returns a complete one, which is not touched any more, and no failure, swap of
\* backends, verdict of the probe or retirement of a pool ever brings sharpening or
\* scaling back once it is gone.  (Filter, TryBackendFallback, DisableUsm.)
ImplementsPromise == Promise!Spec
=============================================================================
