# Formal model of vlc-autoscaler

`vlc-autoscaler` is a VLC video filter. For every decoded frame it scales the
picture up (zimg, or libswscale as fallback) and may sharpen the result with an
unsharp mask (USM). Both the zimg backend and the sharpener split the frame
over a pool of threads that is parked between frames. This directory holds
TLA+ models of the parts whose correctness depends on the order of events,
or on integer geometry at its boundaries, the TLC runs that check them, and
machine-checked proofs that what the runs show on small instances holds for
every number of workers, every size and every length of a playback.

Paths below are relative to the repository.

## 1. Inventory of the system

### Threads and ownership

VLC calls `Open`, `Filter` and `Close` of one filter instance from one thread
at a time (its video output thread). Every other thread belongs to a pool:
`worker_pool.h` starts them, `pool_gate.h` hands them frames. Workers never
call VLC. A zimg instance owns one pool; the sharpener owns one, or two while
the tuner compares thread counts. Pools share no state with each other.

    VLC -> autoupscale.c -> scaler.c -> scaler_zimg.c  -> worker_pool.h -> pool_gate.h -> threads
                         |           -> scaler_swscale.c -> libswscale
                         -> content_probe.h
                         -> usm_adaptive.h -> usm_pool.c -> worker_pool.h -> pool_gate.h -> threads

### Components

| Component | State | Operations | What makes it correct |
|---|---|---|---|
| Dispatch gate, `pool_gate.h` | two mutexes, two condition variables, `generation`, `exit_requested`, atomics `pending` and `sync_failed` | init, arm, unlock_broadcast, wait_for_go, worker_done, wait_all (timed), request_exit | a completed wait means every worker has written this frame; no stale run; no lost wakeup; every wait ends although pthread calls fail |
| Worker pool, `worker_pool.h` | slots, thread records (`started`, `seen_gen`), `n_workers`, `broken`, `lazy_done`, `lazy_failed`, `inline_run` | ensure_started, dispatch, poison, stop, destroy | only the threads that exist are counted; slots released once; nothing freed under a live thread; a failed start is not repeated; a broken pool holds no threads |
| VLC filter, `autoupscale.c` | `filter_sys_t`: scaler context, USM amount and pool, tuner, probe, latches | Open, Filter, Close | each path releases exactly the pictures it owes; a half-written picture is never forwarded; one backend at a time; a broken component is dropped, not retried |
| Backend selection, `scaler.c`, `scaler_pick_logic.h`, `scaler_status.h` | none beyond the context | pick, open with fallback, status of a frame | `auto` prefers zimg and may fall back; a forced backend never does |
| USM pool, `usm_pool.c` | geometry, per-worker stripe, scratch rows, halo rows, per-frame pointers | new, apply, destroy | stripes cover each row once; in-place, a worker never reads a row its neighbour has already overwritten; the three results tell the caller whether the output was touched |
| Adaptive tuner, `worker_tuner.h`, `usm_adaptive.h` | phase, cursor, window of samples, best count, trial pool | begin, apply, observe, destroy | the best pool always has the best count; a failed trial falls back; the search ends |
| zimg backend, `scaler_zimg.c`, `scaler_zimg_chroma.h` | I/O plan of the first frame, drift counter, tile graphs, worker results | open, process, close | a plan is only used on storage it fits; transient and fatal failures are told apart; tiles cover the picture |
| zimg geometry, `zimg_helpers.h`, `plane_utils.h`, `plane_buffer.h` | none | stripe bounds, grid, I/O plan, alignment | partition of rows and columns, even boundaries, no overflow |
| Upscale planning, `upscale_logic.h` | none | plan, target dimensions, clamping | target even, within limits, ratio kept, never a downscale |
| Thread policy, `thread_policy.h` | none | worker count from option, cores and topology | between 1 and `UP_THREADS_MAX` |
| Content probe, `content_probe.h` | sums over a window of frames | observe, advisory rule, sharpness rule | one verdict per playback, no division by zero |
| Picture views, `picture_view.h`, `chroma_classify.h` | none | chroma classes, visible crop, plane bounds | a view never points outside its plane |
| swscale backend, `scaler_swscale.c` | libswscale context, probe result | open, process, close | results and ownership as for zimg |
| USM arithmetic, `usm.h` | rolling rows | blur and sharpen a row | equals the plain 3x3 definition |
| SIMD dispatch and CPU gate, `usm_pool_dispatch.c`, `usm_pool_variants.h`, `cpu_level.h` | one choice at load | forwarding | the variant runs on this CPU |
| Module descriptor, `autoupscale_module.c` | none | option table | - |

The tests (`src/tests`), the build files and the benchmarks are not components
of the running filter.

### What is hard

* Two mutexes, two condition variables and two atomics, with one side that
  gives up after a deadline. A completion may race the deadline, an exit
  request may meet an unseen generation, the last decrement may fall between
  the test and the sleep of the waiting side.
* The code tests the result of every pthread call and goes on after a failure.
  A thread that cannot lock leaves for good and reports; a stop that cannot
  wake its threads cancels them; a join that fails quarantines the pool.
* Threads or their payload may come up in part. Two owners want different
  things then: the sharpener takes what it gets, zimg wants all or nothing.
* Four failing exits of `Filter` owe VLC one picture or both; a backend is
  replaced in the middle of a frame; the probe destroys the sharpening pool
  earlier in the same call that would have used it.
* The sharpener has a best and a trial pool and three results, and works in
  place: workers overwrite rows that their neighbours still read.
* The zimg graphs outlive the frame they were built for. Later frames come with
  other addresses and may come with another alignment.
* A crop may be odd, reach past the picture, or be of a picture that VLC has
  allocated otherwise than the format says. Stripes, tiles, chroma planes and
  targets are rounded in turn, each in its own direction.

`PROJECT.json` lists each such hazard at its line, with the properties that
would fail if the code got it wrong.

## 2. Modules

| Module | Models | Role |
|---|---|---|
| `FrameBarrier` | - | abstract specification: who owns the picture |
| `PoolGate` | `pool_gate.h`; dispatch, poison, stop, destroy of `worker_pool.h` | the concurrent protocol, one action per synchronisation operation |
| `PoolGateMC` | - | bounds and symmetry for TLC |
| `PoolGateProofs` | - | theorems about `PoolGate`, for any set of workers |
| `WorkerPool` | `worker_pool.h`, the hooks of `usm_pool.c` and `scaler_zimg.c` | life of a pool above the gate |
| `WorkerPoolMC` | - | its instance |
| `WorkerPoolProofs` | - | theorems about `WorkerPool`, for any size of pool |
| `PictureFilter` | - | abstract specification: what the filter promises VLC |
| `AutoUpscale` | `autoupscale.c`, `scaler.c`, `scaler_pick_logic.h`, results of the backends and pools | Open, Filter, Close; implements `PictureFilter` |
| `AutoUpscaleMC` | - | its instance |
| `AutoUpscaleProofs` | - | theorems about `AutoUpscale` with `ContentProbe`, for any probe window, grid and sizes, and about `PictureGeometry`, for any format |
| `AdaptiveUsm` | `worker_tuner.h`, `usm_adaptive.h`, the sharpening tail of `autoupscale.c` | the search for a number of workers, and its two pools |
| `AdaptiveUsmMC` | - | its symmetry |
| `AdaptiveUsmProofs` | - | theorems about `AdaptiveUsm`, for any limit, window and machine |
| `ContentProbe` | `content_probe.h` | operators: the metrics and both rules, with a reference definition; `AutoUpscale` drives them |
| `ScalerBackend` | - | abstract specification: what `process` of a backend promises |
| `ZimgBackend` | `scaler_zimg.c` | one instance from open to close, with its workers; implements `ScalerBackend` |
| `ZimgBackendMC` | - | its sizes |
| `ZimgBackendProofs` | - | theorems about `ZimgBackend`, for any sizes and budget |
| `ZimgGrid` | `plane_utils.h`, `zimg_helpers.h`, `plane_buffer.h` | operators: stripes, tile grid, I/O plan, extents |
| `ThreadPolicy` | `thread_policy.h`, pinning of `scaler_zimg.c` | operators: topology and thread counts |
| `ZimgPlan` | the plan of `scaler_zimg.c` over `ZimgGrid` and `ThreadPolicy` | the plan at open and at the first frame |
| `ZimgPlanMC` | - | its sizes and CPU masks |
| `ZimgPlanProofs` | - | theorems about `ZimgPlan`, for any sizes, budget and machine |
| `UsmStripes` | `usm_pool.c` | rows of a plane during a sharpening pass |
| `UsmStripesMC` | - | its heights |
| `UsmStripesProofs` | - | theorems about `UsmStripes`, for any height and number of workers |
| `ArithmeticLemmas` | - | lemmas the proofs share: division, `Min` and `Max`, sums over finite sets |
| `PictureGeometry` | `upscale_logic.h`, `chroma_classify.h`, `picture_view.h`, the sizes in `autoupscale.c` and `scaler.h` | crop, target and views |
| `PictureGeometryMC` | - | its formats |

The layers rest on each other as the code's layers do. `PoolGate` implements
`FrameBarrier` (checked and proved). `AutoUpscale` implements `PictureFilter` (checked
and proved). `WorkerPool` takes the gate to behave as
`PoolGate` shows: its actions `RunBegins`, `RunEnds`, `Leave`, `ThreadFails`,
`Delivered` and `Poison` are the outcomes `PoolGate` can produce.
`AutoUpscale` takes a sharpening pass to end as a pool can make it end: done,
failed with the frame untouched (the pool could not start, or was broken
already), or failed with the output uncertain (the barrier broke).
`AdaptiveUsm` makes the same assumption for each of its two pools and adds the
number of workers that came up; it is the inside of the sharpening pass that
`AutoUpscale` sees as one step. `UsmStripes` goes inside that pass, `ZimgBackend`
inside the zimg step of `AutoUpscale`: that `process` returns OK only with the
whole picture written, and FATAL for good, is `ScalerBackend`, which
`ZimgBackend` implements. `ZimgPlan` and `ZimgBackend` share the operators of
`ZimgGrid`, `ZimgPlan` and `UsmStripes` those of `ThreadPolicy`, and
`AutoUpscale` calls those of `ContentProbe`.

### PoolGate

`lock` and `doneLock` hold the owner of the two mutexes; `generation`,
`exitReq`, `pending`, `syncFailed` are the gate's fields; `wpc[w]` says at
which synchronisation operation a worker is and `seen[w]` is its `seen_gen`;
`mpc`, `broken`, `started`, `toJoin`, `cancelled` belong to the dispatching
thread and the pool. A worker asleep on `cv` is in "waiting", one woken and
queued for the mutex in "relock". Two variables make the frame visible: `job`,
the frame for which the owner has set the per-frame pointers, and `dst[w]`,
the frame the worker's part of the picture holds.

A worker goes boot, lock, check, then sleep and waiting, or run, done and back
to lock; `notify`/`signal` is the last finisher's path, `report`/`reportSignal`
that of a worker whose pthread call failed, "gone" its end. The dispatching
thread goes gateLock, arm, broadcast, waitAll, doneLock, doneCheck (doneSleep,
doneWait, ...), recheck; any failure leads to exitLock, exitBroadcast, join.

Faults: every pthread call whose result the code tests may fail. A failing
lock does not lock, a failing broadcast or signal wakes nobody, a failing
unlock still unlocks. Cancellation acts where the code enables it, inside
`pthread_cond_wait`, and runs the cleanup handler.

Assumptions, in addition:

* Memory is sequentially consistent. The code uses acquire/release on `pending`
  and the mutexes for the rest, and argues the ordering in `pool_gate.h`.
* `pthread_cancel` itself does not fail. The code would only set `broken`, which is set already.
* Threads are joined in any order; the code's order is one of them.
* All workers of the pool have been created at `Init`: `WorkerPool` covers
  pools that come up in part.
* A callback returns. (The deadline exists for callbacks that are slow; a
  callback that never returns blocks the join, and the code says so.)
* The deadline arithmetic is not modelled: the timer fires at any moment.

### WorkerPool

`held` is the storage acquired by setup, `slot[i]` the payload of a slot:
"raw", "built", "released", or "misused" once `ops->release` met a slot that is
not built. `thread[i]` and `started` follow the threads, `owes` and `wrote` the
current dispatch, `stripes` the number of stripes the sharpener has cut the
plane into, `why` who called stop. Each of setup's allocations, each construct
hook, each thread creation, each gate call and each join may fail.

### AutoUpscale

`config` is one choice of everything that is fixed after Open: preference,
supported backends, sharpening, tuner, probe options, kind of chroma. `backend`
and `priv` are the context's two fields, `live` the backends whose private
state exists. `in` and `out` follow the two pictures of a call; releasing one
that the filter does not hold makes it "misused". `pixels` says what the output
holds. The probe is `ContentProbe`: every frame shows one of a few pictures,
`accum` sums up its metrics, `seen` remembers the pictures so that the verdicts
can be compared with a definition over all of them. A source that is not probed
has one size. The results of the backends, of VLC's picture
pool and of the sharpening pools are free choices. Left out: the latches that
keep a message from being logged twice, `Filter(NULL)` (which does nothing),
the wording of messages, and the option plumbing.

### AdaptiveUsm

`tuner` is the record `up_worker_tuner_t`. What `up_worker_tuner_observe` does
to it is a function of the record and a time, `Observed`, made of the code's
helpers under their names (`NextCount`, `Median`, `BeginTrial`, `Confirm`,
`Monitor`, `Settle`, `TrialTooSlow`). `pool` records what is allocated at each
address, so that a pool that is leaked, freed twice or used after it was freed
shows; `bestPool` and `trial` are the two pointers. A frame runs select, apply,
recover or observe, result, as `up_usm_adaptive_apply` does, and ends in what
`ApplyUsmIfEnabled` makes of the result.

Times are integers. A median of an even number of samples is kept doubled and
the factors 0.95, 1.35, 0.65 and 1.5 are exact ratios, so rounding of doubles is
not modelled. Two kinds of machine are: a steady one, where a frame takes
`cost[n]` with n workers but for one disturbed frame in a window, and a noisy
one, where each frame may take any time of a set. Left out: the counter of
changes, which is only logged; the start of the frame, whose failure is part of
`Untimed`; and the quarantine of a pool whose threads cannot be joined, which
`WorkerPool` covers (its address stays in use there, here it is free again).

### ZimgBackend, ZimgPlan and ZimgGrid

A call of `zimg_process` is one action per way it can end before the dispatch
(`BrokenPool`, `BadGeometry`, `NoteAlignmentDrift`, `LazyFailed`,
`LazyInitFails`), `LazyInit`, `Dispatch`, and the ways the dispatch ends. A
worker goes armed, graph, emit, finished, or leaves. `view[w]` says what the
four plane views of a worker point to: "null", its scratch, a picture of "this"
or of an "old" frame. `buf[w]` is what its part of the scratch holds, `out` what
each cell of VLC's output picture holds, so that a frame that is whole can be
told from one that is half resampled, of an earlier frame or partly missing.
`cell[w]` are the modes that the graphs were built with. The alignment of each
frame's pictures is a free choice; a graph may fail on any worker. Within a call
the backend is shared by `ScalerBackend`'s "busy" phase. The pool's start, barrier
and stop are the outcomes of `WorkerPool` and `PoolGate`; a join that fails,
the one case in which a worker outlives the call, is `gate_join_failure`.

`ZimgGrid` has the stripes as functions of their number and the grid search as
the choice it makes. `ZimgPlan` runs it twice, as the code does, for every
combination of sizes, options, CPUs and chroma. A limit of the axes is that no
plane is larger than ten rows or columns; the code's guards against overflow
of byte counts have no counterpart.

### UsmStripes

`plane[r]` is what row r of the destination holds, `rows[w]` which source rows
are blurred in the three buffers of a worker and `halo[w]` which rows it has
copies of. Reading a row of the frame after somebody has overwritten it gives
`Spoiled`. A worker blurs and combines row by row, so that any two workers
interleave between any two rows. A pool may come up with fewer workers than
asked for. The pixels themselves, the scratch block's bytes and the flat-stripe
shortcut (`USM_POOL_FLAT_SKIP`, off unless a benchmark asks for it) are left
out.

### PictureGeometry

A format has a coded size, a visible size and an offset per axis, in one of six
layouts (others are one of these with its planes or bytes in another order).
`Open` aligns the crop and plans the target; `Frame` is any later picture, as
negotiated, larger, smaller, a line short in one plane, or without a visible
size, and `view` says whether `up_picture_view_init` accepts it. `INT_MAX`,
`UINT_MAX`, `UP_MAX_DIM` and the preset heights are scaled down and keep their
order. The guards against overflow inside `upscale_logic.h` are left out:
`up__plan_inputs_ok` has refused what they guard against.

## 3. Runs

| Run | Bounds | Shows |
|---|---|---|
| `gate_safety` | 3 workers, 2 dispatches, 2 failing calls, 1 spurious wakeup; symmetric in the workers | type, counting, published frame, staleness, lifetime, exit after an unseen frame, no early poison; implements `FrameBarrier` |
| `gate_live` | 2 workers, 2 dispatches, faults as configured, fair with timer | a dispatch and a stop always return |
| `gate_untimed` | 3 workers, no failing call, 1 spurious wakeup, fair without timer | no lost wakeup: a dispatch ends although the timer never fires |
| `gate_join_failure` | 2 workers, 1 dispatch, 1 failing call | the one violation, below |
| `worker_pool` | pools of 1 to 3 workers, both owners | slots, threads, storage and partition over a pool's life |
| `filter` | probe window of 2 frames, every configuration, 6 sizes of up to 9 by 9 pixels, 3 kinds of picture | pictures, backends and pools over a playback of any length, and the verdicts of the probe; implements `PictureFilter` |
| `tuner` | limits 2 to 4, every initial count, windows of 6 (early end at 4), recheck 30, cooldown 6, every assignment of 3 costs, and noise between 2 times | ownership and agreement of the pools, what a window holds, where the search settles, what a failure costs |
| `tuner_live` | limit 2, windows of 6 (early end at 4), recheck 24, cooldown 4, fair | a search ends, and a settled tuner searches again |
| `zimg_plan` | destinations of up to 10 by 10, up to 5 workers, 4 CPU masks, 3 chroma grids, every combination of direct reads and writes | the grid partitions every plane, none that fits has more cells, workers have CPUs |
| `zimg_backend` | 5 sizes for 1 to 4 workers, failover at 3 misses, fair | no stale or misaligned picture is touched; implements `ScalerBackend`; drift ends in a failover |
| `usm_stripes` | planes of 1 to 9 rows, up to 4 workers | every row is sharpened from the original frame; no sliver |
| `geometry` | windows in 3 rows and 4 columns, and some larger or broken formats; 6 layouts | the target is usable, views are sound |

Why these bounds are enough to be interesting. Two dispatches are the least
with a previous generation to confuse with the current one. With three workers
one can be last, one late and one gone; symmetry is used only in runs without
liveness properties. Two faults let a worker fail while the stop that follows
fails too. `worker_pool` has no bound but the number of workers: three give a
partial start with more than one survivor. In `filter` the window of the probe
is two frames, so that it is open, closes and is closed while frames flow; the
number of frames is unbounded. The
tuner's constants (windows of 16 samples, a recheck after 16384, in the code)
are scaled down but keep their order: an early end before the window does, at
the code's 4 samples, which one disturbed frame cannot sway; a
cooldown shorter than the recheck, with room for three windows in between, so
that both ways back to the search occur. A limit of 4 gives the search three
candidates, so it rejects some, adopts others, and skips the best. The costs 97
and 100 lie within the five percent the code ignores, 200 beyond every
threshold. Frames are unbounded here too. The proofs of section 4
remove the bounds for all of the safety properties.

The probe's grid of 4 and blocks of 8 are 2 and 4, so that sizes of 2 to 9 have
no sample, one, or several of each kind, and one of them falls one sample short
of the least number. In `zimg_plan` a source of 1 to 8 rows against a
destination of up to 10 includes every degenerate stripe that rounding down
twice makes; masks with gaps, with more CPUs than workers and none at all go
with every count. The sizes of `zimg_backend` are the shapes of a grid: one
cell, rows, columns and both. Three misses are the least with one that is
neither the first nor the last. `usm_stripes` has stripes of one row and of
several, a first, an inner and a last one. `geometry` covers every odd and even
offset and size within a window, and formats no decoder should announce:
offsets at and past the limit of an integer, and sizes that do not fit one.
Its only terminal states are those of a filter that has declined the format;
deadlock is not checked there and is checked in all other runs.

Every property has at least one mutant of the code, an operator marked MUTANT
next to the one it changes, under which TLC finds it violated.

### Properties

Gate: `PendingCountsOwing` (the counter is the number of workers that owe their
decrement, whatever failed), `PublishedFrameComplete` (a dispatch that returned
0 left exactly this frame written, by everybody, with nobody in a callback),
`NoStaleRun`, `ReapedFinishedFrame` (an unseen dispatch is completed before
exit), `FreedMeansGone`, `OnlyLatePoisons` (a completion that races the deadline does not
retire a healthy pool), `DispatchReturns`, `StopTerminates`, `NoLostWakeup`,
`ImplementsBarrier`.

Pool: `ReleasedOnce` (no slot is released twice or raw, and nothing is left
after a destroy), `LiveThreadsOwnStorage`, `WholeFrameWritten`,
`RetiredPoolIsIdle`.

Filter: `PicturesAccounted`, `ImplementsPromise` (a picture returned is complete and
left alone, no scaling or sharpening after it was given up), `ContextMatchesBackend` (the one
backend of the context is open, and not one that has failed), `BrokenPoolDropped`,
`GrainyNotSharpened`, `VerdictFromWindow` (both verdicts of the probe are those of
the reference definition).

Tuner: `PoolsOwned` (each allocated pool has exactly one owner, and the filter's
is a working one between frames),
`PoolsMatchTuner` (the filter's pool has the best count, the trial pool the
candidate's), `WindowTimesCurrent` (times of different pools are never mixed
or compared at the wrong moment), `SettledIsGood` (no candidate beats the
settled count by five percent), `TrialFailureSpares` (a
trial that fails ends the search, not the sharpening), `KeepsAdapting`.

zimg: `GridPartitions`, `GridMaximal`, `WorkersHaveCpus`, `DirectIoSafe`,
`ImplementsBackend`, `DriftFailsOver`.

Sharpening pass: `FrameSharpened`, `StripesHighEnough`.

Geometry: `TargetUsable` (an engaged filter has a target that every backend can
make), `ViewsSound` (an accepted view lies in the storage and inside the visible
window, with chroma where luma is; pictures as negotiated are accepted).

Each is stated in words above its definition.

### Fairness

`Scheduling` is weak fairness of the dispatching thread inside dispatch and
stop, and of every worker: the operating system runs ready threads, callbacks
return, and a mutex that is free is taken. Weak fairness suffices because no
mutex changes hands for ever: dispatches, faults and spurious wakeups are
bounded and a worker goes to sleep between them. `FairSpec` adds weak fairness
of `Timeout`: the wait has a deadline on `CLOCK_MONOTONIC`. `UntimedSpec` does
not. Nothing fair is assumed of faults, of `Dispatch` or of `Close`.
`AdaptiveUsm!FairSpec` is weak fairness of `FrameStep`: as long as the filter is
open, frames arrive and a call of `Filter` returns. The first is the meaning of
a playback that goes on, the second is `DispatchReturns` of the gate. A filter
that is closed leaves the tuner disabled, which satisfies the property.
`ZimgBackend!FairSpec` asks the same of its callers, that frames keep coming, and
weak fairness of the call and of each worker: a graph returns. Nothing fair is
assumed of the storage of frames. `DriftFailsOver` says only what happens if
incompatible pictures come again and again.

### The violation

`up_worker_pool_dispatch` is documented to return -1 with the threads stopped
and joined (`src/src/worker_pool.h:387-391`). `up_worker_pool_poison` discards
the result of stop (`src/src/worker_pool.h:379`). In `gate_join_failure` a
worker is still in its callback at the deadline, `pthread_join` fails for it,
and the dispatch returns while it writes the caller's picture. Pool storage is
still safe (`FreedMeansGone`, `LiveThreadsOwnStorage`: such a pool is
quarantined), the picture is not covered. `pthread_join` fails only on misuse
on the systems the filter supports, so this is a gap between the comment and
the code rather than something a user will meet. The failing join is the only
cause: with `JoinFails` disabled and two other failures allowed, the property
holds for three workers.

## 4. Proofs

Each module of proofs has one inductive invariant, conjunctions of named parts,
with a lemma per action; the theorems follow from it.

### PoolGate

`PoolGateProofs` proves, for every finite non-empty set of workers and every
value of the bounds, so without any bound on faults, wakeups or frames:

| Theorem | Property |
|---|---|
| `TypeCorrect` | `TypeOK` |
| `Counting` | `PendingCountsOwing` |
| `PublishedComplete` | `PublishedFrameComplete` |
| `NeverStale` | `NoStaleRun` |
| `FreedGone` | `FreedMeansGone` |
| `ReapedFinished` | `ReapedFinishedFrame` |
| `LatePoisons` | `OnlyLatePoisons` |
| `Refinement` | `ImplementsBarrier` |

All rest on `PoolAssumption` (the workers are finite, not none, and distinct
from the two other owners of a mutex) and on one inductive invariant, `IInv`
(theorem `Inductive`):

* `Typed`: the types, without the upper bound of `pending`, which is a
  consequence of the count and not inductive on its own;
* `WorkerInv`: what a worker's place says about its mutexes and about `seen`,
  `dst` and `generation`: in "run" it has seen the current generation and not
  written it, in "done" it has written but not counted it;
* `CallerInv`: what the caller's place says about `job`, `generation` and
  `broken`: the per-frame state is one ahead of the generation from
  `up_usm_pool_apply` until the arming, and a healthy idle pool has nothing pending;
* `StopInv`: a stop runs only on behalf of a poison or a destroy, the storage is
  freed only with every thread joined, and a joined thread is gone;
* `FaultFree`: without a failure nobody reports or is cancelled, exit is not
  requested of a healthy pool, and a thread leaves only with all it saw written;
* `PendingCountsOwing`.

`PublishedFrameComplete` is not inductive: that nobody runs at "idle" follows
from `pending = 0` at "recheck" only because the counter equals the number of
owing workers through arms, runs, and departures. Conversely the count
survives a dispatch only because at "arm" a healthy pool has nobody left in a
callback. `PendingZero` turns "the counter reads zero" into "the owing set is
empty". The refinement proof shows that each action maps to a step or stutter
of `FrameBarrier` under the same invariant.

### WorkerPool

`WorkerPoolProofs`, from `WorkerPoolAssumption` (at least one worker, the two
owners the code has), for pools of any size:

| Theorem | Property |
|---|---|
| `PoolTyped` | `TypeOK` |
| `PoolReleasesOnce` | `ReleasedOnce` |
| `PoolOutlivesThreads` | `LiveThreadsOwnStorage` |
| `PoolWritesWholeFrame` | `WholeFrameWritten` |
| `PoolRetiresIdle` | `RetiredPoolIsIdle` |

None of the four safety properties is inductive. `SlotInv` ties what has been
constructed to the count that the unwinding code would use; `ThreadInv` says
that a living thread is still marked started and below that count, which is what
keeps a destroy from releasing under it; `StartInv` gives the lazy flags their
meaning at each place, above all that a pool in use is partitioned over the
workers that came up; `FrameInv` says that a worker of the partition owes its
part or has written it.

### UsmStripes

`UsmStripesProofs`, from `UsmAssumption`, for planes of any height and every
interleaving of the workers' sweeps: `PassSharpensFrame` (`FrameSharpened`) and
`PassStripesHighEnough` (`StripesHighEnough`). The boundaries are monotone and
meet (`StripesDisjoint`, `StripesCover`). `StripeInv` says, for every place of a
worker, which of its rows are sharp and which are still as they were and what
its three buffers hold. The one hazardous step, a worker that reads the row next
to its stripe, is the lemma `SourceRow`: that row comes from the halo copied
before the dispatch.

### AutoUpscale

`AutoUpscaleProofs`, from `WindowAssumption` (a window of at least `MinFrames`),
`SourceAssumption` (a crop has pixels and luma is a byte) and `ProbeAssumption` (the
grid divides the blocks), for any sizes and contents of the source and every
sequence of failures:

| Theorem | Property |
|---|---|
| `PicturesOwned` | `PicturesAccounted` |
| `ForwardsWhole` | `ForwardedIsWhole`, which `ImplementsPromise` includes |
| `ContextMatches` | `ContextMatchesBackend` |
| `BrokenDropped` | `BrokenPoolDropped` |
| `GrainySpared` | `GrainyNotSharpened` |
| `VerdictsFollow` | `VerdictFromWindow` |
| `Refinement` | `ImplementsPromise` |
| `TypeCorrect` | `TypeOK` |

The first five rest on `IInv`. It says at each point of a call which pictures the filter holds
(`PictureInv`), when the output is whole (`PixelInv`), which backend is open
(`BackendInv`: the fallback is tried once, and zimg is gone when it has been) and
that a broken pool exists only between the pass that broke it and the end of
the same call (`SharpenInv`).

`Refinement` rests on the same invariant. The abstract stage is where the thread is in
Open, a call or Close; the filter scales while a backend is there and sharpens while
all three conditions of `ApplyUsmIfEnabled` hold. Each action then is a step of
`PictureFilter` or does not show: the swap of backends is a step that keeps `scales`
or drops it, because only an instance that has zimg may get swscale; a failed
sharpening pass or a verdict of the probe drops `sharpens`.

`VerdictFromWindow` rests on `ProbeInv`: the accumulator is the tally of the planes
seen, there are fewer of these than the window while the probe is active, and the
verdicts have fallen exactly if the window is full. That the tally decides as the
reference does is four steps, each about sums over finite sets, whose facts (the
order does not matter, nor do other names for the terms, nor summing class by
class) are in `ArithmeticLemmas`:

1. `InteriorByRows`, `BordersByRows`: what a row-by-row sweep with its guards on
   margins adds up is the sum over the interior places, and over the pairs of
   pixels with a block border between them. No border is counted twice, and the
   grid misses none of the rows it should meet, because it divides the blocks.
2. `LapMetrics`, `EdgeMetrics`: so `up_probe_metrics` returns that sum and the
   number of places; `BordersInside`: no pixel outside the crop enters a step.
3. `TallyOfOneMore`, `TotalsAreSums`: the frames' sums add up to the sum over all
   frames and places, and as many samples as frames times places.
4. `MeanFrom`, `VerdictsAre`: the truncated mean exceeds a threshold, or stays below
   one, exactly if the sum does against the product; with no sample no mean is
   taken.

`TypeCorrect` follows from both invariants: the pictures are typed by `PictureInv`,
the accumulator by being a tally.

### PictureGeometry

Also in `AutoUpscaleProofs`, from `GeometryAssumption` (the limits in their order,
an odd `UINT_MAX`, presets within `UP_MAX_DIM`, sizes and offsets as wide as
VLC's), for every format, option and storage:

| Theorem | Property |
|---|---|
| `TargetIsUsable` | `TargetUsable` |
| `ViewsAreSound` | `ViewsSound` |

`GeometryInv` only says that crop, target and view are what the code computes
from this format; the work is in the operators. `CropInside`: an aligned crop
stays within the visible window and is even on every axis where chroma is halved.
`PlanGivesTarget`: what two truncating divisions and two roundings to even leave
of the aspect, and that the checks of the result leave an upscale. `RegionsOk`:
so the region of either side consists of whole chroma groups, and `GroupsWhole`
and `BytesWhole` turn that into the same first pixel and the same number of
samples in every plane. `NegotiatedAccepted` is the other half: for a picture as
allocated no check of `up_picture_view_init` fails, so a filter that engages
does not drop every frame.

### AdaptiveUsm

`AdaptiveUsmProofs`, from `TunerAssumption` (two addresses, a limit of at most 64,
the code's `UP_THREADS_MAX` and the last count its list has, windows of an even
number of samples and at least 4, times above zero), for every limit, window,
recheck interval, machine, steady or not, and table of times:

| Theorem | Property |
|---|---|
| `TypeCorrect` | `TypeOK` |
| `PoolsStayOwned` | `PoolsOwned` |
| `PoolsFollowTuner` | `PoolsMatchTuner` |
| `TrialSpares` | `TrialFailureSpares` |
| `WindowsStayCurrent` | `WindowTimesCurrent` |
| `SearchSettlesWell` | `SettledIsGood` |

`ObservedTuned` shows what a sample can do to the tuner: keep the phase and both
counts, or move along base, trial, confirm, base, where only the last step may
adopt the candidate; the count in use follows from the phase. The rest is about
pools. `OwnerInv` is stronger than `PoolsMatchTuner`: the tuner has a pool only
while a count is on trial, of that count, and at "confirm" one that has run;
otherwise the adopted pool could be none, or of another count. `FrameInv` says
which pool a frame was given and what a failure leaves: a result that ends
sharpening is one of the filter's own pool.

The last two theorems rest on `SteadyInv`, a second invariant on top of the first.
`WindowTimesCurrent` alone is not inductive: to know what a median is, one has to
know where the outlier sits. `Windowful` says that it sorts to an end of the
window; `InsertAdds` and `BelowBounds` describe the sorted insertion by how many
samples come before the new one, `InsertWindowful` shows that the form is kept,
and `MedianWindowful` that neither of the two middle samples is an end. `Searched`
says what the search knows in the middle: the times a trial compares are true,
and no candidate behind the cursor beats the best count by five percent. The
cursor skips only the best count itself (`NextCountSkipsNone`, which needs the
limit to be at most the last entry of the list), so settling, or having nothing
left to try, means that all are behind it. A new best keeps the relation to those
tried before, since it is faster than the old best.

### ZimgBackend

`ZimgBackendProofs`, from `GridAssumption` and `BackendAssumption` (sizes are
positive; budget and least extents are any integers), for every size, budget
and sequence of storages: `DirectIo` (`DirectIoSafe`) and `Refinement`
(`ImplementsBackend`, the safety part of `ScalerBackend`). `InstanceInv` says that
the plan is sound, which rests on what the searches may answer (`SplitBounds`,
`GridBounds`, `ResolvedSound`, `PlanForSound`: between one cell and the budget,
and no columns with direct writes where that is not allowed); `WorkersInv` that
a worker of a dispatch sees this call's pictures, in the modes its graph was
built with; `FrameInv` what each cell of the output may hold. Each action then
maps to a step of `ScalerBackend` or to a stutter.

### ZimgPlan

`ZimgPlanProofs`, from `GridAssumption`, `ThreadsAssumption`, `LimitsAgree` (which
`scaler_zimg.c` asserts) and `PlanAssumption` (positive extents, an even target,
positive least extents), for every size, option and affinity mask:

| Theorem | Property |
|---|---|
| `CellsPartition` | `GridPartitions` |
| `SearchIsComplete` | `GridMaximal` |
| `WorkersArePinned` | `WorkersHaveCpus` |

The invariant only ties the plan to its request, the request to the sizes `Open`
allows, and the budget to the machine; the work is in the lemmas about the
operators. `DstBounds` and `SrcBounds`: boundaries are even and grow. `Cut`:
boundaries in strict order, which is what the check for degenerate stripes
leaves, cut an extent into parts; `PlaneParts`: also after the halving for chroma,
by rows (both ends shifted) and by columns (a start and a rounded-up width), which
agree because inner boundaries are even. `ColsLargest` and `GridLargest`: the
search, which looks at one number of columns for each number of rows, misses no
better grid. `RankTaken`: the k-th CPU of a mask exists, so pins are
distinct.

### Model-checked only

The liveness properties (`DispatchReturns`, `StopTerminates`, `NoLostWakeup`,
`KeepsAdapting`, `DriftFailsOver`): liveness under fairness is out of the prover's
reach. Every safety property that a run checks is proved.

Recursive definitions are not out of reach as such: a sum over a finite set is
defined by a recursion on the set, and its facts are proved by a least
counterexample (`FiniteSetInduction` states the set of good parts as a set, not as
a predicate).

## 5. Not modelled

* Pixel arithmetic of USM beyond which rows are read and written: the result is
  a matter of values, not of order, and the unit tests compare it to a reference.
* libswscale, zimg and VLC: external; their results are free choices.
* swscale's own checks of a frame: its view is the one of `PictureGeometry`, its
  results are those `AutoUpscale` allows.
* The order of chroma planes and RGB bytes, the list of opaque chromas: tables.
* Byte counts of allocations, `size_t` overflow guards, the 64-bit width of the
  probe's sums (60 frames of the largest picture stay far below it).
* SIMD variants, CPU gate, option table: no state after loading.
* Weak memory, undetected hardware failures, allocation inside VLC.

## 6. Plan

Done, in this order, the most consequential behaviour first: `FrameBarrier`
and `PoolGate` with proofs; `WorkerPool`; `AutoUpscale`; `AdaptiveUsm`; `ZimgGrid`,
`ThreadPolicy`, `ZimgPlan`; `ScalerBackend` and `ZimgBackend`; `UsmStripes`;
`PictureGeometry`; `ContentProbe` inside `AutoUpscale`.

Proved: all modules of behaviour (`PoolGate`, `WorkerPool`, `UsmStripes`,
`AutoUpscale`, `PictureGeometry`, `AdaptiveUsm`, `ZimgBackend`, `ZimgPlan`).

Abstract specifications, each implemented by the module beside it: `FrameBarrier`
(`PoolGate`), `ScalerBackend` (`ZimgBackend`), `PictureFilter` (`AutoUpscale`).
