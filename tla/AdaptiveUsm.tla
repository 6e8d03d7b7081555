---------------------------- MODULE AdaptiveUsm -----------------------------
(***************************************************************************)
(* usm_adaptive.h and worker_tuner.h: the search for the number of workers *)
(* that sharpens a frame fastest, and the two sharpening pools it juggles. *)
(* The tuner is a record that up_worker_tuner_observe maps to the next     *)
(* one; around it, up_usm_adaptive_apply selects a pool for every frame,   *)
(* times it, adopts or drops the trial pool, and recovers from failures.   *)
(*                                                                         *)
(* Time is an integer.  A steady machine takes cost[n] with n workers,     *)
(* but for at most one outlier in a window; on a noisy one a frame may     *)
(* take any time in NoisyTimes.  A median is kept doubled, so it stays an  *)
(* integer; the code's factors become ratios.                              *)
(***************************************************************************)
EXTENDS Integers, Sequences, FiniteSets, FiniteSetsExt

CONSTANTS
  Pools,           \* addresses a pool can be allocated at
  None,            \* the null pointer
  MaxLimit,        \* bound: the largest limit considered
  WindowSamples,   \* UP_TUNER_SAMPLES
  EarlySamples,    \* samples after which a slow trial is given up
  WarmupFrames,    \* UP_TUNER_WARMUP
  RecheckFrames,   \* UP_TUNER_RECHECK_FRAMES
  CooldownFrames,  \* UP_TUNER_COOLDOWN_FRAMES
  Costs,           \* what a frame may take on a steady machine
  Outlier,         \* a frame that was disturbed
  NoisyTimes       \* what a frame may take on a noisy machine

\* The limit is at most UP_THREADS_MAX, the last count the search knows, and the
\* extremes of a window, however short, are not in its middle.
ASSUME TunerAssumption ==
  /\ None \notin Pools
  /\ Cardinality(Pools) >= 2
  /\ MaxLimit \in 0..64
  /\ {WindowSamples, EarlySamples} \subseteq {2 * n : n \in 2..WindowSamples}
  /\ EarlySamples < WindowSamples
  /\ {WarmupFrames, RecheckFrames, CooldownFrames} \subseteq Nat
  /\ Costs # {}
  /\ Costs \cup NoisyTimes \cup {Outlier} \subseteq Nat \ {0}

VARIABLES
  tuner,     \* a->tuner
  pool,      \* what is at each address
  bestPool,  \* the owner's pool, *best
  trial,     \* a->trial
  enabled,   \* a->enabled
  retained,  \* a->retained
  selected,  \* the pool that sharpens this frame
  status,    \* what the last up_usm_pool_apply returned
  pc,        \* where the calling thread is
  noisy,     \* the kind of machine
  cost       \* time of a frame by number of workers, on a steady one

machine  == <<noisy, cost>>
poolVars == <<pool, bestPool, trial>>
vars == <<tuner, poolVars, enabled, retained, selected, status, pc, machine>>

\* usm_pool_t: an allocated pool is asked for a number of workers; once
\* started it has the number that came up.
NoPool   == [health |-> "free", asked |-> 0, workers |-> 0]
NewPool(n) == [health |-> "fresh", asked |-> n, workers |-> n]

Allocated == {p \in Pools : pool[p].health # "free"}

\* a->trial_count is the count the trial pool was created with.
TrialCount == IF trial = None THEN 0 ELSE pool[trial].asked

Phases == {"base", "trial", "confirm", "settled"}

TypeOK ==
  /\ tuner.limit \in 2..MaxLimit
  /\ {tuner.best, tuner.current} \subseteq 1..tuner.limit
  /\ {tuner.candidate, tuner.cursor} \subseteq 0..tuner.limit
  /\ tuner.samples \in Seq(Costs \cup NoisyTimes \cup {Outlier})
  /\ Len(tuner.samples) < WindowSamples
  /\ tuner.warmup \in 0..WarmupFrames
  /\ tuner.remaining \in 0..RecheckFrames
  /\ tuner.drift \in 0..2
  /\ {tuner.base, tuner.trial, tuner.steady} \subseteq Nat
  /\ tuner.phase \in Phases
  /\ pool \in [Pools -> [health: {"free", "fresh", "failed", "running", "broken"},
                         asked: 0..MaxLimit, workers: 0..MaxLimit]]
  /\ {bestPool, trial, selected} \subseteq Pools \cup {None}
  /\ {enabled, retained, noisy} \subseteq BOOLEAN
  /\ status \in {"ok", "failedUnchanged", "outputUncertain"}
  /\ pc \in {"idle", "select", "apply", "recover", "observe", "result", "off"}
  /\ cost \in [1..MaxLimit -> Costs]

\* up_worker_tuner_init for counts that InitUsmPool clamps to the same limits.
TunerInit(initial, limit) ==
  [limit |-> limit, best |-> initial, current |-> initial, candidate |-> 0,
   cursor |-> 0, samples |-> <<>>, warmup |-> WarmupFrames, remaining |-> 0,
   drift |-> 0, base |-> 0, trial |-> 0, steady |-> 0, phase |-> "base"]

\* A limit of one leaves the tuner disabled: there is nothing to search.
Init ==
  /\ \E limit \in 2..MaxLimit : \E initial \in 1..limit : \E p \in Pools :
       /\ tuner = TunerInit(initial, limit)
       /\ pool = [q \in Pools |-> IF q = p THEN NewPool(initial) ELSE NoPool]
       /\ bestPool = p
  /\ trial = None /\ selected = None
  /\ enabled = TRUE /\ retained = FALSE
  /\ status = "ok"
  /\ pc = "idle"
  /\ \/ noisy = FALSE /\ cost \in [1..MaxLimit -> Costs]
     \/ noisy = TRUE /\ cost = [n \in 1..MaxLimit |-> Min(Costs)]

-----------------------------------------------------------------------------
(* The tuner.                                                              *)

Counts == {1, 2, 4, 8, 12, 16, 24, 32, 48, 64}

NextCountUnlimited(previous, limit) ==  \* MUTANT of NextCount: not cut off at the limit
  LET later == {c \in Counts : c > previous}
  IN  IF previous >= limit \/ later = {} THEN 0 ELSE Min(later)

\* up_tuner_next_count: 0 when the list or the limit is exhausted.
NextCount(previous, limit) ==
  LET later == {c \in Counts : c > previous}
  IN  IF previous >= limit \/ later = {} THEN 0 ELSE Min(later \cup {limit})

\* The samples of a window are kept in order, as up_tuner_median sorts them.
Insert(s, x) ==
  LET below == Cardinality({i \in DOMAIN s : s[i] <= x})
  IN  SubSeq(s, 1, below) \o <<x>> \o SubSeq(s, below + 1, Len(s))

\* up_tuner_median of an even number of samples, doubled.
Median(s) == s[Len(s) \div 2] + s[Len(s) \div 2 + 1]

\* up_tuner_settle
Settle(t, elapsed) ==
  [t EXCEPT !.phase = "settled", !.current = t.best, !.steady = elapsed,
            !.remaining = RecheckFrames, !.drift = 0]

BeginTrialEndsAtBest(t, elapsed) ==  \* MUTANT of BeginTrial: the search stops at the best count
  LET cursor == NextCount(t.cursor, t.limit)
  IN  IF cursor \in {0, t.best}
      THEN Settle([t EXCEPT !.cursor = 0], elapsed)
      ELSE [t EXCEPT !.cursor = cursor, !.candidate = cursor, !.current = cursor,
                     !.base = elapsed, !.phase = "trial"]

\* up_tuner_begin_trial: the next count that is not the best one.
BeginTrial(t, elapsed) ==
  LET next   == NextCount(t.cursor, t.limit)
      cursor == IF next = t.best THEN NextCount(next, t.limit) ELSE next
  IN  IF cursor = 0
      THEN Settle([t EXCEPT !.cursor = 0], elapsed)
      ELSE [t EXCEPT !.cursor = cursor, !.candidate = cursor, !.current = cursor,
                     !.base = elapsed, !.phase = "trial"]

ConfirmRestarts(t, elapsed) ==  \* MUTANT of Confirm: a new best starts the search over
  LET wins == 100 * t.trial < 95 * Min({t.base, elapsed})
  IN  [t EXCEPT !.best = IF wins THEN t.candidate ELSE t.best,
                !.current = IF wins THEN t.candidate ELSE t.best,
                !.cursor = IF wins THEN 0 ELSE t.cursor,
                !.phase = "base"]

\* up_tuner_confirm: five percent better than the best both before and after.
Confirm(t, elapsed) ==
  LET best == IF 100 * t.trial < 95 * Min({t.base, elapsed}) THEN t.candidate ELSE t.best
  IN  [t EXCEPT !.best = best, !.current = best, !.phase = "base"]

\* up_tuner_monitor: nothing during the cooldown; then start over when the
\* recheck is due or three windows in a row are off.
Monitor(t, elapsed) ==
  LET shifted == 100 * elapsed > 135 * t.steady \/ 100 * elapsed < 65 * t.steady
      drift   == IF shifted THEN t.drift + 1 ELSE 0
  IN  CASE t.remaining > RecheckFrames - CooldownFrames -> t
        [] t.remaining <= RecheckFrames - CooldownFrames /\ t.remaining > 0 /\ drift < 3 ->
             [t EXCEPT !.drift = drift]
        [] OTHER -> [t EXCEPT !.cursor = 0, !.phase = "base", !.drift = 0]

\* up_tuner_window
Window(t, elapsed) ==
  CASE t.phase = "base"    -> BeginTrial(t, elapsed)
    [] t.phase = "trial"   -> [t EXCEPT !.trial = elapsed, !.current = t.best,
                                        !.phase = "confirm"]
    [] t.phase = "confirm" -> Confirm(t, elapsed)
    [] t.phase = "settled" -> Monitor(t, elapsed)

\* up_tuner_trial_too_slow
TrialTooSlow(t) ==
  /\ t.phase = "trial"
  /\ Len(t.samples) = EarlySamples
  /\ 2 * Median(t.samples) > 3 * t.base

ObservedKeepsSamples(t, elapsed) ==  \* MUTANT of Observed: an early end leaves the samples
  IF t.warmup > 0 THEN [t EXCEPT !.warmup = t.warmup - 1]
  ELSE LET sampled == [t EXCEPT !.remaining = Max({t.remaining - 1, 0}),
                                !.samples = Insert(t.samples, elapsed)]
           next    == Window(sampled, Median(sampled.samples))
       IN  IF Len(sampled.samples) = WindowSamples \/ TrialTooSlow(sampled)
           THEN [next EXCEPT !.samples = IF Len(next.samples) = WindowSamples THEN <<>>
                                         ELSE next.samples,
                             !.warmup = IF next.current # t.current THEN WarmupFrames
                                        ELSE next.warmup]
           ELSE sampled

\* up_worker_tuner_observe for a valid time.  A window ends when it is full or
\* its trial is hopeless; after a change of pool some frames are not counted.
Observed(t, elapsed) ==
  IF t.warmup > 0 THEN [t EXCEPT !.warmup = t.warmup - 1]
  ELSE LET sampled == [t EXCEPT !.remaining = Max({t.remaining - 1, 0}),
                                !.samples = Insert(t.samples, elapsed)]
           next    == Window(sampled, Median(sampled.samples))
       IN  IF Len(sampled.samples) = WindowSamples \/ TrialTooSlow(sampled)
           THEN [next EXCEPT !.samples = <<>>,
                             !.warmup = IF next.current # t.current THEN WarmupFrames
                                        ELSE next.warmup]
           ELSE sampled

-----------------------------------------------------------------------------
(* A frame: up_usm_adaptive_apply.  The start of the frame, which          *)
(* up_usm_adaptive_begin notes, is part of what Elapsed and Untimed allow. *)

\* up_usm_pool_destroy for the pools in S.
Without(S) == [p \in Pools |-> IF p \in S THEN NoPool ELSE pool[p]]

\* up_usm_adaptive_stop
Stop ==
  /\ pool' = Without({trial})
  /\ trial' = None
  /\ enabled' = FALSE

\* The owner has a frame to sharpen.
Frame ==
  /\ pc = "idle"
  /\ retained' = FALSE
  /\ selected' = bestPool
  /\ pc' = IF enabled THEN "select" ELSE "apply"
  /\ UNCHANGED <<tuner, poolVars, enabled, status, machine>>

\* up_usm_adaptive_select: the best pool, or the trial pool that is there.
SelectExisting ==
  /\ pc = "select"
  /\ \/ tuner.current = tuner.best /\ UNCHANGED selected
     \/ tuner.current # tuner.best /\ TrialCount = tuner.current /\ selected' = trial
  /\ pc' = "apply"
  /\ UNCHANGED <<tuner, poolVars, enabled, retained, status, machine>>

\* A trial pool for another count replaces what trial pool there is.  Its
\* descriptor may fail to allocate; the search is over then.
SelectNew ==
  /\ pc = "select"
  /\ tuner.current \notin {tuner.best, TrialCount}
  /\ \/ \E p \in Pools \ (Allocated \ {trial}) :
          /\ pool' = [Without({trial}) EXCEPT ![p] = NewPool(tuner.current)]
          /\ trial' = p
          /\ selected' = p
          /\ UNCHANGED enabled
     \/ Stop /\ UNCHANGED selected
  /\ pc' = "apply"
  /\ UNCHANGED <<tuner, bestPool, retained, status, machine>>

\* up_worker_pool_ensure_started on p: some of the workers, or none, come up.
Started(p) ==
  IF pool[p].health # "fresh" THEN {pool[p]}
  ELSE {[pool[p] EXCEPT !.health = "failed"]} \cup
       {[pool[p] EXCEPT !.health = "running", !.workers = n] : n \in 1..pool[p].asked}

\* up_usm_pool_apply: a pool that did not start or broke before leaves the
\* frame alone; a barrier that fails leaves it uncertain.  A pool of one runs
\* on the caller's thread.
UsmPoolApply(p) ==
  \E q \in Started(p) :
    \/ /\ q.health = "running"
       /\ status' = "ok"
       /\ pool' = [pool EXCEPT ![p] = q]
    \/ /\ q.health = "running" /\ q.asked > 1
       /\ status' = "outputUncertain"
       /\ pool' = [pool EXCEPT ![p] = [q EXCEPT !.health = "broken"]]
    \/ /\ q.health # "running"
       /\ status' = "failedUnchanged"
       /\ pool' = [pool EXCEPT ![p] = q]

Apply ==
  /\ pc = "apply"
  /\ UsmPoolApply(selected)
  /\ pc' = CASE status' # "ok" /\ selected # bestPool -> "recover"
             [] status' = "ok" /\ enabled             -> "observe"
             [] OTHER                                 -> "result"
  /\ UNCHANGED <<tuner, bestPool, trial, enabled, retained, selected, machine>>

RecoverForgets ==  \* MUTANT of Recover: `retained' is not set
  /\ pc = "recover"
  /\ Stop
  /\ IF status = "outputUncertain"
     THEN pc' = "result" /\ UNCHANGED selected
     ELSE pc' = "apply" /\ selected' = bestPool
  /\ UNCHANGED <<tuner, bestPool, retained, status, machine>>

\* up_usm_adaptive_recover: the trial pool failed.  The search is over, and
\* the best pool sharpens the frame if that is still whole.
Recover ==
  /\ pc = "recover"
  /\ Stop
  /\ IF status = "outputUncertain"
     THEN pc' = "result" /\ retained' = TRUE /\ UNCHANGED selected
     ELSE pc' = "apply" /\ selected' = bestPool /\ UNCHANGED retained
  /\ UNCHANGED <<tuner, bestPool, status, machine>>

\* The pool has not the workers it was asked for, or the clock failed.
Untimed ==
  /\ pc = "observe"
  /\ Stop
  /\ pc' = "result"
  /\ UNCHANGED <<tuner, bestPool, retained, selected, status, machine>>

\* What the clock may say of a frame that n workers sharpened.
Elapsed(n) ==
  IF noisy THEN NoisyTimes
  ELSE {cost[n]} \cup ({Outlier} \ {tuner.samples[i] : i \in DOMAIN tuner.samples})

AcceptKeepsTrial(elapsed) ==  \* MUTANT of Accept: the adopted pool stays the trial pool
  /\ tuner' = Observed(tuner, elapsed)
  /\ CASE tuner'.best # tuner.best ->
            pool' = Without({bestPool}) /\ bestPool' = trial /\ UNCHANGED trial
       [] tuner'.best = tuner.best /\ tuner.phase = "confirm" /\ tuner'.phase = "base" ->
            pool' = Without({trial}) /\ trial' = None /\ UNCHANGED bestPool
       [] OTHER -> UNCHANGED poolVars

AcceptTunerOnly(elapsed) ==  \* MUTANT of Accept: the pools are not exchanged
  /\ tuner' = Observed(tuner, elapsed)
  /\ IF tuner.phase = "confirm" /\ tuner'.phase = "base"
     THEN pool' = Without({trial}) /\ trial' = None /\ UNCHANGED bestPool
     ELSE UNCHANGED poolVars

\* up_usm_adaptive_accept: a new best count brings the trial pool with it; a
\* trial that was not confirmed is destroyed.
Accept(elapsed) ==
  /\ tuner' = Observed(tuner, elapsed)
  /\ CASE tuner'.best # tuner.best ->
            pool' = Without({bestPool}) /\ bestPool' = trial /\ trial' = None
       [] tuner'.best = tuner.best /\ tuner.phase = "confirm" /\ tuner'.phase = "base" ->
            pool' = Without({trial}) /\ trial' = None /\ UNCHANGED bestPool
       [] OTHER -> UNCHANGED poolVars

Timed ==
  /\ pc = "observe"
  /\ pool[selected].workers = tuner.current
  /\ \E elapsed \in Elapsed(pool[selected].workers) : Accept(elapsed)
  /\ pc' = "result"
  /\ UNCHANGED <<enabled, retained, selected, status, machine>>

-----------------------------------------------------------------------------
(* The owner.                                                              *)

\* DisableUsm: the tuner stops and both pools are destroyed.
DisableUsm ==
  /\ pool' = Without({trial, bestPool})
  /\ trial' = None /\ bestPool' = None
  /\ enabled' = FALSE
  /\ pc' = "off"

\* The tail of ApplyUsmIfEnabled: a failure that is not the trial pool's ends
\* sharpening.
Result ==
  /\ pc = "result"
  /\ IF status = "ok" \/ retained THEN pc' = "idle" /\ UNCHANGED <<poolVars, enabled>>
                                  ELSE DisableUsm
  /\ UNCHANGED <<tuner, retained, selected, status, machine>>

\* The probe found the source grainy, or the filter closes.
SwitchOff ==
  /\ pc = "idle"
  /\ DisableUsm
  /\ UNCHANGED <<tuner, retained, selected, status, machine>>

Off == pc = "off" /\ UNCHANGED vars

-----------------------------------------------------------------------------
FrameStep ==
  \/ Frame \/ SelectExisting \/ SelectNew \/ Apply \/ Recover
  \/ Untimed \/ Timed \/ Result

Next == FrameStep \/ SwitchOff \/ Off

Spec == Init /\ [][Next]_vars

\* Frames keep coming, and a call of Filter returns.
FairSpec == Spec /\ WF_vars(FrameStep)

-----------------------------------------------------------------------------
(* Properties.                                                             *)

\* Every pool that is allocated has exactly one owner, the filter or the
\* tuner, through every creation, exchange, failure and shutdown: nothing is
\* leaked, and nothing is destroyed through one pointer and used through the
\* other (up_usm_adaptive_accept, up_usm_adaptive_clear_trial).  And between two
\* frames the filter's pool is one that can sharpen the next: a pool that broke
\* or did not start is not kept, whatever failed before.
PoolsOwned ==
  /\ Allocated = {bestPool, trial} \ {None}
  /\ trial # None => trial # bestPool
  /\ pc = "idle" => bestPool # None /\ pool[bestPool].health \in {"fresh", "running"}

\* Tuner and pools agree: as long as the search runs, the filter's pool is one
\* of the best number of workers, whether it was there from the start or was
\* adopted, and the trial pool one of the count on trial.
PoolsMatchTuner ==
  enabled =>
    /\ bestPool # None
    /\ pool[bestPool].asked = tuner.best
    /\ trial # None /\ tuner.phase \in {"trial", "confirm"} /\ pc # "select" =>
         pool[trial].asked = tuner.candidate

\* A window holds times of one pool only, and what is compared at the end of a
\* trial is the best pool before, the candidate, and the best pool after: no
\* sample survives a change of pool, an early end or a return to the search.
WindowTimesCurrent ==
  ~noisy =>
    /\ \A i \in DOMAIN tuner.samples : tuner.samples[i] \in {cost[tuner.current], Outlier}
    /\ tuner.phase \in {"trial", "confirm"} =>
         tuner.base = 2 * cost[tuner.best] /\ tuner.candidate # tuner.best
    /\ tuner.phase = "confirm" => tuner.trial = 2 * cost[tuner.candidate]

\* The counts the search can try.
Candidates == {c \in Counts : c < tuner.limit} \cup {tuner.limit}

\* On a steady machine the search settles on a count that no other candidate
\* beats by five percent, although a frame of each window was disturbed.
\* (test_worker_tuner.c: "nonmonotonic timings, outliers and geometry limits".)
SettledIsGood ==
  ~noisy /\ tuner.phase = "settled" =>
    \A c \in Candidates : 100 * cost[c] >= 95 * cost[tuner.best]

\* The experiment costs at most a frame: sharpening is given up only because
\* the filter's own pool failed, never because a trial pool did.
TrialFailureSpares ==
  [][pc = "result" /\ bestPool' = None =>
       pool[bestPool].health \in {"failed", "broken"}]_vars

\* As long as frames come, a search ends, on a noisy machine too, and a settled
\* tuner searches again after UP_TUNER_RECHECK_FRAMES at the latest.
KeepsAdapting ==
  /\ []<>(tuner.phase = "settled" \/ ~enabled)
  /\ []<>(tuner.phase # "settled" \/ ~enabled)
=============================================================================
