------------------------------ MODULE PoolGate ------------------------------
(***************************************************************************)
(* pool_gate.h, driven the way worker_pool.h drives it: one dispatching    *)
(* thread (VLC's video output), the worker threads, two mutexes, two       *)
(* condition variables, the atomic counter `pending' and the atomic flag   *)
(* `sync_failed'.  One action is one synchronisation operation, or the     *)
(* accesses made under a mutex up to the next one.                         *)
(*                                                                         *)
(* Every pthread call whose return code the code tests may fail, at most   *)
(* MaxFaults times in a behaviour; a condition wait may return             *)
(* spuriously, at most MaxSpurious times; the completion wait may time out *)
(* at any moment.  A mutex is released even when unlock reports an error.  *)
(***************************************************************************)
EXTENDS Integers, FiniteSets

CONSTANTS
  Workers,      \* threads that came up when the pool started
  Main,         \* the dispatching thread, as an owner of a mutex
  NoOne,        \* the owner of a free mutex
  MaxFrames,    \* bound: dispatches in a behaviour
  MaxFaults,    \* bound: pthread calls that fail
  MaxSpurious   \* bound: spurious wakeups

ASSUME PoolAssumption ==
  /\ IsFiniteSet(Workers)
  /\ Workers # {}
  /\ Main \notin Workers
  /\ NoOne \notin Workers \cup {Main}
  /\ {MaxFrames, MaxFaults, MaxSpurious} \subseteq Nat

VARIABLES
  lock,        \* owner of g->lock
  generation,  \* g->generation
  exitReq,     \* g->exit_requested
  doneLock,    \* owner of g->done_lock
  pending,     \* g->pending
  syncFailed,  \* g->sync_failed
  wpc,         \* where each worker thread is
  seen,        \* t->seen_gen of each worker
  dst,         \* frame whose pixels the worker's part of the picture holds
  mpc,         \* where the dispatching thread is
  broken,      \* p->broken
  closing,     \* the owner has called up_worker_pool_destroy
  job,         \* frame the per-frame state (source, destination) is set for
  started,     \* workers whose thread record says `started'
  toJoin,      \* workers the join loop of stop() has yet to visit
  cancelled,   \* workers with a pending pthread_cancel
  faults,      \* pthread calls that have failed
  spurious     \* spurious wakeups so far

gateVars   == <<lock, generation, exitReq>>
doneVars   == <<doneLock, pending, syncFailed>>
poolVars   == <<broken, closing, job, started, toJoin, cancelled>>
budgetVars == <<faults, spurious>>
vars == <<gateVars, doneVars, wpc, seen, dst, mpc, poolVars, budgetVars>>

WorkerPCs == {"boot", "lock", "check", "sleep", "waiting", "relock", "run",
              "done", "notify", "signal", "report", "reportSignal", "gone"}

MainPCs == {"idle", "gateLock", "arm", "broadcast", "waitAll", "doneLock",
            "doneCheck", "doneSleep", "doneWait", "doneRelock", "timedOut",
            "recheck", "exitLock", "exitBroadcast", "join", "freed",
            "quarantined"}

TypeOK ==
  /\ lock \in Workers \cup {Main, NoOne}
  /\ generation \in Nat
  /\ exitReq \in BOOLEAN
  /\ doneLock \in Workers \cup {Main, NoOne}
  /\ pending \in 0..Cardinality(Workers)
  /\ syncFailed \in BOOLEAN
  /\ wpc \in [Workers -> WorkerPCs]
  /\ seen \in [Workers -> Nat]
  /\ dst \in [Workers -> Nat]
  /\ mpc \in MainPCs
  /\ broken \in BOOLEAN
  /\ closing \in BOOLEAN
  /\ job \in Nat
  /\ started \in SUBSET Workers
  /\ toJoin \in SUBSET Workers
  /\ cancelled \in SUBSET Workers
  /\ faults \in Nat
  /\ spurious \in Nat

Init ==
  /\ lock = NoOne
  /\ generation = 0
  /\ exitReq = FALSE
  /\ doneLock = NoOne
  /\ pending = 0
  /\ syncFailed = FALSE
  /\ wpc = [w \in Workers |-> "boot"]
  /\ seen = [w \in Workers |-> 0]
  /\ dst = [w \in Workers |-> 0]
  /\ mpc = "idle"
  /\ broken = FALSE
  /\ closing = FALSE
  /\ job = 0
  /\ started = Workers
  /\ toJoin = {}
  /\ cancelled = {}
  /\ faults = 0
  /\ spurious = 0

-----------------------------------------------------------------------------
(* Vocabulary shared by the two sides.                                     *)

Fault == faults < MaxFaults /\ faults' = faults + 1 /\ UNCHANGED spurious

Spurious == spurious < MaxSpurious /\ spurious' = spurious + 1 /\ UNCHANGED faults

Step(w, from, to) == wpc[w] = from /\ wpc' = [wpc EXCEPT ![w] = to]

MainGoes(from, to) == mpc = from /\ mpc' = to

\* Every thread asleep on g->cv stops waiting and queues for the mutex.
WakeAll ==
  wpc' = [w \in Workers |-> IF wpc[w] = "waiting" THEN "relock" ELSE wpc[w]]

\* The dispatching thread, if asleep on g->done_cv, queues for the mutex.
WakeMain == mpc' = IF mpc = "doneWait" THEN "doneRelock" ELSE mpc

\* The owner of a mutex once t has let go of it, if t held it.
Without(owner, t) == IF owner = t THEN NoOne ELSE owner

-----------------------------------------------------------------------------
(* A worker thread: up__pool_worker_main and the worker side of the gate.  *)

Boot(w) ==
  /\ Step(w, "boot", "lock")
  /\ UNCHANGED <<gateVars, doneVars, seen, dst, mpc, poolVars, budgetVars>>

\* A thread that was woken before a cancellation arrived may still return
\* from the wait normally: it locks again like any other.
Lock(w) ==
  /\ \/ Step(w, "lock", "check")
     \/ Step(w, "relock", "check")
  /\ lock = NoOne
  /\ lock' = w
  /\ UNCHANGED <<generation, exitReq, doneVars, seen, dst, mpc, poolVars, budgetVars>>

\* The predicate of up__pool_gate_wait_locked.
MustWait(w) == generation = seen[w] /\ ~exitReq

CheckWait(w) ==
  /\ Step(w, "check", "sleep")
  /\ MustWait(w)
  /\ UNCHANGED <<gateVars, doneVars, seen, dst, mpc, poolVars, budgetVars>>

CheckGoExitFirst(w) ==  \* MUTANT of CheckGo: the exit request wins
  /\ Step(w, "check", IF exitReq THEN "gone" ELSE "run")
  /\ ~MustWait(w)
  /\ seen' = [seen EXCEPT ![w] = generation]
  /\ lock' = NoOne
  /\ UNCHANGED <<generation, exitReq, doneVars, dst, mpc, poolVars, budgetVars>>

CheckGoForgetsSeen(w) ==  \* MUTANT of CheckGo: seen_gen is not advanced
  /\ Step(w, "check", IF generation # seen[w] THEN "run" ELSE "gone")
  /\ ~MustWait(w)
  /\ lock' = NoOne
  /\ UNCHANGED <<generation, exitReq, doneVars, seen, dst, mpc, poolVars, budgetVars>>

\* An unseen generation is run, whether or not exit was requested; with
\* none, the thread leaves.
CheckGo(w) ==
  /\ Step(w, "check", IF generation # seen[w] THEN "run" ELSE "gone")
  /\ ~MustWait(w)
  /\ seen' = [seen EXCEPT ![w] = generation]
  /\ lock' = NoOne
  /\ UNCHANGED <<generation, exitReq, doneVars, dst, mpc, poolVars, budgetVars>>

\* The thread cannot change its cancellation state, lock the gate or wait:
\* it reports that, with the gate mutex held if it had it, and leaves.
GateFails(w) ==
  /\ \E here \in {"boot", "lock", "check", "sleep"} : Step(w, here, "report")
  /\ Fault
  /\ syncFailed' = TRUE
  /\ UNCHANGED <<gateVars, doneLock, pending, seen, dst, mpc, poolVars>>

\* Unlock reports an error after the decision: the generation is marked seen
\* and never run.
UnlockFails(w) ==
  /\ Step(w, "check", "report")
  /\ ~MustWait(w)
  /\ Fault
  /\ syncFailed' = TRUE
  /\ seen' = [seen EXCEPT ![w] = generation]
  /\ lock' = NoOne
  /\ UNCHANGED <<generation, exitReq, doneLock, pending, dst, mpc, poolVars>>

Sleep(w) ==
  /\ Step(w, "sleep", "waiting")
  /\ w \notin cancelled
  /\ lock' = NoOne
  /\ UNCHANGED <<generation, exitReq, doneVars, seen, dst, mpc, poolVars, budgetVars>>

SpuriousWake(w) ==
  /\ Step(w, "waiting", "relock")
  /\ Spurious
  /\ UNCHANGED <<gateVars, doneVars, seen, dst, mpc, poolVars>>

CancelWake(w) ==
  /\ Step(w, "waiting", "relock")
  /\ w \in cancelled
  /\ UNCHANGED <<gateVars, doneVars, seen, dst, mpc, poolVars, budgetVars>>

CancelExitKeepsLock(w) ==  \* MUTANT of CancelExit: no cleanup handler
  /\ w \in cancelled
  /\ Step(w, "sleep", "gone") \/ (Step(w, "relock", "gone") /\ lock = NoOne)
  /\ lock' = w
  /\ UNCHANGED <<generation, exitReq, doneVars, seen, dst, mpc, poolVars, budgetVars>>

\* Cancellation acts inside pthread_cond_wait with the mutex held: the
\* cleanup handler releases it and the thread is gone.
CancelExit(w) ==
  /\ w \in cancelled
  /\ Step(w, "sleep", "gone") \/ (Step(w, "relock", "gone") /\ lock = NoOne)
  /\ lock' = NoOne
  /\ UNCHANGED <<generation, exitReq, doneVars, seen, dst, mpc, poolVars, budgetVars>>

\* The owner callback ends: the worker's part of the picture holds the frame
\* the per-frame state is set for.
Run(w) ==
  /\ Step(w, "run", "done")
  /\ dst' = [dst EXCEPT ![w] = job]
  /\ UNCHANGED <<gateVars, doneVars, seen, mpc, poolVars, budgetVars>>

\* atomic_fetch_sub: only the thread that takes `pending' to zero notifies.
WorkerDone(w) ==
  /\ Step(w, "done", IF pending = 1 THEN "notify" ELSE "lock")
  /\ pending' = pending - 1
  /\ UNCHANGED <<gateVars, doneLock, syncFailed, seen, dst, mpc, poolVars, budgetVars>>

NotifyWithoutLock(w) ==  \* MUTANT of NotifyLock: signals without done_lock
  /\ Step(w, "notify", "lock")
  /\ WakeMain
  /\ UNCHANGED <<gateVars, doneVars, seen, dst, poolVars, budgetVars>>

\* up__pool_gate_notify_done, for a finished dispatch or a failed thread.
NotifyLock(w) ==
  /\ Step(w, "notify", "signal") \/ Step(w, "report", "reportSignal")
  /\ doneLock = NoOne
  /\ doneLock' = w
  /\ UNCHANGED <<gateVars, pending, syncFailed, seen, dst, mpc, poolVars, budgetVars>>

Signal(w) ==
  /\ Step(w, "signal", "lock")
  /\ WakeMain
  /\ doneLock' = NoOne
  /\ UNCHANGED <<gateVars, pending, syncFailed, seen, dst, poolVars, budgetVars>>

\* The last finisher cannot lock, or its signal wakes no one, or the unlock
\* after a signal that did wake reports an error.
NotifyFails(w) ==
  /\ \/ Step(w, "notify", "lock") /\ UNCHANGED mpc
     \/ Step(w, "signal", "lock") /\ (WakeMain \/ UNCHANGED mpc)
  /\ Fault
  /\ doneLock' = Without(doneLock, w)
  /\ syncFailed' = TRUE
  /\ UNCHANGED <<gateVars, pending, seen, dst, poolVars>>

\* The signal of up__pool_gate_report_worker_failure.  A thread that still
\* holds the gate mutex releases it only now.
ReportSignal(w) ==
  /\ Step(w, "reportSignal", "gone")
  /\ WakeMain
  /\ doneLock' = NoOne
  /\ lock' = Without(lock, w)
  /\ UNCHANGED <<generation, exitReq, pending, syncFailed, seen, dst, poolVars, budgetVars>>

ReportFails(w) ==
  /\ Step(w, "report", "gone") \/ Step(w, "reportSignal", "gone")
  /\ Fault
  /\ doneLock' = Without(doneLock, w)
  /\ lock' = Without(lock, w)
  /\ UNCHANGED <<generation, exitReq, pending, syncFailed, seen, dst, mpc, poolVars>>

-----------------------------------------------------------------------------
(* The dispatching thread: up_worker_pool_dispatch.                        *)

\* up_worker_pool_poison: mark the pool broken and stop it.
Poison ==
  /\ broken' = TRUE
  /\ mpc' = "exitLock"
  /\ UNCHANGED <<closing, job, started, toJoin, cancelled>>

\* The owner sets the per-frame state and dispatches.  Owners refuse a broken
\* pool, and nothing is dispatched after the close.
Dispatch ==
  /\ MainGoes("idle", "gateLock")
  /\ ~broken
  /\ generation < MaxFrames
  /\ job' = job + 1
  /\ UNCHANGED <<gateVars, doneVars, wpc, seen, dst, broken, closing, started, toJoin,
                 cancelled, budgetVars>>

GateLock ==
  /\ MainGoes("gateLock", "arm")
  /\ lock = NoOne
  /\ lock' = Main
  /\ UNCHANGED <<generation, exitReq, doneVars, wpc, seen, dst, poolVars, budgetVars>>

ArmOneShort ==  \* MUTANT of Arm: one worker is not counted
  /\ MainGoes("arm", "broadcast")
  /\ pending' = Cardinality(Workers) - 1
  /\ generation' = generation + 1
  /\ UNCHANGED <<lock, exitReq, doneLock, syncFailed, wpc, seen, dst, poolVars, budgetVars>>

Arm ==
  /\ MainGoes("arm", "broadcast")
  /\ pending' = Cardinality(Workers)
  /\ generation' = generation + 1
  /\ UNCHANGED <<lock, exitReq, doneLock, syncFailed, wpc, seen, dst, poolVars, budgetVars>>

Broadcast ==
  /\ MainGoes("broadcast", "waitAll")
  /\ WakeAll
  /\ lock' = NoOne
  /\ UNCHANGED <<generation, exitReq, doneVars, seen, dst, poolVars, budgetVars>>

\* The broadcast fails and wakes no one, or the unlock reports an error.
BroadcastFails ==
  /\ mpc = "broadcast"
  /\ Fault
  /\ WakeAll \/ UNCHANGED wpc
  /\ lock' = NoOne
  /\ syncFailed' = TRUE
  /\ Poison
  /\ UNCHANGED <<generation, exitReq, doneLock, pending, seen, dst>>

\* up_pool_gate_wait_all: fail at once if a thread has reported a failure.
WaitAll ==
  /\ mpc = "waitAll"
  /\ IF syncFailed THEN Poison ELSE mpc' = "doneLock" /\ UNCHANGED poolVars
  /\ UNCHANGED <<gateVars, doneVars, wpc, seen, dst, budgetVars>>

DoneLock ==
  /\ MainGoes("doneLock", "doneCheck") \/ MainGoes("doneRelock", "doneCheck")
  /\ doneLock = NoOne
  /\ doneLock' = Main
  /\ UNCHANGED <<gateVars, pending, syncFailed, wpc, seen, dst, poolVars, budgetVars>>

\* One round of the loop of up__pool_gate_wait_done_locked.
DoneCheck ==
  /\ mpc = "doneCheck"
  /\ \/ syncFailed /\ Poison /\ doneLock' = NoOne
     \/ ~syncFailed /\ pending = 0 /\ mpc' = "recheck" /\ doneLock' = NoOne /\ UNCHANGED poolVars
     \/ ~syncFailed /\ pending # 0 /\ mpc' = "doneSleep" /\ UNCHANGED <<doneLock, poolVars>>
  /\ UNCHANGED <<gateVars, pending, syncFailed, wpc, seen, dst, budgetVars>>

DoneSleep ==
  /\ MainGoes("doneSleep", "doneWait")
  /\ doneLock' = NoOne
  /\ UNCHANGED <<gateVars, pending, syncFailed, wpc, seen, dst, poolVars, budgetVars>>

DoneSpuriousWake ==
  /\ MainGoes("doneWait", "doneRelock")
  /\ Spurious
  /\ UNCHANGED <<gateVars, doneVars, wpc, seen, dst, poolVars>>

Timeout ==
  /\ MainGoes("doneWait", "timedOut")
  /\ UNCHANGED <<gateVars, doneVars, wpc, seen, dst, poolVars, budgetVars>>

TimedOutGivesUp ==  \* MUTANT of TimedOut: no final look at `pending'
  /\ mpc = "timedOut"
  /\ doneLock = NoOne
  /\ Poison
  /\ UNCHANGED <<gateVars, doneVars, wpc, seen, dst, budgetVars>>

\* CONC-3: the wait returns ETIMEDOUT with the mutex held again, and the
\* predicate is tested one last time.
TimedOut ==
  /\ mpc = "timedOut"
  /\ doneLock = NoOne
  /\ IF pending = 0 THEN mpc' = "recheck" /\ UNCHANGED poolVars ELSE Poison
  /\ UNCHANGED <<gateVars, doneVars, wpc, seen, dst, budgetVars>>

\* The final loads of up_pool_gate_wait_all, after the mutex is released.
Recheck ==
  /\ mpc = "recheck"
  /\ IF pending # 0 \/ syncFailed THEN Poison ELSE mpc' = "idle" /\ UNCHANGED poolVars
  /\ UNCHANGED <<gateVars, doneVars, wpc, seen, dst, budgetVars>>

\* A mutex operation, the clock or the timed wait itself fails in dispatch.
DispatchFails ==
  /\ mpc \in {"gateLock", "waitAll", "doneLock", "doneSleep", "recheck"}
  /\ Fault
  /\ Poison
  /\ doneLock' = Without(doneLock, Main)
  /\ UNCHANGED <<gateVars, pending, syncFailed, wpc, seen, dst>>

-----------------------------------------------------------------------------
(* up_worker_pool_stop, called by poison and by destroy.                   *)

\* The owner destroys the pool between two frames.
Close ==
  /\ MainGoes("idle", "exitLock")
  /\ closing' = TRUE
  /\ UNCHANGED <<gateVars, doneVars, wpc, seen, dst, broken, job, started, toJoin,
                 cancelled, budgetVars>>

ExitLockBumpsGeneration ==  \* MUTANT of ExitLock: exit looks like a dispatch
  /\ MainGoes("exitLock", "exitBroadcast")
  /\ lock = NoOne
  /\ lock' = Main
  /\ exitReq' = TRUE
  /\ generation' = generation + 1
  /\ UNCHANGED <<doneVars, wpc, seen, dst, poolVars, budgetVars>>

\* up_pool_gate_request_exit: the generation does not advance.
ExitLock ==
  /\ MainGoes("exitLock", "exitBroadcast")
  /\ lock = NoOne
  /\ lock' = Main
  /\ exitReq' = TRUE
  /\ UNCHANGED <<generation, doneVars, wpc, seen, dst, poolVars, budgetVars>>

ExitBroadcast ==
  /\ MainGoes("exitBroadcast", "join")
  /\ WakeAll
  /\ lock' = NoOne
  /\ toJoin' = started
  /\ UNCHANGED <<generation, exitReq, doneVars, seen, dst, broken, closing, job,
                 started, cancelled, budgetVars>>

ExitFailsWithoutCancel ==  \* MUTANT of ExitFails: no independent way to stop
  /\ mpc \in {"exitLock", "exitBroadcast"}
  /\ Fault
  /\ mpc' = "join"
  /\ lock' = Without(lock, Main)
  /\ syncFailed' = TRUE
  /\ broken' = TRUE
  /\ toJoin' = started
  /\ UNCHANGED <<generation, exitReq, doneLock, pending, wpc, seen, dst, closing, job,
                 started, cancelled>>

\* The gate cannot be locked, or the broadcast wakes no one, or the unlock
\* after one that did reports an error: every started thread is cancelled.
ExitFails ==
  /\ mpc \in {"exitLock", "exitBroadcast"}
  /\ Fault
  /\ UNCHANGED wpc \/ (mpc = "exitBroadcast" /\ WakeAll)
  /\ mpc' = "join"
  /\ lock' = Without(lock, Main)
  /\ syncFailed' = TRUE
  /\ broken' = TRUE
  /\ toJoin' = started
  /\ cancelled' = cancelled \cup started
  /\ UNCHANGED <<generation, exitReq, doneLock, pending, seen, dst, closing, job, started>>

JoinWithoutWaiting(w) ==  \* MUTANT of Join: the thread is not waited for
  /\ mpc = "join"
  /\ w \in toJoin
  /\ toJoin' = toJoin \ {w}
  /\ started' = started \ {w}
  /\ UNCHANGED <<gateVars, doneVars, wpc, seen, dst, mpc, broken, closing, job,
                 cancelled, budgetVars>>

\* pthread_join returns once the thread has ended.  The code visits threads
\* in index order; the order changes nothing that the properties observe.
Join(w) ==
  /\ mpc = "join"
  /\ w \in toJoin
  /\ wpc[w] = "gone"
  /\ toJoin' = toJoin \ {w}
  /\ started' = started \ {w}
  /\ UNCHANGED <<gateVars, doneVars, wpc, seen, dst, mpc, broken, closing, job,
                 cancelled, budgetVars>>

\* pthread_join fails: the thread record stays `started'.
JoinFails(w) ==
  /\ mpc = "join"
  /\ w \in toJoin
  /\ Fault
  /\ toJoin' = toJoin \ {w}
  /\ broken' = TRUE
  /\ UNCHANGED <<gateVars, doneVars, wpc, seen, dst, mpc, closing, job, started, cancelled>>

StopReturnsFreesAnyway ==  \* MUTANT of StopReturns: destroy ignores the result
  /\ MainGoes("join", IF closing THEN "freed" ELSE "idle")
  /\ toJoin = {}
  /\ UNCHANGED <<gateVars, doneVars, wpc, seen, dst, poolVars, budgetVars>>

\* poison ignores stop's result and the dispatch returns -1; destroy frees
\* the gate and the thread records only if every thread was reaped.
StopReturns ==
  /\ MainGoes("join", CASE ~closing                   -> "idle"
                        [] closing /\ started = {}    -> "freed"
                        [] closing /\ started # {}    -> "quarantined")
  /\ toJoin = {}
  /\ UNCHANGED <<gateVars, doneVars, wpc, seen, dst, poolVars, budgetVars>>

\* After destroy the dispatching thread is done with this pool.
Closed == mpc \in {"freed", "quarantined"} /\ UNCHANGED vars

-----------------------------------------------------------------------------
WorkerStep(w) ==
  \/ Boot(w) \/ Lock(w) \/ CheckWait(w) \/ CheckGo(w) \/ Sleep(w)
  \/ CancelWake(w) \/ CancelExit(w)
  \/ Run(w) \/ WorkerDone(w) \/ NotifyLock(w) \/ Signal(w) \/ ReportSignal(w)

WorkerFault(w) ==
  \/ GateFails(w) \/ UnlockFails(w) \/ SpuriousWake(w)
  \/ NotifyFails(w) \/ ReportFails(w)

\* What the dispatching thread does once it is inside dispatch or stop.
MainStep ==
  \/ GateLock \/ Arm \/ Broadcast \/ WaitAll
  \/ DoneLock \/ DoneCheck \/ DoneSleep \/ TimedOut \/ Recheck
  \/ ExitLock \/ ExitBroadcast \/ (\E w \in Workers : Join(w)) \/ StopReturns

MainFault ==
  \/ DispatchFails \/ BroadcastFails \/ DoneSpuriousWake \/ ExitFails
  \/ (\E w \in Workers : JoinFails(w))

Next ==
  \/ \E w \in Workers : WorkerStep(w) \/ WorkerFault(w)
  \/ MainStep \/ MainFault \/ Timeout
  \/ Dispatch \/ Close
  \/ Closed

Spec == Init /\ [][Next]_vars

\* Threads are scheduled, callbacks return and mutexes are handed over.  Since
\* faults, spurious wakeups and dispatches are bounded, no mutex is taken
\* infinitely often, and weak fairness is enough.
Scheduling == WF_vars(MainStep) /\ \A w \in Workers : WF_vars(WorkerStep(w))

FairSpec == Spec /\ Scheduling /\ WF_vars(Timeout)

\* Nobody may count on the timer: the completion wait can last for ever.
UntimedSpec == Spec /\ Scheduling

-----------------------------------------------------------------------------
(* Properties.                                                             *)

\* Workers that have not yet decremented `pending' for the current generation.
Owing == {w \in Workers : dst[w] # generation \/ wpc[w] = "done"}

\* `pending' is at every moment the number of workers that still owe their
\* decrement for the current generation (up_pool_gate_arm_locked and
\* up_pool_gate_worker_done), whatever calls failed and whichever threads
\* left early: this is what entitles the caller to read "zero" as "written".
PendingCountsOwing == pending = Cardinality(Owing)

\* When up_worker_pool_dispatch has returned 0, every worker has written its
\* part of exactly this frame and none is still inside its callback: the
\* picture can be forwarded.  (pool_gate.h, CONC-1.)
PublishedFrameComplete ==
  mpc = "idle" /\ ~broken =>
    \A w \in Workers : dst[w] = job /\ wpc[w] # "run"

\* A callback only ever runs for a generation its worker has not run yet, and
\* on the per-frame state set for that very generation: neither a late
\* wakeup, nor teardown, makes a worker run stale state again.
NoStaleRun ==
  \A w \in Workers : wpc[w] = "run" => job = generation /\ dst[w] < generation

\* Storage is released (up_worker_pool_destroy goes past stop) only when no
\* thread can touch the gate, its thread record or its slot any more.
FreedMeansGone == mpc = "freed" => \A w \in Workers : wpc[w] = "gone"

\* "An unseen dispatch is completed before exit": a thread that was reaped
\* without any pthread failure has run every generation that was armed, even
\* when the exit was requested first.  (up_pool_gate_wait_for_go.)
ReapedFinishedFrame ==
  faults = 0 => \A w \in Workers \ started : dst[w] = generation

\* CONC-3: without a pthread failure, a pool is poisoned only by a dispatch
\* that some worker has really not finished; a completion that races the
\* deadline does not retire a healthy pool.
OnlyLatePoisons ==
  [][~broken /\ broken' /\ faults' = 0 => pending # 0]_vars

\* The callback and the caller never have the picture at the same time, seen
\* from the caller of up_worker_pool_dispatch: when it returns, with 0 or with
\* -1, no worker is inside its callback ("threads stopped and joined", and
\* "join waits for an owner callback that was already running").
DispatchReturnsQuiet == mpc = "idle" => \A w \in Workers : wpc[w] # "run"

\* The pool implements the frame barrier: the picture belongs to the caller
\* up to the generation bump, to the workers up to the last load of wait_all
\* or to the last join.
BarrierPhase ==
  CASE mpc \in {"gateLock", "arm"} \/ (mpc = "idle" /\ ~broken) -> "ready"
    [] mpc \in {"exitLock", "exitBroadcast", "join"}            -> "retiring"
    [] mpc \in {"freed", "quarantined"} \/ (mpc = "idle" /\ broken) ->
         IF started = {} THEN "retired" ELSE "leaked"
    [] OTHER                                                    -> "dispatched"

Barrier == INSTANCE FrameBarrier WITH
  phase   <- BarrierPhase,
  frame   <- generation,
  wrote   <- {w \in Workers : dst[w] = generation},
  writing <- {w \in Workers : wpc[w] = "run"}

\* Every step of the gate is a step of FrameBarrier or leaves it unchanged.
ImplementsBarrier == Barrier!Spec

\* A dispatch always returns, whatever fails: a lost completion signal is
\* bounded by the timer, a lost wake by cancellation, and no chain of the two
\* mutexes blocks anyone for ever.
DispatchReturns == mpc = "gateLock" ~> mpc = "idle"

\* Stopping always returns once callbacks do, whether the wake, the gate
\* mutex or a join fails.
StopTerminates == mpc = "exitLock" ~> mpc \in {"idle", "freed", "quarantined"}

\* Without pthread failures the protocol loses no wakeup: a dispatch returns
\* even if the timer never fires.
NoLostWakeup == mpc = "broadcast" ~> mpc = "idle"
=============================================================================
