----------------------------- MODULE WorkerPool -----------------------------
(***************************************************************************)
(* worker_pool.h: the life of one pool of workers above the gate, from its *)
(* configuration to its destruction, with the hooks of its two owners: the *)
(* sharpening pool (usm_pool.c: any positive number of workers will do)    *)
(* and the zimg grid (scaler_zimg.c: all or nothing).                      *)
(*                                                                         *)
(* The gate is seen from above, as PoolGate shows it to behave: a dispatch *)
(* makes every worker owe one run; it ends when nobody owes any more, or   *)
(* fails; a thread asked to exit first runs what it owes; a thread whose   *)
(* own pthread calls fail, or which is cancelled, leaves without.  Every   *)
(* allocation, hook and pthread call whose result the code tests may fail. *)
(***************************************************************************)
EXTENDS Integers, FiniteSets

CONSTANTS
  MaxWorkers,  \* UP_THREADS_MAX
  Owners       \* the owners considered, among "usm" and "zimg"

ASSUME WorkerPoolAssumption ==
  /\ MaxWorkers \in Nat \ {0}
  /\ Owners \subseteq {"usm", "zimg"}

VARIABLES
  owner,       \* p->ops: whose hooks are plugged in
  nPref,       \* p->n_pref
  held,        \* storage the pool and its owner hold
  inlineRun,   \* p->inline_run
  slot,        \* what became of each worker slot's payload
  thread,      \* what each slot's thread is doing
  started,     \* threads[i].started
  nWorkers,    \* p->n_workers
  stripes,     \* workers the owner partitioned its plane over, 0 before
  lazyDone,    \* p->lazy_done
  lazyFailed,  \* p->lazy_failed
  broken,      \* p->broken
  exitReq,     \* the gate's exit_requested
  cancelled,   \* threads with a pending pthread_cancel
  syncFailed,  \* the gate's sync_failed
  owes,        \* workers that have not finished the current dispatch
  wrote,       \* workers that have written their part of it
  pc,          \* where the owner's thread is
  why,         \* what called stop: "start", "poison" or "destroy"
  built,       \* slots constructed so far by the start in progress
  toJoin,      \* threads the join loop has yet to visit
  joinFailed,  \* history: a pthread_join has failed
  delivered    \* history: the last dispatch returned 0

configVars == <<owner, nPref>>
startVars  == <<inlineRun, nWorkers, stripes, lazyDone, lazyFailed, built>>
gateVars   == <<exitReq, cancelled, syncFailed, owes, wrote>>
stopVars   == <<started, why, toJoin, joinFailed>>
vars == <<configVars, startVars, gateVars, stopVars, held, slot, thread, broken,
          pc, delivered>>

Slots   == 0..MaxWorkers - 1
Storage == {"scratch", "workers", "threads", "gate"}

AllOrNothing == owner = "zimg"   \* ops.all_or_nothing
HasRelease   == owner = "zimg"   \* ops.release is not NULL

TypeOK ==
  /\ owner \in Owners
  /\ nPref \in 1..MaxWorkers
  /\ held \in SUBSET Storage
  /\ slot \in [Slots -> {"raw", "built", "released", "misused"}]
  /\ thread \in [Slots -> {"none", "parked", "running", "exited"}]
  /\ {started, cancelled, owes, wrote, toJoin} \subseteq SUBSET Slots
  /\ {nWorkers, stripes, built} \subseteq 0..nPref
  /\ {inlineRun, lazyDone, lazyFailed, broken, exitReq, syncFailed, joinFailed,
      delivered} \subseteq BOOLEAN
  /\ pc \in {"idle", "setup", "build", "ready", "wait", "stop", "join",
             "destroyed", "quarantined"}
  /\ why \in {"none", "start", "poison", "destroy"}

\* up_worker_pool_config on zeroed storage.
Init ==
  /\ owner \in Owners
  /\ nPref \in 1..MaxWorkers
  /\ held = {}
  /\ slot = [i \in Slots |-> "raw"]
  /\ thread = [i \in Slots |-> "none"]
  /\ started = {} /\ cancelled = {} /\ owes = {} /\ wrote = {} /\ toJoin = {}
  /\ nWorkers = 0 /\ stripes = 0 /\ built = 0
  /\ inlineRun = FALSE /\ lazyDone = FALSE /\ lazyFailed = FALSE
  /\ broken = FALSE /\ exitReq = FALSE /\ syncFailed = FALSE
  /\ joinFailed = FALSE /\ delivered = FALSE
  /\ pc = "idle"
  /\ why = "none"

-----------------------------------------------------------------------------
(* Start: up_worker_pool_ensure_started and what it calls.                 *)

\* The owner has a frame to process.  Owners refuse a broken pool; a start
\* that failed is not tried again, so nothing happens then.
Frame ==
  /\ pc = "idle"
  /\ ~broken
  /\ ~lazyFailed
  /\ pc' = IF lazyDone THEN "ready" ELSE "setup"
  /\ delivered' = FALSE
  /\ UNCHANGED <<configVars, startVars, gateVars, stopVars, held, slot, thread, broken>>

\* What up__pool_setup acquires, in order; an inline pool needs two of them.
Needed == IF nPref = 1 THEN {"scratch", "workers"} ELSE Storage

SetupFails ==
  /\ pc = "setup"
  /\ \E got \in {{}, {"scratch"}, {"scratch", "workers"}, {"scratch", "workers", "threads"}} :
       got # Needed /\ got \subseteq Needed /\ held' = got
  /\ inlineRun' = FALSE
  /\ lazyFailed' = TRUE
  /\ pc' = "idle"
  /\ UNCHANGED <<configVars, gateVars, stopVars, slot, thread, broken, nWorkers,
                 stripes, lazyDone, built, delivered>>

Setup ==
  /\ pc = "setup"
  /\ held' = Needed
  /\ inlineRun' = (nPref = 1)
  /\ built' = 0
  /\ pc' = "build"
  /\ UNCHANGED <<configVars, gateVars, stopVars, slot, thread, broken, nWorkers,
                 stripes, lazyDone, lazyFailed, delivered>>

\* Calls of ops->release for the slots in S: each must be one that construct
\* accepted and nobody has released since.
Release(S) ==
  slot' = [i \in Slots |-> IF i \notin S \/ ~HasRelease THEN slot[i]
                           ELSE IF slot[i] = "built" THEN "released"
                           ELSE "misused"]

ConstructOneTooMany ==  \* MUTANT of ConstructOne: one slot past the array
  /\ pc = "build"
  /\ built <= nPref
  /\ slot' = [slot EXCEPT ![built] = "built"]
  /\ IF inlineRun
     THEN UNCHANGED <<thread, started>>
     ELSE /\ thread' = [thread EXCEPT ![built] = "parked"]
          /\ started' = started \cup {built}
  /\ built' = built + 1
  /\ UNCHANGED <<configVars, gateVars, held, broken, inlineRun, nWorkers, stripes,
                 lazyDone, lazyFailed, pc, why, toJoin, joinFailed, delivered>>

\* up__pool_construct_one: construct the next slot and create its thread.
ConstructOne ==
  /\ pc = "build"
  /\ built < nPref
  /\ slot' = [slot EXCEPT ![built] = "built"]
  /\ IF inlineRun
     THEN UNCHANGED <<thread, started>>
     ELSE /\ thread' = [thread EXCEPT ![built] = "parked"]
          /\ started' = started \cup {built}
  /\ built' = built + 1
  /\ UNCHANGED <<configVars, gateVars, held, broken, inlineRun, nWorkers, stripes,
                 lazyDone, lazyFailed, pc, why, toJoin, joinFailed, delivered>>

BuildOkPartial(n) == n > 0  \* MUTANT of BuildOk: any number will do

\* up__pool_build_ok
BuildOk(n) == n > 0 /\ (AllOrNothing => n >= nPref)

\* The tail of up_worker_pool_start for a usable pool: publish the count and
\* let the owner repartition over it.
StartDone ==
  /\ BuildOk(built)
  /\ nWorkers' = built
  /\ stripes' = IF owner = "usm" THEN built ELSE stripes
  /\ lazyDone' = TRUE
  /\ pc' = "ready"
  /\ UNCHANGED <<lazyFailed, why, broken>>

\* An unusable pool is retired: its threads are stopped first.
StartRetires ==
  /\ ~BuildOk(built)
  /\ nWorkers' = built
  /\ why' = "start"
  /\ pc' = "stop"
  /\ UNCHANGED <<stripes, lazyDone, lazyFailed, broken>>

\* Every slot came up whole, or the hook refused the next one (having cleaned
\* up after itself), or its thread was not created and it is released here.
BuildEnds ==
  /\ pc = "build"
  /\ \/ UNCHANGED slot
     \/ /\ built < nPref
        /\ ~inlineRun
        /\ slot' = [slot EXCEPT ![built] = IF HasRelease THEN "released" ELSE "built"]
  /\ StartDone \/ StartRetires
  /\ UNCHANGED <<configVars, gateVars, held, thread, inlineRun, built, started,
                 toJoin, joinFailed, delivered>>

-----------------------------------------------------------------------------
(* Dispatch: up_worker_pool_dispatch and up_worker_pool_poison.            *)

\* One worker: no gate and no thread, the slot runs on the caller's thread.
DispatchInline ==
  /\ pc = "ready"
  /\ inlineRun
  /\ wrote' = {0}
  /\ delivered' = TRUE
  /\ pc' = "idle"
  /\ UNCHANGED <<configVars, startVars, stopVars, held, slot, thread, broken,
                 exitReq, cancelled, syncFailed, owes>>

Dispatch ==
  /\ pc = "ready"
  /\ ~inlineRun
  /\ owes' = 0..nWorkers - 1
  /\ wrote' = {}
  /\ pc' = "wait"
  /\ UNCHANGED <<configVars, startVars, stopVars, held, slot, thread, broken,
                 exitReq, cancelled, syncFailed, delivered>>

Delivered ==
  /\ pc = "wait"
  /\ owes = {}
  /\ ~syncFailed
  /\ delivered' = TRUE
  /\ pc' = "idle"
  /\ UNCHANGED <<configVars, startVars, gateVars, stopVars, held, slot, thread, broken>>

PoisonOnlyMarks ==  \* MUTANT of Poison: the threads are left parked
  /\ pc = "wait"
  /\ broken' = TRUE
  /\ why' = "poison"
  /\ pc' = "idle"
  /\ delivered' = FALSE
  /\ UNCHANGED <<configVars, startVars, gateVars, held, slot, thread, started,
                 toJoin, joinFailed>>

\* A failed barrier, before or after it was armed, or an owner that saw a
\* worker report an error after a successful dispatch (the zimg owner only):
\* the pool is poisoned.
Poison ==
  /\ \/ pc = "ready" /\ ~inlineRun
     \/ pc = "wait"
     \/ pc = "idle" /\ lazyDone /\ owner = "zimg" /\ ~broken
  /\ broken' = TRUE
  /\ why' = "poison"
  /\ pc' = "stop"
  /\ delivered' = FALSE
  /\ UNCHANGED <<configVars, startVars, gateVars, held, slot, thread, started,
                 toJoin, joinFailed>>

-----------------------------------------------------------------------------
(* The worker threads, as the gate makes them behave.                      *)

RunBegins(i) ==
  /\ thread[i] = "parked"
  /\ i \in owes
  /\ thread' = [thread EXCEPT ![i] = "running"]
  /\ UNCHANGED <<configVars, startVars, gateVars, stopVars, held, slot, broken, pc, delivered>>

RunEnds(i) ==
  /\ thread[i] = "running"
  /\ thread' = [thread EXCEPT ![i] = "parked"]
  /\ owes' = owes \ {i}
  /\ wrote' = wrote \cup {i}
  /\ UNCHANGED <<configVars, startVars, stopVars, held, slot, broken, exitReq,
                 cancelled, syncFailed, pc, delivered>>

\* A thread leaves once it owes nothing and exit was requested, or at the gate
\* when it was cancelled.
Leave(i) ==
  /\ thread[i] = "parked"
  /\ (exitReq /\ i \notin owes) \/ i \in cancelled
  /\ thread' = [thread EXCEPT ![i] = "exited"]
  /\ UNCHANGED <<configVars, startVars, gateVars, stopVars, held, slot, broken, pc, delivered>>

\* A pthread call of the worker fails: it reports and leaves.
ThreadFails(i) ==
  /\ thread[i] = "parked"
  /\ thread' = [thread EXCEPT ![i] = "exited"]
  /\ syncFailed' = TRUE
  /\ UNCHANGED <<configVars, startVars, stopVars, held, slot, broken, exitReq,
                 cancelled, owes, wrote, pc, delivered>>

-----------------------------------------------------------------------------
(* Stop and destroy.                                                       *)

Destroy ==
  /\ pc = "idle"
  /\ why' = "destroy"
  /\ pc' = "stop"
  /\ delivered' = FALSE
  /\ UNCHANGED <<configVars, startVars, gateVars, held, slot, thread, broken,
                 started, toJoin, joinFailed>>

\* up_pool_gate_request_exit succeeded.  It is a no-op on a gate that was
\* never initialized, and stop does not get there without thread records.
ExitRequested ==
  /\ pc = "stop"
  /\ exitReq' = (exitReq \/ "gate" \in held)
  /\ toJoin' = started
  /\ pc' = "join"
  /\ UNCHANGED <<configVars, startVars, held, slot, thread, broken, cancelled,
                 syncFailed, owes, wrote, started, why, joinFailed, delivered>>

\* The gate cannot be locked, or it is but the broadcast or the unlock fails:
\* the started threads are cancelled.
ExitFails ==
  /\ pc = "stop"
  /\ "gate" \in held
  /\ exitReq' \in {exitReq, TRUE}
  /\ syncFailed' = TRUE
  /\ broken' = TRUE
  /\ cancelled' = cancelled \cup started
  /\ toJoin' = started
  /\ pc' = "join"
  /\ UNCHANGED <<configVars, startVars, held, slot, thread, owes, wrote, started,
                 why, joinFailed, delivered>>

Join(i) ==
  /\ pc = "join"
  /\ i \in toJoin
  /\ thread[i] = "exited"
  /\ toJoin' = toJoin \ {i}
  /\ started' = started \ {i}
  /\ UNCHANGED <<configVars, startVars, gateVars, held, slot, thread, broken, pc,
                 why, joinFailed, delivered>>

\* pthread_join fails: the thread record keeps its `started' marker.
JoinFails(i) ==
  /\ pc = "join"
  /\ i \in toJoin
  /\ toJoin' = toJoin \ {i}
  /\ joinFailed' = TRUE
  /\ broken' = TRUE
  /\ UNCHANGED <<configVars, startVars, gateVars, held, slot, thread, pc, why,
                 started, delivered>>

RetiredKeepsCount ==  \* MUTANT of Retired: n_workers is not reset
  /\ pc = "join" /\ toJoin = {} /\ why = "start"
  /\ IF started = {} THEN Release(0..nWorkers - 1) ELSE UNCHANGED slot
  /\ lazyFailed' = TRUE
  /\ pc' = "idle"
  /\ UNCHANGED <<configVars, gateVars, stopVars, held, thread, broken, inlineRun,
                 nWorkers, stripes, lazyDone, built, delivered>>

RetiredReleasesAnyway ==  \* MUTANT of Retired: the result of stop is ignored
  /\ pc = "join" /\ toJoin = {} /\ why = "start"
  /\ Release(0..nWorkers - 1)
  /\ nWorkers' = 0
  /\ lazyFailed' = TRUE
  /\ pc' = "idle"
  /\ UNCHANGED <<configVars, gateVars, stopVars, held, thread, broken, inlineRun,
                 stripes, lazyDone, built, delivered>>

\* up__pool_retire_failed_start: slots are released only behind a clean stop.
Retired ==
  /\ pc = "join" /\ toJoin = {} /\ why = "start"
  /\ IF started = {} THEN Release(0..nWorkers - 1) /\ nWorkers' = 0
                     ELSE UNCHANGED <<slot, nWorkers>>
  /\ lazyFailed' = TRUE
  /\ pc' = "idle"
  /\ UNCHANGED <<configVars, gateVars, stopVars, held, thread, broken, inlineRun,
                 stripes, lazyDone, built, delivered>>

\* up_worker_pool_poison ignores what stop returned.
Poisoned ==
  /\ pc = "join" /\ toJoin = {} /\ why = "poison"
  /\ pc' = "idle"
  /\ UNCHANGED <<configVars, startVars, gateVars, stopVars, held, slot, thread,
                 broken, delivered>>

\* up_worker_pool_destroy and the owner's own frees behind it.
Destroyed ==
  /\ pc = "join" /\ toJoin = {} /\ why = "destroy"
  /\ started = {}
  /\ Release(0..nWorkers - 1)
  /\ nWorkers' = 0
  /\ held' = {}
  /\ pc' = "destroyed"
  /\ UNCHANGED <<configVars, gateVars, stopVars, thread, broken, inlineRun, stripes,
                 lazyDone, lazyFailed, built, delivered>>

\* A worker could not be reaped: the owner abandons the whole allocation.
Quarantined ==
  /\ pc = "join" /\ toJoin = {} /\ why = "destroy"
  /\ started # {}
  /\ pc' = "quarantined"
  /\ UNCHANGED <<configVars, startVars, gateVars, stopVars, held, slot, thread,
                 broken, delivered>>

\* The owner forgets the pool.
Gone == pc \in {"destroyed", "quarantined"} /\ UNCHANGED vars

-----------------------------------------------------------------------------
Next ==
  \/ Frame \/ Setup \/ SetupFails \/ ConstructOne \/ BuildEnds
  \/ DispatchInline \/ Dispatch \/ Delivered \/ Poison
  \/ \E i \in Slots : RunBegins(i) \/ RunEnds(i) \/ Leave(i) \/ ThreadFails(i)
  \/ Destroy \/ ExitRequested \/ ExitFails
  \/ \E i \in Slots : Join(i) \/ JoinFails(i)
  \/ Retired \/ Poisoned \/ Destroyed \/ Quarantined \/ Gone

Spec == Init /\ [][Next]_vars

-----------------------------------------------------------------------------
(* Properties.                                                             *)

Alive(i) == thread[i] \in {"parked", "running"}

\* ops->release is called for slots construct accepted, once each: neither
\* the unwinding of a partial start, nor the destroy that follows it, releases
\* a slot that is raw or already released; and a successful destroy leaves
\* nothing behind: no storage, no thread, no slot that still holds a graph.
ReleasedOnce ==
  /\ \A i \in Slots : slot[i] # "misused"
  /\ pc = "destroyed" =>
       /\ held = {}
       /\ \A i \in Slots : ~Alive(i) /\ (HasRelease => slot[i] # "built")

\* As long as a thread lives, what it may touch exists: its slot's payload,
\* the slot array, the thread records and the gate.  No order of partial
\* start, failed join, poison and destroy pulls them from under it.
LiveThreadsOwnStorage ==
  \A i \in Slots : Alive(i) => slot[i] = "built" /\ held = Storage

\* When a dispatch returns 0, every part of the owner's partition of the
\* frame is written: the cells of the zimg grid, the stripes of the plane.
WholeFrameWritten ==
  delivered => wrote = 0..(IF AllOrNothing THEN nPref ELSE stripes) - 1

\* RES-2: after a poison or a failed start, whatever failed, no thread is left
\* parked on the gate for the rest of playback, unless a join failed.
RetiredPoolIsIdle ==
  pc = "idle" /\ (broken \/ lazyFailed) /\ ~joinFailed => \A i \in Slots : ~Alive(i)
=============================================================================
