---------------------------- MODULE FrameBarrier ----------------------------
(***************************************************************************)
(* What a worker pool promises the thread that dispatches a frame to it,   *)
(* with no word about mutexes, condition variables or time.  The caller    *)
(* owns the picture while the barrier is "ready"; it lends it to the       *)
(* workers by dispatching; it gets a complete picture back, or it retires  *)
(* the pool and waits until no worker writes any more.                     *)
(*                                                                         *)
(* PoolGate, the model of pool_gate.h and of the dispatch and stop paths   *)
(* of worker_pool.h, implements this specification.                        *)
(***************************************************************************)
EXTENDS Naturals

CONSTANT Workers  \* the workers that came up when the pool started

VARIABLES
  phase,    \* who owns the picture
  frame,    \* number of the frame lent last
  wrote,    \* workers whose part of that frame is written
  writing   \* workers inside their callback

fbVars == <<phase, frame, wrote, writing>>

Phases == {"ready", "dispatched", "retiring", "retired", "leaked"}

TypeOK ==
  /\ phase \in Phases
  /\ frame \in Nat
  /\ wrote \in SUBSET Workers
  /\ writing \in SUBSET Workers

Init ==
  /\ phase = "ready"
  /\ frame = 0
  /\ wrote = Workers
  /\ writing = {}

\* The caller lends the next frame to every worker.
Dispatch ==
  /\ phase = "ready"
  /\ phase' = "dispatched"
  /\ frame' = frame + 1
  /\ wrote' = {}
  /\ UNCHANGED writing

\* A worker writes its part at most once per frame, and never while the
\* caller owns the picture or after the pool is retired.
Begin(w) ==
  /\ phase \in {"dispatched", "retiring", "leaked"}
  /\ w \notin wrote \cup writing
  /\ writing' = writing \cup {w}
  /\ UNCHANGED <<phase, frame, wrote>>

Finish(w) ==
  /\ w \in writing
  /\ writing' = writing \ {w}
  /\ wrote' = wrote \cup {w}
  /\ UNCHANGED <<phase, frame>>

\* A successful dispatch: the caller takes a complete picture back.
Complete ==
  /\ phase = "dispatched"
  /\ wrote = Workers
  /\ writing = {}
  /\ phase' = "ready"
  /\ UNCHANGED <<frame, wrote, writing>>

\* A failed dispatch or the owner's close: workers are asked to leave.
Retire ==
  /\ phase # "retiring"
  /\ phase' = "retiring"
  /\ UNCHANGED <<frame, wrote, writing>>

\* Every worker was reaped: nothing writes, storage may be released.
Reap ==
  /\ phase = "retiring"
  /\ writing = {}
  /\ phase' = "retired"
  /\ UNCHANGED <<frame, wrote, writing>>

\* Some worker could not be reaped: its storage must never be released.
Leak ==
  /\ phase = "retiring"
  /\ phase' = "leaked"
  /\ UNCHANGED <<frame, wrote, writing>>

Next ==
  \/ Dispatch
  \/ \E w \in Workers : Begin(w) \/ Finish(w)
  \/ Complete
  \/ Retire
  \/ Reap
  \/ Leak

Spec == Init /\ [][Next]_fbVars
=============================================================================
