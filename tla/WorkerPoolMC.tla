---------------------------- MODULE WorkerPoolMC ----------------------------
(* WorkerPool for TLC: both owners, pools of one worker up to MaxWorkers.  *)
EXTENDS WorkerPool
=============================================================================
