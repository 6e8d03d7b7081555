----------------------------- MODULE PoolGateMC -----------------------------
(* PoolGate for TLC: the threads are interchangeable model values.         *)
EXTENDS PoolGate, TLC

Symmetry == Permutations(Workers)
=============================================================================
