--------------------------- MODULE AdaptiveUsmMC ----------------------------
(* AdaptiveUsm for TLC: addresses are interchangeable.                     *)
EXTENDS AdaptiveUsm, TLC

Symmetry == Permutations(Pools)
=============================================================================
