----------------------------- MODULE ZimgPlanMC ------------------------------
(* ZimgPlan for TLC: heights up to ten rows, some narrow and some wide     *)
(* pictures, on machines with none, few and many CPUs for the process.     *)
EXTENDS ZimgPlan

Pair(s, d) == [src |-> s, dst |-> d]

UpHeights == {h \in {Pair(s, d) : s \in 1..8, d \in {2, 4, 6, 10}} : h.src <= h.dst}
SomeWidths == {Pair(2, 10), Pair(5, 8), Pair(6, 10), Pair(8, 8)}

\* Not known, with gaps, and more than the workers there may be.
SomeCpuSets == {{}, {0, 2}, {1, 3, 4, 6}, 0..13}
=============================================================================
