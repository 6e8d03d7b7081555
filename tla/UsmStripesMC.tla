----------------------------- MODULE UsmStripesMC -----------------------------
(* UsmStripes for TLC: planes of one to nine rows, up to four workers, and *)
(* a machine with as many CPUs, or fewer.                                  *)
EXTENDS UsmStripes

SmallHeights == 1..9
TwoTiers == <<[pixels |-> 16, threads |-> 2], [pixels |-> 36, threads |-> 3]>>
=============================================================================
