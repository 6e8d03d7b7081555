---------------------------- MODULE AutoUpscaleMC ---------------------------
(* AutoUpscale for TLC: every configuration and a short probe window, with *)
(* grids of two and blocks of four pixels, so that a crop of a few pixels  *)
(* has, or just lacks, samples of each kind.                               *)
EXTENDS AutoUpscale

Size(w, h) == [w |-> w, h |-> h]
SomeSizes == {Size(9, 9), Size(8, 8), Size(5, 5), Size(9, 4), Size(2, 9), Size(9, 1)}

\* Grain, soft blocks, and one bright line.
SomeContents == {"grain", "blocks", "line"}

SomePixel(shows, x, y) ==
  CASE shows = "grain"  -> 20 * ((x + y) % 2)
    [] shows = "blocks" -> 6 * (((x \div 4) + (y \div 4)) % 2)
    [] shows = "line"   -> IF x = 4 THEN 40 ELSE 0
=============================================================================
