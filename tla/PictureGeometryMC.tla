-------------------------- MODULE PictureGeometryMC --------------------------
(* PictureGeometry for TLC: every window in three rows or four columns, a  *)
(* single column, and formats no decoder should announce.                  *)
EXTENDS PictureGeometry

Axis(c, v, o) == [coded |-> c, visible |-> v, off |-> o]
Windows(c) == {a \in {Axis(c, v, o) : v \in 1..c, o \in 0..c - 1} : a.off + a.visible <= c}

\* Too large for an int, and an offset at its limit and past it.
Broken == {Axis(4, 200, 0), Axis(4, 4, UintMax), Axis(4, 4, 2)}

SomeAxesW == Windows(4) \cup {Axis(1, 1, 0), Axis(5, 0, 0), Axis(5, 5, 0)} \cup Broken
SomeAxesH == Windows(3) \cup {Axis(4, 0, 0), Axis(5, 4, 1), Axis(8, 7, 1), Axis(4, 4, UintMax)}

SomeGrowths == {-1, 0, 2}
=============================================================================
