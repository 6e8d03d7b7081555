---------------------------- MODULE ZimgBackendMC ----------------------------
(* ZimgBackend for TLC: pictures cut into two and three stripes, a wide   *)
(* one of two tiles, which is one stripe once its source is copied, one   *)
(* that runs inline, and one of two by two tiles.                         *)
EXTENDS ZimgBackend

Geom(threads, w, h) ==
  [threads |-> threads, srcW |-> w, srcH |-> h, dstW |-> 2 * w, dstH |-> 2 * h]

Tall == Geom(2, 4, 4)
Wide == Geom(2, 6, 2)
Tiny == Geom(1, 4, 2)
Taller == Geom(3, 4, 6)
Square == Geom(4, 6, 4)

AllGeometries == {Tall, Wide, Tiny, Taller, Square}
=============================================================================
