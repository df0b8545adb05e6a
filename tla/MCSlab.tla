------------------------------- MODULE MCSlab -------------------------------
(***************************************************************************)
(* MCSlab: slabs of three slots, the last of which is the sign bit of the  *)
(* int, in three pages, so that a slab is given back at the front, between  *)
(* others and at the back of the list.  MCSlabBitmap: a slab with more     *)
(* slots than an int has bits.                                             *)
(***************************************************************************)
EXTENDS Slab

CONSTANTS p0, p1, p2, p3

MCNone == {}
MCPages == {p1, p2, p3}
MCNode == {p0, p1, p2, p3}
=============================================================================
