--------------------------- MODULE MCPageAllocator ---------------------------
(***************************************************************************)
(* Sixteen pages of four bytes in four top blocks; size_t has seven bits,  *)
(* so that a request of 125 bytes or more wraps around in calculate_order. *)
(* The first region is one page at the end of the memory; the second       *)
(* begins and ends inside a page and is carved in four chunks out of two   *)
(* top blocks.  Two top blocks that are buddies stay whole: they split and *)
(* merge on every level and must not be merged with one another.           *)
(***************************************************************************)
EXTENDS PageAllocator

MCSizes == {1, 5, 16, 17, 125}

MCRegions == <<[start |-> 60, size |-> 4], [start |-> 39, size |-> 19]>>
=============================================================================
