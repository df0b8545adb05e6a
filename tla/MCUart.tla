------------------------------- MODULE MCUart -------------------------------
(***************************************************************************)
(* Uart with buffers of two bytes.                                         *)
(***************************************************************************)
EXTENDS Uart
=============================================================================
