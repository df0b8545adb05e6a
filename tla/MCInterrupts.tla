---------------------------- MODULE MCInterrupts ----------------------------
(***************************************************************************)
(* Interrupts with two user threads besides systemd and idle, and pools of *)
(* a few objects.                                                          *)
(***************************************************************************)
EXTENDS Interrupts

CONSTANTS A, B

MCContext == {Boot, Idle, A, B}
Threads == Permutations({A, B})
=============================================================================
