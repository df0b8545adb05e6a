------------------------------ MODULE MCThreads ------------------------------
(***************************************************************************)
(* Idle, systemd and three user threads: one can run while two wait, so    *)
(* that a kill meets its target at the front and at the back of the queue. *)
(***************************************************************************)
EXTENDS Threads

MCNode == 0 .. MaxThreads - 1
MCQueueName == {"run", "dead"}
=============================================================================
