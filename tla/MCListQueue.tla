----------------------------- MODULE MCListQueue -----------------------------
(***************************************************************************)
(* Four nodes in two queues: a queue can be erased at its front, at its    *)
(* back and in between while the other holds a node.                       *)
(***************************************************************************)
EXTENDS ListQueue

CONSTANTS n1, n2, n3, n4, run, dead

MCNode == {n1, n2, n3, n4}
MCQueueName == {run, dead}
=============================================================================
