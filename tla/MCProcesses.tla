---------------------------- MODULE MCProcesses ----------------------------
(***************************************************************************)
(* Processes with three threads that fork, signal and kill each other, and *)
(* that exec while alone; MCProcessesExec: a parent that execs beside its  *)
(* child.                                                                  *)
(***************************************************************************)
EXTENDS Processes
=============================================================================
