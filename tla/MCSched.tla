------------------------------ MODULE MCSched -------------------------------
(* The scheduler with the shell, task 0, and up to three other tasks.      *)
EXTENDS Sched
=============================================================================
