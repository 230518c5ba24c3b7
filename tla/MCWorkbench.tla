---------------------------- MODULE MCWorkbench ----------------------------
(* Workbench on small instances; the bounds are in the .cfg files. *)
EXTENDS Workbench

-----------------------------------------------------------------------------
(* Properties that Workbench states in parts.                                *)

\* Every command leaves the queue and is acknowledged, and every error that
\* waits comes up. (command_queue.rs: take_application_command, acknowledge.)
QueueAndErrorsMove == QueueMoves /\ EveryErrorShown
=============================================================================
