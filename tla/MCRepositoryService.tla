------------------------ MODULE MCRepositoryService ------------------------
(* RepositoryService on small instances; the bounds are in the .cfg files. *)
EXTENDS RepositoryService

-----------------------------------------------------------------------------
(* Properties that RepositoryService states in parts.                        *)

\* A cancelled command ends and quitting joins the worker, even if Git hangs and
\* nobody answers. (service.rs: cancel_command, drop.)
CancelAndQuitEnd == CancelledCommandEnds /\ QuitJoinsWorker

\* When Git and the user move, every change comes to the screen or the user is
\* told, and every command is acknowledged. (worker.rs: worker_loop; ADR 0068.)
WorkReachesScreen == ChangeReachesScreen /\ CommandAcknowledged
=============================================================================
