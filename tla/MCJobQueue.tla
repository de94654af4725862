--------------------------- MODULE MCJobQueue ---------------------------
(* JobQueue for TLC. *)
EXTENDS JobQueue
=============================================================================
