---------------------- MODULE MCTerminalRuns ----------------------
(* TerminalRuns for TLC. *)
EXTENDS TerminalRuns
====================================================================
