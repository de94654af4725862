------------------------------ MODULE MCTunnel ------------------------------
(* Tunnel for TLC: each kind of tunnel, with two streams and room for one. *)
EXTENDS Tunnel
===========================================================================
