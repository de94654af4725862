----------------------- MODULE MCServeServer -----------------------
(* ServeServer for TLC: two clients, one that listens and one that works. *)
EXTENDS ServeServer
================================================================
