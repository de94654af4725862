----------------------- MODULE MCFileJob -----------------------
(* FileJob for TLC: a directory with a file in it, a file and a link, or just
   one file. *)
EXTENDS FileJob
TreeOfFour == <<0, 1, 0, 0>>
OneFile == <<0>>
================================================================
