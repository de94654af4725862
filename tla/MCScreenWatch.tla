-------------------------- MODULE MCScreenWatch --------------------------
(* ScreenWatch on a small instance: the watchers are model values, and any
   two of them can be exchanged in the runs that check invariants only.     *)
EXTENDS ScreenWatch

Exchange == Permutations(Watchers)
=============================================================================
