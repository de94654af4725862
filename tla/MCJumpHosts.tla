---------------------------- MODULE MCJumpHosts ----------------------------
(* JumpHosts for TLC: a jump host, a server behind it, and one behind both.  *)
EXTENDS JumpHosts

CONSTANTS bastion, mid, far

Saved == {bastion, mid, far}
Routes == [s \in Saved |-> CASE s = bastion -> <<bastion>>
                            [] s = mid -> <<bastion, mid>>
                            [] s = far -> <<bastion, mid, far>>]
===========================================================================
