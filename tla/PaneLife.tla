---------------------------- MODULE PaneLife ----------------------------
(* What a pane promises of the programs it runs one after another, with nothing
   of the goroutines that see to it (ui/term/term.go).  Each program goes once,
   however many notice; the window is told of it once; then its status is kept
   or dropped, once, and kept only while no other program has the pane.  The
   next begins when the one before has gone and the window was told.        *)
EXTENDS Naturals

CONSTANT MaxRuns
VARIABLE life    \* each program: none, runs, gone, told, known, over

Runs == 1..MaxRuns

Init == life = [r \in Runs |-> IF r = 1 THEN "runs" ELSE "none"]

Comes(r, from, to) == life[r] = from /\ life' = [life EXCEPT ![r] = to]

Goes(r) == Comes(r, "runs", "gone")
IsTold(r) == Comes(r, "gone", "told")
IsKnown(r) == (\A s \in Runs : s > r => life[s] = "none") /\ Comes(r, "told", "known")
IsOver(r) == Comes(r, "told", "over") \/ Comes(r, "known", "over")
Begins(r) ==
  /\ \A s \in Runs : s < r => life[s] \in {"told", "known", "over"}
  /\ Comes(r, "none", "runs")

Next == \E r \in Runs : Goes(r) \/ IsTold(r) \/ IsKnown(r) \/ IsOver(r) \/ Begins(r)
Spec == Init /\ [][Next]_life
=============================================================================
