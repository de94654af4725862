---------------------------- MODULE JobBoard ----------------------------
(* What the queue of jobs/jobs.go promises, with nothing of how: every piece
   of work that is handed in is taken up at most once, never more than Limit
   of them go at a time, and what is over stays over.  Work that nobody has
   taken up yet may be over without having been worked on.                  *)
EXTENDS Naturals, FiniteSets

CONSTANTS Jobs, Limit

VARIABLE work

Working == {j \in Jobs : work[j] = "working"}

Init == work = [j \in Jobs |-> "new"]

HandIn(j) == work[j] = "new" /\ work' = [work EXCEPT ![j] = "queued"]
TakeUp(j) == /\ work[j] \in {"new", "queued"} /\ Cardinality(Working) < Limit
             /\ work' = [work EXCEPT ![j] = "working"]
End(j) == work[j] \in {"queued", "working"} /\ work' = [work EXCEPT ![j] = "over"]

Next == \E j \in Jobs : HandIn(j) \/ TakeUp(j) \/ End(j)
Spec == Init /\ [][Next]_work
=============================================================================
