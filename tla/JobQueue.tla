---------------------------- MODULE JobQueue ----------------------------
(* The queue of file work, jobs/jobs.go: jobs are started, wait for one of
   Limit places, are cancelled, dropped off the list, and waited for as the
   program leaves.

   A place is a goroutine in Queue.run.  phase says where a job is: not
   started, refused by op.check, waiting, being done, done but with its place
   not handed on yet, or out of the goroutine's hands.  Every operation that
   takes the queue's lock is one step; what it does before and after the lock
   is a step of its own.                                                    *)
EXTENDS Integers, FiniteSets, Sequences, SequencesExt

CONSTANTS Jobs,      \* the pieces of work, each started once at most
          Limit,     \* how many may be done at a time
          Senseless, \* bound: the jobs op.check may refuse
          Touched    \* bound: the jobs a user cancels or drops by hand

ASSUME JobsAssumption == IsFiniteSet(Jobs) /\ Senseless \subseteq Jobs
ASSUME LimitAssumption == Limit \in Nat \ {0}

VARIABLES
  jobs,      \* Queue.jobs, what the pane lists
  running,   \* Queue.running
  waiting,   \* Queue.waiting
  leaving,   \* Queue.leaving: dropped, and not done when it was
  phase,     \* where each job is
  canceled,  \* the job's context is cancelled
  done,      \* Progress.Done, and the job's done channel
  drop,      \* how far a Drop of the job has come
  stuck,     \* the jobs in a call of a file system that has stopped answering
  stopping,  \* the jobs CancelAll has yet to cancel
  stopped,   \* history: the jobs CancelAll set out to cancel
  waiter,    \* a WaitFor is going on
  awaited,   \* the jobs it waits for
  promised   \* history: what was started and not done when it was called

queue == <<jobs, running, waiting, leaving>>
ctl == <<stuck, stopping, stopped, waiter, awaited, promised>>
vars == <<queue, phase, canceled, done, drop, ctl>>

Phases == {"none", "refused", "waiting", "doing", "ending", "gone"}
Started == {j \in Jobs : phase[j] # "none"}
Places == {j \in Jobs : phase[j] \in {"doing", "ending"}}

TypeOK ==
  /\ jobs \in SUBSET Jobs /\ leaving \in SUBSET Jobs
  /\ running \in 0..Limit /\ waiting \in Seq(Jobs)
  /\ phase \in [Jobs -> Phases]
  /\ canceled \in [Jobs -> BOOLEAN] /\ done \in [Jobs -> BOOLEAN]
  /\ drop \in [Jobs -> {"no", "canceled", "waiting", "yes"}]
  /\ stuck \in SUBSET Jobs
  /\ stopping \in SUBSET Jobs /\ stopped \in SUBSET Jobs
  /\ waiter \in BOOLEAN /\ awaited \in SUBSET Jobs /\ promised \in SUBSET Jobs

Init ==
  /\ jobs = {} /\ running = 0 /\ waiting = <<>> /\ leaving = {}
  /\ phase = [j \in Jobs |-> "none"]
  /\ canceled = [j \in Jobs |-> FALSE] /\ done = [j \in Jobs |-> FALSE]
  /\ drop = [j \in Jobs |-> "no"]
  /\ stuck = {} /\ stopping = {} /\ stopped = {}
  /\ waiter = FALSE /\ awaited = {} /\ promised = {}
---------------------------------------------------------------------------
(* Start: a job that makes no sense is listed, and finished after the lock. *)
StartRefused(j) ==
  /\ phase[j] = "none" /\ j \in Senseless
  /\ jobs' = jobs \cup {j}
  /\ phase' = [phase EXCEPT ![j] = "refused"]
  /\ UNCHANGED <<running, waiting, leaving, canceled, done, drop, ctl>>

(* Start: a job gets a place, or waits for one. *)
Start(j) ==
  /\ phase[j] = "none"
  /\ jobs' = jobs \cup {j}
  /\ IF running < Limit
     THEN /\ running' = running + 1 /\ UNCHANGED waiting
          /\ phase' = [phase EXCEPT ![j] = "doing"]
     ELSE /\ waiting' = Append(waiting, j) /\ UNCHANGED running
          /\ phase' = [phase EXCEPT ![j] = "waiting"]
  /\ UNCHANGED <<leaving, canceled, done, drop, ctl>>

(* finish, which cancels the job's context as it goes. *)
Finish(j) ==
  /\ done' = [done EXCEPT ![j] = TRUE]
  /\ canceled' = [canceled EXCEPT ![j] = TRUE]

Refuse(j) ==
  /\ phase[j] = "refused" /\ Finish(j)
  /\ phase' = [phase EXCEPT ![j] = "gone"]
  /\ UNCHANGED <<queue, drop, ctl>>

(* Job.do: a call of a file system takes no context, so one that has stopped
   answering keeps the job, cancelled or not, until it answers or gives up. *)
Hangs(j) ==
  /\ phase[j] = "doing" /\ j \notin stuck
  /\ stuck' = stuck \cup {j}
  /\ UNCHANGED <<queue, phase, canceled, done, drop,
                 stopping, stopped, waiter, awaited, promised>>

Answers(j) ==
  /\ j \in stuck
  /\ stuck' = stuck \ {j}
  /\ UNCHANGED <<queue, phase, canceled, done, drop,
                 stopping, stopped, waiter, awaited, promised>>

(* run: the job's work returns, whatever it made of it. *)
WorkEnds(j) ==
  /\ phase[j] = "doing" /\ j \notin stuck /\ Finish(j)
  /\ phase' = [phase EXCEPT ![j] = "ending"]
  /\ UNCHANGED <<queue, drop, ctl>>

TwoForOne(j) ==   \* faulty variant: a finished place starts all that wait
  /\ phase[j] = "ending"
  /\ waiting' = <<>>
  /\ running' = IF waiting = <<>> THEN running - 1 ELSE running
  /\ phase' = [k \in Jobs |-> IF k = j THEN "gone"
                             ELSE IF k \in ToSet(waiting) THEN "doing" ELSE phase[k]]
  /\ UNCHANGED <<jobs, leaving, canceled, done, drop, ctl>>

LastIn(j) ==   \* faulty variant: the newest job gets the place
  /\ phase[j] = "ending"
  /\ IF waiting = <<>>
     THEN /\ running' = running - 1 /\ UNCHANGED waiting
          /\ phase' = [phase EXCEPT ![j] = "gone"]
     ELSE /\ waiting' = Front(waiting) /\ UNCHANGED running
          /\ phase' = [phase EXCEPT ![j] = "gone", ![Last(waiting)] = "doing"]
  /\ UNCHANGED <<jobs, leaving, canceled, done, drop, ctl>>

(* run: the place goes to the job that has waited longest, or is given up. *)
HandOn(j) ==
  /\ phase[j] = "ending"
  /\ IF waiting = <<>>
     THEN /\ running' = running - 1 /\ UNCHANGED waiting
          /\ phase' = [phase EXCEPT ![j] = "gone"]
     ELSE /\ waiting' = Tail(waiting) /\ UNCHANGED running
          /\ phase' = [phase EXCEPT ![j] = "gone", ![Head(waiting)] = "doing"]
  /\ UNCHANGED <<jobs, leaving, canceled, done, drop, ctl>>

(* Job.Cancel *)
Cancel(j) ==
  /\ j \in Touched /\ phase[j] # "none" /\ ~canceled[j]
  /\ canceled' = [canceled EXCEPT ![j] = TRUE]
  /\ UNCHANGED <<queue, phase, done, drop, ctl>>
---------------------------------------------------------------------------
(* Drop, in its three steps: cancel, take it off the lists, and finish it when
   it was waiting and nobody else will.                                     *)
DropCancel(j) ==
  /\ j \in Touched /\ phase[j] # "none" /\ drop[j] = "no"
  /\ canceled' = [canceled EXCEPT ![j] = TRUE]
  /\ drop' = [drop EXCEPT ![j] = "canceled"]
  /\ UNCHANGED <<queue, phase, done, ctl>>

Without(list, j) ==
  IF \E i \in DOMAIN list : list[i] = j
  THEN RemoveAt(list, CHOOSE i \in DOMAIN list : list[i] = j) ELSE list

ForgetLeaving(j) ==   \* faulty variant: a dropped job is not remembered
  /\ drop[j] = "canceled"
  /\ jobs' = jobs \ {j}
  /\ waiting' = Without(waiting, j)
  /\ drop' = [drop EXCEPT ![j] = IF phase[j] = "waiting" THEN "waiting" ELSE "yes"]
  /\ phase' = [phase EXCEPT ![j] = IF @ = "waiting" THEN "gone" ELSE @]
  /\ UNCHANGED <<running, leaving, canceled, done, ctl>>

LeftInWaiting(j) ==   \* faulty variant: a dropped job still waits for a place
  /\ drop[j] = "canceled"
  /\ jobs' = jobs \ {j}
  /\ leaving' = IF done[j] THEN leaving ELSE leaving \cup {j}
  /\ drop' = [drop EXCEPT ![j] = IF phase[j] = "waiting" THEN "waiting" ELSE "yes"]
  /\ phase' = [phase EXCEPT ![j] = IF @ = "waiting" THEN "gone" ELSE @]
  /\ UNCHANGED <<running, waiting, canceled, done, ctl>>

DropLists(j) ==
  /\ drop[j] = "canceled"
  /\ jobs' = jobs \ {j}
  /\ waiting' = Without(waiting, j)
  /\ leaving' = IF done[j] THEN leaving ELSE leaving \cup {j}
  /\ drop' = [drop EXCEPT ![j] = IF phase[j] = "waiting" THEN "waiting" ELSE "yes"]
  /\ phase' = [phase EXCEPT ![j] = IF @ = "waiting" THEN "gone" ELSE @]
  /\ UNCHANGED <<running, canceled, done, ctl>>

DropWaiting(j) ==
  /\ drop[j] = "waiting" /\ Finish(j)
  /\ drop' = [drop EXCEPT ![j] = "yes"]
  /\ UNCHANGED <<queue, phase, ctl>>

DropFinished ==
  /\ \E j \in jobs : done[j]
  /\ jobs' = {j \in jobs : ~done[j]}
  /\ UNCHANGED <<running, waiting, leaving, phase, canceled, done, drop, ctl>>
---------------------------------------------------------------------------
(* unfinished: what the pane lists and what was dropped and is not done yet;
   the ones that have ended since are swept out.                            *)
ListedOnly == jobs   \* faulty variant: what was dropped is not waited for
Unfinished == jobs \cup {j \in leaving : ~done[j]}
Sweep == leaving' = {j \in leaving : ~done[j]}

(* CancelAll: the jobs are collected under the lock and cancelled after it. *)
CancelAll ==
  /\ stopped = {} /\ Unfinished # {}
  /\ stopping' = Unfinished /\ stopped' = Unfinished
  /\ Sweep
  /\ UNCHANGED <<jobs, running, waiting, phase, canceled, done, drop,
                 stuck, waiter, awaited, promised>>

CancelOne(j) ==
  /\ j \in stopping
  /\ stopping' = stopping \ {j}
  /\ canceled' = [canceled EXCEPT ![j] = TRUE]
  /\ UNCHANGED <<queue, phase, done, drop, stuck, stopped, waiter, awaited, promised>>

(* WaitFor: the jobs are collected under the lock, and waited for in turn; a
   job that is done stays done, so one that is already is not waited for, and
   all of them have been when it ends well.                                 *)
WaitFor ==
  /\ ~waiter
  /\ waiter' = TRUE /\ awaited' = {j \in Unfinished : ~done[j]}
  /\ promised' = {j \in Started : ~done[j]}
  /\ Sweep
  /\ UNCHANGED <<jobs, running, waiting, phase, canceled, done, drop,
                 stuck, stopping, stopped>>

WaitOver ==
  /\ waiter' = FALSE /\ awaited' = {} /\ promised' = {}
  /\ UNCHANGED <<queue, phase, canceled, done, drop, stuck, stopping, stopped>>

AllStopped == waiter /\ (\A j \in awaited : done[j]) /\ WaitOver
TimedOut == waiter /\ (\E j \in awaited : ~done[j]) /\ WaitOver
---------------------------------------------------------------------------
JobStep(j) == Refuse(j) \/ HandOn(j) \/ DropLists(j) \/ DropWaiting(j) \/ CancelOne(j)

Next == \/ \E j \in Jobs : \/ StartRefused(j) \/ Start(j) \/ Refuse(j) \/ WorkEnds(j)
                           \/ Hangs(j) \/ Answers(j)
                           \/ HandOn(j) \/ Cancel(j) \/ DropCancel(j) \/ DropLists(j)
                           \/ DropWaiting(j) \/ CancelOne(j)
        \/ DropFinished \/ CancelAll \/ WaitFor \/ AllStopped \/ TimedOut

(* A goroutine that can go on does.  Cancelled work ends once it is out of its
   calls often enough, since it looks at its context between them; that a call
   ever answers is not assumed, and work that is not cancelled may go on for
   ever, as one that asks about a name that is taken does until it is answered.
   Nobody has to start or drop.                                             *)
Spec == Init /\ [][Next]_vars
FairSpec == Spec /\ \A j \in Jobs : /\ WF_vars(JobStep(j))
                                    /\ SF_vars(canceled[j] /\ WorkEnds(j))
---------------------------------------------------------------------------
(* The queue keeps to its limit, also while places are handed on and jobs are
   dropped: no more than Limit jobs are being done, the count is the number of
   places taken, and nobody waits while a place is free.                    *)
KeepsToLimit ==
  /\ running = Cardinality(Places) /\ running <= Limit
  /\ waiting # <<>> => running = Limit

(* A job is never lost sight of: until it is done it is listed or leaving, so
   a program that leaves finds it.                                          *)
NoneLost == \A j \in Started : j \in jobs \/ j \in leaving \/ done[j]

(* WaitFor does not say that everything stopped while a job that had been
   started is still at work, dropped from the list or not.                  *)
WaitIsTrue == [][AllStopped => \A j \in promised : done[j]]_vars

(* A job that nothing can get at: it is in a call that does not answer, or
   waits behind as many as there are places.                                *)
HeldUp(j) == j \in stuck \/ (phase[j] = "waiting" /\ Cardinality(stuck) = Limit)

(* What CancelAll set out to stop does stop, unless it is held up over and over
   for ever: cancelling does not get a job out of a call, but nothing started
   later, which nobody cancels, can keep a place from it.                   *)
StoppedEnd ==
  \A j \in Jobs : <>[]~HeldUp(j) => ((j \in stopped /\ stopping = {}) ~> done[j])

(* The queue does what JobBoard promises. *)
Work == [j \in Jobs |-> IF phase[j] = "doing" THEN "working"
                       ELSE IF done[j] THEN "over"
                       ELSE IF phase[j] = "none" THEN "new" ELSE "queued"]
Board == INSTANCE JobBoard WITH work <- Work
IsABoard == Board!Spec
=============================================================================
