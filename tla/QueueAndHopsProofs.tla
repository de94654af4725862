----------------------- MODULE QueueAndHopsProofs -----------------------
(* What holds of JobQueue for every finite set of jobs and every limit: the
   limit is kept, no job is lost sight of, waiting for the jobs tells the
   truth, and the queue implements JobBoard.

   And what holds of JumpHosts for every set of saved servers, every route and
   any number of connections: they are counted right, closed once nothing goes
   through them and not before, and each server is reached by the route it was
   asked for by.  The two have nothing in common; Under and Way are recursions
   along a chain of connections, and what they are is proved once, by the
   least connection for which it would not be so.                           *)
EXTENDS JobQueue, JumpHosts, TLAPS, FiniteSetTheorems, SequenceTheorems, WellFoundedInduction

Distinct(s) == \A i, k \in 1..Len(s) : i # k => s[i] # s[k]

(* Taking an element off a list without repetitions: the others stay, each
   of them once.                                                            *)
LEMMA WithoutProperties ==
  ASSUME NEW S, NEW s \in Seq(S), NEW j, Distinct(s)
  PROVE  /\ Without(s, j) \in Seq(S) /\ Distinct(Without(s, j))
         /\ \A k \in 1..Len(Without(s, j)) :
              /\ Without(s, j)[k] # j
              /\ \E i \in 1..Len(s) : Without(s, j)[k] = s[i]
         /\ Without(s, j) # <<>> => s # <<>>
<1>1. CASE \E i \in DOMAIN s : s[i] = j
  <2> DEFINE i == CHOOSE k \in DOMAIN s : s[k] = j
             a == SubSeq(s, 1, i - 1)
             b == SubSeq(s, i + 1, Len(s))
             r == Without(s, j)
  <2>1. i \in 1..Len(s) /\ s[i] = j
    BY <1>1
  <2>2. r = a \o b
    BY <1>1 DEF Without, RemoveAt
  <2> HIDE DEF i, r
  <2>3. /\ a \in Seq(S) /\ Len(a) = i - 1
        /\ \A k \in 1..(i - 1) : a[k] = s[k]
    <3>1. \A k \in 1..(i - 1) : s[k] \in S
      BY <2>1
    <3> QED BY <2>1, <3>1, SubSeqProperties
  <2>4. /\ b \in Seq(S) /\ Len(b) = Len(s) - i
        /\ \A k \in 1..(Len(s) - i) : b[k] = s[i + k]
    <3>1. \A k \in (i + 1)..Len(s) : s[k] \in S
      BY <2>1
    <3> QED BY <2>1, <3>1, SubSeqProperties
  <2> HIDE DEF a, b
  <2>5. /\ r \in Seq(S) /\ Len(r) = Len(s) - 1
        /\ \A k \in 1..Len(r) : r[k] = IF k < i THEN s[k] ELSE s[k + 1]
    <3>1. /\ a \o b \in Seq(S) /\ Len(a \o b) = Len(a) + Len(b)
          /\ \A k \in 1..(Len(a) + Len(b)) :
               (a \o b)[k] = IF k <= Len(a) THEN a[k] ELSE b[k - Len(a)]
      BY <2>3, <2>4, ConcatProperties
    <3> QED BY <2>1, <2>2, <2>3, <2>4, <3>1
  <2>6. Distinct(r)
    BY <2>1, <2>5 DEF Distinct
  <2>7. \A k \in 1..Len(r) : r[k] # j /\ \E m \in 1..Len(s) : r[k] = s[m]
    BY <2>1, <2>5 DEF Distinct
  <2>8. s # <<>>
    BY <2>1, EmptySeq
  <2> QED BY <2>5, <2>6, <2>7, <2>8 DEF r
<1>2. CASE ~ \E i \in DOMAIN s : s[i] = j
  <2>1. Without(s, j) = s
    BY <1>2 DEF Without
  <2>2. \A k \in 1..Len(s) : s[k] # j
    BY <1>2
  <2> QED BY <2>1, <2>2
<1> QED BY <1>1, <1>2

(* Who waits is waiting, once; who is gone is done, or is about to be finished
   by the Drop that took it off the list.                                   *)
InLine == /\ Distinct(waiting)
          /\ \A i \in 1..Len(waiting) : phase[waiting[i]] = "waiting"
Whose == \A j \in Jobs :
  /\ phase[j] \in {"none", "refused", "waiting", "doing"} => ~done[j]
  /\ phase[j] = "ending" => done[j]
  /\ drop[j] = "waiting" => phase[j] = "gone" /\ ~done[j]
Awaited == \A j \in promised : done[j] \/ j \in awaited

IInv == TypeOK /\ InLine /\ Whose /\ KeepsToLimit /\ NoneLost /\ Awaited

LEMMA PlacesFinite == IsFiniteSet(Places) /\ Cardinality(Places) \in Nat
  BY JobsAssumption, FS_Subset, FS_CardinalityType DEF Places

LEMMA InitInv == Init => IInv
<1> SUFFICES ASSUME Init PROVE IInv
  OBVIOUS
<1>1. /\ canceled \in [Jobs -> BOOLEAN] /\ done \in [Jobs -> BOOLEAN] /\ waiter \in BOOLEAN
  BY Zenon DEF Init
<1>2. TypeOK
  BY <1>1, LimitAssumption, EmptySeq DEF Init, TypeOK, Phases
<1>3. InLine
  BY EmptySeq DEF Init, InLine, Distinct
<1>4. Whose /\ NoneLost /\ Awaited
  BY DEF Init, Whose, NoneLost, Awaited, Started
<1>5. KeepsToLimit
  <2>1. Places = {}
    BY DEF Init, Places
  <2> QED BY <2>1, FS_EmptySet, LimitAssumption DEF Init, KeepsToLimit
<1> QED BY <1>2, <1>3, <1>4, <1>5 DEF IInv

LEMMA NextInv == IInv /\ [Next]_vars => IInv'
<1> SUFFICES ASSUME IInv, [Next]_vars PROVE IInv'
  OBVIOUS
<1> USE DEF IInv
<1>1. ASSUME NEW j \in Jobs, StartRefused(j) PROVE IInv'
  <2>1. TypeOK'
    BY <1>1 DEF StartRefused, TypeOK, Phases, ctl
  <2>2. InLine'
    BY <1>1 DEF StartRefused, InLine, TypeOK
  <2>3. Whose' /\ NoneLost' /\ Awaited'
    BY <1>1 DEF StartRefused, Whose, NoneLost, Awaited, Started, TypeOK, ctl
  <2>4. Places' = Places
    BY <1>1 DEF StartRefused, Places, TypeOK
  <2> QED BY <1>1, <2>1, <2>2, <2>3, <2>4 DEF StartRefused, KeepsToLimit
<1>2. ASSUME NEW j \in Jobs, Start(j) PROVE IInv'
  <2>1. CASE running < Limit
    <3>1. TypeOK'
      BY <1>2, <2>1, LimitAssumption DEF Start, TypeOK, Phases, ctl
    <3>2. InLine'
      BY <1>2, <2>1 DEF Start, InLine, TypeOK
    <3>3. Whose' /\ NoneLost' /\ Awaited'
      BY <1>2, <2>1 DEF Start, Whose, NoneLost, Awaited, Started, TypeOK, ctl
    <3>4. Places' = Places \cup {j} /\ j \notin Places
      BY <1>2, <2>1 DEF Start, Places, TypeOK
    <3>5. KeepsToLimit'
      <4>1. Cardinality(Places \cup {j}) = Cardinality(Places) + 1
        BY <3>4, PlacesFinite, FS_AddElement
      <4>2. running' = running + 1 /\ waiting' = waiting /\ waiting = <<>>
        BY <1>2, <2>1 DEF Start, KeepsToLimit, TypeOK
      <4> QED BY <2>1, <3>4, <4>1, <4>2, LimitAssumption DEF KeepsToLimit, TypeOK
    <3> QED BY <3>1, <3>2, <3>3, <3>5
  <2>2. CASE ~(running < Limit)
    <3>0. waiting' = Append(waiting, j) /\ waiting \in Seq(Jobs)
      BY <1>2, <2>2 DEF Start, TypeOK
    <3>1. waiting' \in Seq(Jobs) /\ Len(waiting') = Len(waiting) + 1
          /\ (\A i \in 1..Len(waiting) : waiting'[i] = waiting[i])
          /\ waiting'[Len(waiting) + 1] = j
      BY <3>0, AppendProperties
    <3>2. TypeOK'
      BY <1>2, <2>2, <3>1 DEF Start, TypeOK, Phases, ctl
    <3>3. InLine'
      <4>1. \A i \in 1..Len(waiting) : waiting[i] # j
        BY <1>2 DEF Start, InLine
      <4>2. phase' = [phase EXCEPT ![j] = "waiting"]
        BY <1>2, <2>2 DEF Start
      <4>3. \A i \in 1..Len(waiting) : waiting[i] \in Jobs
        BY DEF TypeOK
      <4>4. Len(waiting) \in Nat
        BY DEF TypeOK
      <4>5. Distinct(waiting')
        BY <3>1, <4>1, <4>4 DEF InLine, Distinct
      <4>6. \A i \in 1..Len(waiting') : phase'[waiting'[i]] = "waiting"
        <5>1. \A i \in 1..Len(waiting) : phase'[waiting'[i]] = "waiting"
          BY <3>1, <4>1, <4>2, <4>3 DEF InLine, TypeOK
        <5>2. phase'[waiting'[Len(waiting) + 1]] = "waiting"
          BY <3>1, <4>2 DEF TypeOK
        <5> QED BY <3>1, <4>4, <5>1, <5>2
      <4> QED BY <4>5, <4>6 DEF InLine
    <3>4. Whose' /\ NoneLost' /\ Awaited'
      BY <1>2, <2>2 DEF Start, Whose, NoneLost, Awaited, Started, TypeOK, ctl
    <3>5. Places' = Places
      BY <1>2, <2>2 DEF Start, Places, TypeOK
    <3>6. KeepsToLimit'
      BY <1>2, <2>2, <3>5, LimitAssumption DEF Start, KeepsToLimit, TypeOK
    <3> QED BY <3>2, <3>3, <3>4, <3>6
  <2> QED BY <2>1, <2>2
<1>3. ASSUME NEW j \in Jobs, Finish(j)
      PROVE  done' \in [Jobs -> BOOLEAN] /\ canceled' \in [Jobs -> BOOLEAN]
             /\ \A k \in Jobs : done'[k] <=> (done[k] \/ k = j)
  BY <1>3, Zenon DEF Finish, TypeOK
<1>4. ASSUME NEW j \in Jobs, Refuse(j) PROVE IInv'
  <2>1. TypeOK'
    BY <1>3, <1>4 DEF Refuse, TypeOK, Phases, queue, ctl
  <2>2. InLine'
    BY <1>4 DEF Refuse, InLine, TypeOK, queue
  <2>3. Whose' /\ NoneLost' /\ Awaited'
    BY <1>3, <1>4 DEF Refuse, Whose, NoneLost, Awaited, Started, TypeOK, queue, ctl
  <2>4. Places' = Places
    BY <1>4 DEF Refuse, Places, TypeOK
  <2> QED BY <1>4, <2>1, <2>2, <2>3, <2>4 DEF Refuse, KeepsToLimit, queue
<1>5. ASSUME NEW j \in Jobs, WorkEnds(j) PROVE IInv'
  <2>1. TypeOK'
    BY <1>3, <1>5 DEF WorkEnds, TypeOK, Phases, queue, ctl
  <2>2. InLine'
    BY <1>5 DEF WorkEnds, InLine, TypeOK, queue
  <2>3. Whose' /\ NoneLost' /\ Awaited'
    BY <1>3, <1>5 DEF WorkEnds, Whose, NoneLost, Awaited, Started, TypeOK, queue, ctl
  <2>4. Places' = Places
    BY <1>5 DEF WorkEnds, Places, TypeOK
  <2> QED BY <1>5, <2>1, <2>2, <2>3, <2>4 DEF WorkEnds, KeepsToLimit, queue
<1>6. ASSUME NEW j \in Jobs, HandOn(j) PROVE IInv'
  <2>1. CASE waiting = <<>>
    <3>1. Places' = Places \ {j} /\ j \in Places
      BY <1>6, <2>1 DEF HandOn, Places, TypeOK
    <3>2. KeepsToLimit' /\ running - 1 \in 0..Limit
      <4>1. Cardinality(Places \ {j}) = Cardinality(Places) - 1 /\ Cardinality(Places) # 0
        BY <3>1, PlacesFinite, FS_RemoveElement, FS_EmptySet
      <4>2. running' = running - 1 /\ waiting' = <<>>
        BY <1>6, <2>1 DEF HandOn
      <4>3. running \in 1..Limit
        BY <4>1, PlacesFinite DEF KeepsToLimit, TypeOK
      <4> QED BY <3>1, <4>1, <4>2, <4>3, LimitAssumption DEF KeepsToLimit
    <3>3. TypeOK'
      BY <1>6, <2>1, <3>2 DEF HandOn, TypeOK, Phases, ctl
    <3>4. InLine'
      BY <1>6, <2>1 DEF HandOn, InLine, Distinct
    <3>5. Whose' /\ NoneLost' /\ Awaited'
      BY <1>6, <2>1 DEF HandOn, Whose, NoneLost, Awaited, Started, TypeOK, ctl
    <3> QED BY <3>2, <3>3, <3>4, <3>5
  <2>2. CASE waiting # <<>>
    <3> DEFINE h == Head(waiting)
    <3>1. /\ h \in Jobs /\ h = waiting[1] /\ Len(waiting) \in Nat \ {0}
          /\ Tail(waiting) \in Seq(Jobs) /\ Len(Tail(waiting)) = Len(waiting) - 1
          /\ \A i \in 1..Len(Tail(waiting)) : Tail(waiting)[i] = waiting[i + 1]
      BY <2>2, HeadTailProperties, EmptySeq DEF TypeOK
    <3>2. phase[h] = "waiting" /\ h # j
      BY <1>6, <3>1 DEF InLine, HandOn
    <3> HIDE DEF h
    <3>3. /\ waiting' = Tail(waiting) /\ running' = running
          /\ phase' = [phase EXCEPT ![j] = "gone", ![h] = "doing"]
      BY <1>6, <2>2 DEF HandOn, h
    <3>4. TypeOK'
      BY <1>6, <3>1, <3>3 DEF HandOn, TypeOK, Phases, ctl
    <3>5. InLine'
      <4>1. \A i \in 1..Len(Tail(waiting)) : Tail(waiting)[i] \in Jobs \ {h, j}
        BY <1>6, <3>1 DEF InLine, Distinct, TypeOK, HandOn
      <4> QED BY <3>1, <3>3, <4>1 DEF InLine, Distinct, TypeOK
    <3>6. Whose' /\ NoneLost' /\ Awaited'
      BY <1>6, <3>1, <3>2, <3>3 DEF HandOn, Whose, NoneLost, Awaited, Started, TypeOK, ctl
    <3>7. Places' = (Places \ {j}) \cup {h} /\ j \in Places /\ h \notin Places \ {j}
      BY <1>6, <3>1, <3>2, <3>3 DEF HandOn, Places, TypeOK
    <3>8. Cardinality(Places') = Cardinality(Places)
      <4>1. IsFiniteSet(Places \ {j}) /\ Cardinality(Places \ {j}) = Cardinality(Places) - 1
        BY <3>7, PlacesFinite, FS_RemoveElement
      <4>2. Cardinality((Places \ {j}) \cup {h}) = Cardinality(Places \ {j}) + 1
        BY <3>7, <4>1, FS_AddElement
      <4> QED BY <3>7, <4>1, <4>2, PlacesFinite
    <3>9. KeepsToLimit'
      BY <2>2, <3>3, <3>8 DEF KeepsToLimit
    <3> QED BY <3>4, <3>5, <3>6, <3>9
  <2> QED BY <2>1, <2>2
<1>7. ASSUME NEW j \in Jobs, Cancel(j) \/ DropCancel(j) \/ CancelOne(j) PROVE IInv'
  <2>1. canceled' \in [Jobs -> BOOLEAN]
    BY <1>7, Zenon DEF Cancel, DropCancel, CancelOne, TypeOK
  <2>2. TypeOK'
    BY <1>7, <2>1 DEF Cancel, DropCancel, CancelOne, TypeOK, queue, ctl
  <2>3. Whose'
    BY <1>7 DEF Cancel, DropCancel, CancelOne, Whose, TypeOK
  <2>4. UNCHANGED <<queue, phase, done, awaited, promised>>
    BY <1>7 DEF Cancel, DropCancel, CancelOne, ctl
  <2> QED BY <2>2, <2>3, <2>4 DEF queue, InLine, KeepsToLimit, Places, NoneLost, Started, Awaited
<1>8. ASSUME NEW j \in Jobs, DropLists(j) PROVE IInv'
  <2> DEFINE r == Without(waiting, j)
  <2>1. /\ r \in Seq(Jobs) /\ Distinct(r) /\ (r # <<>> => waiting # <<>>)
        /\ \A k \in 1..Len(r) : r[k] # j /\ \E i \in 1..Len(waiting) : r[k] = waiting[i]
    BY WithoutProperties DEF TypeOK, InLine
  <2> HIDE DEF r
  <2>2. waiting' = r /\ running' = running /\ UNCHANGED <<canceled, done, ctl>>
    BY <1>8 DEF DropLists, r
  <2>3. TypeOK'
    BY <1>8, <2>1, <2>2 DEF DropLists, TypeOK, Phases, ctl
  <2>4. InLine'
    <3>1. \A k \in 1..Len(r) : r[k] \in Jobs
      BY <2>1
    <3>2. \A k \in Jobs \ {j} : phase'[k] = phase[k]
      BY <1>8 DEF DropLists, TypeOK
    <3> QED BY <2>1, <2>2, <3>1, <3>2 DEF InLine
  <2>5. Whose' /\ NoneLost' /\ Awaited'
    BY <1>8, <2>2 DEF DropLists, Whose, NoneLost, Awaited, Started, TypeOK, ctl
  <2>6. Places' = Places
    BY <1>8 DEF DropLists, Places, TypeOK
  <2>7. KeepsToLimit'
    BY <2>1, <2>2, <2>6 DEF KeepsToLimit
  <2> QED BY <2>3, <2>4, <2>5, <2>7
<1>9. ASSUME NEW j \in Jobs, DropWaiting(j) PROVE IInv'
  <2>1. TypeOK'
    BY <1>3, <1>9 DEF DropWaiting, TypeOK, queue, ctl
  <2>2. Whose' /\ NoneLost' /\ Awaited'
    BY <1>3, <1>9 DEF DropWaiting, Whose, NoneLost, Awaited, Started, TypeOK, queue, ctl
  <2> QED BY <1>9, <2>1, <2>2 DEF DropWaiting, InLine, KeepsToLimit, Places, queue
<1>10. CASE DropFinished
  <2>1. TypeOK'
    BY <1>10 DEF DropFinished, TypeOK, ctl
  <2>2. NoneLost'
    BY <1>10 DEF DropFinished, NoneLost, Started
  <2> QED BY <1>10, <2>1, <2>2
          DEF DropFinished, InLine, Whose, KeepsToLimit, Places, Awaited, ctl
<1>11. CASE CancelAll
  <2>1. TypeOK'
    BY <1>11 DEF CancelAll, Sweep, Unfinished, TypeOK
  <2>2. NoneLost'
    BY <1>11 DEF CancelAll, Sweep, NoneLost, Started
  <2> QED BY <1>11, <2>1, <2>2
          DEF CancelAll, InLine, Whose, KeepsToLimit, Places, Awaited
<1>12. CASE WaitFor
  <2>1. TypeOK'
    BY <1>12 DEF WaitFor, Sweep, Unfinished, Started, TypeOK
  <2>2. NoneLost'
    BY <1>12 DEF WaitFor, Sweep, NoneLost, Started
  <2>3. Awaited'
    BY <1>12 DEF WaitFor, Unfinished, NoneLost, Started, Awaited
  <2> QED BY <1>12, <2>1, <2>2, <2>3 DEF WaitFor, InLine, Whose, KeepsToLimit, Places
<1>13. CASE AllStopped \/ TimedOut
  <2>1. WaitOver
    BY <1>13 DEF AllStopped, TimedOut
  <2>2. TypeOK'
    BY <2>1 DEF WaitOver, TypeOK, queue
  <2> QED BY <2>1, <2>2
          DEF WaitOver, InLine, Whose, KeepsToLimit, Places, NoneLost, Started, Awaited, queue
<1>14. ASSUME NEW j \in Jobs, Hangs(j) \/ Answers(j) PROVE IInv'
  <2>1. UNCHANGED <<queue, phase, canceled, done, drop, stopping, stopped, waiter, awaited, promised>>
        /\ stuck' \in SUBSET Jobs
    BY <1>14 DEF Hangs, Answers, TypeOK
  <2>2. TypeOK'
    BY <2>1, Zenon DEF TypeOK, queue
  <2> QED BY <2>1, <2>2
          DEF InLine, Whose, KeepsToLimit, Places, NoneLost, Started, Awaited, queue
<1>15. CASE UNCHANGED vars
  BY <1>15 DEF vars, queue, ctl, TypeOK, InLine, Whose, KeepsToLimit, Places, NoneLost,
               Started, Awaited
<1> QED
  BY <1>1, <1>2, <1>4, <1>5, <1>6, <1>7, <1>8, <1>9, <1>10, <1>11, <1>12, <1>13, <1>14,
     <1>15
  DEF Next

(* The invariant holds in every reachable state. *)
THEOREM Invariance == Spec => []IInv
  BY InitInv, NextInv, PTL DEF Spec

(* The count of jobs running is never below 0 or above the limit, and what the
   queue keeps is of its kind (Queue.Start, run, Drop and WaitFor). *)
THEOREM TypeCorrect == Spec => []TypeOK
  BY Invariance, PTL DEF IInv

(* However jobs are started, end, and are dropped: the count of places taken is
   right, at most Limit jobs are being done, and none waits beside a free place
   (Queue.Start, run and Drop).                                               *)
THEOREM LimitIsKept == Spec => []KeepsToLimit
  BY Invariance, PTL DEF IInv

(* A job that was started stays listed or leaving until it is done, so that
   Queue.unfinished finds it.                                                 *)
THEOREM NoJobIsLost == Spec => []NoneLost
  BY Invariance, PTL DEF IInv

(* WaitFor returns true only when every job that had been started when it was
   called is done, dropped ones too.                                          *)
THEOREM WaitingIsTruthful == Spec => WaitIsTrue
<1>1. IInv /\ [Next]_vars => [AllStopped => \A j \in promised : done[j]]_vars
  BY DEF IInv, Awaited, AllStopped
<1> QED BY <1>1, Invariance, PTL DEF Spec, WaitIsTrue

(* A job nothing happened to is where it was on the board; when something
   happened to one job only, the board changed in one place.                *)
LEMMA WorkUnchanged ==
  ASSUME NEW k \in Jobs, phase'[k] = phase[k], done'[k] = done[k]
  PROVE  Work'[k] = Work[k]
  BY DEF Work

LEMMA WorkChange ==
  ASSUME NEW j \in Jobs, \A k \in Jobs \ {j} : Work'[k] = Work[k]
  PROVE  Work' = [Work EXCEPT ![j] = Work'[j]]
<1>1. Work = [k \in Jobs |-> Work[k]] /\ Work' = [k \in Jobs |-> Work'[k]]
  BY SMT DEF Work
<1> HIDE DEF Work
<1> QED BY <1>1

LEMMA SameWork == (\A k \in Jobs : Work'[k] = Work[k]) => Work' = Work
<1>1. Work = [k \in Jobs |-> Work[k]] /\ Work' = [k \in Jobs |-> Work'[k]]
  BY SMT DEF Work
<1> HIDE DEF Work
<1> QED BY <1>1

LEMMA SameCount == \A S : Board!Cardinality(S) = Cardinality(S)
  BY DEF Board!Cardinality, Cardinality, Board!IsFiniteSet, IsFiniteSet

(* Each step of the queue is a step of the board, or none. *)
LEMMA BoardStep == IInv /\ [Next]_vars => [Board!Next]_Work
<1> SUFFICES ASSUME IInv, [Next]_vars PROVE Board!Next \/ Work' = Work
  OBVIOUS
<1> USE DEF IInv
<1>0. Cardinality(Board!Working) <= running
  <2>1. Board!Working = {j \in Jobs : phase[j] = "doing"}
    BY DEF Board!Working, Work, Whose, TypeOK, Phases
  <2>2. Board!Working \subseteq Places
    BY <2>1 DEF Places
  <2> QED BY <2>2, PlacesFinite, FS_Subset DEF KeepsToLimit
<1>1. ASSUME NEW j \in Jobs, StartRefused(j) PROVE Board!HandIn(j)
  <2>1. Work[j] = "new" /\ Work'[j] = "queued"
    BY <1>1 DEF StartRefused, Work, Whose, TypeOK
  <2>2. \A k \in Jobs \ {j} : Work'[k] = Work[k]
    BY <1>1, WorkUnchanged DEF StartRefused, TypeOK
  <2> QED BY <2>1, <2>2, WorkChange DEF Board!HandIn
<1>2. Cardinality(Board!Working) \in Nat
  <2>1. Board!Working \in SUBSET Jobs
    BY DEF Board!Working
  <2> QED BY <2>1, JobsAssumption, FS_Subset, FS_CardinalityType
<1>3. ASSUME NEW j \in Jobs, Start(j) PROVE Board!Next
  <2>1. CASE running < Limit
    <3>1. Cardinality(Board!Working) < Limit
      BY <1>0, <1>2, <2>1, LimitAssumption DEF TypeOK
    <3>2. Work[j] = "new" /\ Work'[j] = "working"
      BY <1>3, <2>1 DEF Start, Work, Whose, TypeOK
    <3>3. \A k \in Jobs \ {j} : Work'[k] = Work[k]
      BY <1>3, <2>1, WorkUnchanged DEF Start, TypeOK
    <3>4. Work' = [Work EXCEPT ![j] = "working"]
      BY <3>2, <3>3, WorkChange
    <3> QED BY <3>1, <3>2, <3>4, SameCount DEF Board!TakeUp, Board!Next
  <2>2. CASE ~(running < Limit)
    <3>2. Work[j] = "new" /\ Work'[j] = "queued"
      BY <1>3, <2>2 DEF Start, Work, Whose, TypeOK
    <3>3. \A k \in Jobs \ {j} : Work'[k] = Work[k]
      BY <1>3, <2>2, WorkUnchanged DEF Start, TypeOK
    <3> QED BY <3>2, <3>3, WorkChange DEF Board!HandIn, Board!Next
  <2> QED BY <2>1, <2>2
<1>4. ASSUME NEW j \in Jobs, Work[j] \in {"queued", "working"}, Finish(j),
             phase'[j] # "doing", \A k \in Jobs \ {j} : phase'[k] = phase[k]
      PROVE  Board!End(j)
  <2>1. done'[j] = TRUE /\ \A k \in Jobs \ {j} : done'[k] = done[k]
    BY <1>4, Zenon DEF Finish, TypeOK
  <2>2. Work'[j] = "over"
    BY <1>4, <2>1 DEF Work
  <2>3. \A k \in Jobs \ {j} : Work'[k] = Work[k]
    BY <1>4, <2>1, WorkUnchanged
  <2> QED BY <1>4, <2>2, <2>3, WorkChange DEF Board!End
<1>5. ASSUME NEW j \in Jobs, Refuse(j) \/ WorkEnds(j) \/ DropWaiting(j) PROVE Board!End(j)
  <2>1. Work[j] \in {"queued", "working"}
    BY <1>5 DEF Refuse, WorkEnds, DropWaiting, Work, Whose
  <2>2. phase'[j] # "doing" /\ \A k \in Jobs \ {j} : phase'[k] = phase[k]
    BY <1>5 DEF Refuse, WorkEnds, DropWaiting, TypeOK, Whose
  <2> QED BY <1>4, <1>5, <2>1, <2>2 DEF Refuse, WorkEnds, DropWaiting
<1>6. ASSUME NEW j \in Jobs, HandOn(j) PROVE Board!Next \/ Work' = Work
  <2>1. CASE waiting = <<>>
    <3>1. Work'[j] = Work[j]
      BY <1>6, <2>1 DEF HandOn, Work, Whose, TypeOK
    <3>2. \A k \in Jobs \ {j} : Work'[k] = Work[k]
      BY <1>6, <2>1, WorkUnchanged DEF HandOn, TypeOK
    <3> QED BY <3>1, <3>2, SameWork
  <2>2. CASE waiting # <<>>
    <3> DEFINE h == Head(waiting)
    <3>1. h \in Jobs /\ h = waiting[1] /\ 1 \in 1..Len(waiting)
      BY <2>2, HeadTailProperties, EmptySeq DEF TypeOK
    <3>2. phase[h] = "waiting" /\ h # j
      BY <1>6, <3>1 DEF InLine, HandOn
    <3> HIDE DEF h
    <3>3. done' = done /\ phase' = [phase EXCEPT ![j] = "gone", ![h] = "doing"]
      BY <1>6, <2>2 DEF HandOn, h
    <3>4. Work[h] = "queued" /\ Work' = [Work EXCEPT ![h] = "working"]
      <4>1. Work[h] = "queued" /\ Work'[h] = "working" /\ Work'[j] = Work[j]
        BY <1>6, <3>1, <3>2, <3>3 DEF HandOn, Work, Whose, TypeOK
      <4>2. \A k \in Jobs \ {h, j} : Work'[k] = Work[k]
        BY <3>1, <3>3, WorkUnchanged DEF TypeOK
      <4> QED BY <3>1, <4>1, <4>2, WorkChange
    (* The place of j is counted, and its work is over: there is room. *)
    <3>5. Cardinality(Board!Working) < Limit
      <4>1. Board!Working \subseteq Places \ {j} /\ j \in Places
        BY <1>6 DEF Board!Working, Work, Places, Whose, HandOn, TypeOK, Phases
      <4>2. IsFiniteSet(Places \ {j}) /\ Cardinality(Places \ {j}) = Cardinality(Places) - 1
        BY <4>1, PlacesFinite, FS_RemoveElement
      <4>3. Cardinality(Board!Working) <= Cardinality(Places \ {j})
        BY <4>1, <4>2, FS_Subset
      <4> QED BY <1>2, <4>2, <4>3, PlacesFinite, LimitAssumption DEF KeepsToLimit, TypeOK
    <3> QED BY <3>1, <3>4, <3>5, SameCount DEF Board!TakeUp, Board!Next
  <2> QED BY <2>1, <2>2
<1>7. ASSUME NEW j \in Jobs, DropLists(j) PROVE Work' = Work
  <2>1. Work'[j] = Work[j]
    BY <1>7 DEF DropLists, Work, Whose, TypeOK
  <2>2. \A k \in Jobs \ {j} : Work'[k] = Work[k]
    BY <1>7, WorkUnchanged DEF DropLists, TypeOK
  <2> QED BY <2>1, <2>2, SameWork
<1>8. CASE \/ DropFinished \/ CancelAll \/ WaitFor \/ AllStopped \/ TimedOut \/ UNCHANGED vars
           \/ \E j \in Jobs : Cancel(j) \/ DropCancel(j) \/ CancelOne(j) \/ Hangs(j) \/ Answers(j)
  BY <1>8 DEF DropFinished, CancelAll, WaitFor, AllStopped, TimedOut, WaitOver, Cancel,
              DropCancel, CancelOne, Hangs, Answers, vars, Work
<1> QED
  <2>1. ASSUME NEW j \in Jobs, Board!HandIn(j) \/ Board!End(j) PROVE Board!Next
    BY <2>1 DEF Board!Next
  <2> QED BY <1>1, <1>3, <1>5, <1>6, <1>7, <1>8, <2>1 DEF Next

(* The queue implements JobBoard: whatever is started, dropped, cancelled and
   handed on, work is taken up once at most, within the limit, and what is over
   is not taken up again.                                                     *)
THEOREM QueueIsABoard == Spec => IsABoard
<1>1. Init => Board!Init
  BY DEF Init, Board!Init, Work
<1>2. IInv /\ [Next]_vars => [Board!Next]_Work
  BY BoardStep
<1> QED BY <1>1, <1>2, Invariance, PTL DEF Spec, IsABoard, Board!Spec
---------------------------------------------------------------------------
(* The connections made, the hops as they are dialled, and the dials. *)
Made == 1..Len(conns)
HopRec == [to : Servers, at : Nat, agent : BOOLEAN]
DialRec == [at : {"on", "done", "failed"}, hops : Seq(HopRec), start : Nat, next : Nat,
            conn : Nat, made : Seq(Nat)]

(* Every variable holds what it is for, and each connection goes through one
   made before it. *)
HopsTypeOK ==
  /\ saved \in [Servers -> [at : Nat, agent : BOOLEAN]]
  /\ conns \in Seq([to : Servers, hop : HopRec, via : Nat]) /\ Len(conns) <= MaxConns
  /\ \A c \in Made : conns[c].via < c
  /\ shut \subseteq Made /\ closing \subseteq Made
  /\ own \in [Servers -> 0..Len(conns)] /\ hops \in [Servers -> 0..Len(conns)]
  /\ letgo \subseteq Servers /\ dropped \subseteq Servers
  /\ dial \in [Servers -> {NoDial} \cup DialRec]
  /\ users \in [Ids -> Nat] /\ routes \in [Ids -> Seq(HopRec)] /\ wanted \in [Ids -> Seq(HopRec)]
  /\ deeds \in Nat

(* What a dial has made, the far end included once it is there. *)
Fresh(s) == IF dial[s] = NoDial THEN {} ELSE Under[dial[s].conn] \ Under[dial[s].start]

(* A dial on its way, of d.hops, of which those before d.next are there. *)
Dials(d) ==
  /\ d.start \in 0..Len(conns) /\ d.conn \in 0..Len(conns)
  /\ Under[d.start] \subseteq Under[d.conn]
  /\ \A n \in DOMAIN d.made : d.made[n] \in Under[d.conn]
  /\ d.next \in 1..(Len(d.hops) + 1)
  /\ NoMark(Way[d.conn]) = NoMark(SubSeq(d.hops, 1, d.next - 1))
OnTheWay(d) ==
  /\ d.next <= Len(d.hops)
  /\ \A c \in Under[d.conn] \ Under[d.start] : \E n \in DOMAIN d.made : d.made[n] = c
  /\ Len(d.made) <= d.next - 1
  /\ \A n \in DOMAIN d.made :
       RouteOf(Way[d.made[n]]) = RouteOf(SubSeq(d.hops, 1, d.next - 1 - Len(d.made) + n))
AtItsEnd(d) ==
  /\ d.next = Len(d.hops) + 1 /\ d.conn # 0
  /\ Len(d.made) <= Len(d.hops) - 1
  /\ RouteOf(Way[d.conn]) = RouteOf(d.hops)
  /\ \A n \in DOMAIN d.made :
       RouteOf(Way[d.made[n]]) = RouteOf(SubSeq(d.hops, 1, FirstMade(d) + n))
DialsOK == \A s \in Servers : dial[s] # NoDial =>
  /\ own[s] = 0 /\ Dials(dial[s])
  /\ IF dial[s].at = "done" THEN AtItsEnd(dial[s]) ELSE OnTheWay(dial[s])

(* What others go through, or could. *)
Held(s) == IF dial[s] = NoDial THEN {} ELSE Under[dial[s].start]
Shared == closing \cup UNION {Under[own[s]] \cup Under[hops[s]] \cup Held(s) : s \in Servers}

(* What a dial has made is its own till it is done. *)
MadeIsOwn ==
  /\ \A s \in Servers : Fresh(s) \cap Shared = {}
  /\ \A s, t \in Servers : s # t => Fresh(s) \cap Fresh(t) = {}

(* A connection kept to go through is used, while it is up. *)
KeptIsUsed == \A s \in Servers : Up(hops[s]) => hops[s] \in InUse

(* Each connection's route is the way to it. *)
RoutesAreTrue ==
  \A c \in Ids : routes[c] # << >> => c \in Made /\ routes[c] = RouteOf(Way[c])

NoneYetUsed == \A c \in Ids : c \notin Made => users[c] = 0

HopsIInv ==
  /\ HopsTypeOK /\ DialsOK /\ MadeIsOwn /\ KeptIsUsed /\ RoutesAreTrue /\ NoneYetUsed
  /\ CountsAreTrue /\ ClosedOnceUnused /\ ReachedAsSaved
(* A non-empty set of numbers up to n has a least one. *)
LEMMA LeastOfSet ==
  ASSUME NEW n \in Nat, NEW T, T \subseteq 0..n, T # {}
  PROVE  \E x \in T : \A y \in T : x <= y
<1> DEFINE S == 0..n
           D == {0..x : x \in T}
<1>1. IsWellFoundedOn(StrictSubsetOrdering(S), FiniteSubsetsOf(S))
  BY FS_StrictSubsetOrderingWellFounded
<1>2. IsFiniteSet(S)
  BY FS_Interval
<1>3. FiniteSubsetsOf(S) = SUBSET S
  BY <1>2, FS_FiniteSubsetsOfFinite
<1>4. D \subseteq SUBSET S /\ D # {}
  <2>1. \A x \in T : 0..x \subseteq S
    OBVIOUS
  <2> HIDE DEF S
  <2> QED BY <2>1
<1>5. PICK m \in D : \A k \in D : ~(<<k, m>> \in StrictSubsetOrdering(S))
  <2> HIDE DEF S, D
  <2> QED BY <1>1, <1>3, <1>4, WFMin
<1>6. PICK x \in T : m = 0..x
  OBVIOUS
<1>7. ASSUME NEW y \in T, ~(x <= y) PROVE FALSE
  <2>1. 0..y \subseteq 0..x /\ 0..y # 0..x /\ 0..y \in D
    <3>1. x \in 0..x /\ x \notin 0..y
      BY <1>7
    <3> QED BY <3>1, <1>7
  <2>2. <<0..y, m>> \in StrictSubsetOrdering(S)
    BY <2>1, <1>6 DEF StrictSubsetOrdering
  <2> QED BY <2>1, <2>2, <1>5
<1> QED BY <1>7

(* What a recursion along a chain of connections defines: there is a function
   that is base at 0, and at each c what step makes of its value at via[c].  *)
Recursion(n, via, V, base, step) ==
  /\ n \in Nat /\ \A c \in 1..n : via[c] \in 0..(c - 1)
  /\ base \in V /\ step \in [(1..n) \X V -> V]
Solves(f, n, via, V, base, step) ==
  /\ f \in [0..n -> V]
  /\ \A c \in 0..n : f[c] = IF c = 0 THEN base ELSE step[<<c, f[via[c]]>>]

LEMMA ChainRecursion ==
  ASSUME NEW n, NEW via, NEW V, NEW base, NEW step, Recursion(n, via, V, base, step)
  PROVE  \E f : Solves(f, n, via, V, base, step)
<1> USE DEF Recursion
<1> DEFINE Obeys(f, m) == /\ f \in [0..m -> V]
                          /\ \A c \in 0..m : f[c] = IF c = 0 THEN base ELSE step[<<c, f[via[c]]>>]
           bad == {m \in 0..n : ~ \E f : Obeys(f, m)}
<1>1. SUFFICES ASSUME bad # {} PROVE FALSE
  <2>1. n \in 0..n
    OBVIOUS
  <2> QED BY <2>1 DEF Solves
<1>2. PICK m \in bad : \A y \in bad : m <= y
  <2>1. bad \subseteq 0..n
    OBVIOUS
  <2> HIDE DEF bad
  <2> QED BY <1>1, <2>1, LeastOfSet
<1>3. CASE m = 0
  <2>1. Obeys([c \in 0..0 |-> base], 0)
    OBVIOUS
  <2> QED BY <2>1, <1>2, <1>3
<1>4. CASE m # 0
  <2>1. m \in 1..n /\ m - 1 \in 0..n
    BY <1>2, <1>4
  <2>2. PICK f : Obeys(f, m - 1)
    BY <1>2, <2>1
  <2> DEFINE g == [c \in 0..m |-> IF c = m THEN step[<<m, f[via[m]]>>] ELSE f[c]]
  <2>3. \A c \in 0..m : via[c] \in 0..(m - 1) \/ c = 0
    BY <2>1
  <2>4. \A c \in 0..m : c # m => c \in 0..(m - 1)
    BY <2>1
  <2>5. step[<<m, f[via[m]]>>] \in V
    BY <2>1, <2>2, <2>3
  <2>6. g \in [0..m -> V]
    BY <2>2, <2>4, <2>5
  <2>7. \A c \in 0..m : c # m => g[c] = f[c]
    OBVIOUS
  <2>8. g[m] = step[<<m, f[via[m]]>>]
    BY <2>1
  <2>9. \A c \in 1..m : via[c] \in 0..m /\ via[c] # m
    BY <2>1, <2>3
  <2>10. ASSUME NEW c \in 0..m PROVE g[c] = IF c = 0 THEN base ELSE step[<<c, g[via[c]]>>]
    <3> HIDE DEF g
    <3>1. CASE c = m
      BY <3>1, <2>1, <2>7, <2>8, <2>9
    <3>2. CASE c = 0
      <4>1. 0 # m /\ 0 \in 0..(m - 1) /\ 0 \in 0..m
        BY <2>1
      <4>2. f[0] = base
        BY <4>1, <2>2
      <4> QED BY <3>2, <4>1, <4>2, <2>7
    <3>3. CASE c # m /\ c # 0
      <4>1. c \in 0..(m - 1) /\ c \in 1..m
        BY <3>3, <2>1
      <4>2. g[via[c]] = f[via[c]]
        BY <4>1, <2>7, <2>9
      <4>3. f[c] = step[<<c, f[via[c]]>>]
        BY <4>1, <2>2, <3>3
      <4> QED BY <3>3, <4>2, <4>3, <2>7
    <3> QED BY <3>1, <3>2, <3>3
  <2>11. Obeys(g, m)
    <3> HIDE DEF g
    <3> QED BY <2>6, <2>10
  <2> QED BY <2>11, <1>2
<1> QED BY <1>3, <1>4

(* The chain of connections is well founded: each goes through one before it. *)
Chained == conns \in Seq([to : Servers, hop : HopRec, via : Nat]) /\ \A c \in Made : conns[c].via < c

LEMMA ViaIs ==
  ASSUME Chained
  PROVE  /\ Len(conns) \in Nat
         /\ \A c \in Made : /\ conns[c].via \in 0..(c - 1) /\ conns[c].via \in 0..Len(conns)
                            /\ conns[c].hop \in HopRec /\ conns[c].to \in Servers
<1>1. Len(conns) \in Nat
  BY DEF Chained
<1>2. ASSUME NEW c \in Made
      PROVE  /\ conns[c].via \in 0..(c - 1) /\ conns[c].via \in 0..Len(conns)
             /\ conns[c].hop \in HopRec /\ conns[c].to \in Servers
  <2>1. conns[c] \in [to : Servers, hop : HopRec, via : Nat]
    BY ElementOfSeq DEF Chained, Made
  <2>2. conns[c].via < c /\ c \in 1..Len(conns)
    BY DEF Chained, Made
  <2> QED BY <1>1, <2>1, <2>2
<1> QED BY <1>1, <1>2

LEMMA UnderIs ==
  ASSUME Chained
  PROVE  /\ Under[0] = {}
         /\ \A c \in Made : Under[c] = {c} \cup Under[conns[c].via]
<1> DEFINE n == Len(conns)
           via == [c \in 1..n |-> conns[c].via]
           V == SUBSET Nat
           step == [x \in (1..n) \X V |-> {x[1]} \cup x[2]]
<1>1. n \in Nat /\ \A c \in 1..n : conns[c].via \in 0..(c - 1)
  BY ViaIs DEF Made
<1>2. step \in [(1..n) \X V -> V]
  BY <1>1
<1>3. PICK f \in [0..n -> V] : \A c \in 0..n : f[c] = IF c = 0 THEN {} ELSE step[<<c, f[via[c]]>>]
  <2>1. {} \in V /\ \A c \in 1..n : via[c] \in 0..(c - 1)
    BY <1>1
  <2> HIDE DEF n, via, V, step
  <2>2. Recursion(n, via, V, {}, step)
    BY <1>1, <1>2, <2>1 DEF Recursion
  <2> QED BY <2>2, ChainRecursion DEF Solves
<1>4. \A c \in 0..n : f[c] = IF c = 0 THEN {} ELSE {c} \cup f[conns[c].via]
  <2> SUFFICES ASSUME NEW c \in 0..n, c # 0 PROVE f[c] = {c} \cup f[conns[c].via]
    BY <1>3
  <2>1. c \in 1..n /\ via[c] = conns[c].via /\ f[via[c]] \in V
    BY <1>1
  <2>2. step[<<c, f[via[c]]>>] = {c} \cup f[via[c]]
    BY <2>1
  <2> QED BY <2>1, <2>2, <1>3
<1>5. f = [c \in 0..n |-> IF c = 0 THEN {} ELSE {c} \cup f[conns[c].via]]
  BY <1>4
<1>6. Under = [c \in 0..n |-> IF c = 0 THEN {} ELSE {c} \cup Under[conns[c].via]]
  BY <1>5, Zenon DEF Under
<1>7. 0 \in 0..n /\ \A c \in Made : c \in 0..n /\ c # 0
  BY <1>1 DEF Made
<1> HIDE DEF n
<1> QED BY <1>6, <1>7

LEMMA WayIs ==
  ASSUME Chained
  PROVE  /\ Way[0] = << >>
         /\ \A c \in Made : /\ Way[c] = Append(Way[conns[c].via], conns[c].hop)
                            /\ Way[c] \in Seq(HopRec)
<1> DEFINE n == Len(conns)
           via == [c \in 1..n |-> conns[c].via]
           V == Seq(HopRec)
           step == [x \in (1..n) \X V |-> Append(x[2], conns[x[1]].hop)]
<1>1. n \in Nat /\ \A c \in 1..n : conns[c].via \in 0..(c - 1) /\ conns[c].hop \in HopRec
  BY ViaIs DEF Made
<1>2. step \in [(1..n) \X V -> V]
  BY <1>1, AppendProperties
<1>3. PICK f \in [0..n -> V] : \A c \in 0..n : f[c] = IF c = 0 THEN << >> ELSE step[<<c, f[via[c]]>>]
  <2>1. << >> \in V /\ \A c \in 1..n : via[c] \in 0..(c - 1)
    BY <1>1
  <2> HIDE DEF n, via, V, step
  <2>2. Recursion(n, via, V, << >>, step)
    BY <1>1, <1>2, <2>1 DEF Recursion
  <2> QED BY <2>2, ChainRecursion DEF Solves
<1>4. \A c \in 0..n : f[c] = IF c = 0 THEN << >> ELSE Append(f[conns[c].via], conns[c].hop)
  <2> SUFFICES ASSUME NEW c \in 0..n, c # 0 PROVE f[c] = Append(f[conns[c].via], conns[c].hop)
    BY <1>3
  <2>1. c \in 1..n /\ via[c] = conns[c].via /\ f[via[c]] \in V
    BY <1>1
  <2>2. step[<<c, f[via[c]]>>] = Append(f[via[c]], conns[c].hop)
    BY <2>1
  <2> QED BY <2>1, <2>2, <1>3
<1>5. f = [c \in 0..n |-> IF c = 0 THEN << >> ELSE Append(f[conns[c].via], conns[c].hop)]
  BY <1>4
<1>6. Way = [c \in 0..n |-> IF c = 0 THEN << >> ELSE Append(Way[conns[c].via], conns[c].hop)]
  BY <1>5, Zenon DEF Way
<1>7. 0 \in 0..n /\ \A c \in Made : c \in 0..n /\ c # 0
  BY <1>1 DEF Made
<1>8. \A c \in 0..n : Way[c] \in V
  <2> DEFINE bad == {c \in 0..n : Way[c] \notin V}
  <2>1. SUFFICES ASSUME bad # {} PROVE FALSE
    OBVIOUS
  <2>2. PICK c \in bad : \A y \in bad : c <= y
    <3>1. bad \subseteq 0..n
      OBVIOUS
    <3> HIDE DEF bad
    <3> QED BY <1>1, <2>1, <3>1, LeastOfSet
  <2>3. CASE c = 0
    BY <2>2, <2>3, <1>6, <1>7
  <2>4. CASE c # 0
    <3>1. c \in 1..n /\ conns[c].via \in 0..n /\ conns[c].via \in 0..(c - 1) /\ conns[c].hop \in HopRec
      BY <2>4, <1>1
    <3>2. Way[conns[c].via] \in V
      BY <3>1, <2>2
    <3>3. Way[c] = Append(Way[conns[c].via], conns[c].hop)
      BY <3>1, <1>6, <2>4
    <3>4. Append(Way[conns[c].via], conns[c].hop) \in V
      BY <3>1, <3>2, AppendProperties
    <3> HIDE DEF V
    <3> QED BY <3>3, <3>4, <2>2
  <2> QED BY <2>3, <2>4
<1> HIDE DEF n, V
<1>9. \A c \in Made : Way[c] \in V
  BY <1>7, <1>8
<1> QED BY <1>6, <1>7, <1>9 DEF V

(* What a connection goes through was made before it, and goes through less. *)
LEMMA UnderProperties ==
  ASSUME Chained
  PROVE  /\ Under[0] = {}
         /\ \A c \in 0..Len(conns) :
              /\ Under[c] \subseteq 1..c
              /\ c # 0 => c \in Under[c]
              /\ \A d \in Under[c] : Under[d] \subseteq Under[c]
<1> DEFINE n == Len(conns)
           Fine(c) == Under[c] \subseteq 1..c /\ \A d \in Under[c] : Under[d] \subseteq Under[c]
           bad == {c \in 0..n : ~Fine(c)}
<1>1. n \in Nat
  BY DEF Chained
<1>2. \A c \in 0..n : Fine(c)
  <2>1. SUFFICES ASSUME bad # {} PROVE FALSE
    OBVIOUS
  <2>2. PICK c \in bad : \A y \in bad : c <= y
    <3>1. bad \subseteq 0..n
      OBVIOUS
    <3> HIDE DEF bad
    <3> QED BY <1>1, <2>1, <3>1, LeastOfSet
  <2>3. CASE c = 0
    BY <2>2, <2>3, UnderIs
  <2>4. CASE c # 0
    <3>1. c \in 1..n /\ c \in Made
      BY <2>4 DEF Made
    <3> DEFINE v == conns[c].via
    <3>2. v \in 0..(c - 1) /\ v \in 0..n
      BY <3>1, ViaIs
    <3>3. Under[c] = {c} \cup Under[v]
      BY <3>1, UnderIs
    <3> HIDE DEF v
    <3>4. Fine(v)
      BY <2>2, <3>2
    <3>5. Under[c] \subseteq 1..c
      BY <3>1, <3>2, <3>3, <3>4
    <3>6. ASSUME NEW d \in Under[c] PROVE Under[d] \subseteq Under[c]
      BY <3>3, <3>4, <3>6
    <3> QED BY <2>2, <3>5, <3>6
  <2> QED BY <2>3, <2>4
<1>3. ASSUME NEW c \in 0..n, c # 0 PROVE c \in Under[c]
  BY <1>3, UnderIs DEF Made
<1>4. Under[0] = {}
  BY UnderIs
<1> HIDE DEF n
<1> QED BY <1>2, <1>3, <1>4 DEF n

(* What is known of the chain of connections, in a state and the next. *)
Reached ==
  /\ Len(conns) \in Nat /\ Under[0] = {} /\ Way[0] = << >>
  /\ \A c \in Made : /\ conns[c].via \in 0..(c - 1) /\ conns[c].via \in 0..Len(conns)
                     /\ conns[c].hop \in HopRec /\ conns[c].to \in Servers
                     /\ Under[c] = {c} \cup Under[conns[c].via]
                     /\ Way[c] = Append(Way[conns[c].via], conns[c].hop)
  /\ \A c \in 0..Len(conns) : /\ Under[c] \subseteq 1..c /\ Under[c] \subseteq Made
                              /\ \A d \in Under[c] : Under[d] \subseteq Under[c]
                              /\ Way[c] \in Seq(HopRec)
LEMMA ReachedIs == Chained => Reached
<1> SUFFICES ASSUME Chained PROVE Reached
  OBVIOUS
<1>1. \A c \in 0..Len(conns) : Under[c] \subseteq Made
  BY UnderProperties DEF Made, Chained
<1>2. Way[0] \in Seq(HopRec)
  BY WayIs, EmptySeq
<1>3. \A c \in 0..Len(conns) : Way[c] \in Seq(HopRec)
  BY <1>2, WayIs DEF Made
<1> QED BY <1>1, <1>3, ViaIs, UnderIs, WayIs, UnderProperties DEF Reached

LEMMA ReachedNext == Chained' => Reached'
  BY ReachedIs, PTL

(* A connection more, or none: the others are reached as they were. *)
LEMMA ChainGrows ==
  ASSUME Chained, Chained', Len(conns) <= Len(conns'),
         \A c \in Made : conns'[c] = conns[c]
  PROVE  \A c \in 0..Len(conns) : Under'[c] = Under[c] /\ Way'[c] = Way[c]
<1> DEFINE n == Len(conns)
           bad == {c \in 0..n : ~(Under'[c] = Under[c] /\ Way'[c] = Way[c])}
<1>1. n \in Nat /\ Made \subseteq Made'
  BY DEF Chained, Made
<1>2. SUFFICES ASSUME bad # {} PROVE FALSE
  OBVIOUS
<1>3. PICK c \in bad : \A y \in bad : c <= y
  <2>1. bad \subseteq 0..n
    OBVIOUS
  <2> HIDE DEF bad
  <2> QED BY <1>1, <1>2, <2>1, LeastOfSet
<1>4. Under'[0] = {} /\ Way'[0] = << >>
  BY ReachedNext DEF Reached
<1>5. CASE c = 0
  BY <1>3, <1>4, <1>5, UnderIs, WayIs
<1>6. CASE c # 0
  <2>1. c \in Made /\ c \in Made'
    BY <1>1, <1>3, <1>6 DEF Made
  <2>2. conns[c].via \in 0..(c - 1) /\ conns[c].via \in 0..n /\ conns'[c] = conns[c]
    BY <2>1, ViaIs
  <2>3. conns[c].via \notin bad
    BY <1>3, <2>1, <2>2 DEF Made
  <2>4. Under[c] = {c} \cup Under[conns[c].via] /\ Way[c] = Append(Way[conns[c].via], conns[c].hop)
    BY <2>1, UnderIs, WayIs
  <2>5. Under'[c] = {c} \cup Under'[conns'[c].via] /\ Way'[c] = Append(Way'[conns'[c].via], conns'[c].hop)
    BY <2>1, ReachedNext DEF Reached
  <2>6. Under'[conns[c].via] = Under[conns[c].via] /\ Way'[conns[c].via] = Way[conns[c].via]
    BY <2>2, <2>3
  <2> QED BY <1>3, <2>2, <2>4, <2>5, <2>6
<1> QED BY <1>5, <1>6

(* Nothing made: everything is reached as it was. *)
LEMMA ChainStays ==
  ASSUME conns' = conns
  PROVE  /\ Made' = Made /\ (Chained => Chained')
         /\ Chained => \A c \in 0..Len(conns) : Under'[c] = Under[c] /\ Way'[c] = Way[c]
<1>1. Made' = Made
  BY DEF Made
<1>2. ASSUME Chained PROVE Chained'
  BY <1>1, <1>2 DEF Chained
<1>3. ASSUME Chained PROVE \A c \in 0..Len(conns) : Under'[c] = Under[c] /\ Way'[c] = Way[c]
  <2>1. Len(conns) \in Nat
    BY <1>3 DEF Chained
  <2> QED BY <2>1, <1>2, <1>3, ChainGrows
<1> QED BY <1>1, <1>2, <1>3

(* Routes: the marks of all but the far end's agent are nothing to a route, and
   those of the far end's too to what goes no further.                        *)
LEMMA RouteTypes ==
  ASSUME NEW r \in Seq(HopRec)
  PROVE  /\ RouteOf(r) \in Seq(HopRec) /\ NoMark(r) \in Seq(HopRec)
         /\ Len(RouteOf(r)) = Len(r) /\ Len(NoMark(r)) = Len(r)
         /\ \A n \in 1..Len(r) :
              /\ RouteOf(r)[n] = [r[n] EXCEPT !.agent = (n = Len(r)) /\ @]
              /\ NoMark(r)[n] = [r[n] EXCEPT !.agent = FALSE]
<1>1. \A n \in 1..Len(r) : r[n] \in HopRec
  BY ElementOfSeq
<1>2. \A n \in 1..Len(r) : /\ [r[n] EXCEPT !.agent = (n = Len(r)) /\ @] \in HopRec
                           /\ [r[n] EXCEPT !.agent = FALSE] \in HopRec
  BY <1>1 DEF HopRec
<1>3. Len(r) \in Nat
  OBVIOUS
<1>4. RouteOf(r) \in [1..Len(r) -> HopRec] /\ NoMark(r) \in [1..Len(r) -> HopRec]
  BY <1>2 DEF RouteOf, NoMark
<1>5. /\ RouteOf(r) \in Seq(HopRec) /\ Len(RouteOf(r)) = Len(r)
      /\ NoMark(r) \in Seq(HopRec) /\ Len(NoMark(r)) = Len(r)
  BY <1>3, <1>4, SeqDef, LenProperties
<1> QED BY <1>5 DEF RouteOf, NoMark

LEMMA NoMarkOfRoute ==
  ASSUME NEW r \in Seq(HopRec)
  PROVE  NoMark(RouteOf(r)) = NoMark(r)
<1>1. /\ RouteOf(r) \in Seq(HopRec) /\ Len(RouteOf(r)) = Len(r)
      /\ \A n \in 1..Len(r) : RouteOf(r)[n] = [r[n] EXCEPT !.agent = (n = Len(r)) /\ @]
  BY RouteTypes
<1>2. \A n \in 1..Len(r) : [RouteOf(r)[n] EXCEPT !.agent = FALSE] = [r[n] EXCEPT !.agent = FALSE]
  BY <1>1, ElementOfSeq DEF HopRec
<1> QED BY <1>1, <1>2 DEF NoMark

LEMMA RouteThrough ==
  ASSUME NEW w \in Seq(HopRec), NEW hs \in Seq(HopRec), NEW n \in 1..Len(hs),
         NoMark(w) = NoMark(SubSeq(hs, 1, n - 1))
  PROVE  RouteOf(Append(w, hs[n])) = RouteOf(SubSeq(hs, 1, n))
<1> DEFINE a == SubSeq(hs, 1, n - 1)
           b == SubSeq(hs, 1, n)
           p == Append(w, hs[n])
<1>1. hs[n] \in HopRec /\ \A k \in 1..Len(hs) : hs[k] \in HopRec
  BY ElementOfSeq
<1>2. a \in Seq(HopRec) /\ Len(a) = n - 1 /\ \A k \in 1..(n - 1) : a[k] = hs[k]
  BY <1>1, SubSeqProperties
<1>3. b \in Seq(HopRec) /\ Len(b) = n /\ \A k \in 1..n : b[k] = hs[k]
  BY <1>1, SubSeqProperties
<1> HIDE DEF a, b
<1>4. NoMark(w) = NoMark(a)
  BY DEF a
<1>5. Len(w) = n - 1
  BY <1>2, <1>4, RouteTypes
<1>6. p \in Seq(HopRec) /\ Len(p) = n /\ p[n] = hs[n] /\ \A k \in 1..(n - 1) : p[k] = w[k]
  BY <1>1, <1>5, AppendProperties
<1>7. \A k \in 1..(n - 1) : [w[k] EXCEPT !.agent = FALSE] = [hs[k] EXCEPT !.agent = FALSE]
  <2> TAKE k \in 1..(n - 1)
  <2>1. NoMark(w)[k] = [w[k] EXCEPT !.agent = FALSE] /\ NoMark(a)[k] = [a[k] EXCEPT !.agent = FALSE]
    BY <1>2, <1>5, RouteTypes
  <2> QED BY <2>1, <1>2, <1>4
<1> HIDE DEF p
<1>8. \A k \in 1..n : [p[k] EXCEPT !.agent = (k = n) /\ @] = [b[k] EXCEPT !.agent = (k = n) /\ @]
  <2> TAKE k \in 1..n
  <2>1. CASE k = n
    BY <2>1, <1>3, <1>6
  <2>2. CASE k # n
    <3>1. k \in 1..(n - 1) /\ p[k] = w[k] /\ b[k] = hs[k] /\ w[k] \in HopRec /\ hs[k] \in HopRec
      BY <2>2, <1>1, <1>3, <1>5, <1>6, ElementOfSeq
    <3>2. [w[k] EXCEPT !.agent = FALSE] = [hs[k] EXCEPT !.agent = FALSE]
      BY <3>1, <1>7
    <3> QED BY <3>1, <3>2, <2>2
  <2> QED BY <2>1, <2>2
<1>9. RouteOf(p) = [k \in 1..n |-> [p[k] EXCEPT !.agent = (k = n) /\ @]]
  BY <1>6 DEF RouteOf
<1>10. RouteOf(b) = [k \in 1..n |-> [b[k] EXCEPT !.agent = (k = n) /\ @]]
  BY <1>3 DEF RouteOf
<1>11. RouteOf(p) = RouteOf(b)
  BY <1>8, <1>9, <1>10
<1> QED BY <1>11 DEF p, b

LEMMA RouteNone == RouteOf(<< >>) = << >> /\ NoMark(<< >>) = << >>
<1>1. Len(<< >>) = 0
  OBVIOUS
<1> QED BY <1>1, RouteTypes, EmptySeq

LEMMA TypeChained == HopsTypeOK => Chained
  BY DEF HopsTypeOK, Chained

(* What is used is a server's own, counted, or being made. *)
UsedIs ==
  \A c \in Made :
    /\ users[c] # 0 <=> Through(c) # {} \/ Holding(c) # {}
    /\ c \in InUse <=> \/ \E s \in Servers : own[s] = c
                       \/ users[c] # 0
                       \/ \E s \in Servers : c \in Fresh(s)
LEMMA CountsTellUse == HopsTypeOK /\ DialsOK /\ CountsAreTrue => UsedIs
<1> SUFFICES ASSUME HopsTypeOK, DialsOK, CountsAreTrue, NEW c \in Made
             PROVE  /\ users[c] # 0 <=> Through(c) # {} \/ Holding(c) # {}
                    /\ c \in InUse <=> \/ \E s \in Servers : own[s] = c
                                       \/ users[c] # 0
                                       \/ \E s \in Servers : c \in Fresh(s)
  BY DEF UsedIs
<1>1. Reached
  BY TypeChained, ReachedIs
<1>2. users[c] # 0 <=> Through(c) # {} \/ Holding(c) # {}
  <2>1. IsFiniteSet(Servers) /\ Through(c) \subseteq Servers /\ Holding(c) \subseteq Servers
    BY RouteAssumption DEF Through, Holding
  <2>2. IsFiniteSet(Through(c)) /\ IsFiniteSet(Holding(c))
    BY <2>1, FS_Subset
  <2>3. /\ Cardinality(Through(c)) \in Nat /\ Cardinality(Holding(c)) \in Nat
        /\ Cardinality(Through(c)) = 0 <=> Through(c) = {}
        /\ Cardinality(Holding(c)) = 0 <=> Holding(c) = {}
    BY <2>2, FS_CardinalityType, FS_EmptySet
  <2>4. users[c] = Cardinality(Through(c)) + Cardinality(Holding(c))
    BY DEF CountsAreTrue, Made
  <2> QED BY <2>3, <2>4
<1>3. c \in InUse <=> \E s \in Servers : c \in Under[own[s]] \/ c \in Dialled(dial[s])
  BY DEF InUse
<1>4. ASSUME NEW s \in Servers
      PROVE  c \in Dialled(dial[s]) <=> s \in Holding(c) \/ c \in Fresh(s)
  BY DEF Dialled, Holding, Fresh
<1>5. ASSUME NEW s \in Servers
      PROVE  c \in Under[own[s]] <=> s \in Through(c) \/ own[s] = c
  <2>1. ASSUME own[s] = c PROVE c \in Under[own[s]]
    BY <2>1, <1>1 DEF Reached
  <2> QED BY <2>1 DEF Through
<1>6. Through(c) \subseteq Servers /\ Holding(c) \subseteq Servers
  BY DEF Through, Holding
<1> QED BY <1>2, <1>3, <1>4, <1>5, <1>6

LEMMA CountsTellUseNext == (HopsTypeOK /\ DialsOK /\ CountsAreTrue)' => UsedIs'
  BY CountsTellUse, PTL

(* What is shared, element by element, in a state and the next. *)
SharedSays ==
  \A c : c \in Shared <=> \/ c \in closing
                          \/ \E s \in Servers : c \in Under[own[s]] \/ c \in Under[hops[s]] \/ c \in Held(s)
LEMMA SharedIs == SharedSays
<1> DEFINE By(s) == Under[own[s]] \cup Under[hops[s]] \cup Held(s)
<1> SUFFICES ASSUME NEW c
             PROVE  c \in Shared <=> \/ c \in closing
                                     \/ \E s \in Servers : c \in Under[own[s]] \/ c \in Under[hops[s]] \/ c \in Held(s)
  BY Zenon DEF SharedSays
<1>1. c \in Shared <=> c \in closing \/ \E s \in Servers : c \in By(s)
  BY DEF Shared
<1> QED BY <1>1
LEMMA SharedIsNext == SharedSays'
  BY SharedIs, PTL

UseSays ==
  \A c : c \in InUse <=> \E s \in Servers : c \in Under[own[s]] \/ c \in Dialled(dial[s])
LEMMA UseIs == UseSays
  BY DEF UseSays, InUse
LEMMA UseIsNext == UseSays'
  BY UseIs, PTL

(* Nothing is made at the start. *)
LEMMA HopsInitInv == HopsInit => HopsIInv
<1> SUFFICES ASSUME HopsInit PROVE HopsIInv
  OBVIOUS
<1> USE DEF HopsInit
<1>1. conns = << >> /\ Len(conns) = 0 /\ Made = {}
  BY EmptySeq DEF Made
<1>2. HopsTypeOK
  <2>1. {MaxConns, MaxDeeds} \subseteq Nat
    BY RouteAssumption
  <2>2. /\ conns \in Seq([to : Servers, hop : HopRec, via : Nat]) /\ Len(conns) <= MaxConns
        /\ \A c \in Made : conns[c].via < c
    BY <1>1, <2>1, EmptySeq
  <2>3. routes \in [Ids -> Seq(HopRec)] /\ wanted \in [Ids -> Seq(HopRec)]
    BY EmptySeq
  <2> QED BY <1>1, <2>2, <2>3 DEF HopsTypeOK
<1>3. Reached
  BY <1>2, TypeChained, ReachedIs
<1>4. \A s \in Servers : dial[s] = NoDial /\ own[s] = 0 /\ hops[s] = 0
  OBVIOUS
<1>5. DialsOK /\ ReachedAsSaved
  BY <1>4 DEF DialsOK, ReachedAsSaved
<1>6. MadeIsOwn
  BY <1>4 DEF MadeIsOwn, Fresh
<1>7. KeptIsUsed
  BY <1>4 DEF KeptIsUsed, Up
<1>8. RoutesAreTrue /\ NoneYetUsed
  BY DEF RoutesAreTrue, NoneYetUsed
<1>9. CountsAreTrue /\ ClosedOnceUnused
  BY <1>1 DEF CountsAreTrue, ClosedOnceUnused, Made
<1> QED BY <1>2, <1>5, <1>6, <1>7, <1>8, <1>9 DEF HopsIInv

(* What is so of the connections that stays so while no connection is made, no
   server's own and no dial changes. *)
LEMMA SameChain ==
  ASSUME HopsTypeOK, HopsTypeOK', DialsOK, conns' = conns
  PROVE  /\ Reached /\ Reached' /\ Made' = Made
         /\ \A c \in 0..Len(conns) : Under'[c] = Under[c] /\ Way'[c] = Way[c]
         /\ \A s \in Servers : dial'[s] = dial[s] =>
              Fresh(s)' = Fresh(s) /\ Dialled(dial[s])' = Dialled(dial[s])
<1>1. Chained /\ Chained'
  BY DEF Chained, HopsTypeOK, Made
<1>2. Reached /\ Reached'
  BY <1>1, ReachedIs, ReachedNext
<1>3. Made' = Made /\ \A c \in 0..Len(conns) : Under'[c] = Under[c] /\ Way'[c] = Way[c]
  BY <1>1, ChainStays
<1>4. ASSUME NEW s \in Servers, dial'[s] = dial[s], dial[s] # NoDial
      PROVE  Under'[dial'[s].start] = Under[dial[s].start] /\ Under'[dial'[s].conn] = Under[dial[s].conn]
  <2>1. dial[s].start \in 0..Len(conns) /\ dial[s].conn \in 0..Len(conns)
    BY <1>4 DEF DialsOK, Dials
  <2> QED BY <1>3, <1>4, <2>1
<1>5. ASSUME NEW s \in Servers, dial'[s] = dial[s]
      PROVE Fresh(s)' = Fresh(s) /\ Dialled(dial[s])' = Dialled(dial[s])
  BY <1>4, <1>5 DEF Fresh, Dialled
<1> QED BY <1>2, <1>3, <1>5

(* A dial goes on as it was while none of what it has made is changed. *)
LEMMA DialStays ==
  ASSUME Reached, Len(conns) <= Len(conns'), Reached',
         \A c \in 0..Len(conns) : Under'[c] = Under[c] /\ Way'[c] = Way[c],
         NEW s \in Servers, dial'[s] = dial[s], Dials(dial[s]),
         IF dial[s].at = "done" THEN AtItsEnd(dial[s]) ELSE OnTheWay(dial[s])
  PROVE  /\ Dials(dial[s])'
         /\ IF dial[s].at = "done" THEN AtItsEnd(dial[s])' ELSE OnTheWay(dial[s])'
<1> DEFINE d == dial[s]
<1>1. /\ d.start \in 0..Len(conns) /\ d.conn \in 0..Len(conns)
      /\ \A n \in DOMAIN d.made : d.made[n] \in 0..Len(conns)
  BY DEF Dials, Reached
<1>2. /\ d' = d /\ Under'[d.start] = Under[d.start] /\ Under'[d.conn] = Under[d.conn]
      /\ Way'[d.conn] = Way[d.conn]
      /\ \A n \in DOMAIN d.made : Way'[d.made[n]] = Way[d.made[n]]
  BY <1>1
<1>3. d.start \in 0..Len(conns') /\ d.conn \in 0..Len(conns')
  BY <1>1 DEF Reached
<1>4. Dials(d)'
  BY <1>2, <1>3 DEF Dials
<1>5. ASSUME d.at = "done" PROVE AtItsEnd(d)'
  BY <1>2, <1>5 DEF AtItsEnd
<1>6. ASSUME d.at # "done" PROVE OnTheWay(d)'
  BY <1>2, <1>6 DEF OnTheWay
<1> QED BY <1>4, <1>5, <1>6

(* What closes connections, and changes nothing else that is kept of them. *)
LEMMA ClosingKeepsInv ==
  ASSUME HopsIInv, HopsTypeOK', UNCHANGED <<conns, own, dial, users, hops, routes, wanted>>,
         shut \subseteq shut', closing' \subseteq closing, closing \ closing' \subseteq shut'
  PROVE  HopsIInv'
<1> USE DEF HopsIInv
<1>1. /\ Reached /\ Reached' /\ Made' = Made
      /\ \A c \in 0..Len(conns) : Under'[c] = Under[c] /\ Way'[c] = Way[c]
      /\ \A s \in Servers : Fresh(s)' = Fresh(s) /\ Dialled(dial[s])' = Dialled(dial[s])
  BY SameChain
<1>2. \A s \in Servers : own[s] \in 0..Len(conns) /\ hops[s] \in 0..Len(conns)
  BY DEF HopsTypeOK
<1>3. \A s \in Servers : dial[s] # NoDial =>
        /\ dial[s].start \in 0..Len(conns) /\ dial[s].conn \in 0..Len(conns)
        /\ \A n \in DOMAIN dial[s].made : dial[s].made[n] \in 0..Len(conns)
  BY <1>1 DEF DialsOK, Dials, Reached
<1>4. DialsOK'
  <2> SUFFICES ASSUME NEW s \in Servers, dial[s] # NoDial
               PROVE  /\ own[s] = 0 /\ Dials(dial[s])'
                      /\ IF dial[s].at = "done" THEN AtItsEnd(dial[s])' ELSE OnTheWay(dial[s])'
    BY DEF DialsOK
  <2>1. /\ own[s] = 0 /\ Dials(dial[s]) /\ dial'[s] = dial[s]
        /\ IF dial[s].at = "done" THEN AtItsEnd(dial[s]) ELSE OnTheWay(dial[s])
    BY DEF DialsOK
  <2>2. Len(conns) <= Len(conns')
    BY <1>1 DEF Reached
  <2> QED BY <1>1, <2>1, <2>2, DialStays
<1>5. Shared' \subseteq Shared
  <2>1. \A s \in Servers : Held(s)' = Held(s)
    BY <1>1, <1>3 DEF Held
  <2> QED BY <1>1, <1>2, <2>1 DEF Shared
<1>6. MadeIsOwn'
  BY <1>1, <1>5 DEF MadeIsOwn
<1>7. InUse' = InUse
  BY <1>1, <1>2 DEF InUse
<1>8. KeptIsUsed'
  BY <1>7 DEF KeptIsUsed, Up
<1>9. RoutesAreTrue' /\ NoneYetUsed'
  <2>1. \A c \in Made : Way'[c] = Way[c]
    BY <1>1 DEF Made
  <2> QED BY <1>1, <2>1 DEF RoutesAreTrue, NoneYetUsed
<1>10. \A c \in Made : Through(c)' = Through(c) /\ Holding(c)' = Holding(c)
  BY <1>1, <1>2, <1>3 DEF Through, Holding
<1>11. CountsAreTrue'
  BY <1>1, <1>10 DEF CountsAreTrue, Made
<1>12. ClosedOnceUnused'
  BY <1>7 DEF ClosedOnceUnused, Up
<1>13. ReachedAsSaved'
  BY <1>1, <1>2 DEF ReachedAsSaved, RouteOf
<1> QED BY <1>4, <1>6, <1>8, <1>9, <1>11, <1>12, <1>13

(* What closing a connection closes was made. *)
LEMMA OverMade == ASSUME NEW c PROVE Over(c) \subseteq Made
  BY DEF Over, Made

(* disconnect: the window's row goes, and the connection is closed. *)
LEMMA DisconnectKeepsInv ==
  ASSUME HopsIInv, NEW s \in Servers, Disconnect(s)
  PROVE  HopsIInv'
<1> USE DEF HopsIInv, Disconnect, held
<1>1. letgo' \subseteq Servers /\ shut' \subseteq Made /\ deeds' \in Nat
  BY OverMade DEF HopsTypeOK
<1>2. HopsTypeOK'
  BY <1>1 DEF HopsTypeOK, Made
<1> QED BY <1>2, ClosingKeepsInv

(* Conn.Wait: a connection ended by itself. *)
LEMMA DropsKeepsInv ==
  ASSUME HopsIInv, NEW c \in Ids, Drops(c)
  PROVE  HopsIInv'
<1> USE DEF HopsIInv, Drops, held
<1>1. shut' \subseteq Made /\ deeds' \in Nat
  BY OverMade DEF HopsTypeOK
<1>2. HopsTypeOK'
  BY <1>1 DEF HopsTypeOK, Made
<1> QED BY <1>2, ClosingKeepsInv

(* Release: its goroutine closes what nothing goes through. *)
LEMMA ClosesKeepsInv ==
  ASSUME HopsIInv, NEW c \in Ids, Closes(c)
  PROVE  HopsIInv'
<1> USE DEF HopsIInv, Closes
<1>1. shut' \subseteq Made /\ closing' \subseteq Made
  BY OverMade DEF HopsTypeOK
<1>2. HopsTypeOK'
  BY <1>1 DEF HopsTypeOK, Made
<1>3. c \in Over(c)
  <2>1. Reached /\ c \in Made
    BY TypeChained, ReachedIs DEF HopsTypeOK
  <2> QED BY <2>1 DEF Reached, Over, Made
<1> QED BY <1>2, <1>3, ClosingKeepsInv

(* saveServer: a server saved otherwise is nothing to those connected. *)
LEMMA SavesKeepsInv ==
  ASSUME HopsIInv, NEW s \in Servers, Saves(s)
  PROVE  HopsIInv'
<1> USE DEF HopsIInv, Saves, held
<1>1. saved' \in [Servers -> [at : Nat, agent : BOOLEAN]]
  <2>1. saved \in [Servers -> [at : Nat, agent : BOOLEAN]]
    BY DEF HopsTypeOK
  <2>2. CASE saved' = [saved EXCEPT ![s].at = @ + 1]
    BY <2>1, <2>2
  <2>3. CASE saved' = [saved EXCEPT ![s].agent = ~@]
    BY <2>1, <2>3
  <2> QED BY <2>2, <2>3
<1>2. HopsTypeOK'
  <2>1. deeds' \in Nat /\ UNCHANGED <<conns, shut, own, letgo, dropped, dial, held, wanted>>
    BY DEF HopsTypeOK
  <2> HIDE DEF Saves
  <2> QED BY <1>1, <2>1 DEF HopsTypeOK, Made
<1> QED BY <1>2, ClosingKeepsInv

(* Whatever a set of numbers from 1 to n holds, it holds a greatest of them. *)
LEMMA GreatestOfSet ==
  ASSUME NEW n \in Nat, NEW T, T \subseteq 1..n, T # {}
  PROVE  \E x \in T : \A y \in T : y <= x
<1> DEFINE U == {n - y : y \in T}
<1>1. U \subseteq 0..n /\ U # {}
  <2>1. \A y \in T : n - y \in 0..n
    OBVIOUS
  <2> QED BY <2>1
<1>2. PICK u \in U : \A y \in U : u <= y
  <2> HIDE DEF U
  <2> QED BY <1>1, LeastOfSet
<1>3. PICK x \in T : u = n - x
  OBVIOUS
<1>4. \A y \in T : n - y \in U /\ y \in 1..n
  OBVIOUS
<1> HIDE DEF U
<1>5. \A y \in T : n - x <= n - y
  BY <1>2, <1>3, <1>4
<1> QED BY <1>4, <1>5

(* Where a dial starts from is up, reached as far as it goes by the route asked
   for, and a server's own or kept to go through. *)
LEMMA NearestProperties ==
  ASSUME HopsIInv, NEW hs \in Seq(HopRec), hs # << >>
  PROVE  LET near == Nearest(hs)
         IN /\ near.start \in 0..Len(conns) /\ near.from \in 1..(Len(hs) + 1)
            /\ near.start # 0 => /\ Up(near.start)
                                 /\ \E s \in Servers : near.start = own[s] \/ near.start = hops[s]
            /\ NoMark(Way[near.start]) = NoMark(SubSeq(hs, 1, near.from - 1))
            /\ near.from = Len(hs) + 1 => /\ near.start # 0
                                          /\ RouteOf(Way[near.start]) = RouteOf(hs)
            /\ near.start = 0 => near.from = 1
<1> USE DEF HopsIInv
<1> DEFINE last == Len(hs)
           ways(i) == {own[hs[i].to], hops[hs[i].to]}
           there == {i \in 1..(last - 1) : \E c \in ways(i) : ByRoute(c, SubSeq(hs, 1, i))}
           whole == Up(hops[hs[last].to]) /\ routes[hops[hs[last].to]] = RouteOf(hs)
           i == CHOOSE n \in there : \A m \in there : m <= n
           mine == ByRoute(own[hs[i].to], SubSeq(hs, 1, i))
           near == Nearest(hs)
<1>1. Reached
  BY TypeChained, ReachedIs
<1>2. last \in Nat /\ last > 0 /\ \A n \in 1..last : hs[n] \in HopRec /\ hs[n].to \in Servers
  <2>1. last \in Nat /\ last > 0
    BY EmptySeq
  <2>2. \A n \in 1..last : hs[n] \in HopRec
    BY ElementOfSeq
  <2> QED BY <2>1, <2>2 DEF HopRec
<1>3. near = IF whole THEN [start |-> hops[hs[last].to], from |-> last + 1]
             ELSE IF there = {} THEN [start |-> 0, from |-> 1]
             ELSE [start |-> IF mine THEN own[hs[i].to] ELSE hops[hs[i].to], from |-> i + 1]
  BY DEF Nearest
<1>4. \A c \in 0..Len(conns) : c # 0 => c \in Ids /\ Way[c] \in Seq(HopRec)
  <2>1. MaxConns \in Nat /\ Len(conns) <= MaxConns
    BY RouteAssumption DEF HopsTypeOK
  <2> QED BY <1>1, <2>1 DEF Reached, Ids
<1>5. \A s \in Servers : own[s] \in 0..Len(conns) /\ hops[s] \in 0..Len(conns)
  BY DEF HopsTypeOK
<1>6. \A n \in 0..last : SubSeq(hs, 1, n) \in Seq(HopRec) /\ Len(SubSeq(hs, 1, n)) = n
  BY <1>2, SubSeqProperties
<1>7. ASSUME NEW c \in 0..Len(conns), NEW n \in 1..last, ByRoute(c, SubSeq(hs, 1, n))
      PROVE  Up(c) /\ c # 0 /\ NoMark(Way[c]) = NoMark(SubSeq(hs, 1, n))
  <2>1. Up(c) /\ c # 0 /\ routes[c] # << >> /\ NoMark(routes[c]) = NoMark(SubSeq(hs, 1, n))
    BY <1>7 DEF ByRoute, Up
  <2>2. routes[c] = RouteOf(Way[c]) /\ Way[c] \in Seq(HopRec)
    BY <2>1, <1>4 DEF RoutesAreTrue
  <2>3. NoMark(routes[c]) = NoMark(Way[c])
    BY <2>2, NoMarkOfRoute
  <2> QED BY <2>1, <2>3
<1> HIDE DEF near, whole, mine, i, ways, there, last, HopsIInv
<1>8. CASE whole
  <2> DEFINE h == hops[hs[last].to]
  <2>1. near.start = h /\ near.from = last + 1 /\ h \in 0..Len(conns) /\ hs[last].to \in Servers
    BY <1>2, <1>3, <1>5, <1>8 DEF whole
  <2>2. h # 0 /\ Up(h) /\ routes[h] = RouteOf(hs)
    BY <1>8 DEF Up, whole
  <2>3. routes[h] # << >>
    <3>1. Len(RouteOf(hs)) = last
      BY RouteTypes DEF last
    <3> QED BY <3>1, <2>2, <1>2, EmptySeq
  <2>4. RouteOf(Way[h]) = RouteOf(hs) /\ Way[h] \in Seq(HopRec)
    BY <2>1, <2>2, <2>3, <1>4 DEF RoutesAreTrue, HopsIInv
  <2>5. NoMark(Way[h]) = NoMark(hs)
    <3>1. NoMark(Way[h]) = NoMark(RouteOf(Way[h]))
      BY <2>4, NoMarkOfRoute
    <3>2. NoMark(hs) = NoMark(RouteOf(hs))
      BY NoMarkOfRoute
    <3> QED BY <3>1, <3>2, <2>4
  <2>6. SubSeq(hs, 1, last) = hs
    BY SubSeqProperties, <1>2 DEF last
  <2>7. (last + 1) - 1 = last /\ last + 1 \in 1..(last + 1)
    BY <1>2
  <2> HIDE DEF h
  <2>8. NoMark(Way[near.start]) = NoMark(SubSeq(hs, 1, near.from - 1))
    BY <2>1, <2>5, <2>6, <2>7
  <2>9. \E s \in Servers : near.start = hops[s]
    BY <2>1 DEF h
  <2> QED BY <2>1, <2>2, <2>4, <2>7, <2>8, <2>9 DEF near, last
<1>9. CASE ~whole /\ there = {}
  <2>1. near.start = 0 /\ near.from = 1
    BY <1>3, <1>9
  <2>2. Way[0] = << >> /\ SubSeq(hs, 1, 0) = << >>
    BY <1>1, <1>6, EmptySeq DEF Reached
  <2>3. NoMark(Way[near.start]) = NoMark(SubSeq(hs, 1, near.from - 1))
    <3>1. near.from - 1 = 0
      BY <2>1
    <3> QED BY <2>1, <2>2, <3>1
  <2> QED BY <2>1, <2>3, <1>1, <1>2 DEF near, last, Reached
<1>10. CASE ~whole /\ there # {}
  <2>1. i \in there
    <3>1. there \subseteq 1..(last - 1) /\ last - 1 \in Nat
      BY <1>2 DEF there
    <3>2. \E n \in there : \A m \in there : m <= n
      BY <3>1, <1>10, GreatestOfSet
    <3> QED BY <3>2 DEF i
  <2>2. i \in 1..last /\ i <= last - 1 /\ \E c \in ways(i) : ByRoute(c, SubSeq(hs, 1, i))
    BY <2>1, <1>2 DEF there
  <2> DEFINE c == IF mine THEN own[hs[i].to] ELSE hops[hs[i].to]
  <2>3. near.start = c /\ near.from = i + 1
    BY <1>3, <1>10
  <2>4. hs[i].to \in Servers
    BY <2>2, <1>2
  <2>5. c \in 0..Len(conns) /\ (c = own[hs[i].to] \/ c = hops[hs[i].to])
    BY <2>4, <1>5
  <2>6. ByRoute(c, SubSeq(hs, 1, i))
    BY <2>2 DEF ways, mine
  <2> HIDE DEF c
  <2>7. Up(c) /\ c # 0 /\ NoMark(Way[c]) = NoMark(SubSeq(hs, 1, i))
    BY <2>2, <2>5, <2>6, <1>7
  <2>8. (i + 1) - 1 = i /\ i + 1 \in 1..(last + 1) /\ i + 1 # last + 1
    BY <2>2, <1>2
  <2>9. NoMark(Way[near.start]) = NoMark(SubSeq(hs, 1, near.from - 1))
    BY <2>3, <2>7, <2>8
  <2> QED BY <2>3, <2>4, <2>5, <2>7, <2>8, <2>9 DEF near, last
<1> QED BY <1>8, <1>9, <1>10

(* What is in use is used with all it goes through. *)
LEMMA UseGoesDown ==
  ASSUME HopsTypeOK, DialsOK, NEW c \in InUse
  PROVE  Under[c] \subseteq InUse
<1>1. Reached
  BY TypeChained, ReachedIs
<1>2. PICK s \in Servers : c \in Under[own[s]] \/ c \in Dialled(dial[s])
  BY DEF InUse
<1>3. Under[own[s]] \subseteq InUse /\ Dialled(dial[s]) \subseteq InUse
  BY DEF InUse
<1>4. CASE c \in Under[own[s]]
  <2>1. own[s] \in 0..Len(conns)
    BY DEF HopsTypeOK
  <2> QED BY <2>1, <1>1, <1>3, <1>4 DEF Reached
<1>5. CASE c \in Dialled(dial[s])
  <2>1. dial[s] # NoDial /\ (c \in Under[dial[s].start] \/ c \in Under[dial[s].conn])
    BY <1>5 DEF Dialled
  <2>2. dial[s].start \in 0..Len(conns) /\ dial[s].conn \in 0..Len(conns)
    BY <2>1 DEF DialsOK, Dials
  <2>3. Under[dial[s].start] \subseteq InUse /\ Under[dial[s].conn] \subseteq InUse
    BY <2>1, <1>3 DEF Dialled
  <2> QED BY <2>1, <2>2, <2>3, <1>1 DEF Reached
<1> QED BY <1>2, <1>4, <1>5

(* connectThen. *)
LEMMA ConnectKeepsInv ==
  ASSUME HopsIInv, NEW s \in Servers, Connect(s)
  PROVE  HopsIInv'
<1> USE DEF HopsIInv
<1> DEFINE hs == [n \in 1..Len(RouteID[s]) |-> Hop(RouteID[s][n])]
           near == Nearest(hs)
           d == [at |-> IF near.from > Len(hs) THEN "done" ELSE "on", hops |-> hs,
                 start |-> near.start, next |-> near.from, conn |-> near.start, made |-> << >>]
<1>1. /\ own[s] = 0 /\ dial[s] = NoDial /\ deeds' = deeds + 1
      /\ dial' = [dial EXCEPT ![s] = d]
      /\ Hold(near.start)
      /\ UNCHANGED <<saved, conns, shut, own, letgo, dropped, hops, routes, closing, wanted>>
  BY Zenon DEF Connect
<1>2. hs \in Seq(HopRec) /\ hs # << >>
  <2>1. RouteID[s] \in Seq(Servers) /\ RouteID[s] # << >>
    BY RouteAssumption
  <2>2. Len(RouteID[s]) \in Nat /\ Len(RouteID[s]) # 0
    BY <2>1, EmptySeq
  <2>3. \A n \in 1..Len(RouteID[s]) : Hop(RouteID[s][n]) \in HopRec
    <3>1. \A t \in Servers : Hop(t) \in HopRec
      BY DEF HopsTypeOK, Hop, HopRec
    <3> QED BY <2>1, <3>1, ElementOfSeq
  <2>4. hs \in [1..Len(RouteID[s]) -> HopRec]
    BY <2>3
  <2>5. hs \in Seq(HopRec) /\ Len(hs) = Len(RouteID[s])
    BY <2>2, <2>4, SeqDef, LenProperties
  <2> HIDE DEF hs
  <2> QED BY <2>2, <2>5, EmptySeq
<1> HIDE DEF hs
<1>3. Reached
  BY TypeChained, ReachedIs
<1>4. /\ near.start \in 0..Len(conns) /\ near.from \in 1..(Len(hs) + 1)
      /\ near.start # 0 => /\ Up(near.start)
                           /\ \E t \in Servers : near.start = own[t] \/ near.start = hops[t]
      /\ NoMark(Way[near.start]) = NoMark(SubSeq(hs, 1, near.from - 1))
      /\ near.from = Len(hs) + 1 => near.start # 0 /\ RouteOf(Way[near.start]) = RouteOf(hs)
      /\ near.start = 0 => near.from = 1
  <2> HIDE DEF HopsIInv
  <2> QED BY <1>2, NearestProperties
<1> HIDE DEF near
<1>5. d \in DialRec
  <2>1. << >> \in Seq(Nat) /\ Len(conns) \in Nat /\ Len(hs) \in Nat
    BY <1>2, <1>3, EmptySeq DEF Reached
  <2>2. near.start \in Nat /\ near.from \in Nat
    BY <1>4, <2>1
  <2> QED BY <1>2, <2>1, <2>2 DEF DialRec
<1>6. /\ d.start = near.start /\ d.conn = near.start /\ d.next = near.from /\ d.hops = hs
      /\ d.made = << >> /\ (d.at = "done" <=> near.from > Len(hs)) /\ d # NoDial
  <2>1. DOMAIN d = {"at", "hops", "start", "next", "conn", "made"} /\ DOMAIN NoDial = {"at"}
    BY DEF NoDial
  <2>2. d # NoDial
    <3> HIDE DEF d
    <3> QED BY <2>1
  <2> QED BY <2>2
<1> HIDE DEF d
<1>7. HopsTypeOK'
  <2>1. dial' \in [Servers -> {NoDial} \cup DialRec]
    BY <1>1, <1>5 DEF HopsTypeOK
  <2>2. users' \in [Ids -> Nat]
    BY <1>1 DEF Hold, Count, HopsTypeOK
  <2> QED BY <1>1, <2>1, <2>2 DEF HopsTypeOK, Made
<1>8. /\ Reached' /\ Made' = Made
      /\ \A c \in 0..Len(conns) : Under'[c] = Under[c] /\ Way'[c] = Way[c]
      /\ \A t \in Servers : dial'[t] = dial[t] =>
           Fresh(t)' = Fresh(t) /\ Dialled(dial[t])' = Dialled(dial[t])
  BY <1>1, <1>7, SameChain
<1>9. dial'[s] = d /\ \A t \in Servers : t # s => dial'[t] = dial[t]
  BY <1>1 DEF HopsTypeOK
<1>10. \A t \in Servers : own[t] \in 0..Len(conns) /\ hops[t] \in 0..Len(conns)
  BY DEF HopsTypeOK
<1>11. DialsOK'
  <2> SUFFICES ASSUME NEW t \in Servers, dial'[t] # NoDial
               PROVE  /\ own'[t] = 0 /\ Dials(dial[t])'
                      /\ IF dial'[t].at = "done" THEN AtItsEnd(dial[t])' ELSE OnTheWay(dial[t])'
    BY DEF DialsOK
  <2>1. CASE t = s
    <3>1. SubSeq(hs, 1, near.from - 1) \in Seq(HopRec)
      BY <1>2, <1>4, SubSeqProperties, ElementOfSeq
    <3>2. Way'[near.start] = Way[near.start] /\ Under'[near.start] = Under[near.start]
      BY <1>4, <1>8
    <3>3. DOMAIN d.made = {}  /\ Len(d.made) = 0
      BY <1>6, EmptySeq
    <3>4. Len(hs) \in Nat /\ Len(hs) > 0
      BY <1>2, EmptySeq
    <3>5. Dials(dial[s])'
      BY <1>1, <1>4, <1>6, <1>9, <3>2, <3>3 DEF Dials
    <3>6. ASSUME d.at = "done" PROVE AtItsEnd(dial[s])'
      BY <1>1, <1>4, <1>6, <1>9, <3>2, <3>3, <3>4, <3>6 DEF AtItsEnd
    <3>7. ASSUME d.at # "done" PROVE OnTheWay(dial[s])'
      BY <1>1, <1>4, <1>6, <1>9, <3>2, <3>3, <3>4, <3>7 DEF OnTheWay
    <3> QED BY <2>1, <1>1, <1>9, <3>5, <3>6, <3>7
  <2>2. CASE t # s
    <3>1. dial'[t] = dial[t] /\ dial[t] # NoDial
      BY <2>2, <1>9
    <3>2. /\ own[t] = 0 /\ Dials(dial[t])
          /\ IF dial[t].at = "done" THEN AtItsEnd(dial[t]) ELSE OnTheWay(dial[t])
      BY <3>1 DEF DialsOK
    <3> QED BY <1>1, <1>3, <1>8, <3>1, <3>2, DialStays
  <2> QED BY <2>1, <2>2
<1>12. \A t \in Servers : dial[t] # NoDial => dial[t].start \in 0..Len(conns)
  BY DEF DialsOK, Dials
<1>13. Under[near.start] \subseteq Shared /\ Under[near.start] \subseteq InUse
  <2>1. CASE near.start = 0
    BY <2>1, <1>3 DEF Reached
  <2>2. CASE near.start # 0
    <3>1. PICK t \in Servers : near.start = own[t] \/ near.start = hops[t]
      BY <2>2, <1>4
    <3>2. near.start \in InUse
      <4>1. near.start \in Under[near.start]
        BY <2>2, <1>3, <1>4 DEF Reached, Made
      <4>2. CASE near.start = own[t]
        BY <4>1, <4>2 DEF InUse
      <4>3. CASE near.start = hops[t]
        BY <4>3, <2>2, <1>4 DEF KeptIsUsed
      <4> QED BY <3>1, <4>2, <4>3
    <3>3. Under[near.start] \subseteq Shared
      BY <3>1 DEF Shared
    <3>4. Under[near.start] \subseteq InUse
      BY <3>2, UseGoesDown
    <3> QED BY <3>3, <3>4
  <2> QED BY <2>1, <2>2
<1>14. Fresh(s)' = {} /\ Fresh(s) = {}
  <2>1. Fresh(s)' = Under'[near.start] \ Under'[near.start]
    BY <1>6, <1>9 DEF Fresh
  <2> QED BY <2>1, <1>1 DEF Fresh
<1>15. Shared' \subseteq Shared
  <2>1. \A t \in Servers : Under'[own'[t]] = Under[own[t]] /\ Under'[hops'[t]] = Under[hops[t]]
    BY <1>1, <1>8, <1>10
  <2>2. \A t \in Servers : t # s => Held(t)' = Held(t)
    BY <1>8, <1>9, <1>12 DEF Held
  <2>3. Held(s)' \subseteq Shared
    BY <1>4, <1>6, <1>8, <1>9, <1>13 DEF Held
  <2>4. \A c : c \in closing => c \in Shared
    BY SharedIs DEF SharedSays
  <2>5. ASSUME NEW c, NEW t \in Servers, c \in Under[own[t]] \/ c \in Under[hops[t]] \/ c \in Held(t)
        PROVE  c \in Shared
    BY <2>5, SharedIs DEF SharedSays
  <2>6. ASSUME NEW c \in Shared' PROVE c \in Shared
    <3>1. CASE c \in closing'
      BY <3>1, <1>1, <2>4
    <3>2. CASE c \notin closing'
      <4>1. PICK t \in Servers : c \in Under'[own'[t]] \/ c \in Under'[hops'[t]] \/ c \in Held(t)'
        BY <2>6, <3>2, SharedIsNext DEF SharedSays
      <4> QED BY <4>1, <2>1, <2>2, <2>3, <2>5
    <3> QED BY <3>1, <3>2
  <2> QED BY <2>6
<1>16. MadeIsOwn'
  <2>1. \A t \in Servers : Fresh(t)' \subseteq Fresh(t)
    BY <1>8, <1>9, <1>14
  <2> QED BY <2>1, <1>15 DEF MadeIsOwn
<1>17. InUse' = InUse
  <2>1. Dialled(dial[s])' \subseteq InUse /\ Dialled(dial[s]) = {}
    <3>1. Dialled(dial[s])' = Under'[near.start] \cup Under'[near.start]
      BY <1>6, <1>9 DEF Dialled
    <3> QED BY <3>1, <1>1, <1>4, <1>8, <1>13 DEF Dialled
  <2>2. \A t \in Servers : t # s => Dialled(dial[t])' = Dialled(dial[t])
    BY <1>8, <1>9
  <2>3. \A t \in Servers : Under'[own'[t]] = Under[own[t]]
    BY <1>1, <1>8, <1>10
  <2> QED BY <2>1, <2>2, <2>3 DEF InUse
<1>18. KeptIsUsed' /\ RoutesAreTrue' /\ ReachedAsSaved'
  <2>1. KeptIsUsed'
    BY <1>1, <1>17 DEF KeptIsUsed, Up
  <2>2. RoutesAreTrue'
    <3>1. \A c \in Made : Way'[c] = Way[c]
      BY <1>8 DEF Made
    <3> QED BY <1>1, <1>8, <3>1 DEF RoutesAreTrue
  <2>3. ReachedAsSaved'
    BY <1>1, <1>8, <1>10 DEF ReachedAsSaved
  <2> QED BY <2>1, <2>2, <2>3
<1>19. \A c \in Ids : users'[c] = IF c \in Under[near.start] THEN users[c] + 1 ELSE users[c]
  BY <1>1 DEF Hold, Count
<1>20. NoneYetUsed'
  <2>1. Under[near.start] \subseteq Made
    BY <1>3, <1>4 DEF Reached
  <2> QED BY <2>1, <1>8, <1>19 DEF NoneYetUsed
<1>21. CountsAreTrue'
  <2> SUFFICES ASSUME NEW c \in Made
               PROVE  users'[c] = Cardinality(Through(c)') + Cardinality(Holding(c)')
    BY <1>8 DEF CountsAreTrue, Made
  <2>1. Through(c)' = Through(c)
    BY <1>1, <1>8, <1>10 DEF Through
  <2>2. Holding(c)' = IF c \in Under[near.start] THEN Holding(c) \cup {s} ELSE Holding(c)
    <3>1. s \in Holding(c)' <=> c \in Under[near.start]
      BY <1>4, <1>6, <1>8, <1>9 DEF Holding
    <3>2. s \notin Holding(c)
      BY <1>1 DEF Holding
    <3>3. ASSUME NEW t \in Servers, t # s PROVE t \in Holding(c)' <=> t \in Holding(c)
      BY <3>3, <1>8, <1>9, <1>12 DEF Holding
    <3>4. Holding(c) \subseteq Servers /\ Holding(c)' \subseteq Servers
      BY DEF Holding
    <3> QED BY <3>1, <3>2, <3>3, <3>4
  <2>3. s \notin Holding(c) /\ IsFiniteSet(Holding(c))
    <3>1. Holding(c) \subseteq Servers
      BY DEF Holding
    <3> QED BY <3>1, <1>1, RouteAssumption, FS_Subset DEF Holding
  <2>4. Cardinality(Holding(c) \cup {s}) = Cardinality(Holding(c)) + 1
    BY <2>3, FS_AddElement
  <2>5. Cardinality(Through(c)) \in Nat /\ Cardinality(Holding(c)) \in Nat
    <3>1. Through(c) \subseteq Servers
      BY DEF Through
    <3> QED BY <3>1, <2>3, RouteAssumption, FS_Subset, FS_CardinalityType
  <2>6. c \in Ids /\ users[c] = Cardinality(Through(c)) + Cardinality(Holding(c))
    <3>1. MaxConns \in Nat /\ Len(conns) \in Nat /\ Len(conns) <= MaxConns
      BY RouteAssumption, <1>3 DEF HopsTypeOK, Reached
    <3> QED BY <3>1 DEF CountsAreTrue, Made, Ids
  <2> QED BY <2>1, <2>2, <2>4, <2>5, <2>6, <1>19
<1>22. ClosedOnceUnused'
  BY <1>1, <1>17 DEF ClosedOnceUnused, Up
<1> QED BY <1>7, <1>11, <1>16, <1>18, <1>20, <1>21, <1>22

(* DialFrom: a hop that cannot be reached leaves the dial as it is, to fail. *)
LEMMA DialFailsKeepsInv ==
  ASSUME HopsIInv, NEW s \in Servers, dial[s].at = "on", dial' = [dial EXCEPT ![s].at = "failed"],
         UNCHANGED <<conns, saved, shut, own, letgo, dropped, held, deeds, wanted>>
  PROVE  HopsIInv'
<1> USE DEF HopsIInv, held
<1> DEFINE d == dial[s]
           e == [d EXCEPT !.at = "failed"]
<1>1. d \in DialRec /\ d # NoDial
  <2>1. NoDial.at = "none"
    BY DEF NoDial
  <2> QED BY <2>1 DEF HopsTypeOK
<1>2. e \in DialRec /\ e.at = "failed"
      /\ e.hops = d.hops /\ e.start = d.start /\ e.next = d.next /\ e.conn = d.conn /\ e.made = d.made
  BY <1>1 DEF DialRec
<1>3. dial'[s] = e /\ \A t \in Servers : t # s => dial'[t] = dial[t]
  BY DEF HopsTypeOK
<1>4. e # NoDial
  <2>1. NoDial.at = "none"
    BY DEF NoDial
  <2> QED BY <1>2, <2>1
<1> HIDE DEF e
<1>5. HopsTypeOK'
  <2>1. dial' \in [Servers -> {NoDial} \cup DialRec]
    BY <1>2, <1>3 DEF HopsTypeOK
  <2> QED BY <2>1 DEF HopsTypeOK, Made
<1>6. /\ Reached /\ Reached' /\ Made' = Made
      /\ \A c \in 0..Len(conns) : Under'[c] = Under[c] /\ Way'[c] = Way[c]
      /\ \A t \in Servers : dial'[t] = dial[t] =>
           Fresh(t)' = Fresh(t) /\ Dialled(dial[t])' = Dialled(dial[t])
  BY <1>5, SameChain
<1>7. /\ own[s] = 0 /\ Dials(d) /\ OnTheWay(d)
  BY <1>1 DEF DialsOK
<1>8. /\ d.start \in 0..Len(conns) /\ d.conn \in 0..Len(conns)
      /\ \A n \in DOMAIN d.made : d.made[n] \in 0..Len(conns)
  BY <1>6, <1>7 DEF Dials, Reached
<1>9. \A t \in Servers : Fresh(t)' = Fresh(t) /\ Dialled(dial[t])' = Dialled(dial[t]) /\ Held(t)' = Held(t)
  <2>1. \A t \in Servers : dial[t] # NoDial => dial[t].start \in 0..Len(conns)
    BY DEF DialsOK, Dials
  <2>2. Under'[e.start] = Under[d.start] /\ Under'[e.conn] = Under[d.conn]
    BY <1>2, <1>6, <1>8
  <2>3. Fresh(s)' = Fresh(s)
    BY <2>2, <1>1, <1>3, <1>4 DEF Fresh
  <2>4. Dialled(dial[s])' = Dialled(dial[s])
    BY <2>2, <1>1, <1>3, <1>4 DEF Dialled
  <2>5. Held(s)' = Held(s)
    BY <2>2, <1>1, <1>3, <1>4 DEF Held
  <2>6. ASSUME NEW t \in Servers, t # s PROVE Held(t)' = Held(t)
    BY <2>1, <2>6, <1>3, <1>6 DEF Held
  <2> QED BY <2>3, <2>4, <2>5, <2>6, <1>3, <1>6
<1>10. \A t \in Servers : Under'[own'[t]] = Under[own[t]] /\ Under'[hops'[t]] = Under[hops[t]]
  BY <1>6 DEF HopsTypeOK
<1>11. DialsOK'
  <2> SUFFICES ASSUME NEW t \in Servers, dial'[t] # NoDial
               PROVE  /\ own'[t] = 0 /\ Dials(dial[t])'
                      /\ IF dial'[t].at = "done" THEN AtItsEnd(dial[t])' ELSE OnTheWay(dial[t])'
    BY DEF DialsOK
  <2>1. CASE t = s
    <3>1. /\ Under'[d.start] = Under[d.start] /\ Under'[d.conn] = Under[d.conn]
          /\ Way'[d.conn] = Way[d.conn]
          /\ \A n \in DOMAIN d.made : Way'[d.made[n]] = Way[d.made[n]]
      BY <1>6, <1>8
    <3>2. Dials(dial[s])'
      BY <1>2, <1>3, <1>7, <3>1 DEF Dials
    <3>3. OnTheWay(dial[s])'
      BY <1>2, <1>3, <1>7, <3>1 DEF OnTheWay
    <3> QED BY <2>1, <1>2, <1>3, <1>7, <3>2, <3>3
  <2>2. CASE t # s
    <3>1. /\ own[t] = 0 /\ Dials(dial[t]) /\ dial'[t] = dial[t]
          /\ IF dial[t].at = "done" THEN AtItsEnd(dial[t]) ELSE OnTheWay(dial[t])
      BY <2>2, <1>3 DEF DialsOK
    <3>2. Len(conns) <= Len(conns')
      BY <1>6 DEF Reached
    <3> QED BY <1>6, <3>1, <3>2, DialStays
  <2> QED BY <2>1, <2>2
<1>12. MadeIsOwn'
  <2>1. Shared' = Shared
    BY <1>9, <1>10 DEF Shared
  <2> QED BY <2>1, <1>9 DEF MadeIsOwn
<1>13. InUse' = InUse
  BY <1>9, <1>10 DEF InUse
<1>14. KeptIsUsed' /\ RoutesAreTrue' /\ NoneYetUsed' /\ ReachedAsSaved' /\ ClosedOnceUnused'
  <2>1. KeptIsUsed' /\ ClosedOnceUnused'
    BY <1>13 DEF KeptIsUsed, ClosedOnceUnused, Up
  <2>2. RoutesAreTrue' /\ NoneYetUsed'
    <3>1. \A c \in Made : Way'[c] = Way[c]
      BY <1>6 DEF Made
    <3> QED BY <1>6, <3>1 DEF RoutesAreTrue, NoneYetUsed
  <2>3. ReachedAsSaved'
    BY <1>6 DEF ReachedAsSaved, HopsTypeOK
  <2> QED BY <2>1, <2>2, <2>3
<1>15. CountsAreTrue'
  <2>1. \A c \in Made, t \in Servers : dial[t] # NoDial /\ c \in Under[dial[t].start] <=> c \in Held(t)
    BY DEF Held
  <2>2. \A c \in Made, t \in Servers : (dial[t] # NoDial /\ c \in Under[dial[t].start])' <=> c \in Held(t)'
    BY DEF Held
  <2>3. \A c \in Made : Through(c)' = Through(c) /\ Holding(c)' = Holding(c)
    BY <1>9, <1>10, <2>1, <2>2 DEF Through, Holding
  <2> QED BY <1>6, <2>3 DEF CountsAreTrue, Made
<1> QED BY <1>5, <1>11, <1>12, <1>14, <1>15

(* DialFrom: the next hop is there. *)
LEMMA DialGoesOnKeepsInv ==
  ASSUME HopsIInv, NEW s \in Servers, dial[s].at = "on",
         dial[s].conn = 0 \/ Up(dial[s].conn), Len(conns) + 1 <= MaxConns,
         conns' = Append(conns, [to |-> dial[s].hops[dial[s].next].to,
                                 hop |-> dial[s].hops[dial[s].next], via |-> dial[s].conn]),
         dial' = [dial EXCEPT ![s] =
                   [dial[s] EXCEPT !.conn = Len(conns) + 1, !.next = @ + 1,
                                   !.at = IF dial[s].next = Len(dial[s].hops) THEN "done" ELSE "on",
                                   !.made = IF dial[s].next = Len(dial[s].hops)
                                            THEN @ ELSE Append(@, Len(conns) + 1)]],
         UNCHANGED <<saved, shut, own, letgo, dropped, held, deeds, wanted>>
  PROVE  HopsIInv'
<1> USE DEF HopsIInv, held
<1>0. PICK new : new = Len(conns) + 1
  OBVIOUS
<1> DEFINE d == dial[s]
           last == d.next = Len(d.hops)
           row == [to |-> d.hops[d.next].to, hop |-> d.hops[d.next], via |-> d.conn]
           e == [d EXCEPT !.conn = new, !.next = @ + 1, !.at = IF last THEN "done" ELSE "on",
                          !.made = IF last THEN @ ELSE Append(@, new)]
<1>1. d \in DialRec /\ d # NoDial
  <2>1. NoDial.at = "none"
    BY DEF NoDial
  <2> QED BY <2>1 DEF HopsTypeOK
<1>2. Reached /\ Chained
  BY TypeChained, ReachedIs
<1>3. own[s] = 0 /\ Dials(d) /\ OnTheWay(d)
  BY <1>1 DEF DialsOK
<1>4. /\ Len(conns) \in Nat /\ new \in Nat /\ new = Len(conns) + 1 /\ d.hops \in Seq(HopRec)
      /\ d.next \in 1..Len(d.hops) /\ d.start \in 0..Len(conns) /\ d.conn \in 0..Len(conns)
      /\ d.made \in Seq(Nat)
  BY <1>0, <1>1, <1>2, <1>3 DEF Reached, Dials, OnTheWay, DialRec
<1>5. d.hops[d.next] \in HopRec /\ d.hops[d.next].to \in Servers
  <2>1. d.hops[d.next] \in HopRec
    BY <1>4, ElementOfSeq
  <2> QED BY <2>1 DEF HopRec
<1>6. e.made = IF last THEN d.made ELSE Append(d.made, new)
  BY <1>1 DEF DialRec
<1>7. /\ e.at = (IF last THEN "done" ELSE "on") /\ e.hops = d.hops /\ e.start = d.start
      /\ e.next = d.next + 1 /\ e.conn = new
  BY <1>1 DEF DialRec
<1>8. e \in DialRec
  <2>1. Append(d.made, new) \in Seq(Nat)
    BY <1>4, AppendProperties
  <2>2. d.next + 1 \in Nat /\ new \in Nat
    BY <1>4
  <2> HIDE DEF last
  <2>3. (IF last THEN d.made ELSE Append(d.made, new)) \in Seq(Nat)
    BY <2>1, <1>4
  <2>4. (IF last THEN "done" ELSE "on") \in {"on", "done", "failed"}
    OBVIOUS
  <2> QED BY <2>2, <2>3, <2>4, <1>1 DEF DialRec
<1>9. e # NoDial
  <2>1. NoDial.at = "none"
    BY DEF NoDial
  <2>2. e.at # "none"
    BY <1>7
  <2> HIDE DEF e
  <2> QED BY <2>1, <2>2
<1>10. dial'[s] = e /\ \A t \in Servers : t # s => dial'[t] = dial[t]
  BY <1>0 DEF HopsTypeOK
<1>11. row \in [to : Servers, hop : HopRec, via : Nat] /\ row.via = d.conn /\ row.hop = d.hops[d.next]
  BY <1>4, <1>5
<1> HIDE DEF e, row
<1>12. /\ conns' \in Seq([to : Servers, hop : HopRec, via : Nat]) /\ Len(conns') = new
       /\ conns'[new] = row /\ \A c \in Made : conns'[c] = conns[c]
  <2>1. conns' = Append(conns, row)
    BY DEF row
  <2> QED BY <1>0, <2>1, <1>2, <1>11, AppendProperties DEF Chained, Made
<1> HIDE DEF last
<1>13. Made' = Made \cup {new} /\ new \notin Made
  <2>1. Made' = 1..new
    BY <1>12 DEF Made
  <2>2. 1..new = (1..Len(conns)) \cup {new} /\ new \notin 1..Len(conns)
    BY <1>4
  <2> QED BY <2>1, <2>2 DEF Made
<1>14. HopsTypeOK'
  <2>1. dial' \in [Servers -> {NoDial} \cup DialRec]
    BY <1>8, <1>10 DEF HopsTypeOK
  <2>2. \A c \in Made' : conns'[c].via < c
    <3>1. conns'[new].via < new
      BY <1>4, <1>11, <1>12
    <3> QED BY <3>1, <1>12, <1>13 DEF HopsTypeOK
  <2>3. 0..Len(conns) \subseteq 0..Len(conns')
    BY <1>4, <1>12
  <2>4. own' \in [Servers -> 0..Len(conns')] /\ hops' \in [Servers -> 0..Len(conns')]
    BY <2>3 DEF HopsTypeOK
  <2>5. Len(conns') <= MaxConns
    BY <1>4, <1>12
  <2>6. shut' \subseteq Made' /\ closing' \subseteq Made'
    BY <1>13 DEF HopsTypeOK
  <2> QED BY <2>1, <2>2, <2>4, <2>5, <2>6, <1>12 DEF HopsTypeOK
<1>15. Reached' /\ Chained'
  BY <1>14, ReachedNext DEF Chained, HopsTypeOK
<1>16. \A c \in 0..Len(conns) : Under'[c] = Under[c] /\ Way'[c] = Way[c]
  <2>1. Len(conns) <= Len(conns')
    BY <1>4, <1>12
  <2> QED BY <2>1, <1>2, <1>12, <1>15, ChainGrows
<1>17. Under'[new] = {new} \cup Under[d.conn] /\ Way'[new] = Append(Way[d.conn], d.hops[d.next])
  <2>1. new \in Made' /\ conns'[new].via = d.conn /\ conns'[new].hop = d.hops[d.next]
    BY <1>11, <1>12, <1>13
  <2>2. Under'[d.conn] = Under[d.conn] /\ Way'[d.conn] = Way[d.conn]
    BY <1>4, <1>16
  <2>3. \A c \in Made' : /\ Under'[c] = {c} \cup Under'[conns'[c].via]
                         /\ Way'[c] = Append(Way'[conns'[c].via], conns'[c].hop)
    BY <1>15 DEF Reached
  <2> QED BY <2>1, <2>2, <2>3
<1>18. \A t \in Servers : Under'[own'[t]] = Under[own[t]] /\ Under'[hops'[t]] = Under[hops[t]]
  BY <1>16 DEF HopsTypeOK
<1>19. \A t \in Servers : dial[t] # NoDial => dial[t].start \in 0..Len(conns) /\ dial[t].conn \in 0..Len(conns)
  BY DEF DialsOK, Dials
<1>20. \A t \in Servers : t # s => /\ Fresh(t)' = Fresh(t)
                                   /\ Dialled(dial[t])' = Dialled(dial[t])
  BY <1>10, <1>16, <1>19 DEF Fresh, Dialled
<1>21. Under[d.start] \subseteq Under[d.conn] /\ Under[d.conn] \subseteq Made
  BY <1>2, <1>3, <1>4 DEF Dials, Reached
<1>22. /\ Fresh(s)' = Fresh(s) \cup {new}
       /\ Dialled(dial[s])' = Dialled(dial[s]) \cup {new}
  <2>1. Under'[e.start] = Under[d.start] /\ Under'[e.conn] = {new} \cup Under[d.conn]
    BY <1>4, <1>7, <1>16, <1>17
  <2>2. Fresh(s)' = ({new} \cup Under[d.conn]) \ Under[d.start]
    BY <2>1, <1>9, <1>10 DEF Fresh
  <2>3. Dialled(dial[s])' = Under[d.start] \cup {new} \cup Under[d.conn]
    BY <2>1, <1>9, <1>10 DEF Dialled
  <2> QED BY <2>2, <2>3, <1>1, <1>13, <1>21 DEF Fresh, Dialled
<1>23. \A t \in Servers : Held(t)' = Held(t)
  <2>1. Held(s)' = Held(s)
    BY <1>1, <1>4, <1>7, <1>9, <1>10, <1>16 DEF Held
  <2>2. ASSUME NEW t \in Servers, t # s PROVE Held(t)' = Held(t)
    BY <2>2, <1>10, <1>16, <1>19 DEF Held
  <2> QED BY <2>1, <2>2
<1>24. DialsOK'
  <2> SUFFICES ASSUME NEW t \in Servers, dial'[t] # NoDial
               PROVE  /\ own'[t] = 0 /\ Dials(dial[t])'
                      /\ IF dial'[t].at = "done" THEN AtItsEnd(dial[t])' ELSE OnTheWay(dial[t])'
    BY DEF DialsOK
  <2>1. CASE t = s
    <3>1. Way[d.conn] \in Seq(HopRec) /\ NoMark(Way[d.conn]) = NoMark(SubSeq(d.hops, 1, d.next - 1))
      BY <1>2, <1>3, <1>4 DEF Reached, Dials
    <3>2. RouteOf(Way'[new]) = RouteOf(SubSeq(d.hops, 1, d.next)) /\ Way'[new] \in Seq(HopRec)
      <4>1. RouteOf(Way'[new]) = RouteOf(SubSeq(d.hops, 1, d.next))
        BY <1>4, <1>17, <3>1, RouteThrough
      <4>2. Append(Way[d.conn], d.hops[d.next]) \in Seq(HopRec)
        BY <3>1, <1>5, AppendProperties
      <4> QED BY <4>1, <4>2, <1>17
    <3>3. SubSeq(d.hops, 1, d.next) \in Seq(HopRec) /\ (d.next + 1) - 1 = d.next
      BY <1>4, SubSeqProperties, ElementOfSeq
    <3>4. NoMark(Way'[new]) = NoMark(SubSeq(d.hops, 1, d.next))
      <4>1. NoMark(Way'[new]) = NoMark(RouteOf(Way'[new]))
        BY <3>2, NoMarkOfRoute
      <4>2. NoMark(SubSeq(d.hops, 1, d.next)) = NoMark(RouteOf(SubSeq(d.hops, 1, d.next)))
        BY <3>3, NoMarkOfRoute
      <4> QED BY <4>1, <4>2, <3>2
    <3>5. /\ Len(d.made) \in Nat /\ Len(d.made) <= d.next - 1
          /\ \A n \in 1..Len(d.made) :
               /\ d.made[n] \in Under[d.conn] /\ d.made[n] \in 0..Len(conns)
               /\ RouteOf(Way'[d.made[n]]) = RouteOf(SubSeq(d.hops, 1, d.next - 1 - Len(d.made) + n))
      <4>1. DOMAIN d.made = 1..Len(d.made) /\ Len(d.made) \in Nat
        BY <1>4
      <4>2. Len(d.made) <= d.next - 1
        BY <1>3 DEF OnTheWay
      <4>3. ASSUME NEW n \in 1..Len(d.made)
            PROVE  /\ d.made[n] \in Under[d.conn] /\ d.made[n] \in 0..Len(conns)
                   /\ RouteOf(Way'[d.made[n]]) = RouteOf(SubSeq(d.hops, 1, d.next - 1 - Len(d.made) + n))
        <5>1. d.made[n] \in Under[d.conn]
          BY <4>1, <4>3, <1>3 DEF Dials
        <5>2. d.made[n] \in 0..Len(conns)
          BY <5>1, <1>4, <1>21 DEF Made
        <5>3. RouteOf(Way[d.made[n]]) = RouteOf(SubSeq(d.hops, 1, d.next - 1 - Len(d.made) + n))
          BY <4>1, <4>3, <1>3 DEF OnTheWay
        <5> QED BY <5>1, <5>2, <5>3, <1>16
      <4> QED BY <4>1, <4>2, <4>3
    <3>6. CASE last
      <4>1. e.made = d.made /\ DOMAIN d.made = 1..Len(d.made) /\ e.at = "done" /\ d.next = Len(d.hops)
        BY <3>6, <1>4, <1>6, <1>7 DEF last
      <4>2. Dials(dial[s])'
        <5>1. Under'[e.start] \subseteq Under'[e.conn]
          BY <1>4, <1>7, <1>16, <1>17, <1>21
        <5>2. \A n \in DOMAIN e.made : e.made[n] \in Under'[e.conn]
          BY <4>1, <3>5, <1>7, <1>17
        <5>3. NoMark(Way'[e.conn]) = NoMark(SubSeq(e.hops, 1, e.next - 1))
          BY <1>7, <3>3, <3>4
        <5>4. e.start \in 0..Len(conns') /\ e.conn \in 0..Len(conns') /\ e.next \in 1..(Len(e.hops) + 1)
          BY <1>4, <1>7, <1>12
        <5> QED BY <5>1, <5>2, <5>3, <5>4, <1>10 DEF Dials
      <4>3. AtItsEnd(dial[s])'
        <5>1. SubSeq(d.hops, 1, Len(d.hops)) = d.hops
          BY <1>4, SubSeqProperties
        <5>2. RouteOf(Way'[e.conn]) = RouteOf(e.hops)
          BY <5>1, <4>1, <3>2, <1>7
        <5>3. e.next = Len(e.hops) + 1 /\ e.conn # 0 /\ Len(e.made) <= Len(e.hops) - 1
          BY <4>1, <3>5, <1>4, <1>7
        <5>4. \A n \in DOMAIN e.made :
                RouteOf(Way'[e.made[n]]) = RouteOf(SubSeq(e.hops, 1, FirstMade(e) + n))
          BY <4>1, <3>5, <1>4, <1>7 DEF FirstMade
        <5> QED BY <5>2, <5>3, <5>4, <1>10 DEF AtItsEnd
      <4> QED BY <4>1, <4>2, <4>3, <2>1, <1>3, <1>10
    <3>7. CASE ~last
      <4>1. e.made = Append(d.made, new) /\ e.at = "on" /\ d.next # Len(d.hops)
        BY <3>7, <1>6, <1>7 DEF last
      <4>2. /\ DOMAIN e.made = 1..Len(e.made) /\ Len(e.made) = Len(d.made) + 1
            /\ e.made[Len(e.made)] = new /\ \A n \in 1..Len(d.made) : e.made[n] = d.made[n]
        BY <4>1, <1>4, AppendProperties
      <4>3. \A n \in 1..Len(e.made) : n = Len(e.made) \/ n \in 1..Len(d.made)
        BY <4>2, <3>5
      <4>4. Dials(dial[s])'
        <5>1. Under'[e.start] \subseteq Under'[e.conn]
          BY <1>4, <1>7, <1>16, <1>17, <1>21
        <5>2. \A n \in DOMAIN e.made : e.made[n] \in Under'[e.conn]
          BY <4>2, <4>3, <3>5, <1>7, <1>17
        <5>3. NoMark(Way'[e.conn]) = NoMark(SubSeq(e.hops, 1, e.next - 1))
          BY <1>7, <3>3, <3>4
        <5>4. e.start \in 0..Len(conns') /\ e.conn \in 0..Len(conns') /\ e.next \in 1..(Len(e.hops) + 1)
          BY <1>4, <1>7, <1>12
        <5> QED BY <5>1, <5>2, <5>3, <5>4, <1>10 DEF Dials
      <4>5. OnTheWay(dial[s])'
        <5>1. \A c \in Under'[e.conn] \ Under'[e.start] : \E n \in DOMAIN e.made : e.made[n] = c
          <6>1. \A c \in Under[d.conn] \ Under[d.start] : \E n \in DOMAIN d.made : d.made[n] = c
            BY <1>3 DEF OnTheWay
          <6>2. DOMAIN d.made = 1..Len(d.made) /\ Len(e.made) \in DOMAIN e.made
            BY <1>4, <4>2, <3>5
          <6>3. \A n \in DOMAIN d.made : n \in DOMAIN e.made /\ e.made[n] = d.made[n]
            BY <6>2, <4>2, <3>5
          <6>4. e.made[Len(e.made)] = new
            BY <4>2
          <6>5. Under'[e.conn] = {new} \cup Under[d.conn] /\ Under'[e.start] = Under[d.start]
            BY <1>4, <1>7, <1>16, <1>17
          <6> QED BY <6>1, <6>2, <6>3, <6>4, <6>5
        <5>2. e.next <= Len(e.hops) /\ Len(e.made) <= e.next - 1
          <6>1. Len(d.hops) \in Nat /\ d.next \in 1..Len(d.hops) /\ d.next # Len(d.hops)
            BY <1>4, <4>1
          <6>2. e.next = d.next + 1 /\ e.hops = d.hops /\ Len(e.made) = Len(d.made) + 1
            BY <4>2, <1>7
          <6>3. d.next + 1 <= Len(d.hops)
            BY <6>1
          <6> QED BY <6>1, <6>2, <6>3, <3>5
        <5>3. ASSUME NEW n \in DOMAIN e.made
              PROVE  RouteOf(Way'[e.made[n]]) = RouteOf(SubSeq(e.hops, 1, e.next - 1 - Len(e.made) + n))
          <6>1. CASE n = Len(e.made)
            <7>1. e.next - 1 - Len(e.made) + n = d.next
              BY <6>1, <4>2, <3>5, <1>4, <1>7
            <7> QED BY <7>1, <6>1, <4>2, <3>2, <1>7
          <6>2. CASE n \in 1..Len(d.made)
            <7>1. e.next - 1 - Len(e.made) + n = d.next - 1 - Len(d.made) + n
              BY <6>2, <4>2, <3>5, <1>4, <1>7
            <7> QED BY <7>1, <6>2, <4>2, <3>5, <1>7
          <6> QED BY <6>1, <6>2, <4>2, <4>3
        <5>4. dial'[s] = e
          BY <1>10
        <5> HIDE DEF d, HopsIInv
        <5> QED BY <5>1, <5>2, <5>3, <5>4 DEF OnTheWay
      <4> QED BY <4>1, <4>4, <4>5, <2>1, <1>3, <1>10
    <3> QED BY <3>6, <3>7
  <2>2. CASE t # s
    <3>1. /\ own[t] = 0 /\ Dials(dial[t]) /\ dial'[t] = dial[t]
          /\ IF dial[t].at = "done" THEN AtItsEnd(dial[t]) ELSE OnTheWay(dial[t])
      BY <2>2, <1>10 DEF DialsOK
    <3>2. Len(conns) <= Len(conns')
      BY <1>4, <1>12
    <3> QED BY <1>2, <1>15, <1>16, <3>1, <3>2, DialStays
  <2> QED BY <2>1, <2>2
<1>25. Shared' = Shared /\ Shared \subseteq Made
  <2>1. Shared' = Shared
    BY <1>18, <1>23 DEF Shared
  <2>2. \A t \in Servers : own[t] \in 0..Len(conns) /\ hops[t] \in 0..Len(conns)
    BY DEF HopsTypeOK
  <2>3. \A t \in Servers : Under[own[t]] \subseteq Made /\ Under[hops[t]] \subseteq Made /\ Held(t) \subseteq Made
    BY <2>2, <1>2, <1>19 DEF Reached, Held
  <2>4. closing \subseteq Made
    BY DEF HopsTypeOK
  <2> QED BY <2>1, <2>3, <2>4 DEF Shared
<1>26. \A t \in Servers : Fresh(t) \subseteq Made
  BY <1>2, <1>19 DEF Reached, Fresh
<1>27. MadeIsOwn'
  BY <1>13, <1>20, <1>22, <1>25, <1>26 DEF MadeIsOwn
<1>28. InUse' = InUse \cup {new}
  <2>1. s \in Servers
    OBVIOUS
  <2>2. ASSUME NEW c \in InUse' PROVE c \in InUse \cup {new}
    <3>1. PICK t \in Servers : c \in Under'[own'[t]] \/ c \in Dialled(dial[t])'
      BY <2>2, UseIsNext DEF UseSays
    <3>2. c \in Under[own[t]] \/ c \in Dialled(dial[t]) \/ c = new
      BY <3>1, <1>18, <1>20, <1>22
    <3> QED BY <3>2, UseIs DEF UseSays
  <2>3. ASSUME NEW c \in InUse \cup {new} PROVE c \in InUse'
    <3>1. CASE c = new
      BY <3>1, <2>1, <1>22, UseIsNext DEF UseSays
    <3>2. CASE c # new
      <4>1. PICK t \in Servers : c \in Under[own[t]] \/ c \in Dialled(dial[t])
        BY <2>3, <3>2, UseIs DEF UseSays
      <4>2. c \in Under'[own'[t]] \/ c \in Dialled(dial[t])'
        BY <4>1, <1>18, <1>20, <1>22
      <4> QED BY <4>2, UseIsNext DEF UseSays
    <3> QED BY <3>1, <3>2
  <2> QED BY <2>2, <2>3
<1>29. KeptIsUsed'
  BY <1>28 DEF KeptIsUsed, Up
<1>30. \A c \in Ids : routes[c] # << >> => c \in Made
  BY DEF RoutesAreTrue
<1>31. RoutesAreTrue' /\ NoneYetUsed' /\ ReachedAsSaved'
  <2>1. \A c \in Made : Way'[c] = Way[c]
    BY <1>16 DEF Made
  <2>2. RoutesAreTrue' /\ NoneYetUsed'
    BY <1>13, <2>1 DEF RoutesAreTrue, NoneYetUsed
  <2>3. ReachedAsSaved'
    BY <1>16 DEF ReachedAsSaved, HopsTypeOK
  <2> QED BY <2>2, <2>3
<1>32. CountsAreTrue'
  <2>1. \A c \in Made', t \in Servers : t \in Through(c)' <=> c \in Under[own[t]] \ {own[t]}
    BY <1>18 DEF Through
  <2>2. \A c \in Made', t \in Servers : t \in Holding(c)' <=> c \in Held(t)
    <3>1. \A c \in Made', t \in Servers : t \in Holding(c)' <=> c \in Held(t)'
      BY DEF Holding, Held
    <3> QED BY <3>1, <1>23
  <2>3. \A c \in Made : Through(c)' = Through(c) /\ Holding(c)' = Holding(c)
    BY <2>1, <2>2, <1>13 DEF Through, Holding, Held
  <2>4. Through(new)' = {} /\ Holding(new)' = {}
    <3>1. \A t \in Servers : new \notin Under[own[t]] /\ new \notin Held(t)
      BY <1>13, <1>25, SharedIs DEF SharedSays
    <3>2. Through(new)' \subseteq Servers /\ Holding(new)' \subseteq Servers
      BY DEF Through, Holding
    <3>3. \A t \in Servers : t \notin Through(new)' /\ t \notin Holding(new)'
      BY <3>1, <2>1, <2>2, <1>13
    <3> QED BY <3>2, <3>3
  <2>5. users[new] = 0
    <3>1. new \in Ids
      BY <1>4, RouteAssumption DEF Ids
    <3> QED BY <3>1, <1>13 DEF NoneYetUsed
  <2>6. Cardinality({}) = 0
    BY FS_EmptySet
  <2>7. \A c \in Made : users[c] = Cardinality(Through(c)) + Cardinality(Holding(c))
    BY DEF CountsAreTrue, Made
  <2>8. \A c \in Made : users'[c] = Cardinality(Through(c)') + Cardinality(Holding(c)')
    BY <2>3, <2>7
  <2>9. users'[new] = Cardinality(Through(new)') + Cardinality(Holding(new)')
    BY <2>4, <2>5, <2>6
  <2>10. \A c \in Made' : users'[c] = Cardinality(Through(c)') + Cardinality(Holding(c)')
    BY <2>8, <2>9, <1>13
  <2> QED BY <2>10 DEF CountsAreTrue, Made
<1>33. ClosedOnceUnused'
  <2>1. new \notin closing /\ closing \subseteq Made
    BY <1>13 DEF HopsTypeOK
  <2> QED BY <2>1, <1>13, <1>28 DEF ClosedOnceUnused, Up, Made
<1> QED BY <1>14, <1>24, <1>27, <1>29, <1>31, <1>32, <1>33

(* DialFrom. *)
LEMMA DialStepKeepsInv ==
  ASSUME HopsIInv, NEW s \in Servers, DialStep(s)
  PROVE  HopsIInv'
<1>1. CASE dial' = [dial EXCEPT ![s].at = "failed"] /\ UNCHANGED conns
  BY <1>1, DialFailsKeepsInv DEF DialStep
<1>2. CASE ~(dial' = [dial EXCEPT ![s].at = "failed"] /\ UNCHANGED conns)
  BY <1>2, DialGoesOnKeepsInv, Zenon DEF DialStep
<1> QED BY <1>1, <1>2

(* Release, of connections each of which something uses: one use less of each,
   and those idle then are closed. *)
Lets(idle, c, users0, routes0, hops0, mine) ==
  /\ idle \subseteq Under[c] /\ users' \in [Ids -> Nat]
  /\ \A x \in Ids : users'[x] = IF x \in Under[c] THEN users0[x] - 1 ELSE users0[x]
  /\ \A x \in Under[c] : x \in idle <=> users'[x] = 0 /\ \A s \in Servers : mine[s] # x
  /\ routes' = [x \in Ids |-> IF x \in idle THEN << >> ELSE routes0[x]]
  /\ hops' = [s \in Servers |-> IF hops0[s] \in idle THEN 0 ELSE hops0[s]]
  /\ closing' = closing \cup idle

LEMMA ReleasedDoes ==
  ASSUME NEW c, NEW users0, NEW routes0, NEW hops0, NEW mine, Released(c, users0, routes0, hops0, mine),
         users0 \in [Ids -> Nat], Under[c] \subseteq Ids, \A x \in Under[c] : users0[x] >= 1
  PROVE  \E idle : Lets(idle, c, users0, routes0, hops0, mine)
<1> DEFINE idle == {d \in Under[c] : users0[d] <= 1 /\ d \notin {mine[s] : s \in Servers}}
<1>1. /\ users' = [d \in Ids |-> IF d \notin Under[c] THEN users0[d]
                                 ELSE IF users0[d] <= 1 THEN 0 ELSE users0[d] - 1]
      /\ routes' = [x \in Ids |-> IF x \in idle THEN << >> ELSE routes0[x]]
      /\ hops' = [s \in Servers |-> IF hops0[s] \in idle THEN 0 ELSE hops0[s]]
      /\ closing' = closing \cup idle
  BY Zenon DEF Released
<1>2. \A x \in Ids : users'[x] = IF x \in Under[c] THEN users0[x] - 1 ELSE users0[x]
  BY <1>1
<1>3. users' \in [Ids -> Nat]
  <2>1. \A x \in Ids : users'[x] \in Nat
    BY <1>2
  <2> QED BY <2>1, <1>1
<1>4. \A x \in Under[c] : x \in idle <=> users'[x] = 0 /\ \A s \in Servers : mine[s] # x
  BY <1>2
<1>5. idle \subseteq Under[c]
  OBVIOUS
<1> HIDE DEF idle
<1> QED BY <1>1, <1>2, <1>3, <1>4, <1>5 DEF Lets

(* A set loses one of its elements, or has one more. *)
LEMMA OneLess ==
  ASSUME NEW T, T \subseteq Servers, NEW s
  PROVE  /\ IsFiniteSet(T) /\ Cardinality(T) \in Nat
         /\ s \in T => Cardinality(T) >= 1 /\ Cardinality(T \ {s}) = Cardinality(T) - 1
         /\ s \notin T => Cardinality(T \cup {s}) = Cardinality(T) + 1 /\ T \ {s} = T
<1>1. IsFiniteSet(T) /\ Cardinality(T) \in Nat
  BY RouteAssumption, FS_Subset, FS_CardinalityType
<1>2. ASSUME s \in T PROVE Cardinality(T) >= 1 /\ Cardinality(T \ {s}) = Cardinality(T) - 1
  <2>1. Cardinality(T \ {s}) = Cardinality(T) - 1
    BY <1>1, <1>2, FS_RemoveElement
  <2>2. Cardinality(T) # 0
    BY <1>1, <1>2, FS_EmptySet
  <2> QED BY <1>1, <2>1, <2>2
<1>3. ASSUME s \notin T PROVE Cardinality(T \cup {s}) = Cardinality(T) + 1
  BY <1>1, <1>3, FS_AddElement
<1> QED BY <1>1, <1>2, <1>3

(* A dial that failed. *)
LEMMA DialFailedKeepsInv ==
  ASSUME HopsIInv, NEW s \in Servers, DialFailed(s)
  PROVE  HopsIInv'
<1> USE DEF HopsIInv
<1> DEFINE d == dial[s]
<1>1. /\ d.at = "failed" /\ shut' = shut \cup UNION {Over(d.made[n]) : n \in DOMAIN d.made}
      /\ Released(d.start, users, routes, hops, own)
      /\ dial' = [dial EXCEPT ![s] = NoDial]
      /\ UNCHANGED <<saved, conns, own, letgo, dropped, deeds, wanted>>
  BY DEF DialFailed
<1>2. d \in DialRec /\ d # NoDial
  <2>1. NoDial.at = "none"
    BY DEF NoDial
  <2> QED BY <1>1, <2>1 DEF HopsTypeOK
<1>3. Reached /\ UsedIs
  BY TypeChained, ReachedIs, CountsTellUse
<1>4. Dials(d) /\ OnTheWay(d)
  BY <1>1, <1>2 DEF DialsOK
<1>5. d.start \in 0..Len(conns) /\ d.conn \in 0..Len(conns)
  BY <1>4 DEF Dials
<1>6. Under[d.start] \subseteq Made /\ Made \subseteq Ids
  <2>1. Len(conns) \in Nat /\ MaxConns \in Nat /\ Len(conns) <= MaxConns
    BY <1>3, RouteAssumption DEF Reached, HopsTypeOK
  <2> QED BY <2>1, <1>3, <1>5 DEF Reached, Made, Ids
<1>7. users \in [Ids -> Nat] /\ \A x \in Under[d.start] : users[x] >= 1 /\ x \in Ids
  <2>1. users \in [Ids -> Nat]
    BY DEF HopsTypeOK
  <2>2. ASSUME NEW x \in Under[d.start] PROVE users[x] # 0
    <3>1. s \in Holding(x)
      BY <1>2, <2>2 DEF Holding
    <3> QED BY <3>1, <1>3, <1>6 DEF UsedIs
  <2> QED BY <2>1, <2>2, <1>6
<1>8. PICK idle :
        /\ idle \subseteq Under[d.start] /\ users' \in [Ids -> Nat]
        /\ \A x \in Ids : users'[x] = IF x \in Under[d.start] THEN users[x] - 1 ELSE users[x]
        /\ \A x \in Under[d.start] : x \in idle <=> users'[x] = 0 /\ \A t \in Servers : own[t] # x
        /\ routes' = [x \in Ids |-> IF x \in idle THEN << >> ELSE routes[x]]
        /\ hops' = [t \in Servers |-> IF hops[t] \in idle THEN 0 ELSE hops[t]]
        /\ closing' = closing \cup idle
  <2>1. Under[d.start] \subseteq Ids
    BY <1>6
  <2> HIDE DEF d, HopsIInv
  <2>2. PICK idle : Lets(idle, d.start, users, routes, hops, own)
    BY <1>1, <1>7, <2>1, ReleasedDoes
  <2> QED BY <2>2 DEF Lets
<1>9. dial'[s] = NoDial /\ \A t \in Servers : t # s => dial'[t] = dial[t]
  BY <1>1 DEF HopsTypeOK
<1>10. \A t \in Servers : /\ own[t] \in 0..Len(conns) /\ hops[t] \in 0..Len(conns)
                          /\ hops'[t] = IF hops[t] \in idle THEN 0 ELSE hops[t]
  BY <1>8 DEF HopsTypeOK
<1>11. HopsTypeOK'
  <2>1. dial' \in [Servers -> {NoDial} \cup DialRec]
    BY <1>9, <1>1 DEF HopsTypeOK
  <2>2. shut' \subseteq Made
    BY <1>1, OverMade DEF HopsTypeOK
  <2>3. routes' \in [Ids -> Seq(HopRec)]
    BY <1>8, EmptySeq DEF HopsTypeOK
  <2>4. hops' \in [Servers -> 0..Len(conns)]
    BY <1>8, <1>3, <1>10 DEF Reached
  <2>5. closing' \subseteq Made
    BY <1>6, <1>8 DEF HopsTypeOK
  <2> QED BY <1>1, <1>8, <2>1, <2>2, <2>3, <2>4, <2>5 DEF HopsTypeOK, Made
<1>12. /\ Reached' /\ Made' = Made
       /\ \A c \in 0..Len(conns) : Under'[c] = Under[c] /\ Way'[c] = Way[c]
       /\ \A t \in Servers : dial'[t] = dial[t] =>
            Fresh(t)' = Fresh(t) /\ Dialled(dial[t])' = Dialled(dial[t])
  BY <1>1, <1>11, SameChain
<1>13. /\ Fresh(s)' = {} /\ Held(s)' = {} /\ Held(s) = Under[d.start]
       /\ \A t \in Servers : t # s => Fresh(t)' = Fresh(t) /\ Held(t)' = Held(t)
  <2>1. \A t \in Servers : dial[t] # NoDial => dial[t].start \in 0..Len(conns)
    BY DEF DialsOK, Dials
  <2>2. Fresh(s)' = {} /\ Held(s)' = {} /\ Held(s) = Under[d.start]
    BY <1>2, <1>9 DEF Fresh, Held
  <2>3. \A t \in Servers : t # s => Held(t)' = Held(t)
    BY <2>1, <1>9, <1>12 DEF Held
  <2> QED BY <2>2, <2>3, <1>9, <1>12
<1>14. DialsOK'
  <2> SUFFICES ASSUME NEW t \in Servers, dial'[t] # NoDial
               PROVE  /\ own'[t] = 0 /\ Dials(dial[t])'
                      /\ IF dial'[t].at = "done" THEN AtItsEnd(dial[t])' ELSE OnTheWay(dial[t])'
    BY DEF DialsOK
  <2>1. t # s /\ dial'[t] = dial[t]
    BY <1>9
  <2>2. /\ own[t] = 0 /\ Dials(dial[t])
        /\ IF dial[t].at = "done" THEN AtItsEnd(dial[t]) ELSE OnTheWay(dial[t])
    BY <2>1 DEF DialsOK
  <2>3. Len(conns) <= Len(conns')
    BY <1>1, <1>3 DEF Reached
  <2> QED BY <1>1, <1>3, <1>12, <2>1, <2>2, <2>3, DialStays
<1>15. \A t \in Servers : Under'[own'[t]] = Under[own[t]] /\ Under'[hops'[t]] \subseteq Under[hops[t]]
  BY <1>1, <1>3, <1>10, <1>12 DEF Reached
<1>16. Under[d.start] \subseteq Shared
  BY <1>13, SharedIs DEF SharedSays
<1>17. Shared' \subseteq Shared
  <2> SUFFICES ASSUME NEW c \in Shared' PROVE c \in Shared
    OBVIOUS
  <2>1. CASE c \in closing'
    BY <2>1, <1>8, <1>16, SharedIs DEF SharedSays
  <2>2. CASE c \notin closing'
    <3>1. PICK t \in Servers : c \in Under'[own'[t]] \/ c \in Under'[hops'[t]] \/ c \in Held(t)'
      BY <2>2, SharedIsNext DEF SharedSays
    <3>2. c \in Under[own[t]] \/ c \in Under[hops[t]] \/ c \in Held(t)
      BY <3>1, <1>13, <1>15
    <3> QED BY <3>2, SharedIs DEF SharedSays
  <2> QED BY <2>1, <2>2
<1>18. MadeIsOwn'
  <2>1. \A t \in Servers : Fresh(t)' \subseteq Fresh(t)
    BY <1>13
  <2> QED BY <2>1, <1>17 DEF MadeIsOwn
<1>19. CountsAreTrue'
  <2>1. \A c \in Made, t \in Servers : t \in Through(c)' <=> t \in Through(c)
    BY <1>1, <1>15 DEF Through
  <2>2. \A c \in Made, t \in Servers : /\ t \in Holding(c) <=> c \in Held(t)
                                       /\ t \in Holding(c)' <=> c \in Held(t)'
    BY DEF Holding, Held
  <2> SUFFICES ASSUME NEW c \in Made
               PROVE  users'[c] = Cardinality(Through(c)') + Cardinality(Holding(c)')
    BY <1>12 DEF CountsAreTrue, Made
  <2>3. /\ Through(c) \subseteq Servers /\ Holding(c) \subseteq Servers
        /\ Through(c)' \subseteq Servers /\ Holding(c)' \subseteq Servers
    BY DEF Through, Holding
  <2>4. Through(c)' = Through(c)
    BY <2>1, <2>3
  <2>5. Holding(c)' = Holding(c) \ {s}
    <3>1. \A t \in Servers : t \in Holding(c)' <=> t \in Holding(c) /\ t # s
      BY <2>2, <1>13
    <3> QED BY <3>1, <2>3
  <2>6. s \in Holding(c) <=> c \in Under[d.start]
    BY <2>2, <1>13
  <2>7. users[c] = Cardinality(Through(c)) + Cardinality(Holding(c)) /\ c \in Ids
    BY <1>6 DEF CountsAreTrue, Made
  <2>8. users'[c] = IF c \in Under[d.start] THEN users[c] - 1 ELSE users[c]
    BY <1>8, <2>7
  <2>9. /\ Cardinality(Through(c)) \in Nat /\ Cardinality(Holding(c)) \in Nat
        /\ s \in Holding(c) => Cardinality(Holding(c) \ {s}) = Cardinality(Holding(c)) - 1
        /\ s \notin Holding(c) => Holding(c) \ {s} = Holding(c)
    BY <2>3, OneLess
  <2>10. CASE c \in Under[d.start]
    BY <2>4, <2>5, <2>6, <2>7, <2>8, <2>9, <2>10
  <2>11. CASE c \notin Under[d.start]
    BY <2>4, <2>5, <2>6, <2>7, <2>8, <2>9, <2>11
  <2> QED BY <2>10, <2>11
<1>20. UsedIs'
  BY <1>11, <1>14, <1>19, CountsTellUseNext
<1>21. \A c \in Fresh(s) : c \in shut'
  <2> SUFFICES ASSUME NEW c \in Fresh(s) PROVE c \in shut'
    OBVIOUS
  <2>1. c \in Under[d.conn] \ Under[d.start] /\ c \in Made
    BY <1>2, <1>3, <1>5 DEF Fresh, Reached
  <2>2. PICK n \in DOMAIN d.made : d.made[n] = c
    BY <2>1, <1>4 DEF OnTheWay
  <2>3. c \in Over(c)
    BY <2>1, <1>3 DEF Reached, Over, Made
  <2> QED BY <2>2, <2>3, <1>1
<1>22. ASSUME NEW c \in Made, c \notin Fresh(s), c \notin idle
       PROVE  c \in InUse => c \in InUse'
  <2> SUFFICES ASSUME c \in InUse PROVE c \in InUse'
    OBVIOUS
  <2>1. CASE \E t \in Servers : own[t] = c
    BY <2>1, <1>1, <1>12, <1>20 DEF UsedIs
  <2>2. CASE \E t \in Servers : c \in Fresh(t)
    BY <2>2, <1>22, <1>12, <1>13, <1>20 DEF UsedIs
  <2>3. CASE users[c] # 0 /\ ~ \E t \in Servers : own[t] = c
    <3>1. users'[c] # 0
      BY <2>3, <1>6, <1>8, <1>22
    <3> QED BY <3>1, <1>12, <1>20 DEF UsedIs
  <2> QED BY <2>1, <2>2, <2>3, <1>3 DEF UsedIs
<1>23. ASSUME NEW c \in Made, c \in InUse' PROVE c \in InUse /\ c \notin idle
  <2>1. CASE \E t \in Servers : own'[t] = c
    <3>1. c \notin idle
      BY <2>1, <1>1, <1>8
    <3> QED BY <3>1, <2>1, <1>1, <1>3 DEF UsedIs
  <2>2. CASE \E t \in Servers : c \in Fresh(t)'
    <3>1. PICK t \in Servers : c \in Fresh(t)
      BY <2>2, <1>13
    <3>2. c \notin Shared
      BY <3>1 DEF MadeIsOwn
    <3>3. c \notin idle
      BY <3>2, <1>8, <1>16
    <3> QED BY <3>1, <3>3, <1>3 DEF UsedIs
  <2>3. CASE users'[c] # 0
    <3>1. c \notin idle /\ users[c] # 0
      BY <2>3, <1>6, <1>7, <1>8
    <3> QED BY <3>1, <1>3 DEF UsedIs
  <2> QED BY <2>1, <2>2, <2>3, <1>12, <1>20, <1>23 DEF UsedIs
<1>24. ClosedOnceUnused'
  <2> SUFFICES ASSUME NEW c \in Made, Up(c)' PROVE c \in closing' <=> c \notin InUse'
    BY <1>12 DEF ClosedOnceUnused, Made
  <2>1. Up(c) /\ c \notin Fresh(s)
    BY <1>1, <1>21 DEF Up
  <2>2. c \in closing <=> c \notin InUse
    BY <2>1 DEF ClosedOnceUnused, Made
  <2> QED BY <2>1, <2>2, <1>8, <1>22, <1>23
<1>25. KeptIsUsed'
  <2> SUFFICES ASSUME NEW t \in Servers, Up(hops[t])' PROVE hops'[t] \in InUse'
    BY DEF KeptIsUsed
  <2>1. hops'[t] = hops[t] /\ hops[t] \notin idle /\ hops[t] # 0 /\ hops[t] \in Made
    BY <1>3, <1>10 DEF Up, Reached, Made
  <2>2. hops[t] \in InUse
    BY <2>1, <1>1 DEF KeptIsUsed, Up
  <2>3. hops[t] \notin Fresh(s)
    BY <2>1, <1>1, <1>21 DEF Up
  <2> QED BY <2>1, <2>2, <2>3, <1>22
<1>26. RoutesAreTrue' /\ NoneYetUsed' /\ ReachedAsSaved'
  <2>1. \A c \in Made : Way'[c] = Way[c]
    BY <1>12 DEF Made
  <2>2. RoutesAreTrue'
    BY <2>1, <1>8, <1>12 DEF RoutesAreTrue
  <2>3. NoneYetUsed'
    BY <1>6, <1>8, <1>12 DEF NoneYetUsed
  <2>4. ReachedAsSaved'
    BY <1>1, <1>10, <1>12 DEF ReachedAsSaved
  <2> QED BY <2>2, <2>3, <2>4
<1> QED BY <1>11, <1>14, <1>18, <1>19, <1>24, <1>25, <1>26

(* A connection that has ended. *)
LEMMA WaitReturnsKeepsInv ==
  ASSUME HopsIInv, NEW s \in Servers, WaitReturns(s)
  PROVE  HopsIInv'
<1> USE DEF HopsIInv
<1>0. PICK v : v = conns[own[s]].via
  OBVIOUS
<1>1. /\ own[s] # 0 /\ own[s] \in shut
      /\ Released(v, users, [routes EXCEPT ![own[s]] = << >>], hops, own)
      /\ own' = [own EXCEPT ![s] = 0]
      /\ letgo' \subseteq letgo /\ dropped' \subseteq dropped \cup {s}
      /\ UNCHANGED <<saved, conns, shut, dial, deeds, wanted>>
  BY <1>0 DEF WaitReturns, Up
<1>2. Reached /\ UsedIs
  BY TypeChained, ReachedIs, CountsTellUse
<1>3. own[s] \in Made /\ v \in 0..Len(conns) /\ v \in 0..(own[s] - 1)
  <2>1. own[s] \in Made
    BY <1>1, <1>2 DEF HopsTypeOK, Made, Reached
  <2> QED BY <2>1, <1>0, <1>2 DEF Reached
<1>4. Under[own[s]] = {own[s]} \cup Under[v] /\ own[s] \notin Under[v]
  <2>1. Under[v] \subseteq 1..v
    BY <1>2, <1>3 DEF Reached
  <2>2. own[s] \notin 1..v
    BY <1>3 DEF Made
  <2> QED BY <2>1, <2>2, <1>0, <1>2, <1>3 DEF Reached
<1>5. \A t \in Servers : own[t] \in 0..Len(conns) /\ hops[t] \in 0..Len(conns)
  BY DEF HopsTypeOK
<1>6. Under[v] \subseteq Made /\ Made \subseteq Ids
  <2>1. Len(conns) \in Nat /\ MaxConns \in Nat /\ Len(conns) <= MaxConns
    BY <1>2, RouteAssumption DEF Reached, HopsTypeOK
  <2> QED BY <2>1, <1>2, <1>3 DEF Reached, Made, Ids
<1>7. users \in [Ids -> Nat] /\ \A x \in Under[v] : users[x] >= 1 /\ x \in Ids
  <2>1. users \in [Ids -> Nat]
    BY DEF HopsTypeOK
  <2>2. ASSUME NEW x \in Under[v] PROVE users[x] # 0
    <3>1. s \in Through(x)
      BY <1>4, <2>2 DEF Through
    <3> QED BY <3>1, <1>2, <1>6 DEF UsedIs
  <2> QED BY <2>1, <2>2, <1>6
<1>8. PICK idle :
        /\ idle \subseteq Under[v] /\ users' \in [Ids -> Nat]
        /\ \A x \in Ids : users'[x] = IF x \in Under[v] THEN users[x] - 1 ELSE users[x]
        /\ \A x \in Under[v] : x \in idle <=> users'[x] = 0 /\ \A t \in Servers : own[t] # x
        /\ routes' = [x \in Ids |-> IF x \in idle THEN << >>
                                    ELSE [routes EXCEPT ![own[s]] = << >>][x]]
        /\ hops' = [t \in Servers |-> IF hops[t] \in idle THEN 0 ELSE hops[t]]
        /\ closing' = closing \cup idle
  <2>1. Under[v] \subseteq Ids
    BY <1>6
  <2>2. PICK idle : Lets(idle, v, users, [routes EXCEPT ![own[s]] = << >>], hops, own)
    <3> HIDE DEF HopsIInv
    <3> QED BY <1>1, <1>7, <2>1, ReleasedDoes
  <2> QED BY <2>2 DEF Lets
<1>9. own'[s] = 0 /\ \A t \in Servers : t # s => own'[t] = own[t]
  BY <1>1 DEF HopsTypeOK
<1>10. \A t \in Servers : hops'[t] = IF hops[t] \in idle THEN 0 ELSE hops[t]
  BY <1>8
<1>11. \A x \in Ids : routes'[x] = << >> \/ routes'[x] = routes[x]
  <2>1. routes \in [Ids -> Seq(HopRec)]
    BY DEF HopsTypeOK
  <2> QED BY <1>8, <2>1
<1>12. HopsTypeOK'
  <2>1. own' \in [Servers -> 0..Len(conns)]
    BY <1>1, <1>2 DEF HopsTypeOK, Reached
  <2>2. letgo' \subseteq Servers /\ dropped' \subseteq Servers
    BY <1>1 DEF HopsTypeOK
  <2>3. routes' \in [Ids -> Seq(HopRec)]
    <3>1. \A x \in Ids : routes'[x] \in Seq(HopRec)
      BY <1>11, EmptySeq DEF HopsTypeOK
    <3> QED BY <1>8, <3>1
  <2>4. hops' \in [Servers -> 0..Len(conns)]
    BY <1>8, <1>2, <1>5 DEF Reached
  <2>5. closing' \subseteq Made
    BY <1>6, <1>8 DEF HopsTypeOK
  <2> QED BY <1>1, <1>8, <2>1, <2>2, <2>3, <2>4, <2>5 DEF HopsTypeOK, Made
<1>13. /\ Reached' /\ Made' = Made
       /\ \A c \in 0..Len(conns) : Under'[c] = Under[c] /\ Way'[c] = Way[c]
       /\ \A t \in Servers : Fresh(t)' = Fresh(t) /\ Dialled(dial[t])' = Dialled(dial[t])
  BY <1>1, <1>12, SameChain
<1>14. \A t \in Servers : Held(t)' = Held(t)
  <2>1. \A t \in Servers : dial[t] # NoDial => dial[t].start \in 0..Len(conns)
    BY DEF DialsOK, Dials
  <2> QED BY <2>1, <1>1, <1>13 DEF Held
<1>15. DialsOK'
  <2> SUFFICES ASSUME NEW t \in Servers, dial'[t] # NoDial
               PROVE  /\ own'[t] = 0 /\ Dials(dial[t])'
                      /\ IF dial'[t].at = "done" THEN AtItsEnd(dial[t])' ELSE OnTheWay(dial[t])'
    BY DEF DialsOK
  <2>1. /\ own[t] = 0 /\ Dials(dial[t])
        /\ IF dial[t].at = "done" THEN AtItsEnd(dial[t]) ELSE OnTheWay(dial[t])
    BY <1>1 DEF DialsOK
  <2>2. Len(conns) <= Len(conns') /\ dial'[t] = dial[t]
    BY <1>1, <1>2 DEF Reached
  <2>3. own'[t] = 0
    BY <2>1, <1>9
  <2> QED BY <1>1, <1>2, <1>13, <2>1, <2>2, <2>3, DialStays
<1>16. \A t \in Servers : Under'[own'[t]] \subseteq Under[own[t]] /\ Under'[hops'[t]] \subseteq Under[hops[t]]
  BY <1>2, <1>5, <1>9, <1>10, <1>13 DEF Reached
<1>17. Under[v] \subseteq Shared
  BY <1>4, SharedIs DEF SharedSays
<1>18. Shared' \subseteq Shared
  <2> SUFFICES ASSUME NEW c \in Shared' PROVE c \in Shared
    OBVIOUS
  <2>1. CASE c \in closing'
    BY <2>1, <1>8, <1>17, SharedIs DEF SharedSays
  <2>2. CASE c \notin closing'
    <3>1. PICK t \in Servers : c \in Under'[own'[t]] \/ c \in Under'[hops'[t]] \/ c \in Held(t)'
      BY <2>2, SharedIsNext DEF SharedSays
    <3>2. c \in Under[own[t]] \/ c \in Under[hops[t]] \/ c \in Held(t)
      BY <3>1, <1>14, <1>16
    <3> QED BY <3>2, SharedIs DEF SharedSays
  <2> QED BY <2>1, <2>2
<1>19. MadeIsOwn'
  BY <1>13, <1>18 DEF MadeIsOwn
<1>20. CountsAreTrue'
  <2>1. \A c \in Made, t \in Servers : t # s => (t \in Through(c)' <=> t \in Through(c))
    BY <1>5, <1>9, <1>13 DEF Through
  <2>2. \A c \in Made, t \in Servers : t \in Holding(c)' <=> t \in Holding(c)
    <3>1. \A c \in Made, t \in Servers : /\ t \in Holding(c) <=> c \in Held(t)
                                         /\ t \in Holding(c)' <=> c \in Held(t)'
      BY DEF Holding, Held
    <3> QED BY <3>1, <1>14
  <2> SUFFICES ASSUME NEW c \in Made
               PROVE  users'[c] = Cardinality(Through(c)') + Cardinality(Holding(c)')
    BY <1>13 DEF CountsAreTrue, Made
  <2>3. /\ Through(c) \subseteq Servers /\ Holding(c) \subseteq Servers
        /\ Through(c)' \subseteq Servers /\ Holding(c)' \subseteq Servers
    BY DEF Through, Holding
  <2>4. Holding(c)' = Holding(c)
    BY <2>2, <2>3
  <2>5. Through(c)' = Through(c) \ {s}
    <3>1. s \notin Through(c)'
      <4>1. Under'[own'[s]] = {}
        BY <1>9, <1>13 DEF Reached
      <4> QED BY <4>1 DEF Through
    <3>2. \A t \in Servers : t \in Through(c)' <=> t \in Through(c) /\ t # s
      BY <2>1, <3>1
    <3> QED BY <3>2, <2>3
  <2>6. s \in Through(c) <=> c \in Under[v]
    BY <1>4 DEF Through
  <2>7. users[c] = Cardinality(Through(c)) + Cardinality(Holding(c)) /\ c \in Ids
    BY <1>6 DEF CountsAreTrue, Made
  <2>8. users'[c] = IF c \in Under[v] THEN users[c] - 1 ELSE users[c]
    BY <1>8, <2>7
  <2>9. /\ Cardinality(Through(c)) \in Nat /\ Cardinality(Holding(c)) \in Nat
        /\ s \in Through(c) => Cardinality(Through(c) \ {s}) = Cardinality(Through(c)) - 1
        /\ s \notin Through(c) => Through(c) \ {s} = Through(c)
    BY <2>3, OneLess
  <2>10. CASE c \in Under[v]
    BY <2>4, <2>5, <2>6, <2>7, <2>8, <2>9, <2>10
  <2>11. CASE c \notin Under[v]
    BY <2>4, <2>5, <2>6, <2>7, <2>8, <2>9, <2>11
  <2> QED BY <2>10, <2>11
<1>21. UsedIs'
  BY <1>12, <1>15, <1>20, CountsTellUseNext
<1>22. ASSUME NEW c \in Made, c # own[s], c \notin idle
       PROVE  c \in InUse => c \in InUse'
  <2> SUFFICES ASSUME c \in InUse PROVE c \in InUse'
    OBVIOUS
  <2>1. CASE \E t \in Servers : own[t] = c
    BY <2>1, <1>9, <1>13, <1>21, <1>22 DEF UsedIs
  <2>2. CASE \E t \in Servers : c \in Fresh(t)
    BY <2>2, <1>13, <1>21 DEF UsedIs
  <2>3. CASE users[c] # 0 /\ ~ \E t \in Servers : own[t] = c
    <3>1. users'[c] # 0
      BY <2>3, <1>6, <1>8, <1>22
    <3> QED BY <3>1, <1>13, <1>21 DEF UsedIs
  <2> QED BY <2>1, <2>2, <2>3, <1>2 DEF UsedIs
<1>23. ASSUME NEW c \in Made, c \in InUse' PROVE c \in InUse /\ c \notin idle
  <2>1. CASE \E t \in Servers : own'[t] = c
    <3>1. \E t \in Servers : own[t] = c
      BY <2>1, <1>9, <1>23 DEF Made
    <3>2. c \notin idle
      BY <3>1, <1>8
    <3> QED BY <3>1, <3>2, <1>2 DEF UsedIs
  <2>2. CASE \E t \in Servers : c \in Fresh(t)'
    <3>1. PICK t \in Servers : c \in Fresh(t)
      BY <2>2, <1>13
    <3>2. c \notin Shared
      BY <3>1 DEF MadeIsOwn
    <3>3. c \notin idle
      BY <3>2, <1>8, <1>17
    <3> QED BY <3>1, <3>3, <1>2 DEF UsedIs
  <2>3. CASE users'[c] # 0
    <3>1. c \notin idle /\ users[c] # 0
      BY <2>3, <1>6, <1>7, <1>8
    <3> QED BY <3>1, <1>2 DEF UsedIs
  <2> QED BY <2>1, <2>2, <2>3, <1>13, <1>21, <1>23 DEF UsedIs
<1>24. ClosedOnceUnused'
  <2> SUFFICES ASSUME NEW c \in Made, Up(c)' PROVE c \in closing' <=> c \notin InUse'
    BY <1>13 DEF ClosedOnceUnused, Made
  <2>1. Up(c) /\ c # own[s]
    BY <1>1 DEF Up
  <2>2. c \in closing <=> c \notin InUse
    BY <2>1 DEF ClosedOnceUnused, Made
  <2> QED BY <2>1, <2>2, <1>8, <1>22, <1>23
<1>25. KeptIsUsed'
  <2> SUFFICES ASSUME NEW t \in Servers, Up(hops[t])' PROVE hops'[t] \in InUse'
    BY DEF KeptIsUsed
  <2>1. hops'[t] = hops[t] /\ hops[t] \notin idle /\ hops[t] # 0 /\ hops[t] \in Made
    BY <1>2, <1>5, <1>10 DEF Up, Reached, Made
  <2>2. hops[t] \in InUse /\ hops[t] # own[s]
    BY <2>1, <1>1 DEF KeptIsUsed, Up
  <2> QED BY <2>1, <2>2, <1>22
<1>26. RoutesAreTrue' /\ NoneYetUsed' /\ ReachedAsSaved'
  <2>1. \A c \in Made : Way'[c] = Way[c]
    BY <1>13 DEF Made
  <2>2. RoutesAreTrue'
    BY <2>1, <1>11, <1>13 DEF RoutesAreTrue
  <2>3. NoneYetUsed'
    BY <1>6, <1>8, <1>13 DEF NoneYetUsed
  <2>4. ReachedAsSaved'
    BY <1>1, <1>5, <1>9, <1>13 DEF ReachedAsSaved
  <2> QED BY <2>2, <2>3, <2>4
<1> QED BY <1>12, <1>15, <1>19, <1>20, <1>24, <1>25, <1>26

(* A dial that is done. *)
LEMMA DialDoneKeepsInv ==
  ASSUME HopsIInv, NEW s \in Servers, DialDone(s)
  PROVE  HopsIInv'
<1> USE DEF HopsIInv
<1> DEFINE d == dial[s]
           users0 == [c \in Ids |-> IF c \in Under[conns[d.conn].via] THEN users[c] + 1 ELSE users[c]]
<1>1. /\ d.at = "done" /\ own' = [own EXCEPT ![s] = d.conn]
      /\ wanted' = [wanted EXCEPT ![d.conn] = d.hops]
      /\ Released(d.start, users0, RoutesKept(d), HopsKept(d), own')
      /\ dropped' \subseteq dropped /\ dial' = [dial EXCEPT ![s] = NoDial]
      /\ UNCHANGED <<saved, conns, shut, letgo, deeds>>
  BY DEF DialDone
<1>2. d \in DialRec /\ d # NoDial
  <2>1. NoDial.at = "none"
    BY DEF NoDial
  <2> QED BY <1>1, <2>1 DEF HopsTypeOK
<1>3. Reached /\ UsedIs
  BY TypeChained, ReachedIs, CountsTellUse
<1>4. own[s] = 0 /\ Dials(d) /\ AtItsEnd(d)
  BY <1>1, <1>2 DEF DialsOK
<1>5. /\ d.start \in 0..Len(conns) /\ d.conn \in Made /\ d.conn \in 0..Len(conns)
      /\ Under[d.start] \subseteq Under[d.conn] /\ d.hops \in Seq(HopRec) /\ d.made \in Seq(Nat)
  BY <1>2, <1>3, <1>4 DEF Dials, AtItsEnd, DialRec, Reached, Made
<1>6. PICK v : v = conns[d.conn].via
  OBVIOUS
<1>7. /\ Under[d.conn] = {d.conn} \cup Under[v] /\ d.conn \notin Under[v] /\ Under[d.conn] \subseteq Made
  <2>1. v \in 0..(d.conn - 1) /\ v \in 0..Len(conns) /\ Under[d.conn] = {d.conn} \cup Under[v]
    BY <1>3, <1>5, <1>6 DEF Reached
  <2>2. Under[v] \subseteq 1..v /\ Under[d.conn] \subseteq Made
    BY <2>1, <1>3, <1>5 DEF Reached
  <2>3. d.conn \notin 1..v
    BY <2>1, <1>5 DEF Made
  <2> QED BY <2>1, <2>2, <2>3
<1>8. \A t \in Servers : own[t] \in 0..Len(conns) /\ hops[t] \in 0..Len(conns)
  BY DEF HopsTypeOK
<1>9. Made \subseteq Ids
  <2>1. Len(conns) \in Nat /\ MaxConns \in Nat /\ Len(conns) <= MaxConns
    BY <1>3, RouteAssumption DEF Reached, HopsTypeOK
  <2> QED BY <2>1 DEF Made, Ids
<1>10. users \in [Ids -> Nat] /\ \A x \in Under[d.start] : users[x] >= 1 /\ x \in Ids
  <2>1. users \in [Ids -> Nat]
    BY DEF HopsTypeOK
  <2>2. ASSUME NEW x \in Under[d.start] PROVE users[x] # 0 /\ x \in Ids
    <3>1. s \in Holding(x)
      BY <1>2, <2>2 DEF Holding
    <3>2. x \in Made
      BY <1>5, <1>7, <2>2
    <3> QED BY <3>1, <3>2, <1>3, <1>9 DEF UsedIs
  <2> QED BY <2>1, <2>2
<1>11. /\ users0 \in [Ids -> Nat]
       /\ \A x \in Ids : users0[x] = IF x \in Under[v] THEN users[x] + 1 ELSE users[x]
  BY <1>6, <1>10
<1>12. \A x \in Under[d.start] : users0[x] >= 1
  BY <1>10, <1>11
<1> HIDE DEF users0
<1>13. own'[s] = d.conn /\ \A t \in Servers : t # s => own'[t] = own[t]
  BY <1>1 DEF HopsTypeOK
<1>14. /\ users' \in [Ids -> Nat]
       /\ \A x \in Ids : users'[x] = IF x \in Under[d.start] THEN users0[x] - 1 ELSE users0[x]
       /\ routes' = [x \in Ids |-> RoutesKept(d)[x]]
       /\ hops' = [t \in Servers |-> HopsKept(d)[t]]
       /\ closing' = closing
  <2>1. Under[d.start] \subseteq Ids
    BY <1>10
  <2>2. PICK idle : Lets(idle, d.start, users0, RoutesKept(d), HopsKept(d), own')
    <3> HIDE DEF HopsIInv, d
    <3> QED BY <1>1, <1>11, <1>12, <2>1, ReleasedDoes
  <2>3. idle = {}
    <3> SUFFICES ASSUME NEW x \in idle PROVE FALSE
      OBVIOUS
    <3>1. x \in Under[d.start] /\ users'[x] = 0 /\ \A t \in Servers : own'[t] # x
      BY <2>2 DEF Lets
    <3>2. x # d.conn /\ x \in Under[v] /\ x \in Ids
      BY <3>1, <1>5, <1>7, <1>10, <1>13
    <3>3. users'[x] = users0[x] - 1 /\ users0[x] = users[x] + 1
      BY <3>1, <3>2, <2>2, <1>11 DEF Lets
    <3> QED BY <3>1, <3>2, <3>3, <1>10
  <2> QED BY <2>2, <2>3 DEF Lets
<1>15. \A x \in Ids : users'[x] = users[x] + (IF x \in Under[v] THEN 1 ELSE 0)
                                  - (IF x \in Under[d.start] THEN 1 ELSE 0)
  BY <1>10, <1>11, <1>14
<1>16. \A n \in DOMAIN d.made : /\ d.made[n] \in Under[d.conn] /\ d.made[n] \in Made
                                /\ RouteOf(Way[d.made[n]]) = RouteOf(SubSeq(d.hops, 1, FirstMade(d) + n))
  BY <1>4, <1>7 DEF Dials, AtItsEnd
<1>17. ASSUME NEW x \in Ids
       PROVE  \/ routes'[x] = routes[x]
              \/ x \in Made /\ routes'[x] = RouteOf(Way[x]) /\ routes'[x] \in Seq(HopRec)
  <2>1. routes'[x] = IF x = d.conn THEN RouteOf(d.hops)
                     ELSE IF \E n \in DOMAIN d.made : d.made[n] = x
                     THEN RouteOf(SubSeq(d.hops, 1, FirstMade(d) + CHOOSE n \in DOMAIN d.made : d.made[n] = x))
                     ELSE routes[x]
    BY <1>14, Zenon DEF RoutesKept
  <2>2. \A c \in Made : Way[c] \in Seq(HopRec) /\ RouteOf(Way[c]) \in Seq(HopRec)
    <3>1. \A c \in Made : Way[c] \in Seq(HopRec)
      BY <1>3 DEF Reached, Made
    <3> QED BY <3>1, RouteTypes
  <2>3. CASE x = d.conn
    BY <2>1, <2>2, <2>3, <1>4, <1>5 DEF AtItsEnd
  <2>4. CASE x # d.conn /\ \E n \in DOMAIN d.made : d.made[n] = x
    <3> DEFINE n == CHOOSE n \in DOMAIN d.made : d.made[n] = x
    <3>1. n \in DOMAIN d.made /\ d.made[n] = x
      BY <2>4
    <3>2. routes'[x] = RouteOf(SubSeq(d.hops, 1, FirstMade(d) + n))
      BY <2>1, <2>4
    <3> HIDE DEF n
    <3> QED BY <3>1, <3>2, <2>2, <1>16
  <2>5. CASE x # d.conn /\ ~ \E n \in DOMAIN d.made : d.made[n] = x
    BY <2>1, <2>5
  <2> QED BY <2>3, <2>4, <2>5
<1>18. ASSUME NEW t \in Servers
       PROVE  hops'[t] = hops[t] \/ hops'[t] \in Under[d.conn]
  <2>1. CASE \E n \in DOMAIN d.made : d.hops[FirstMade(d) + n].to = t
    <3> DEFINE n == CHOOSE n \in DOMAIN d.made : d.hops[FirstMade(d) + n].to = t
               c == d.made[n]
    <3>1. n \in DOMAIN d.made
      BY <2>1
    <3>2. hops'[t] = IF Up(hops[t]) /\ RoutesKept(d)[hops[t]] = RoutesKept(d)[c] THEN hops[t] ELSE c
      BY <1>14, <2>1, Zenon DEF HopsKept
    <3> HIDE DEF n
    <3> QED BY <3>1, <3>2, <1>16
  <2>2. CASE ~ \E n \in DOMAIN d.made : d.hops[FirstMade(d) + n].to = t
    <3>1. hops'[t] = hops[t]
      BY <1>14, <2>2, Zenon DEF HopsKept
    <3> QED BY <3>1
  <2> QED BY <2>1, <2>2
<1>19. dial'[s] = NoDial /\ \A t \in Servers : t # s => dial'[t] = dial[t]
  BY <1>1 DEF HopsTypeOK
<1>20. HopsTypeOK'
  <2>1. own' \in [Servers -> 0..Len(conns)]
    BY <1>1, <1>5 DEF HopsTypeOK
  <2>2. dial' \in [Servers -> {NoDial} \cup DialRec]
    BY <1>1, <1>19 DEF HopsTypeOK
  <2>3. routes' \in [Ids -> Seq(HopRec)]
    <3>1. \A x \in Ids : routes'[x] \in Seq(HopRec)
      BY <1>17 DEF HopsTypeOK
    <3> QED BY <1>14, <3>1
  <2>4. hops' \in [Servers -> 0..Len(conns)]
    <3>1. \A t \in Servers : hops'[t] \in 0..Len(conns)
      <4>1. Made \subseteq 0..Len(conns)
        BY <1>3 DEF Made, Reached
      <4> QED BY <4>1, <1>7, <1>8, <1>18
    <3> QED BY <1>14, <3>1
  <2>5. wanted' \in [Ids -> Seq(HopRec)]
    BY <1>1, <1>5 DEF HopsTypeOK
  <2>6. dropped' \subseteq Servers
    BY <1>1 DEF HopsTypeOK
  <2> QED BY <1>1, <1>14, <2>1, <2>2, <2>3, <2>4, <2>5, <2>6 DEF HopsTypeOK, Made
<1>21. /\ Reached' /\ Made' = Made
       /\ \A c \in 0..Len(conns) : Under'[c] = Under[c] /\ Way'[c] = Way[c]
       /\ \A t \in Servers : dial'[t] = dial[t] =>
            Fresh(t)' = Fresh(t) /\ Dialled(dial[t])' = Dialled(dial[t])
  BY <1>1, <1>20, SameChain
<1>22. /\ Fresh(s)' = {} /\ Held(s)' = {} /\ Dialled(dial[s])' = {}
       /\ Held(s) = Under[d.start] /\ Fresh(s) = Under[d.conn] \ Under[d.start]
       /\ Dialled(dial[s]) = Under[d.conn]
       /\ \A t \in Servers : t # s => /\ Fresh(t)' = Fresh(t) /\ Held(t)' = Held(t)
                                      /\ Dialled(dial[t])' = Dialled(dial[t])
  <2>1. \A t \in Servers : dial[t] # NoDial => dial[t].start \in 0..Len(conns)
    BY DEF DialsOK, Dials
  <2>2. /\ Fresh(s)' = {} /\ Held(s)' = {} /\ Dialled(dial[s])' = {}
    BY <1>19 DEF Fresh, Held, Dialled
  <2>3. /\ Held(s) = Under[d.start] /\ Fresh(s) = Under[d.conn] \ Under[d.start]
        /\ Dialled(dial[s]) = Under[d.conn]
    BY <1>2, <1>5 DEF Fresh, Held, Dialled
  <2>4. \A t \in Servers : t # s => Held(t)' = Held(t)
    BY <2>1, <1>19, <1>21 DEF Held
  <2> QED BY <2>2, <2>3, <2>4, <1>19, <1>21
<1>23. DialsOK'
  <2> SUFFICES ASSUME NEW t \in Servers, dial'[t] # NoDial
               PROVE  /\ own'[t] = 0 /\ Dials(dial[t])'
                      /\ IF dial'[t].at = "done" THEN AtItsEnd(dial[t])' ELSE OnTheWay(dial[t])'
    BY DEF DialsOK
  <2>1. t # s /\ dial'[t] = dial[t] /\ own'[t] = own[t]
    BY <1>13, <1>19
  <2>2. /\ own[t] = 0 /\ Dials(dial[t])
        /\ IF dial[t].at = "done" THEN AtItsEnd(dial[t]) ELSE OnTheWay(dial[t])
    BY <2>1 DEF DialsOK
  <2>3. Len(conns) <= Len(conns')
    BY <1>1, <1>3 DEF Reached
  <2> QED BY <1>1, <1>3, <1>21, <2>1, <2>2, <2>3, DialStays
<1>24. /\ Under'[own'[s]] = Under[d.conn] /\ Under[own[s]] = {}
       /\ \A t \in Servers : t # s => Under'[own'[t]] = Under[own[t]]
  BY <1>3, <1>4, <1>5, <1>8, <1>13, <1>21 DEF Reached
<1>25. \A t \in Servers : Under'[hops'[t]] \subseteq Under[hops[t]] \cup Under[d.conn]
  <2> TAKE t \in Servers
  <2>1. CASE hops'[t] = hops[t]
    BY <2>1, <1>8, <1>21
  <2>2. CASE hops'[t] \in Under[d.conn]
    <3>1. hops'[t] \in 0..Len(conns) /\ Under[hops'[t]] \subseteq Under[d.conn]
      BY <2>2, <1>3, <1>5, <1>7 DEF Reached, Made
    <3> QED BY <3>1, <1>21
  <2> QED BY <2>1, <2>2, <1>18
<1>26. \A c \in Shared' : c \in Shared \/ c \in Fresh(s)
  <2> TAKE c \in Shared'
  <2>1. CASE c \in closing'
    BY <2>1, <1>14, SharedIs DEF SharedSays
  <2>2. CASE c \in Under[d.conn]
    BY <2>2, <1>22, SharedIs DEF SharedSays
  <2>3. CASE c \notin closing' /\ c \notin Under[d.conn]
    <3>1. PICK t \in Servers : c \in Under'[own'[t]] \/ c \in Under'[hops'[t]] \/ c \in Held(t)'
      BY <2>3, SharedIsNext DEF SharedSays
    <3>2. c \in Under[own[t]] \/ c \in Under[hops[t]] \/ c \in Held(t)
      BY <2>3, <3>1, <1>22, <1>24, <1>25
    <3> QED BY <3>2, SharedIs DEF SharedSays
  <2> QED BY <2>1, <2>2, <2>3
<1>27. MadeIsOwn'
  <2>1. ASSUME NEW t \in Servers PROVE Fresh(t)' \cap Shared' = {}
    <3>1. CASE t = s
      BY <3>1, <1>22
    <3>2. CASE t # s
      BY <3>2, <1>22, <1>26 DEF MadeIsOwn
    <3> QED BY <3>1, <3>2
  <2>2. \A t \in Servers : Fresh(t)' \subseteq Fresh(t)
    BY <1>22
  <2> QED BY <2>1, <2>2 DEF MadeIsOwn
<1>28. InUse' = InUse
  <2>1. ASSUME NEW c PROVE c \in InUse' <=> c \in InUse
    <3>1. ASSUME NEW t \in Servers, t # s
          PROVE  (c \in Under'[own'[t]] \/ c \in Dialled(dial[t])')
                   <=> (c \in Under[own[t]] \/ c \in Dialled(dial[t]))
      BY <3>1, <1>22, <1>24
    <3>2. (c \in Under'[own'[s]] \/ c \in Dialled(dial[s])') <=> (c \in Under[own[s]] \/ c \in Dialled(dial[s]))
      BY <1>22, <1>24
    <3>3. \A t \in Servers : (c \in Under'[own'[t]] \/ c \in Dialled(dial[t])')
                               <=> (c \in Under[own[t]] \/ c \in Dialled(dial[t]))
      BY <3>1, <3>2
    <3> QED BY <3>3, UseIs, UseIsNext DEF UseSays
  <2> QED BY <2>1
<1>29. ClosedOnceUnused'
  BY <1>1, <1>14, <1>28 DEF ClosedOnceUnused, Up
<1>30. KeptIsUsed'
  <2> SUFFICES ASSUME NEW t \in Servers, Up(hops[t])' PROVE hops'[t] \in InUse
    BY <1>28 DEF KeptIsUsed
  <2>1. CASE hops'[t] = hops[t]
    BY <2>1, <1>1 DEF KeptIsUsed, Up
  <2>2. CASE hops'[t] \in Under[d.conn]
    BY <2>2, <1>22, UseIs DEF UseSays
  <2> QED BY <2>1, <2>2, <1>18
<1>31. CountsAreTrue'
  <2>1. \A c \in Made, t \in Servers : t # s => (t \in Through(c)' <=> t \in Through(c))
    BY <1>13, <1>24 DEF Through
  <2>2. \A c \in Made, t \in Servers : /\ t \in Holding(c) <=> c \in Held(t)
                                       /\ t \in Holding(c)' <=> c \in Held(t)'
    BY DEF Holding, Held
  <2> SUFFICES ASSUME NEW c \in Made
               PROVE  users'[c] = Cardinality(Through(c)') + Cardinality(Holding(c)')
    BY <1>21 DEF CountsAreTrue, Made
  <2>3. /\ Through(c) \subseteq Servers /\ Holding(c) \subseteq Servers
        /\ Through(c)' \subseteq Servers /\ Holding(c)' \subseteq Servers
    BY DEF Through, Holding
  <2>4. Holding(c)' = Holding(c) \ {s}
    <3>1. \A t \in Servers : t \in Holding(c)' <=> t \in Holding(c) /\ t # s
      BY <2>2, <1>22
    <3> QED BY <3>1, <2>3
  <2>5. s \in Holding(c) <=> c \in Under[d.start]
    BY <2>2, <1>22
  <2>6. s \notin Through(c)
    BY <1>24 DEF Through
  <2>7. Through(c)' = IF c \in Under[v] THEN Through(c) \cup {s} ELSE Through(c)
    <3>1. s \in Through(c)' <=> c \in Under[v]
      <4>1. s \in Through(c)' <=> c \in Under'[own'[s]] \ {own'[s]}
        BY DEF Through
      <4> QED BY <4>1, <1>7, <1>13, <1>24
    <3> QED BY <3>1, <2>1, <2>3, <2>6
  <2>8. users[c] = Cardinality(Through(c)) + Cardinality(Holding(c)) /\ c \in Ids
    BY <1>9 DEF CountsAreTrue, Made
  <2>9. users'[c] = users[c] + (IF c \in Under[v] THEN 1 ELSE 0) - (IF c \in Under[d.start] THEN 1 ELSE 0)
    BY <1>15, <2>8
  <2>10. /\ Cardinality(Through(c)) \in Nat /\ Cardinality(Through(c) \cup {s}) = Cardinality(Through(c)) + 1
    BY <2>3, <2>6, OneLess
  <2>11. /\ Cardinality(Holding(c)) \in Nat
         /\ s \in Holding(c) => Cardinality(Holding(c) \ {s}) = Cardinality(Holding(c)) - 1
         /\ s \notin Holding(c) => Holding(c) \ {s} = Holding(c)
    BY <2>3, OneLess
  <2>12. Cardinality(Through(c)') = Cardinality(Through(c)) + (IF c \in Under[v] THEN 1 ELSE 0)
    BY <2>7, <2>10
  <2>13. Cardinality(Holding(c)') = Cardinality(Holding(c)) - (IF c \in Under[d.start] THEN 1 ELSE 0)
    <3>1. CASE c \in Under[d.start]
      BY <2>4, <2>5, <2>11, <3>1
    <3>2. CASE c \notin Under[d.start]
      BY <2>4, <2>5, <2>11, <3>2
    <3> QED BY <3>1, <3>2
  <2> QED BY <2>8, <2>9, <2>10, <2>11, <2>12, <2>13
<1>32. RoutesAreTrue'
  <2>1. \A c \in Made : Way'[c] = Way[c]
    BY <1>21 DEF Made
  <2> QED BY <2>1, <1>17, <1>21 DEF RoutesAreTrue
<1>33. NoneYetUsed'
  <2>1. \A c \in Ids : c \notin Made => c \notin Under[v] /\ c \notin Under[d.start] /\ users[c] = 0
    BY <1>5, <1>7 DEF NoneYetUsed
  <2> QED BY <2>1, <1>15, <1>21 DEF NoneYetUsed
<1>34. ReachedAsSaved'
  <2> SUFFICES ASSUME NEW t \in Servers, own'[t] # 0
               PROVE  RouteOf(Way'[own'[t]]) = RouteOf(wanted'[own'[t]])
    BY DEF ReachedAsSaved
  <2>1. own'[t] \in Ids /\ own'[t] \in 0..Len(conns)
    BY <1>20, <1>1, <1>3, <1>9 DEF HopsTypeOK, Made, Reached
  <2>2. wanted'[own'[t]] = IF own'[t] = d.conn THEN d.hops ELSE wanted[own'[t]]
    BY <2>1, <1>1 DEF HopsTypeOK
  <2>3. CASE own'[t] = d.conn
    BY <2>2, <2>3, <1>4, <1>5, <1>21 DEF AtItsEnd
  <2>4. CASE own'[t] # d.conn
    <3>1. own'[t] = own[t] /\ own[t] # 0
      BY <2>4, <1>13
    <3> QED BY <2>1, <2>2, <2>4, <3>1, <1>21 DEF ReachedAsSaved
  <2> QED BY <2>3, <2>4
<1> QED BY <1>20, <1>23, <1>27, <1>29, <1>30, <1>31, <1>32, <1>33, <1>34

(* Every step keeps the invariant of the connections. *)
LEMMA HopsNextInv == HopsIInv /\ [HopsNext]_hopVars => HopsIInv'
<1> SUFFICES ASSUME HopsIInv, [HopsNext]_hopVars PROVE HopsIInv'
  OBVIOUS
<1>1. ASSUME NEW s \in Servers, Connect(s) PROVE HopsIInv'
  BY <1>1, ConnectKeepsInv
<1>2. ASSUME NEW s \in Servers, DialStep(s) PROVE HopsIInv'
  BY <1>2, DialStepKeepsInv
<1>3. ASSUME NEW s \in Servers, DialFailed(s) PROVE HopsIInv'
  BY <1>3, DialFailedKeepsInv
<1>4. ASSUME NEW s \in Servers, DialDone(s) PROVE HopsIInv'
  BY <1>4, DialDoneKeepsInv
<1>5. ASSUME NEW s \in Servers, Disconnect(s) PROVE HopsIInv'
  BY <1>5, DisconnectKeepsInv
<1>6. ASSUME NEW s \in Servers, WaitReturns(s) PROVE HopsIInv'
  BY <1>6, WaitReturnsKeepsInv
<1>7. ASSUME NEW s \in Servers, Saves(s) PROVE HopsIInv'
  BY <1>7, SavesKeepsInv
<1>8. ASSUME NEW c \in Ids, Closes(c) PROVE HopsIInv'
  BY <1>8, ClosesKeepsInv
<1>9. ASSUME NEW c \in Ids, Drops(c) PROVE HopsIInv'
  BY <1>9, DropsKeepsInv
<1>10. CASE UNCHANGED hopVars
  <2> USE <1>10 DEF hopVars, held, HopsIInv
  <2>1. HopsTypeOK'
    BY DEF HopsTypeOK, Made
  <2> QED BY <2>1, ClosingKeepsInv
<1> QED
  BY <1>1, <1>2, <1>3, <1>4, <1>5, <1>6, <1>7, <1>8, <1>9, <1>10 DEF HopsNext

(* The invariant of the connections holds in every reachable state. *)
THEOREM HopsInvariance == HopsSpec => []HopsIInv
  BY HopsInitInv, HopsNextInv, PTL DEF HopsSpec

(* Every variable of the connections holds what it is for, and a connection is
   made through one made before it (machines/hops.go, app/connect.go). *)
THEOREM HopsTypeCorrect == HopsSpec => []HopsTypeOK
  BY HopsInvariance, PTL DEF HopsIInv

(* Hold and Release count right: a connection's count is that of the servers
   connected through it and the dials that start from it or above it, however
   these are connected, dropped, dialled and given up. *)
THEOREM HopsAreCounted == HopsSpec => []CountsAreTrue
  BY HopsInvariance, PTL DEF HopsIInv

(* A connection that is up is being closed exactly when nothing goes through it
   and no server the user connected to has it (Release). *)
THEOREM HopsCloseUnused == HopsSpec => []ClosedOnceUnused
  BY HopsInvariance, PTL DEF HopsIInv

(* A server is reached by the logins it was saved with when it was asked for,
   whatever hops it shares (HopConnected, DialFrom, KeepHops). *)
THEOREM HopsReachAsSaved == HopsSpec => []ReachedAsSaved
  BY HopsInvariance, PTL DEF HopsIInv
===========================================================================
