--------------------------- MODULE FileJobProofs ---------------------------
(* What holds of FileJob for every tree, any number of writes to a file and of
   calls that fail: that work which ends leaves nothing behind without saying so,
   and what the user had stays, however many work at once; and that work by
   itself never leaves half a file, and a move by itself loses nothing.       *)
EXTENDS FileJob, TLAPS, FiniteSetTheorems, SequenceTheorems, WellFoundedInduction

Fields == {"pc", "kind", "renames", "plan", "todo", "to", "n", "ino", "off", "moved", "left",
           "made", "choice", "agreed", "skipped", "before", "files", "done", "err", "trouble",
           "canceled"}

Stages == {"plan", "look", "ask", "make", "write", "tidy", "narrow", "remove", "end"}
Errors == {"", "canceled", "stopped", "failed", "skipped"}

(* The record of a piece of work is whole, so that a change of one field leaves
   the others alone. *)
WorkType(u) ==
  /\ DOMAIN u = Fields
  /\ u.pc \in Stages /\ u.err \in Errors
  /\ u.off \in 0..Chunks /\ u.n \in Nat

(* What work knows of what it has made: a directory half way is only there in the
   middle of a copy. *)
WorkSays(u) ==
  /\ u.renames => u.made = {}
  /\ u.pc \in {"plan", "remove", "end"} => u.made = {} \/ u.trouble

Works == job = [j \in Jobs |-> job[j]] /\ src = [j \in Jobs |-> src[j]]
         /\ \A j \in Jobs : WorkType(job[j]) /\ WorkSays(job[j]) /\ src[j] \subseteq Things
Typed == Works /\ faults \in 0..Faults

(* A part that is there is of work that is at it, or that said it is left. *)
PartsKnown ==
  \A q \in DOMAIN parts, j \in Jobs :
    parts[q].of = j => job[j].trouble \/ (job[j].pc \in {"write", "tidy"} /\ q = Part(job[j]))

LEMMA InitTyped == Init => Typed /\ PartsKnown
<1> SUFFICES ASSUME Init PROVE Typed /\ PartsKnown
  OBVIOUS
<1>1. PICK kinds \in [Jobs -> Kinds], renames \in [Jobs -> BOOLEAN] :
        job = [j \in Jobs |-> New(kinds[j], renames[j])]
  BY Zenon DEF Init
<1>2. ASSUME NEW kind, NEW r PROVE WorkType(New(kind, r)) /\ WorkSays(New(kind, r))
  BY BoundsAssumption DEF WorkType, WorkSays, New, Fields, Stages, Errors
<1>3. \A j \in Jobs : WorkType(job[j]) /\ WorkSays(job[j])
  BY <1>1, <1>2, Zenon
<1>4. src = [j \in Jobs |-> Things] /\ parts = Empty /\ faults = 0
  BY Zenon DEF Init
<1> QED BY <1>1, <1>3, <1>4, BoundsAssumption DEF Typed, Works, PartsKnown, Empty

(* A change of one piece of work, its types and what it says. *)
LEMMA OneChanges ==
  ASSUME Works, NEW j \in Jobs, NEW u, Becomes(j, u), WorkType(u), WorkSays(u),
         src' = src \/ (\E gone : src' = [src EXCEPT ![j] = @ \ gone])
  PROVE  Works'
<1>1. /\ job' = [i \in Jobs |-> job'[i]] /\ \A i \in Jobs : job'[i] = IF i = j THEN u ELSE job[i]
  BY DEF Becomes, Works
<1>2. src' = [i \in Jobs |-> src'[i]] /\ \A i \in Jobs : src'[i] \subseteq Things
  BY DEF Works
<1> QED BY <1>1, <1>2 DEF Works

LEMMA WorkEnded ==
  ASSUME NEW u, WorkType(u), WorkSays(u), u.pc \notin {"plan", "remove", "end"}, NEW why \in Errors
  PROVE  WorkType(Ended(u, why)) /\ WorkSays(Ended(u, why))
BY DEF WorkType, WorkSays, Ended, Fields, Stages, Errors

LEMMA WorkGoesOn ==
  ASSUME NEW u, WorkType(u), WorkSays(u)
  PROVE  WorkType(OnToNext(u)) /\ WorkSays(OnToNext(u))
BY DEF WorkType, WorkSays, OnToNext, Fields, Stages, Errors

LEMMA NextFault == Typed /\ Fails => faults' \in 0..Faults
BY BoundsAssumption DEF Typed, Fails

(* One piece of work goes on, and the parts are as they were. *)
LEMMA OneGoesOn ==
  ASSUME Typed, PartsKnown, NEW j \in Jobs, NEW u, Becomes(j, u), WorkType(u), WorkSays(u),
         job[j].trouble => u.trouble,
         \/ job[j].pc \notin {"write", "tidy"} \/ u.trouble
         \/ u.pc \in {"write", "tidy"} /\ u.to = job[j].to /\ u.n = job[j].n,
         parts' = parts, faults' = faults \/ Fails,
         src' = src \/ (\E gone : src' = [src EXCEPT ![j] = @ \ gone])
  PROVE  Typed' /\ PartsKnown'
<1>1. \A i \in Jobs : job'[i] = IF i = j THEN u ELSE job[i]
  BY DEF Becomes, Typed, Works
<1>2. Works' /\ faults' \in 0..Faults
  BY OneChanges, NextFault DEF Typed
<1>3. PartsKnown'
  BY <1>1 DEF PartsKnown, Part
<1> QED BY <1>2, <1>3 DEF Typed

LEMMA Answered ==
  ASSUME Typed, PartsKnown, NEW j \in Jobs, Is(j, "ask"), NEW u, NEW what,
         WorkType(u), WorkSays(u), u.pc = "ask", u.trouble = job[j].trouble,
         Acts(j, u, what), UNCHANGED <<src, parts, faults>>
  PROVE  Typed' /\ PartsKnown'
<1>1. \A why \in Errors : WorkType(Ended(u, why)) /\ WorkSays(Ended(u, why))
                           /\ Ended(u, why).trouble = u.trouble
  BY WorkEnded DEF Ended, WorkType, Fields
<1>2. CASE what = "skip"
  <2> DEFINE alone == IF Hand(j) \in Dirs /\ ~u.renames THEN {Hand(j)} ELSE {}
             v == [Skipped(j, u) EXCEPT !.left = @ \cup alone]
  <2>1. Becomes(j, v)
    BY <1>2 DEF Acts
  <2>2. WorkType(v) /\ WorkSays(v) /\ v.trouble = u.trouble
    BY DEF WorkType, WorkSays, Skipped, OnToNext, Fields, Stages, Errors
  <2> HIDE DEF v
  <2> QED BY <2>1, <2>2, OneGoesOn DEF Is
<1>3. CASE Becomes(j, Ended(u, "stopped")) \/ Becomes(j, Ended(u, "failed"))
  BY <1>1, <1>3, OneGoesOn DEF Is, Errors
<1>4. CASE Becomes(j, [u EXCEPT !.pc = "make", !.to = Beside(@)])
  <2> DEFINE v == [u EXCEPT !.pc = "make", !.to = Beside(@)]
  <2>1. WorkType(v) /\ WorkSays(v) /\ v.trouble = u.trouble
    BY DEF WorkType, WorkSays, Fields, Stages, Errors
  <2> HIDE DEF v
  <2> QED BY <1>4, <2>1, OneGoesOn DEF Is, v
<1>5. CASE Becomes(j, [u EXCEPT !.pc = "make"])
  <2> DEFINE v == [u EXCEPT !.pc = "make"]
  <2>1. WorkType(v) /\ WorkSays(v) /\ v.trouble = u.trouble
    BY DEF WorkType, WorkSays, Fields, Stages, Errors
  <2> HIDE DEF v
  <2> QED BY <1>5, <2>1, OneGoesOn DEF Is, v
<1> QED BY <1>2, <1>3, <1>4, <1>5 DEF Acts

LEMMA WorkNext ==
  ASSUME Typed, PartsKnown, NEW j \in Jobs,
         \/ Cancel(j) \/ SkipsLeft(j) \/ CopyDone(j) \/ MakesDir(j) \/ MakesLink(j) \/ Writes(j)
         \/ MakeRefused(j) \/ Narrows(j) \/ RemoveDone(j)
  PROVE  Typed' /\ PartsKnown'
<1>0. WorkType(job[j]) /\ WorkSays(job[j])
  BY DEF Typed, Works
<1>1. CASE Cancel(j)
  <2> DEFINE u == [job[j] EXCEPT !.canceled = TRUE]
  <2>1. Becomes(j, u)
    BY <1>1, Zenon DEF Cancel
  <2>2. WorkType(u) /\ WorkSays(u) /\ (job[j].trouble => u.trouble)
    BY <1>1, <1>0 DEF Cancel, Is, WorkType, WorkSays, Fields, Stages, Errors
  <2>3. /\ parts' = parts /\ faults' = faults /\ src' = src
       /\ u.pc = job[j].pc /\ u.to = job[j].to /\ u.n = job[j].n
    BY <1>1, <1>0 DEF Cancel, Is, Looking, Landing, Fails, WorkType, Fields
  <2> HIDE DEF u
  <2> QED BY <2>1, <2>2, <2>3, OneGoesOn
<1>2. CASE SkipsLeft(j)
  <2> DEFINE u == Skipped(j, job[j])
  <2>1. Becomes(j, u)
    BY <1>2, Zenon DEF SkipsLeft
  <2>2. WorkType(u) /\ WorkSays(u) /\ (job[j].trouble => u.trouble)
    BY <1>2, <1>0 DEF SkipsLeft, Is, WorkType, WorkSays, Fields, Stages, Errors, Skipped, OnToNext, Looking
  <2>3. /\ parts' = parts /\ faults' = faults /\ src' = src
       /\ job[j].pc \notin {"write", "tidy"}
    BY <1>2, <1>0 DEF SkipsLeft, Is, Looking, Landing, Fails, WorkType, Fields
  <2> HIDE DEF u
  <2> QED BY <2>1, <2>2, <2>3, OneGoesOn
<1>3. CASE CopyDone(j)
  <2> DEFINE u == Ended(job[j], "")
  <2>1. Becomes(j, u)
    BY <1>3, Zenon DEF CopyDone
  <2>2. WorkType(u) /\ WorkSays(u) /\ (job[j].trouble => u.trouble)
    BY <1>3, <1>0 DEF CopyDone, Is, WorkType, WorkSays, Fields, Stages, Errors, Ended
  <2>3. /\ parts' = parts /\ faults' = faults /\ src' = src
       /\ job[j].pc \notin {"write", "tidy"}
    BY <1>3, <1>0 DEF CopyDone, Is, Looking, Landing, Fails, WorkType, Fields
  <2> HIDE DEF u
  <2> QED BY <2>1, <2>2, <2>3, OneGoesOn
<1>4. CASE MakesDir(j)
  <2> DEFINE u == [Wrote(j, job[j]) EXCEPT !.made = @ \cup {job[j].to}]
  <2>1. Becomes(j, u)
    BY <1>4, Zenon DEF MakesDir
  <2>2. WorkType(u) /\ WorkSays(u) /\ (job[j].trouble => u.trouble)
    BY <1>4, <1>0 DEF MakesDir, Is, WorkType, WorkSays, Fields, Stages, Errors, Wrote, OnToNext
  <2>3. /\ parts' = parts /\ faults' = faults /\ src' = src
       /\ job[j].pc \notin {"write", "tidy"}
    BY <1>4, <1>0 DEF MakesDir, Is, Looking, Landing, Fails, WorkType, Fields
  <2> HIDE DEF u
  <2> QED BY <2>1, <2>2, <2>3, OneGoesOn
<1>5. CASE MakesLink(j)
  <2> DEFINE u == [Wrote(j, job[j]) EXCEPT !.done = @ + 1]
  <2>1. Becomes(j, u)
    BY <1>5, Zenon DEF MakesLink
  <2>2. WorkType(u) /\ WorkSays(u) /\ (job[j].trouble => u.trouble)
    BY <1>5, <1>0 DEF MakesLink, Is, WorkType, WorkSays, Fields, Stages, Errors, Wrote, OnToNext
  <2>3. /\ parts' = parts /\ faults' = faults /\ src' = src
       /\ job[j].pc \notin {"write", "tidy"}
    BY <1>5, <1>0 DEF MakesLink, Is, Looking, Landing, Fails, WorkType, Fields
  <2> HIDE DEF u
  <2> QED BY <2>1, <2>2, <2>3, OneGoesOn
<1>6. CASE Writes(j)
  <2> DEFINE u == [job[j] EXCEPT !.off = @ + 1]
  <2>1. Becomes(j, u)
    BY <1>6, Zenon DEF Writes
  <2>2. WorkType(u) /\ WorkSays(u) /\ (job[j].trouble => u.trouble)
    <3>1. job[j].off + 1 \in 0..Chunks
      BY <1>6, <1>0, BoundsAssumption DEF Writes, WorkType
    <3> QED BY <1>0, <3>1 DEF WorkType, WorkSays, Fields, Stages, Errors
  <2>3. /\ parts' = parts /\ faults' = faults /\ src' = src
       /\ u.pc = "write" /\ u.to = job[j].to /\ u.n = job[j].n
    BY <1>6, <1>0 DEF Writes, Is, Looking, Landing, Fails, WorkType, Fields
  <2> HIDE DEF u
  <2> QED BY <2>1, <2>2, <2>3, OneGoesOn
<1>7. CASE MakeRefused(j)
  <2> DEFINE u == Ended(job[j], "failed")
  <2>1. Becomes(j, u)
    BY <1>7, Zenon DEF MakeRefused
  <2>2. WorkType(u) /\ WorkSays(u) /\ (job[j].trouble => u.trouble)
    BY <1>7, <1>0 DEF MakeRefused, Is, WorkType, WorkSays, Fields, Stages, Errors, Ended
  <2>3. /\ parts' = parts /\ faults' = faults /\ src' = src
       /\ job[j].pc \notin {"write", "tidy"}
    BY <1>7, <1>0 DEF MakeRefused, Is, Looking, Landing, Fails, WorkType, Fields
  <2> HIDE DEF u
  <2> QED BY <2>1, <2>2, <2>3, OneGoesOn
<1>8. CASE Narrows(j)
  <2> DEFINE u == AfterCopy(j, [job[j] EXCEPT !.made = {}])
  <2>1. Becomes(j, u)
    BY <1>8, Zenon DEF Narrows
  <2>2. WorkType(u) /\ WorkSays(u) /\ (job[j].trouble => u.trouble)
    BY <1>8, <1>0 DEF Narrows, Is, WorkType, WorkSays, Fields, Stages, Errors, AfterCopy
  <2>3. /\ parts' = parts /\ faults' = faults /\ src' = src
       /\ job[j].pc \notin {"write", "tidy"}
    BY <1>8, <1>0 DEF Narrows, Is, Looking, Landing, Fails, WorkType, Fields
  <2> HIDE DEF u
  <2> QED BY <2>1, <2>2, <2>3, OneGoesOn
<1>9. CASE RemoveDone(j)
  <2> DEFINE u == [job[j] EXCEPT !.pc = "end"]
  <2>1. Becomes(j, u)
    BY <1>9, Zenon DEF RemoveDone
  <2>2. WorkType(u) /\ WorkSays(u) /\ (job[j].trouble => u.trouble)
    BY <1>9, <1>0 DEF RemoveDone, Is, WorkType, WorkSays, Fields, Stages, Errors
  <2>3. /\ parts' = parts /\ faults' = faults /\ src' = src
       /\ job[j].pc \notin {"write", "tidy"}
    BY <1>9, <1>0 DEF RemoveDone, Is, Looking, Landing, Fails, WorkType, Fields
  <2> HIDE DEF u
  <2> QED BY <2>1, <2>2, <2>3, OneGoesOn
<1> QED BY <1>1, <1>2, <1>3, <1>4, <1>5, <1>6, <1>7, <1>8, <1>9

LEMMA Wrong == \A j \in Jobs : \A why : GoesWrong(j, why) => faults' = faults \/ Fails
BY DEF GoesWrong

LEMMA WorkFails ==
  ASSUME Typed, PartsKnown, NEW j \in Jobs,
         \/ PlanFails(j) \/ LookFails(j) \/ AnswerFails(j) \/ MakeFails(j) \/ WriteFails(j)
         \/ LandFails(j) \/ NarrowFails(j) \/ RemoveFails(j)
  PROVE  Typed' /\ PartsKnown'
<1>0. WorkType(job[j]) /\ WorkSays(job[j])
  BY DEF Typed, Works
<1>1. CASE LookFails(j) \/ AnswerFails(j) \/ MakeFails(j)
  <2>1. PICK why \in Errors : Becomes(j, Ended(job[j], why)) /\ (faults' = faults \/ Fails)
    BY <1>1, Wrong DEF LookFails, AnswerFails, MakeFails, Errors
  <2>2. /\ parts' = parts /\ src' = src
        /\ job[j].pc \notin {"plan", "write", "tidy", "remove", "end"}
    BY <1>1 DEF LookFails, AnswerFails, MakeFails, Looking, Is
  <2>3. Ended(job[j], why).trouble = job[j].trouble
    BY <1>0 DEF Ended, WorkType, Fields
  <2> QED BY <1>0, <2>1, <2>2, <2>3, WorkEnded, OneGoesOn
<1>2. CASE PlanFails(j) \/ RemoveFails(j)
  <2>1. PICK why \in Errors : /\ Becomes(j, [job[j] EXCEPT !.err = why, !.pc = "end"])
                              /\ faults' = faults \/ Fails
    BY <1>2, Wrong DEF PlanFails, RemoveFails, Errors
  <2>2. parts' = parts /\ src' = src /\ job[j].pc \in {"plan", "remove"}
    BY <1>2 DEF PlanFails, RemoveFails, Is
  <2> DEFINE u == [job[j] EXCEPT !.err = why, !.pc = "end"]
  <2>3. WorkType(u) /\ WorkSays(u) /\ u.trouble = job[j].trouble
    BY <1>0, <2>2 DEF WorkType, WorkSays, Fields, Stages, Errors
  <2> HIDE DEF u
  <2> QED BY <2>1, <2>2, <2>3, OneGoesOn DEF u
<1>3. CASE WriteFails(j) \/ LandFails(j)
  <2>1. PICK why \in Errors : /\ Becomes(j, [job[j] EXCEPT !.err = why, !.pc = "tidy"])
                              /\ faults' = faults \/ Fails
    BY <1>3, Wrong DEF WriteFails, LandFails, Errors
  <2>2. parts' = parts /\ src' = src /\ job[j].pc = "write"
    BY <1>3 DEF WriteFails, LandFails, Landing, Is
  <2> DEFINE u == [job[j] EXCEPT !.err = why, !.pc = "tidy"]
  <2>3. /\ WorkType(u) /\ WorkSays(u) /\ u.trouble = job[j].trouble
        /\ u.pc = "tidy" /\ u.to = job[j].to /\ u.n = job[j].n
    BY <1>0, <2>2 DEF WorkType, WorkSays, Fields, Stages, Errors
  <2> HIDE DEF u
  <2> QED BY <2>1, <2>2, <2>3, OneGoesOn DEF u
<1>4. CASE NarrowFails(j)
  <2>1. PICK p \in job[j].made :
          Becomes(j, [job[j] EXCEPT !.made = {p}, !.trouble = TRUE, !.pc = "end",
                                    !.err = IF @ = "" THEN "failed" ELSE @])
    BY <1>4 DEF NarrowFails
  <2>2. parts' = parts /\ src' = src /\ Fails /\ job[j].pc = "narrow"
    BY <1>4 DEF NarrowFails, Is
  <2> DEFINE u == [job[j] EXCEPT !.made = {p}, !.trouble = TRUE, !.pc = "end",
                                 !.err = IF @ = "" THEN "failed" ELSE @]
  <2>3. WorkType(u) /\ WorkSays(u) /\ u.trouble
    BY <1>0, <2>2 DEF WorkType, WorkSays, Fields, Stages, Errors
  <2> HIDE DEF u
  <2> QED BY <2>1, <2>2, <2>3, OneGoesOn DEF u
<1> QED BY <1>1, <1>2, <1>3, <1>4

LEMMA WorkPlans ==
  ASSUME Typed, PartsKnown, NEW j \in Jobs,
         Plan(j) \/ Looks(j) \/ Answers(j) \/ Renames(j) \/ CrossDevice(j) \/ Removes(j)
  PROVE  Typed' /\ PartsKnown'
<1>0. WorkType(job[j]) /\ WorkSays(job[j])
  BY DEF Typed, Works
<1>1. CASE Plan(j)
  <2> DEFINE ks == IF job[j].renames THEN Tops ELSE Order
             w == [job[j] EXCEPT !.plan = ks, !.todo = ks, !.pc = "look",
                                 !.files = IF job[j].renames THEN Len(ks) ELSE Files(ks)]
             u == IF job[j].kind = "delete" THEN [w EXCEPT !.pc = "remove", !.todo = Reverse(ks)]
                  ELSE w
  <2>1. Becomes(j, u)
    BY <1>1, Zenon DEF Plan
  <2>2. parts' = parts /\ faults' = faults /\ src' = src /\ job[j].pc = "plan"
    BY <1>1 DEF Plan, Is
  <2>3. WorkType(w) /\ w.trouble = job[j].trouble /\ w.made = job[j].made
        /\ w.renames = job[j].renames /\ w.pc = "look"
    BY <1>0 DEF WorkType, Fields, Stages, Errors
  <2> HIDE DEF w
  <2>4. WorkType(u) /\ WorkSays(u) /\ (job[j].trouble => u.trouble)
    BY <1>0, <2>2, <2>3 DEF WorkType, WorkSays, Fields, Stages, Errors
  <2> HIDE DEF u
  <2> QED BY <2>1, <2>2, <2>4, OneGoesOn
<1>2. CASE Looks(j)
  <2> DEFINE to == Wanted(j)
             merges == At(to) = "dir" /\ Hand(j) \in Dirs /\ ~job[j].renames
             w == [job[j] EXCEPT !.to = to, !.pc = IF At(to) = "none" THEN "make" ELSE "ask"]
             u == IF merges THEN OnToNext(job[j]) ELSE w
  <2>1. Becomes(j, u)
    BY <1>2, Zenon DEF Looks
  <2>2. parts' = parts /\ faults' = faults /\ src' = src /\ job[j].pc = "look"
    BY <1>2 DEF Looks, Looking, Is
  <2>3. OnToNext(job[j]).trouble = job[j].trouble
    BY <1>0 DEF OnToNext, WorkType, Fields
  <2> HIDE DEF to, merges
  <2>4. WorkType(w) /\ WorkSays(w) /\ w.trouble = job[j].trouble
    BY <1>0, <2>2 DEF WorkType, WorkSays, Fields, Stages, Errors
  <2> HIDE DEF w
  <2>5. WorkType(u) /\ WorkSays(u) /\ u.trouble = job[j].trouble
    BY <1>0, <2>3, <2>4, WorkGoesOn
  <2> HIDE DEF u
  <2> QED BY <2>1, <2>2, <2>5, OneGoesOn
<1>3. CASE Answers(j)
  <2>1. Is(j, "ask") /\ UNCHANGED <<src, parts, faults>> /\ job[j].pc = "ask"
    BY <1>3 DEF Answers, Is
  <2>2. \/ Acts(j, job[j], job[j].choice)
        \/ \E what, all, kept : Acts(j, [job[j] EXCEPT !.choice = kept,
                                           !.agreed = @ \cup Agreed(j, what, all)], what)
    BY <1>3, Zenon DEF Answers
  <2>3. CASE Acts(j, job[j], job[j].choice)
    BY <1>0, <2>1, <2>3, Answered
  <2>4. ASSUME NEW what, NEW all, NEW kept,
               Acts(j, [job[j] EXCEPT !.choice = kept, !.agreed = @ \cup Agreed(j, what, all)], what)
        PROVE  Typed' /\ PartsKnown'
    <3> DEFINE u == [job[j] EXCEPT !.choice = kept, !.agreed = @ \cup Agreed(j, what, all)]
    <3>1. WorkType(u) /\ WorkSays(u) /\ u.trouble = job[j].trouble /\ u.pc = "ask"
      BY <1>0, <2>1 DEF WorkType, WorkSays, Fields, Stages, Errors
    <3> HIDE DEF u
    <3> QED BY <2>1, <2>4, <3>1, Answered DEF u
  <2> QED BY <2>2, <2>3, <2>4
<1>4. CASE Renames(j)
  <2> DEFINE u == [OnToNext(job[j]) EXCEPT !.done = @ + 1]
  <2>1. Becomes(j, u) /\ src' = [src EXCEPT ![j] = @ \ Under(Hand(j))]
    BY <1>4, Zenon DEF Renames
  <2>2. parts' = parts /\ faults' = faults /\ job[j].pc = "make"
    BY <1>4 DEF Renames, Is
  <2>3. WorkType(u) /\ WorkSays(u) /\ u.trouble = job[j].trouble
    BY <1>0 DEF OnToNext, WorkType, WorkSays, Fields, Stages, Errors
  <2> HIDE DEF u
  <2> QED BY <2>1, <2>2, <2>3, OneGoesOn
<1>5. CASE CrossDevice(j)
  <2>1. \E rest, files : Becomes(j, [job[j] EXCEPT !.renames = FALSE, !.pc = "look",
          !.plan = rest, !.todo = rest, !.before = job[j].skipped, !.files = files])
    BY <1>5, Zenon DEF CrossDevice
  <2>2. parts' = parts /\ faults' = faults /\ src' = src /\ job[j].pc = "make"
    BY <1>5 DEF CrossDevice, Is
  <2>3. PICK rest, files : Becomes(j, [job[j] EXCEPT !.renames = FALSE, !.pc = "look",
          !.plan = rest, !.todo = rest, !.before = job[j].skipped, !.files = files])
    BY <2>1
  <2> DEFINE u == [job[j] EXCEPT !.renames = FALSE, !.pc = "look",
                     !.plan = rest, !.todo = rest, !.before = job[j].skipped, !.files = files]
  <2>4. WorkType(u) /\ WorkSays(u) /\ u.trouble = job[j].trouble
    BY <1>0 DEF WorkType, WorkSays, Fields, Stages, Errors
  <2> HIDE DEF u
  <2> QED BY <2>2, <2>3, <2>4, OneGoesOn DEF u
<1>6. CASE Removes(j)
  <2> DEFINE u == [job[j] EXCEPT !.todo = Tail(@),
                     !.done = IF job[j].kind = "delete" /\ Hand(j) \notin Dirs THEN @ + 1 ELSE @]
  <2>1. Becomes(j, u) /\ src' = [src EXCEPT ![j] = @ \ {Hand(j)}]
    BY <1>6, Zenon DEF Removes
  <2>2. parts' = parts /\ faults' = faults /\ job[j].pc = "remove"
    BY <1>6 DEF Removes, Is
  <2>3. WorkType(u) /\ WorkSays(u) /\ u.trouble = job[j].trouble
    BY <1>0 DEF WorkType, WorkSays, Fields, Stages, Errors
  <2> HIDE DEF u
  <2> QED BY <2>1, <2>2, <2>3, OneGoesOn
<1> QED BY <1>1, <1>2, <1>3, <1>4, <1>5, <1>6

(* The steps that make parts and take them away. *)
LEMMA WorkOnParts ==
  ASSUME Typed, PartsKnown, NEW j \in Jobs, Creates(j) \/ Lands(j) \/ Tidies(j) \/ TidyFails(j)
  PROVE  Typed' /\ PartsKnown'
<1>0. WorkType(job[j]) /\ WorkSays(job[j])
  BY DEF Typed, Works
<1>1. CASE Creates(j)
  <2> DEFINE u == [job[j] EXCEPT !.n = @ + 1]
             ino == IF Part(u) \in DOMAIN parts THEN parts[Part(u)] ELSE Made(j, "file", u.n)
             w == [u EXCEPT !.pc = "write", !.ino = ino, !.off = 0]
  <2>1. Becomes(j, w) /\ parts' = Put(parts, Part(u), ino)
    BY <1>1, Zenon DEF Creates
  <2>2. src' = src /\ faults' = faults /\ job[j].pc = "make"
    BY <1>1 DEF Creates, Is
  <2>3. \A i \in Jobs : ino.of = i => i = j \/ (Part(u) \in DOMAIN parts /\ parts[Part(u)].of = i)
    BY DEF Made
  <2> HIDE DEF ino
  <2>4. /\ WorkType(w) /\ WorkSays(w) /\ w.trouble = job[j].trouble
        /\ w.pc = "write" /\ Part(w) = Part(u)
    <3>1. /\ DOMAIN u = Fields /\ DOMAIN w = Fields /\ w.pc = "write" /\ w.off = 0
          /\ w.to = u.to /\ w.n = u.n /\ w.n = job[j].n + 1 /\ w.err = job[j].err
          /\ w.made = job[j].made /\ w.renames = job[j].renames /\ w.trouble = job[j].trouble
      BY <1>0 DEF WorkType, Fields
    <3> HIDE DEF u, w
    <3> QED BY <1>0, <3>1, BoundsAssumption DEF WorkType, WorkSays, Stages, Part
  <2> DEFINE here == Part(u)
  <2>5. Part(w) = here /\ parts' = Put(parts, here, ino)
        /\ \A i \in Jobs : ino.of = i => i = j \/ (here \in DOMAIN parts /\ parts[here].of = i)
    BY <2>1, <2>3, <2>4
  <2> HIDE DEF u, w, here
  <2>6. \A i \in Jobs : job'[i] = IF i = j THEN w ELSE job[i]
    BY <2>1 DEF Becomes, Typed, Works
  <2>7. /\ DOMAIN parts' = DOMAIN parts \cup {here}
        /\ \A q \in DOMAIN parts : q # here => parts'[q] = parts[q]
        /\ parts'[here] = ino
    BY <2>5 DEF Put
  <2>8. \A i \in Jobs : Part(job'[i]) = IF i = j THEN here ELSE Part(job[i])
    BY <2>5, <2>6
  <2>9. PartsKnown'
    <3> SUFFICES ASSUME NEW q \in DOMAIN parts', NEW i \in Jobs, parts'[q].of = i
        PROVE  job'[i].trouble \/ (job'[i].pc \in {"write", "tidy"} /\ q = Part(job'[i]))
      BY DEF PartsKnown, Part
    <3>1. CASE i = j
      <4>1. q = here \/ (q \in DOMAIN parts /\ parts[q].of = j)
        BY <2>7, <3>1
      <4>2. q \in DOMAIN parts /\ parts[q].of = j => job[j].trouble
        BY <2>2 DEF PartsKnown
      <4> QED BY <2>4, <2>6, <2>8, <3>1, <4>1, <4>2
    <3>2. CASE i # j
      <4>1. q \in DOMAIN parts /\ parts[q].of = i
        BY <2>5, <2>7, <3>2
      <4> QED BY <2>6, <2>8, <3>2, <4>1 DEF PartsKnown
    <3> QED BY <3>1, <3>2
  <2>10. Works'
    BY <2>1, <2>2, <2>4, OneChanges DEF Typed
  <2> QED BY <2>2, <2>9, <2>10 DEF Typed
<1>2. CASE Lands(j) \/ Tidies(j)
  <2>1. \E u : /\ Becomes(j, u) /\ WorkType(u) /\ WorkSays(u) /\ u.trouble = job[j].trouble
    <3>1. CASE Lands(j)
      <4> DEFINE u == [Wrote(j, job[j]) EXCEPT !.done = @ + 1]
      <4>1. WorkType(u) /\ WorkSays(u) /\ u.trouble = job[j].trouble
        BY <1>0 DEF Wrote, OnToNext, WorkType, WorkSays, Fields, Stages, Errors
      <4>2. Becomes(j, u)
        BY <3>1, Zenon DEF Lands
      <4> HIDE DEF u
      <4> QED BY <4>1, <4>2
    <3>2. CASE Tidies(j)
      <4> DEFINE u == Ended(job[j], job[j].err)
      <4>1. WorkType(u) /\ WorkSays(u) /\ u.trouble = job[j].trouble
        BY <1>0, <3>2 DEF Tidies, Is, Ended, WorkType, WorkSays, Fields, Stages, Errors
      <4>2. Becomes(j, u)
        BY <3>2, Zenon DEF Tidies
      <4> HIDE DEF u
      <4> QED BY <4>1, <4>2
    <3> QED BY <1>2, <3>1, <3>2
  <2>2. PICK u : /\ Becomes(j, u) /\ WorkType(u) /\ WorkSays(u) /\ u.trouble = job[j].trouble
    BY <2>1
  <2>3. parts' = Without(parts, {Part(job[j])}) /\ src' = src /\ faults' = faults
    BY <1>2 DEF Lands, Tidies
  <2>4. \A i \in Jobs : job'[i] = IF i = j THEN u ELSE job[i]
    BY <2>2 DEF Becomes, Typed, Works
  <2>5. /\ DOMAIN parts' = DOMAIN parts \ {Part(job[j])}
        /\ \A q \in DOMAIN parts' : parts'[q] = parts[q]
    BY <2>3 DEF Without, Restrict
  <2>6. PartsKnown'
    <3> SUFFICES ASSUME NEW q \in DOMAIN parts', NEW i \in Jobs, parts'[q].of = i
        PROVE  job'[i].trouble \/ (job'[i].pc \in {"write", "tidy"} /\ q = Part(job'[i]))
      BY DEF PartsKnown, Part
    <3>1. q \in DOMAIN parts /\ q # Part(job[j]) /\ parts[q].of = i
      BY <2>5
    <3>2. job[i].trouble \/ (job[i].pc \in {"write", "tidy"} /\ q = Part(job[i]))
      BY <3>1 DEF PartsKnown
    <3> QED BY <2>2, <2>4, <3>1, <3>2
  <2>7. Works'
    BY <2>2, <2>3, OneChanges DEF Typed
  <2> QED BY <2>3, <2>6, <2>7 DEF Typed
<1>3. CASE TidyFails(j)
  <2> DEFINE u == [Ended(job[j], job[j].err) EXCEPT !.trouble = TRUE]
  <2>1. Becomes(j, u)
    BY <1>3, Zenon DEF TidyFails
  <2>2. parts' = parts /\ src' = src /\ (faults' = faults \/ Fails) /\ job[j].pc = "tidy"
    BY <1>3 DEF TidyFails, Is
  <2>3. WorkType(u) /\ WorkSays(u) /\ u.trouble
    BY <1>0, <2>2 DEF Ended, WorkType, WorkSays, Fields, Stages, Errors
  <2> HIDE DEF u
  <2> QED BY <2>1, <2>2, <2>3, OneGoesOn
<1> QED BY <1>1, <1>2, <1>3

LEMMA KeptNext == Typed /\ PartsKnown /\ [Next]_vars => Typed' /\ PartsKnown'
<1> SUFFICES ASSUME Typed, PartsKnown, [Next]_vars PROVE Typed' /\ PartsKnown'
  OBVIOUS
<1>1. CASE UNCHANGED vars
  BY <1>1 DEF vars, Typed, Works, PartsKnown, Part
<1>2. ASSUME NEW j \in Jobs, SomebodyMakes(j) PROVE Typed' /\ PartsKnown'
  BY <1>2, NextFault DEF SomebodyMakes, Typed, Works, PartsKnown, Part
<1> QED BY <1>1, <1>2, WorkNext, WorkFails, WorkPlans, WorkOnParts DEF Next

(* The types of a piece of work, its record and its counts, for every tree, any
   number of writes to a file, of failures and of pieces of work at once.     *)
THEOREM TypeCorrect == Spec => []TypeOK
<1>1. Typed => TypeOK
  BY DEF Typed, Works, WorkType, TypeOK, Stages, Errors
<1> QED BY <1>1, InitTyped, KeptNext, PTL DEF Spec

(* Whatever fails and wherever the work is cancelled, with any number of pieces
   of work that write the same names: one that ended with no word of trouble left
   no part of its making and no directory wider than it was asked for
   (Job.file's and Job.narrow's ways out).                                    *)
THEOREM NothingIsUnsaid == Spec => []NothingLeftUnsaid
<1>1. Typed /\ PartsKnown => NothingLeftUnsaid
  BY DEF Typed, Works, WorkSays, PartsKnown, NothingLeftUnsaid, Is
<1> QED BY <1>1, InitTyped, KeptNext, PTL DEF Spec
---------------------------------------------------------------------------
(* One piece of work by itself, j. *)
NewFile(node) == node.kind = "file" /\ node.n > 0

(* The parts that are there are numbered, and are j's. *)
PartsOwn(j) ==
  \A q \in DOMAIN parts : q[2] \in 1..job[j].n /\ parts[q] = Made(j, "file", q[2])

(* A new file at a name was numbered before, and every write in it is of one thing. *)
NamesWhole(j) ==
  \A p \in DOMAIN dst : NewFile(dst[p]) =>
    /\ dst[p] \in DOMAIN data /\ dst[p] = Made(j, "file", dst[p].n) /\ dst[p].n \in 1..job[j].n
    /\ \E k \in Things : \A c \in 1..Chunks : data[dst[p]][c] = <<j, k>>

(* The file being written is the newest and has no name yet but its part's; what
   is in it so far is of the thing at hand. *)
AtWork(j, u) ==
  /\ u.ino = Made(j, "file", u.n) /\ u.ino \in DOMAIN data /\ Part(u) \in DOMAIN parts
  /\ Head(u.todo) \in Things /\ DOMAIN data[u.ino] = 1..Chunks
  /\ \A c \in 1..u.off : data[u.ino][c] = <<j, Head(u.todo)>>
  /\ \A p \in DOMAIN dst : NewFile(dst[p]) => dst[p].n < u.n

FilesWhole(j) ==
  PartsOwn(j) /\ NamesWhole(j) /\ (job[j].pc = "write" => AtWork(j, job[j]))

LEMMA ThingsCounted == Things \subseteq Nat \ {0}
BY TreeAssumption DEF Things, N

LEMMA InitFiles == ASSUME NEW j, Jobs = {j}, Init PROVE FilesWhole(j)
<1>1. job[j].pc = "plan" /\ parts = Empty
  <2>1. PICK kinds \in [Jobs -> Kinds], renames \in [Jobs -> BOOLEAN] :
          job = [i \in Jobs |-> New(kinds[i], renames[i])]
    BY Zenon DEF Init
  <2>2. job[j] = New(kinds[j], renames[j]) /\ parts = Empty
    BY <2>1, Zenon DEF Init
  <2>3. \A kind, r : New(kind, r).pc = "plan"
    BY DEF New
  <2> QED BY <2>2, <2>3
<1>2. \A p \in DOMAIN dst : ~NewFile(dst[p])
  BY DEF Init, Users, NewFile
<1> QED BY <1>1, <1>2 DEF FilesWhole, PartsOwn, NamesWhole, Empty

(* j does something else than write: parts may go, and no new file gets a name. *)
LEMMA FilesStay ==
  ASSUME NEW j, Jobs = {j}, Typed, FilesWhole(j), NEW u, Becomes(j, u), u.n = job[j].n,
         data' = data, \A q \in DOMAIN parts' : q \in DOMAIN parts /\ parts'[q] = parts[q],
         \A p \in DOMAIN dst' :
           NewFile(dst'[p]) => p \in DOMAIN dst /\ dst'[p] = dst[p],
         \/ u.pc # "write"
         \/ /\ job[j].pc = "write" /\ parts' = parts
            /\ u.ino = job[j].ino /\ u.off = job[j].off /\ u.to = job[j].to /\ u.todo = job[j].todo
  PROVE  FilesWhole(j)'
<1>1. job'[j] = u
  BY DEF Becomes, Typed, Works
<1>2. PartsOwn(j)'
  BY <1>1 DEF FilesWhole, PartsOwn
<1>3. NamesWhole(j)'
  <2> SUFFICES ASSUME NEW p \in DOMAIN dst', NewFile(dst'[p])
      PROVE  /\ dst'[p] \in DOMAIN data /\ dst'[p] = Made(j, "file", dst'[p].n)
             /\ dst'[p].n \in 1..u.n
             /\ \E k \in Things : \A c \in 1..Chunks : data[dst'[p]][c] = <<j, k>>
    BY <1>1 DEF NamesWhole, NewFile, Made
  <2> QED BY DEF FilesWhole, NamesWhole
<1>4. job'[j].pc = "write" => AtWork(j, job[j])' 
  BY <1>1 DEF FilesWhole, AtWork, Part, NewFile
<1> QED BY <1>1, <1>2, <1>3, <1>4 DEF FilesWhole

(* The steps of j that write nothing. *)
LEMMA NoWrite ==
  ASSUME NEW j, Jobs = {j}, Typed,
         \/ Plan(j) \/ PlanFails(j) \/ SkipsLeft(j) \/ Looks(j) \/ LookFails(j) \/ Answers(j)
         \/ AnswerFails(j) \/ Renames(j) \/ CrossDevice(j) \/ MakesDir(j) \/ MakesLink(j)
         \/ MakeFails(j) \/ MakeRefused(j) \/ WriteFails(j) \/ LandFails(j) \/ Tidies(j)
         \/ TidyFails(j) \/ CopyDone(j) \/ Narrows(j) \/ NarrowFails(j) \/ Removes(j)
         \/ RemoveFails(j) \/ RemoveDone(j)
  PROVE  \E u : Becomes(j, u) /\ u.n = job[j].n /\ u.pc # "write"
<1>0. WorkType(job[j])
  BY DEF Typed, Works
<1> DEFINE Quiet(u) == u.n = job[j].n /\ u.pc # "write"
<1>1. \A why : Quiet(Ended(job[j], why)) /\ Quiet([Ended(job[j], why) EXCEPT !.trouble = TRUE])
  BY <1>0 DEF Ended, WorkType, Fields
<1>2. \A why : Quiet([job[j] EXCEPT !.err = why, !.pc = "end"])
               /\ Quiet([job[j] EXCEPT !.err = why, !.pc = "tidy"])
  BY <1>0 DEF WorkType, Fields
<1>3. Quiet(OnToNext(job[j])) /\ Quiet(Skipped(j, job[j]))
      /\ Quiet([OnToNext(job[j]) EXCEPT !.done = @ + 1])
  BY <1>0 DEF OnToNext, Skipped, WorkType, Fields
<1>4. Quiet([Wrote(j, job[j]) EXCEPT !.done = @ + 1])
      /\ Quiet([Wrote(j, job[j]) EXCEPT !.made = @ \cup {job[j].to}])
  BY <1>0 DEF OnToNext, Wrote, WorkType, Fields
<1>5. Quiet(AfterCopy(j, [job[j] EXCEPT !.made = {}])) \/ job[j].pc = "write"
  BY <1>0 DEF AfterCopy, WorkType, Fields
<1>6. Quiet([job[j] EXCEPT !.pc = "end"])
  BY <1>0 DEF WorkType, Fields
<1> HIDE DEF Quiet
<1>7. CASE \/ LookFails(j) \/ AnswerFails(j) \/ MakeFails(j) \/ MakeRefused(j) \/ TidyFails(j)
           \/ Tidies(j) \/ CopyDone(j)
  BY <1>1, <1>7, Zenon DEF LookFails, AnswerFails, MakeFails, MakeRefused, TidyFails, Tidies, CopyDone, Quiet
<1>8. CASE PlanFails(j) \/ RemoveFails(j) \/ WriteFails(j) \/ LandFails(j)
  BY <1>2, <1>8, Zenon DEF PlanFails, RemoveFails, WriteFails, LandFails, Quiet
<1>9. CASE SkipsLeft(j) \/ Renames(j)
  BY <1>3, <1>9, Zenon DEF SkipsLeft, Renames, Quiet
<1>10. CASE MakesDir(j) \/ MakesLink(j)
  BY <1>4, <1>10, Zenon DEF MakesDir, MakesLink, Quiet
<1>11. CASE Narrows(j) \/ RemoveDone(j)
  <2>1. job[j].pc # "write"
    BY <1>11 DEF Narrows, RemoveDone, Is
  <2> QED BY <1>5, <1>6, <1>11, <2>1, Zenon DEF Narrows, RemoveDone, Quiet
<1>12. CASE NarrowFails(j)
  <2>1. PICK p : Becomes(j, [job[j] EXCEPT !.made = {p}, !.trouble = TRUE, !.pc = "end",
                                           !.err = IF @ = "" THEN "failed" ELSE @])
    BY <1>12, Zenon DEF NarrowFails
  <2> DEFINE u == [job[j] EXCEPT !.made = {p}, !.trouble = TRUE, !.pc = "end",
                                 !.err = IF @ = "" THEN "failed" ELSE @]
  <2>2. u.n = job[j].n /\ u.pc = "end"
    BY <1>0 DEF WorkType, Fields
  <2> HIDE DEF u
  <2> QED BY <2>1, <2>2 DEF u
<1>13. CASE Removes(j)
  <2> DEFINE u == [job[j] EXCEPT !.todo = Tail(@),
                     !.done = IF job[j].kind = "delete" /\ Hand(j) \notin Dirs THEN @ + 1 ELSE @]
  <2>1. Becomes(j, u)
    BY <1>13, Zenon DEF Removes
  <2>2. job[j].pc = "remove"
    BY <1>13 DEF Removes, Is
  <2>3. u.n = job[j].n /\ u.pc = "remove"
    BY <1>0, <2>2 DEF WorkType, Fields
  <2> HIDE DEF u
  <2> QED BY <2>1, <2>3
<1>14. CASE CrossDevice(j)
  <2>1. \E rest, files : Becomes(j, [job[j] EXCEPT !.renames = FALSE, !.pc = "look",
          !.plan = rest, !.todo = rest, !.before = job[j].skipped, !.files = files])
    BY <1>14, Zenon DEF CrossDevice
  <2>2. PICK rest, files : Becomes(j, [job[j] EXCEPT !.renames = FALSE, !.pc = "look",
          !.plan = rest, !.todo = rest, !.before = job[j].skipped, !.files = files])
    BY <2>1
  <2> DEFINE u == [job[j] EXCEPT !.renames = FALSE, !.pc = "look",
                     !.plan = rest, !.todo = rest, !.before = job[j].skipped, !.files = files]
  <2>3. u.n = job[j].n /\ u.pc = "look"
    BY <1>0 DEF WorkType, Fields
  <2> HIDE DEF u
  <2> QED BY <2>2, <2>3 DEF u
<1>15. CASE Plan(j)
  <2> DEFINE ks == IF job[j].renames THEN Tops ELSE Order
             w == [job[j] EXCEPT !.plan = ks, !.todo = ks, !.pc = "look",
                                 !.files = IF job[j].renames THEN Len(ks) ELSE Files(ks)]
             v == [w EXCEPT !.pc = "remove", !.todo = Reverse(ks)]
  <2>1. Becomes(j, IF job[j].kind = "delete" THEN v ELSE w)
    BY <1>15, Zenon DEF Plan
  <2>2. w.n = job[j].n /\ w.pc = "look" /\ v.n = job[j].n /\ v.pc = "remove"
    BY <1>0 DEF WorkType, Fields
  <2> HIDE DEF v, w
  <2> QED BY <2>1, <2>2
<1>16. CASE Looks(j)
  <2> DEFINE to == Wanted(j)
             merges == At(to) = "dir" /\ Hand(j) \in Dirs /\ ~job[j].renames
             w == [job[j] EXCEPT !.to = to, !.pc = IF At(to) = "none" THEN "make" ELSE "ask"]
  <2>1. Becomes(j, IF merges THEN OnToNext(job[j]) ELSE w)
    BY <1>16, Zenon DEF Looks
  <2>2. w.n = job[j].n /\ w.pc # "write"
    BY <1>0 DEF WorkType, Fields
  <2> HIDE DEF merges, w
  <2> QED BY <1>3, <2>1, <2>2 DEF Quiet
<1>17. CASE Answers(j)
  <2>1. ASSUME NEW v, NEW what, v.n = job[j].n, DOMAIN v = Fields, v.pc = "ask", Acts(j, v, what)
        PROVE  \E u : Becomes(j, u) /\ u.n = job[j].n /\ u.pc # "write"
    <3> DEFINE alone == IF Hand(j) \in Dirs /\ ~v.renames THEN {Hand(j)} ELSE {}
               skips == [Skipped(j, v) EXCEPT !.left = @ \cup alone]
               beside == [v EXCEPT !.pc = "make", !.to = Beside(@)]
               makes == [v EXCEPT !.pc = "make"]
    <3>1. \/ Becomes(j, skips) \/ Becomes(j, Ended(v, "stopped")) \/ Becomes(j, Ended(v, "failed"))
          \/ Becomes(j, beside) \/ Becomes(j, makes)
      BY <2>1 DEF Acts
    <3>2. /\ skips.n = v.n /\ skips.pc = "look" /\ beside.n = v.n /\ beside.pc = "make"
          /\ makes.n = v.n /\ makes.pc = "make"
      BY <2>1 DEF Skipped, OnToNext, Fields
    <3>3. \A why : Ended(v, why).n = v.n /\ Ended(v, why).pc # "write"
      BY <2>1 DEF Ended, Fields
    <3> HIDE DEF skips, beside, makes
    <3> QED BY <2>1, <3>1, <3>2, <3>3
  <2>2. Is(j, "ask") /\ job[j].pc = "ask"
    BY <1>17 DEF Answers, Is
  <2>3. \/ Acts(j, job[j], job[j].choice)
        \/ \E what, all, kept : Acts(j, [job[j] EXCEPT !.choice = kept,
                                           !.agreed = @ \cup Agreed(j, what, all)], what)
    BY <1>17, Zenon DEF Answers
  <2>4. ASSUME NEW what, NEW all, NEW kept,
               Acts(j, [job[j] EXCEPT !.choice = kept, !.agreed = @ \cup Agreed(j, what, all)], what)
        PROVE  \E u : Becomes(j, u) /\ u.n = job[j].n /\ u.pc # "write"
    <3> DEFINE v == [job[j] EXCEPT !.choice = kept, !.agreed = @ \cup Agreed(j, what, all)]
    <3>1. v.n = job[j].n /\ DOMAIN v = Fields /\ v.pc = "ask"
      BY <1>0, <2>2 DEF WorkType, Fields
    <3> HIDE DEF v
    <3> QED BY <2>1, <2>4, <3>1 DEF v
  <2>5. DOMAIN job[j] = Fields
    BY <1>0 DEF WorkType
  <2> QED BY <2>1, <2>2, <2>3, <2>4, <2>5
<1> QED BY <1>7, <1>8, <1>9, <1>10, <1>11, <1>12, <1>13, <1>14, <1>15, <1>16, <1>17

(* What is made at a name in one step is no file that was written there. *)
LEMMA NoNewFile ==
  ASSUME NEW j \in Jobs,
         \/ Plan(j) \/ PlanFails(j) \/ SkipsLeft(j) \/ Looks(j) \/ LookFails(j) \/ Answers(j)
         \/ AnswerFails(j) \/ Renames(j) \/ CrossDevice(j) \/ MakesDir(j) \/ MakesLink(j)
         \/ MakeFails(j) \/ MakeRefused(j) \/ WriteFails(j) \/ LandFails(j) \/ Tidies(j)
         \/ TidyFails(j) \/ CopyDone(j) \/ Narrows(j) \/ NarrowFails(j) \/ Removes(j)
         \/ RemoveFails(j) \/ RemoveDone(j) \/ Cancel(j) \/ SomebodyMakes(j)
  PROVE  /\ data' = data /\ \A q \in DOMAIN parts' : q \in DOMAIN parts /\ parts'[q] = parts[q]
         /\ \A p \in DOMAIN dst' : NewFile(dst'[p]) => p \in DOMAIN dst /\ dst'[p] = dst[p]
<1>1. CASE \/ Plan(j) \/ PlanFails(j) \/ SkipsLeft(j) \/ Looks(j) \/ LookFails(j)
           \/ AnswerFails(j) \/ CrossDevice(j)
           \/ MakeFails(j) \/ MakeRefused(j) \/ WriteFails(j) \/ LandFails(j)
           \/ TidyFails(j) \/ CopyDone(j) \/ Narrows(j) \/ NarrowFails(j) \/ Removes(j)
           \/ RemoveFails(j) \/ RemoveDone(j) \/ Cancel(j)
  BY <1>1 DEF Plan, PlanFails, SkipsLeft, Looks, LookFails, AnswerFails, CrossDevice, MakeFails,
              MakeRefused, WriteFails, LandFails, TidyFails, CopyDone, Narrows, NarrowFails,
              Removes, RemoveFails, RemoveDone, Cancel
<1>2. CASE Tidies(j)
  BY <1>2 DEF Tidies, Without, Restrict
<1>3. CASE Answers(j)
  <2>1. data' = data /\ parts' = parts
    BY <1>3 DEF Answers
  <2>2. dst' = dst \/ \E gone : dst' = Without(dst, gone)
    <3>1. ASSUME NEW u, NEW what, Acts(j, u, what)
          PROVE  dst' = dst \/ \E gone : dst' = Without(dst, gone)
      BY <3>1 DEF Acts
    <3> QED BY <1>3, <3>1, Zenon DEF Answers
  <2> QED BY <2>1, <2>2 DEF Without, Restrict
<1>4. CASE Renames(j)
  <2>1. parts' = parts /\ data' = data
    BY <1>4 DEF Renames
  <2> DEFINE to == job[j].to
             k == Hand(j)
             new == [q \in {to \o SubSeq(Path[c], 2, Len(Path[c])) : c \in Under(k)} |->
                       Original(j, CHOOSE c \in Under(k) : q = to \o SubSeq(Path[c], 2, Len(Path[c])))]
  <2>2. dst' = [q \in DOMAIN dst \cup DOMAIN new |-> IF q \in DOMAIN new THEN new[q] ELSE dst[q]]
    BY <1>4, Zenon DEF Renames
  <2>3. \A q \in DOMAIN new : \E c \in Under(k) : new[q] = Original(j, c)
    <3> SUFFICES ASSUME NEW q \in DOMAIN new PROVE \E c \in Under(k) : new[q] = Original(j, c)
      OBVIOUS
    <3>1. \E c \in Under(k) : q = to \o SubSeq(Path[c], 2, Len(Path[c]))
      OBVIOUS
    <3>2. (CHOOSE c \in Under(k) : q = to \o SubSeq(Path[c], 2, Len(Path[c]))) \in Under(k)
      BY <3>1, Zenon
    <3>3. new[q] = Original(j, CHOOSE c \in Under(k) : q = to \o SubSeq(Path[c], 2, Len(Path[c])))
      BY Zenon
    <3> QED BY <3>2, <3>3, Zenon
  <2>4. \A c \in Under(k) : ~NewFile(Original(j, c))
    BY ThingsCounted DEF Under, NewFile, Original
  <2> HIDE DEF new
  <2> QED BY <2>1, <2>2, <2>3, <2>4
<1>5. CASE MakesDir(j) \/ MakesLink(j) \/ SomebodyMakes(j)
  <2>1. parts' = parts /\ data' = data
    BY <1>5 DEF MakesDir, MakesLink, SomebodyMakes
  <2>2. \E p, node : dst' = Put(dst, p, node) /\ ~NewFile(node)
    BY <1>5 DEF MakesDir, MakesLink, SomebodyMakes, Made, Users, NewFile
  <2> QED BY <2>1, <2>2 DEF Put
<1> QED BY <1>1, <1>2, <1>3, <1>4, <1>5

LEMMA OneWrites ==
  ASSUME NEW j, Jobs = {j}, Typed, FilesWhole(j), Creates(j) \/ Writes(j) \/ Lands(j)
  PROVE  FilesWhole(j)'
<1>0. WorkType(job[j])
  BY DEF Typed, Works
<1>1. CASE Creates(j)
  <2> DEFINE u == [job[j] EXCEPT !.n = @ + 1]
             here == Part(u)
             ino == Made(j, "file", u.n)
             w == [u EXCEPT !.pc = "write", !.ino = ino, !.off = 0]
  <2>1. u.n = job[j].n + 1 /\ u.n \in Nat \ {0} /\ here[2] = u.n
    BY <1>0 DEF WorkType, Fields, Part
  <2>2. here \notin DOMAIN parts
    BY <1>0, <2>1 DEF FilesWhole, PartsOwn, WorkType
  <2>3. ~(Part(u) \in DOMAIN parts)
    BY <2>2
  <2>4. /\ parts' = Put(parts, here, ino) /\ data' = Put(data, ino, [c \in 1..Chunks |-> Hole])
        /\ Becomes(j, w) /\ dst' = dst /\ Hand(j) \in Things
    BY <1>1, <2>3, Zenon DEF Creates, Plain
  <2>5. /\ w.n = u.n /\ w.ino = ino /\ w.off = 0 /\ w.to = u.to /\ w.todo = job[j].todo
        /\ w.pc = "write" /\ Part(w) = here
    BY <1>0 DEF WorkType, Fields, Part
  <2> HIDE DEF u, here, w
  <2>6. job'[j] = w /\ ino = Made(j, "file", w.n) /\ w.n = job[j].n + 1 /\ w.n \in Nat \ {0}
    BY <2>1, <2>4, <2>5 DEF Becomes, Typed, Works
  <2>7. /\ DOMAIN parts' = DOMAIN parts \cup {here} /\ parts'[here] = ino
        /\ \A q \in DOMAIN parts : q # here => parts'[q] = parts[q]
        /\ DOMAIN data' = DOMAIN data \cup {ino} /\ data'[ino] = [c \in 1..Chunks |-> Hole]
        /\ \A i \in DOMAIN data : i # ino => data'[i] = data[i]
    BY <2>4 DEF Put
  <2>8. PartsOwn(j)'
    BY <1>0, <2>1, <2>5, <2>6, <2>7 DEF FilesWhole, PartsOwn, WorkType
  <2>9. \A p \in DOMAIN dst : NewFile(dst[p]) => dst[p].n < w.n /\ dst[p] # ino
    BY <1>0, <2>6 DEF FilesWhole, NamesWhole, WorkType, Made
  <2> HIDE DEF ino
  <2>10. NamesWhole(j)'
    <3> SUFFICES ASSUME NEW p \in DOMAIN dst, NewFile(dst[p])
        PROVE  /\ dst[p] \in DOMAIN data' /\ dst[p] = Made(j, "file", dst[p].n)
               /\ dst[p].n \in 1..w.n
               /\ \E k \in Things : \A c \in 1..Chunks : data'[dst[p]][c] = <<j, k>>
      BY <2>4, <2>6 DEF NamesWhole, NewFile, Made
    <3> QED BY <1>0, <2>6, <2>7, <2>9 DEF FilesWhole, NamesWhole, WorkType
  <2>11. AtWork(j, job[j])'
    <3>1. /\ w.ino = Made(j, "file", w.n) /\ w.ino \in DOMAIN data' /\ Part(w) \in DOMAIN parts'
          /\ Head(w.todo) \in Things /\ DOMAIN data'[w.ino] = 1..Chunks
      BY <2>4, <2>5, <2>6, <2>7 DEF Hand
    <3>2. \A c \in 1..w.off : data'[w.ino][c] = <<j, Head(w.todo)>>
      BY <2>5
    <3>3. \A p \in DOMAIN dst' : NewFile(dst'[p]) => dst'[p].n < w.n
      BY <2>4, <2>9
    <3> QED BY <2>6, <3>1, <3>2, <3>3, Zenon DEF AtWork, NewFile, Made, Part
  <2> QED BY <2>6, <2>8, <2>10, <2>11 DEF FilesWhole
<1>2. CASE Writes(j)
  <2> DEFINE u == [job[j] EXCEPT !.off = @ + 1]
             ino == job[j].ino
             at == job[j].off + 1
  <2>1. /\ data' = [data EXCEPT ![ino][at] = <<j, Hand(j)>>] /\ Becomes(j, u)
        /\ parts' = parts /\ dst' = dst /\ job[j].off < Chunks
    BY <1>2, Zenon DEF Writes
  <2>2. AtWork(j, job[j])
    BY <1>2 DEF Writes, Is, FilesWhole
  <2>3. /\ u.n = job[j].n /\ u.ino = ino /\ u.to = job[j].to /\ u.todo = job[j].todo /\ u.off = at
        /\ Part(u) = Part(job[j])
    BY <1>0 DEF WorkType, Fields, Part
  <2>4. at \in 1..Chunks /\ \A c \in 1..at : c = at \/ c \in 1..job[j].off
    BY <1>0, <2>1, BoundsAssumption DEF WorkType
  <2> HIDE DEF u, ino, at
  <2>5. job'[j] = u
    BY <2>1 DEF Becomes, Typed, Works
  <2>6. /\ DOMAIN data' = DOMAIN data /\ \A i \in DOMAIN data : i # ino => data'[i] = data[i]
        /\ DOMAIN data'[ino] = 1..Chunks /\ data'[ino][at] = <<j, Hand(j)>>
        /\ \A c \in 1..Chunks : c # at => data'[ino][c] = data[ino][c]
    BY <2>1, <2>2, <2>4 DEF AtWork, ino
  <2>7. PartsOwn(j)'
    BY <2>1, <2>3, <2>5 DEF FilesWhole, PartsOwn
  <2>8. \A p \in DOMAIN dst : NewFile(dst[p]) => dst[p] # ino
    BY <1>0, <2>2 DEF AtWork, FilesWhole, NamesWhole, Made, WorkType, ino
  <2>9. NamesWhole(j)'
    <3> SUFFICES ASSUME NEW p \in DOMAIN dst, NewFile(dst[p])
        PROVE  /\ dst[p] \in DOMAIN data' /\ dst[p] = Made(j, "file", dst[p].n)
               /\ dst[p].n \in 1..u.n
               /\ \E k \in Things : \A c \in 1..Chunks : data'[dst[p]][c] = <<j, k>>
      BY <2>1, <2>5 DEF NamesWhole, NewFile, Made
    <3> QED BY <2>3, <2>6, <2>8 DEF FilesWhole, NamesWhole
  <2>10. AtWork(j, job[j])'
    <3>1. \A c \in 1..u.off : data'[ino][c] = <<j, Hand(j)>>
      <4>1. \A c \in 1..job[j].off : c \in 1..Chunks /\ data[ino][c] = <<j, Hand(j)>>
        BY <1>0, <2>2, BoundsAssumption DEF AtWork, Hand, WorkType, ino
      <4> QED BY <2>3, <2>4, <2>6, <4>1
    <3> QED BY <2>1, <2>2, <2>3, <2>5, <2>6, <3>1 DEF AtWork, NewFile, Made, Hand, Part, ino
  <2> QED BY <2>5, <2>7, <2>9, <2>10 DEF FilesWhole
<1>3. CASE Lands(j)
  <2> DEFINE u == [Wrote(j, job[j]) EXCEPT !.done = @ + 1]
             here == Part(job[j])
             ino == job[j].ino
  <2>1. /\ Becomes(j, u) /\ dst' = Put(dst, job[j].to, parts[here]) /\ data' = data
        /\ parts' = Without(parts, {here}) /\ here \in DOMAIN parts
    BY <1>3, Zenon DEF Lands
  <2>2. AtWork(j, job[j]) /\ job[j].off = Chunks
    BY <1>3 DEF Lands, Landing, Is, FilesWhole
  <2>3. u.n = job[j].n /\ u.pc = "look"
    BY <1>0 DEF Wrote, OnToNext, WorkType, Fields
  <2> HIDE DEF u
  <2>4. job'[j] = u
    BY <2>1 DEF Becomes, Typed, Works
  <2>5. parts[here] = ino /\ ino = Made(j, "file", job[j].n) /\ job[j].n \in 1..job[j].n
    <3>1. here[2] = job[j].n
      BY DEF Part
    <3> QED BY <2>1, <2>2, <3>1 DEF FilesWhole, PartsOwn, AtWork
  <2>6. /\ ino \in DOMAIN data /\ ino.n = job[j].n
        /\ \E k \in Things : \A c \in 1..Chunks : data[ino][c] = <<j, k>>
    BY <2>2, <2>5 DEF AtWork, Made
  <2> HIDE DEF ino, here
  <2>7. PartsOwn(j)'
    BY <2>1, <2>3, <2>4 DEF FilesWhole, PartsOwn, Without, Restrict
  <2>8. NamesWhole(j)'
    <3> SUFFICES ASSUME NEW p \in DOMAIN dst', NewFile(dst'[p])
        PROVE  /\ dst'[p] \in DOMAIN data /\ dst'[p] = Made(j, "file", dst'[p].n)
               /\ dst'[p].n \in 1..u.n
               /\ \E k \in Things : \A c \in 1..Chunks : data[dst'[p]][c] = <<j, k>>
      BY <2>1, <2>4 DEF NamesWhole, NewFile, Made
    <3>1. dst'[p] = ino \/ (p \in DOMAIN dst /\ dst'[p] = dst[p])
      BY <2>1, <2>5 DEF Put
    <3> QED BY <2>3, <2>5, <2>6, <3>1 DEF FilesWhole, NamesWhole
  <2> QED BY <2>3, <2>4, <2>7, <2>8 DEF FilesWhole
<1> QED BY <1>1, <1>2, <1>3

LEMMA FilesNext ==
  ASSUME NEW j, Jobs = {j} PROVE Typed /\ FilesWhole(j) /\ [Next]_vars => FilesWhole(j)'
<1> SUFFICES ASSUME Typed, FilesWhole(j), [Next]_vars PROVE FilesWhole(j)'
  OBVIOUS
<1>0. WorkType(job[j])
  BY DEF Typed, Works
<1>1. CASE UNCHANGED vars
  BY <1>1 DEF vars, FilesWhole, PartsOwn, NamesWhole, AtWork, NewFile, Part, Made
<1>2. CASE SomebodyMakes(j) \/ Cancel(j)
  <2> DEFINE u == IF Cancel(j) THEN [job[j] EXCEPT !.canceled = TRUE] ELSE job[j]
  <2>1. Becomes(j, u) /\ parts' = parts
    <3>1. CASE Cancel(j)
      BY <3>1, Zenon DEF Cancel
    <3>2. CASE ~Cancel(j)
      BY <1>2, <3>2 DEF SomebodyMakes, Becomes, Typed, Works
    <3> QED BY <3>1, <3>2
  <2>2. /\ u.n = job[j].n /\ u.ino = job[j].ino /\ u.off = job[j].off /\ u.to = job[j].to
        /\ u.todo = job[j].todo /\ u.pc = job[j].pc
    BY <1>0 DEF WorkType, Fields
  <2> HIDE DEF u
  <2> QED BY <1>2, <2>1, <2>2, NoNewFile, FilesStay
<1>3. CASE Creates(j) \/ Writes(j) \/ Lands(j)
  BY <1>3, OneWrites
<1>4. CASE ~(SomebodyMakes(j) \/ Cancel(j) \/ Creates(j) \/ Writes(j) \/ Lands(j)) /\ Next
  <2>1. \/ Plan(j) \/ PlanFails(j) \/ SkipsLeft(j) \/ Looks(j) \/ LookFails(j) \/ Answers(j)
        \/ AnswerFails(j) \/ Renames(j) \/ CrossDevice(j) \/ MakesDir(j) \/ MakesLink(j)
        \/ MakeFails(j) \/ MakeRefused(j) \/ WriteFails(j) \/ LandFails(j) \/ Tidies(j)
        \/ TidyFails(j) \/ CopyDone(j) \/ Narrows(j) \/ NarrowFails(j) \/ Removes(j)
        \/ RemoveFails(j) \/ RemoveDone(j)
    BY <1>4 DEF Next
  <2>2. PICK u : Becomes(j, u) /\ u.n = job[j].n /\ u.pc # "write"
    BY <2>1, NoWrite
  <2> QED BY <2>1, <2>2, NoNewFile, FilesStay
<1> QED BY <1>1, <1>2, <1>3, <1>4

(* A job by itself, for any tree and any files: what a name leads to is the file
   that was there or the whole of the new one, through failing calls, a cancel
   anywhere and names others make meanwhile (what jobs/run.go:504 promises).  The
   run file_job_two shows that it takes a job by itself.                      *)
THEOREM AloneNeverHalf == ASSUME NEW j, Jobs = {j} PROVE Spec => []NeverHalf
<1>1. FilesWhole(j) => NeverHalf
  BY DEF FilesWhole, NamesWhole, NewFile, NeverHalf, Whole
<1>2. Init => Typed /\ PartsKnown /\ FilesWhole(j)
  BY InitTyped, InitFiles
<1>3. Typed /\ PartsKnown /\ FilesWhole(j) /\ [Next]_vars
        => (Typed /\ PartsKnown /\ FilesWhole(j))'
  BY KeptNext, FilesNext
<1> QED BY <1>1, <1>2, <1>3, PTL DEF Spec
---------------------------------------------------------------------------
(* A non-empty set of numbers up to n has a least one. *)
LEMMA LeastOfSet ==
  ASSUME NEW n \in Nat, NEW T, T \subseteq 0..n, T # {}
  PROVE  \E x \in T : \A y \in T : x <= y
<1> DEFINE S == 0..n
           D == {0..x : x \in T}
<1>1. IsWellFoundedOn(StrictSubsetOrdering(S), FiniteSubsetsOf(S))
  BY FS_StrictSubsetOrderingWellFounded
<1>2. IsFiniteSet(S)
  BY FS_Interval
<1>3. FiniteSubsetsOf(S) = SUBSET S
  BY <1>2, FS_FiniteSubsetsOfFinite
<1>4. D \subseteq SUBSET S /\ D # {}
  <2>1. \A x \in T : 0..x \subseteq S
    OBVIOUS
  <2> HIDE DEF S
  <2> QED BY <2>1
<1>5. PICK m \in D : \A k \in D : ~(<<k, m>> \in StrictSubsetOrdering(S))
  <2> HIDE DEF S, D
  <2> QED BY <1>1, <1>3, <1>4, WFMin
<1>6. PICK x \in T : m = 0..x
  OBVIOUS
<1>7. ASSUME NEW y \in T, ~(x <= y) PROVE FALSE
  <2>1. 0..y \subseteq 0..x /\ 0..y # 0..x /\ 0..y \in D
    <3>1. x \in 0..x /\ x \notin 0..y
      BY <1>7
    <3> QED BY <3>1, <1>7
  <2>2. <<0..y, m>> \in StrictSubsetOrdering(S)
    BY <2>1, <1>6 DEF StrictSubsetOrdering
  <2> QED BY <2>1, <2>2, <1>5
<1> QED BY <1>7

(* What a recursion along a chain of connections defines: there is a function
   that is base at 0, and at each c what step makes of its value at via[c].  *)
Recursion(n, via, V, base, step) ==
  /\ n \in Nat /\ \A c \in 1..n : via[c] \in 0..(c - 1)
  /\ base \in V /\ step \in [(1..n) \X V -> V]
Solves(f, n, via, V, base, step) ==
  /\ f \in [0..n -> V]
  /\ \A c \in 0..n : f[c] = IF c = 0 THEN base ELSE step[<<c, f[via[c]]>>]

LEMMA ChainRecursion ==
  ASSUME NEW n, NEW via, NEW V, NEW base, NEW step, Recursion(n, via, V, base, step)
  PROVE  \E f : Solves(f, n, via, V, base, step)
<1> USE DEF Recursion
<1> DEFINE Obeys(f, m) == /\ f \in [0..m -> V]
                          /\ \A c \in 0..m : f[c] = IF c = 0 THEN base ELSE step[<<c, f[via[c]]>>]
           bad == {m \in 0..n : ~ \E f : Obeys(f, m)}
<1>1. SUFFICES ASSUME bad # {} PROVE FALSE
  <2>1. n \in 0..n
    OBVIOUS
  <2> QED BY <2>1 DEF Solves
<1>2. PICK m \in bad : \A y \in bad : m <= y
  <2>1. bad \subseteq 0..n
    OBVIOUS
  <2> HIDE DEF bad
  <2> QED BY <1>1, <2>1, LeastOfSet
<1>3. CASE m = 0
  <2>1. Obeys([c \in 0..0 |-> base], 0)
    OBVIOUS
  <2> QED BY <2>1, <1>2, <1>3
<1>4. CASE m # 0
  <2>1. m \in 1..n /\ m - 1 \in 0..n
    BY <1>2, <1>4
  <2>2. PICK f : Obeys(f, m - 1)
    BY <1>2, <2>1
  <2> DEFINE g == [c \in 0..m |-> IF c = m THEN step[<<m, f[via[m]]>>] ELSE f[c]]
  <2>3. \A c \in 0..m : via[c] \in 0..(m - 1) \/ c = 0
    BY <2>1
  <2>4. \A c \in 0..m : c # m => c \in 0..(m - 1)
    BY <2>1
  <2>5. step[<<m, f[via[m]]>>] \in V
    BY <2>1, <2>2, <2>3
  <2>6. g \in [0..m -> V]
    BY <2>2, <2>4, <2>5
  <2>7. \A c \in 0..m : c # m => g[c] = f[c]
    OBVIOUS
  <2>8. g[m] = step[<<m, f[via[m]]>>]
    BY <2>1
  <2>9. \A c \in 1..m : via[c] \in 0..m /\ via[c] # m
    BY <2>1, <2>3
  <2>10. ASSUME NEW c \in 0..m PROVE g[c] = IF c = 0 THEN base ELSE step[<<c, g[via[c]]>>]
    <3> HIDE DEF g
    <3>1. CASE c = m
      BY <3>1, <2>1, <2>7, <2>8, <2>9
    <3>2. CASE c = 0
      <4>1. 0 # m /\ 0 \in 0..(m - 1) /\ 0 \in 0..m
        BY <2>1
      <4>2. f[0] = base
        BY <4>1, <2>2
      <4> QED BY <3>2, <4>1, <4>2, <2>7
    <3>3. CASE c # m /\ c # 0
      <4>1. c \in 0..(m - 1) /\ c \in 1..m
        BY <3>3, <2>1
      <4>2. g[via[c]] = f[via[c]]
        BY <4>1, <2>7, <2>9
      <4>3. f[c] = step[<<c, f[via[c]]>>]
        BY <4>1, <2>2, <3>3
      <4> QED BY <3>3, <4>2, <4>3, <2>7
    <3> QED BY <3>1, <3>2, <3>3
  <2>11. Obeys(g, m)
    <3> HIDE DEF g
    <3> QED BY <2>6, <2>10
  <2> QED BY <2>11, <1>2
<1> QED BY <1>3, <1>4

---------------------------------------------------------------------------
(* A path names something, and ends in the name of the thing it is of. *)
Paths == Seq(Nat) \ {<< >>}

LEMMA PathIs ==
  \A k \in Things : /\ Path[k] \in Paths /\ Path[k][Len(Path[k])] = k
                    /\ Parent[k] = 0 => Path[k] = <<k>>
<1> DEFINE V == Seq(Nat)
           step == [x \in (1..N) \X V |-> Append(x[2], x[1])]
<1>1. N \in Nat /\ \A k \in 1..N : Parent[k] \in 0..(k - 1)
  BY TreeAssumption DEF Things, N
<1>2. step \in [(1..N) \X V -> V]
  <2>1. \A k \in 1..N : k \in Nat
    BY <1>1
  <2>2. \A s \in V, k \in Nat : Append(s, k) \in V
    BY AppendProperties
  <2> HIDE DEF V
  <2> QED BY <2>1, <2>2
<1>3. PICK f \in [0..N -> V] : \A c \in 0..N : f[c] = IF c = 0 THEN << >> ELSE step[<<c, f[Parent[c]]>>]
  <2>1. << >> \in V
    OBVIOUS
  <2> HIDE DEF V, step
  <2>2. Recursion(N, Parent, V, << >>, step)
    BY <1>1, <1>2, <2>1 DEF Recursion
  <2> QED BY <2>2, ChainRecursion DEF Solves
<1>4. \A k \in 1..N : f[k] = Append(f[Parent[k]], k) /\ f[0] = << >>
  <2> SUFFICES ASSUME NEW k \in 1..N PROVE f[k] = Append(f[Parent[k]], k) /\ f[0] = << >>
    OBVIOUS
  <2>1. k \in 0..N /\ k # 0 /\ 0 \in 0..N /\ Parent[k] \in 0..N
    BY <1>1
  <2>2. f[Parent[k]] \in V
    BY <1>3, <2>1
  <2> HIDE DEF V
  <2>3. step[<<k, f[Parent[k]]>>] = Append(f[Parent[k]], k)
    BY <2>2
  <2> QED BY <2>1, <2>3, <1>3
<1> DEFINE g == [k \in Things |-> f[k]]
<1>5. g = [k \in Things |-> IF Parent[k] = 0 THEN <<k>> ELSE Append(g[Parent[k]], k)]
  <2> SUFFICES ASSUME NEW k \in Things
      PROVE  f[k] = IF Parent[k] = 0 THEN <<k>> ELSE Append(g[Parent[k]], k)
    OBVIOUS
  <2>1. k \in 1..N
    BY DEF Things
  <2>2. CASE Parent[k] = 0
    <3>1. Append(<< >>, k) = <<k>>
      OBVIOUS
    <3> QED BY <2>1, <2>2, <3>1, <1>4
  <2>3. CASE Parent[k] # 0
    <3>1. Parent[k] \in Things
      BY <2>1, <2>3, <1>1 DEF Things
    <3> QED BY <2>1, <2>3, <3>1, <1>4
  <2> QED BY <2>2, <2>3
<1>6. Path = [k \in Things |-> IF Parent[k] = 0 THEN <<k>> ELSE Append(Path[Parent[k]], k)]
  <2> HIDE DEF g
  <2> QED BY <1>5, Zenon DEF Path
<1> DEFINE Fine(k) == Path[k] \in Paths /\ Path[k][Len(Path[k])] = k
           bad == {k \in Things : ~Fine(k)}
<1>7. bad = {}
  <2> SUFFICES ASSUME bad # {} PROVE FALSE
    OBVIOUS
  <2>1. PICK k \in bad : \A c \in bad : k <= c
    <3>1. bad \subseteq 0..N
      BY <1>1 DEF Things
    <3> HIDE DEF bad
    <3> QED BY <1>1, <3>1, LeastOfSet
  <2>2. k \in Things /\ k \in Nat /\ k \in 1..N
    BY <1>1 DEF Things
  <2>3. CASE Parent[k] = 0
    <3>1. Path[k] = <<k>>
      BY <1>6, <2>2, <2>3
    <3>2. <<k>> \in Seq(Nat) /\ <<k>> # << >> /\ Len(<<k>>) = 1 /\ <<k>>[1] = k
      BY <2>2
    <3> QED BY <3>1, <3>2 DEF Paths
  <2>4. CASE Parent[k] # 0
    <3>1. Path[k] = Append(Path[Parent[k]], k)
      BY <1>6, <2>2, <2>4
    <3>2. Parent[k] \in Things /\ Parent[k] < k /\ Parent[k] \in Nat
      <4>1. N \in Nat /\ Parent[k] \in 0..(k - 1)
        BY <1>1, <2>2
      <4> HIDE DEF g, step, V, bad, Fine
      <4> QED BY <4>1, <2>2, <2>4 DEF Things
    <3>3. Path[Parent[k]] \in Seq(Nat)
      BY <2>1, <3>2, <2>2 DEF Paths
    <3>0. PICK s \in Seq(Nat) : s = Path[Parent[k]]
      BY <3>3
    <3>4. /\ Append(s, k) \in Seq(Nat) /\ Append(s, k) # << >>
          /\ Len(Append(s, k)) = Len(s) + 1 /\ Append(s, k)[Len(s) + 1] = k
      <4>1. k \in Nat
        BY <2>2
      <4> QED BY <4>1, AppendProperties
    <3> QED BY <3>0, <3>1, <3>4 DEF Paths
  <2> QED BY <2>3, <2>4
<1> QED BY <1>6, <1>7

(* A thing listed. *)
Listed(k, s) == \E i \in 1..Len(s) : s[i] = k
Once(s) == \A i, c \in 1..Len(s) : s[i] = s[c] => i = c

LEMMA InOrderIs ==
  ASSUME NEW S \in SUBSET Things
  PROVE  InOrder(S) \in Seq(Things) /\ Once(InOrder(S)) /\ \A k : Listed(k, InOrder(S)) <=> k \in S
<1> DEFINE V == Seq(Things)
           via == [k \in 1..N |-> k - 1]
           step == [x \in (1..N) \X V |-> IF x[1] \in S THEN Append(x[2], x[1]) ELSE x[2]]
           upto == CHOOSE f : f = [k \in 0..N |-> IF k = 0 THEN << >>
                                    ELSE IF k \in S THEN Append(f[k - 1], k) ELSE f[k - 1]]
<1>1. N \in Nat /\ Things = 1..N
  BY TreeAssumption DEF Things, N
<1>2. step \in [(1..N) \X V -> V]
  <2>1. \A s \in V, k \in Things : Append(s, k) \in V
    BY AppendProperties
  <2> HIDE DEF V
  <2> QED BY <1>1, <2>1
<1>3. PICK f \in [0..N -> V] : \A c \in 0..N : f[c] = IF c = 0 THEN << >> ELSE step[<<c, f[via[c]]>>]
  <2>1. << >> \in V /\ \A k \in 1..N : via[k] \in 0..(k - 1)
    BY <1>1
  <2> HIDE DEF V, step, via
  <2>2. Recursion(N, via, V, << >>, step)
    BY <1>1, <1>2, <2>1 DEF Recursion
  <2> QED BY <2>2, ChainRecursion DEF Solves
<1>4. \A k \in 0..N : f[k] = IF k = 0 THEN << >> ELSE IF k \in S THEN Append(f[k - 1], k) ELSE f[k - 1]
  <2> SUFFICES ASSUME NEW k \in 0..N, k # 0
      PROVE  f[k] = IF k \in S THEN Append(f[k - 1], k) ELSE f[k - 1]
    BY <1>3
  <2>1. k \in 1..N /\ via[k] = k - 1 /\ k - 1 \in 0..N
    BY <1>1
  <2>2. f[k - 1] \in V
    BY <1>3, <2>1
  <2> HIDE DEF V
  <2>3. step[<<k, f[k - 1]>>] = IF k \in S THEN Append(f[k - 1], k) ELSE f[k - 1]
    BY <2>1, <2>2
  <2> QED BY <2>1, <2>3, <1>3
<1>5. f = [k \in 0..N |-> IF k = 0 THEN << >> ELSE IF k \in S THEN Append(f[k - 1], k) ELSE f[k - 1]]
  BY <1>4
<1>6. upto = [k \in 0..N |-> IF k = 0 THEN << >>
                             ELSE IF k \in S THEN Append(upto[k - 1], k) ELSE upto[k - 1]]
  BY <1>5, Zenon
<1>7. InOrder(S) = upto[N]
  BY DEF InOrder
<1> HIDE DEF upto
<1> DEFINE Fine(k) == /\ upto[k] \in Seq(Things) /\ Once(upto[k])
                      /\ \A i \in 1..Len(upto[k]) : upto[k][i] \in S /\ upto[k][i] <= k
                      /\ \A c \in S : c <= k => Listed(c, upto[k])
           bad == {k \in 0..N : ~Fine(k)}
<1>8. Fine(0)
  <2>1. upto[0] = << >>
    BY <1>1, <1>6
  <2>2. \A c \in S : ~(c <= 0)
    BY <1>1
  <2> QED BY <2>1, <2>2 DEF Once, Listed
<1>9. ASSUME NEW k \in 1..N, Fine(k - 1) PROVE Fine(k)
  <2>1. k \in 0..N /\ k # 0 /\ k \in Things /\ k \in Nat /\ k - 1 \in Nat
    BY <1>1
  <2>2. CASE k \in S
    <3>1. upto[k] = Append(upto[k - 1], k)
      BY <1>6, <2>1, <2>2
    <3> DEFINE s == upto[k - 1]
               t == upto[k]
    <3>2. /\ s \in Seq(Things) /\ Once(s) /\ \A i \in 1..Len(s) : s[i] \in S /\ s[i] <= k - 1
          /\ \A c \in S : c <= k - 1 => Listed(c, s)
      BY <1>9
    <3>3. /\ t \in Seq(Things) /\ Len(t) = Len(s) + 1 /\ \A i \in 1..Len(s) : t[i] = s[i]
          /\ t[Len(s) + 1] = k /\ Len(s) \in Nat
      BY <2>1, <3>1, <3>2, AppendProperties, LenProperties
    <3> HIDE DEF s, t
    <3>4. \A i \in 1..Len(t) : i \in 1..Len(s) \/ i = Len(s) + 1
      BY <3>3
    <3>5. \A i \in 1..Len(s) : s[i] \in Int /\ s[i] # k
      BY <1>1, <2>1, <3>2
    <3>6. Once(t)
      BY <3>2, <3>3, <3>4, <3>5 DEF Once
    <3>7. \A i \in 1..Len(t) : t[i] \in S /\ t[i] <= k
      BY <2>1, <2>2, <3>2, <3>3, <3>4, <3>5
    <3>8. \A c \in S : c <= k => c <= k - 1 \/ c = k
      BY <1>1, <2>1
    <3>9. \A c \in S : c <= k => Listed(c, t)
      BY <3>2, <3>3, <3>8 DEF Listed
    <3> QED BY <3>3, <3>6, <3>7, <3>9 DEF t
  <2>3. CASE k \notin S
    <3>1. upto[k] = upto[k - 1]
      BY <1>6, <2>1, <2>3
    <3>2. \A c \in S : c <= k => c <= k - 1
      BY <1>1, <2>1, <2>3
    <3>3. \A i \in 1..Len(upto[k - 1]) : upto[k - 1][i] \in Int
      <4>1. \A i \in 1..Len(upto[k - 1]) : upto[k - 1][i] \in S
        BY <1>9
      <4>2. \A x \in S : x \in Int
        BY <1>1
      <4> HIDE DEF upto
      <4> QED BY <4>1, <4>2
    <3> QED BY <1>9, <2>1, <3>1, <3>2, <3>3
  <2> QED BY <2>2, <2>3
<1> HIDE DEF Fine
<1>10. bad = {}
  <2> SUFFICES ASSUME bad # {} PROVE FALSE
    OBVIOUS
  <2>1. PICK k \in bad : \A c \in bad : k <= c
    <3>1. bad \subseteq 0..N
      OBVIOUS
    <3> HIDE DEF bad
    <3> QED BY <1>1, <3>1, LeastOfSet
  <2>2. k \in 1..N /\ k - 1 \in 0..N /\ ~(k <= k - 1)
    BY <1>1, <1>8, <2>1
  <2> QED BY <1>9, <2>1, <2>2
<1>11. Fine(N) /\ \A c \in S : c <= N
  BY <1>1, <1>10
<1> QED BY <1>7, <1>11 DEF Fine, Listed

LEMMA TopsAre == Tops \in Seq(Things) /\ Once(Tops) /\ \A k : Listed(k, Tops) <=> k \in Things /\ Parent[k] = 0
<1>1. {k \in Things : Parent[k] = 0} \in SUBSET Things
  OBVIOUS
<1> QED BY <1>1, InOrderIs DEF Tops

LEMMA OrderIs == Order \in Seq(Things) /\ Once(Order) /\ \A k : Listed(k, Order) <=> k \in Things
<1>1. N \in Nat /\ Things = 1..N
  BY TreeAssumption DEF Things, N
<1> QED BY <1>1 DEF Order, Once, Listed

LEMMA ReverseIs ==
  ASSUME NEW S, NEW s \in Seq(S)
  PROVE  Reverse(s) \in Seq(S) /\ \A k : Listed(k, Reverse(s)) <=> Listed(k, s)
<1>1. Len(s) \in Nat /\ \A i \in 1..Len(s) : s[i] \in S
  BY ElementOfSeq, LenProperties
<1>2. \A i \in 1..Len(s) : (Len(s) - i) + 1 \in 1..Len(s) /\ Len(s) - ((Len(s) - i) + 1) + 1 = i
  BY <1>1
<1>3. Reverse(s) = [i \in 1..Len(s) |-> s[(Len(s) - i) + 1]]
  BY DEF Reverse
<1>4. Reverse(s) \in Seq(S) /\ Len(Reverse(s)) = Len(s)
  BY <1>1, <1>2, <1>3
<1>5. \A i \in 1..Len(s) : Reverse(s)[i] = s[(Len(s) - i) + 1]
  BY <1>3
<1>6. \A i \in 1..Len(s) : Reverse(s)[(Len(s) - i) + 1] = s[i]
  BY <1>1, <1>2, <1>5
<1> QED BY <1>1, <1>2, <1>4, <1>5, <1>6 DEF Listed

LEMMA TailIs ==
  ASSUME NEW S, NEW s \in Seq(S), s # << >>
  PROVE  /\ Head(s) \in S /\ Listed(Head(s), s) /\ Tail(s) \in Seq(S)
         /\ \A k : Listed(k, s) <=> k = Head(s) \/ Listed(k, Tail(s))
         /\ Once(s) => Once(Tail(s)) /\ ~Listed(Head(s), Tail(s))
<1>1. Len(s) \in Nat \ {0} /\ Head(s) = s[1]
  BY EmptySeq
<1>2. /\ Head(s) \in S /\ Tail(s) \in Seq(S) /\ Len(Tail(s)) = Len(s) - 1
      /\ \A i \in 1..Len(Tail(s)) : Tail(s)[i] = s[i + 1]
  BY HeadTailProperties
<1>3. \A i \in 1..Len(s) : i = 1 \/ i - 1 \in 1..Len(Tail(s))
  BY <1>1, <1>2
<1>4. \A i \in 1..Len(Tail(s)) : i + 1 \in 1..Len(s) /\ i + 1 # 1
  BY <1>1, <1>2
<1>5. \A i \in 1..Len(s) : i # 1 => s[i] = Tail(s)[i - 1]
  BY <1>1, <1>2, <1>3
<1>6. 1 \in 1..Len(s)
  BY <1>1
<1>7. \A k : Listed(k, s) <=> k = Head(s) \/ Listed(k, Tail(s))
  BY <1>1, <1>2, <1>3, <1>4, <1>5, <1>6 DEF Listed
<1>8. Once(s) => Once(Tail(s))
  <2> SUFFICES ASSUME Once(s), NEW i \in 1..Len(Tail(s)), NEW c \in 1..Len(Tail(s)), Tail(s)[i] = Tail(s)[c]
      PROVE  i = c
    BY DEF Once
  <2>1. i + 1 \in 1..Len(s) /\ c + 1 \in 1..Len(s) /\ s[i + 1] = s[c + 1]
    BY <1>2, <1>4
  <2>2. i + 1 = c + 1
    BY <2>1 DEF Once
  <2> QED BY <2>2, <1>1, <1>2
<1>9. Once(s) => ~Listed(Head(s), Tail(s))
  BY <1>1, <1>2, <1>4, <1>6 DEF Once, Listed
<1> QED BY <1>2, <1>7, <1>8, <1>9

(* A thing is under itself, and under one thing at the top only. *)
LEMMA UnderIs ==
  /\ \A k \in Things : k \in Under(k) /\ Under(k) \subseteq Things
  /\ \A k, h \in Things : Parent[k] = 0 /\ Parent[h] = 0 /\ k # h => Under(k) \cap Under(h) = {}
<1>1. ASSUME NEW k \in Things PROVE k \in Under(k) /\ Under(k) \subseteq Things
  <2>1. Path[k] \in Seq(Nat)
    BY PathIs DEF Paths
  <2>2. Len(Path[k]) <= Len(Path[k])
    BY <2>1, LenProperties
  <2> QED BY <2>2 DEF Under, IsPrefix
<1>2. ASSUME NEW k \in Things, Parent[k] = 0, NEW c \in Under(k) PROVE Path[c][1] = k
  <2>1. c \in Things /\ IsPrefix(<<k>>, Path[c])
    BY <1>2, PathIs DEF Under
  <2>2. SubSeq(<<k>>, 1, 1) = SubSeq(Path[c], 1, 1) /\ 1 <= Len(Path[c])
    BY <2>1 DEF IsPrefix
  <2>3. Path[c] \in Seq(Nat) /\ k \in Nat
    BY <2>1, PathIs, ThingsCounted DEF Paths
  <2>4. PICK s \in Seq(Nat) : s = Path[c]
    BY <2>3
  <2>5. 1 \in 1..Len(s) /\ \A i \in 1..1 : s[i] \in Nat
    BY <2>2, <2>3, <2>4, LenProperties
  <2>6. SubSeq(s, 1, 1)[1] = s[1] /\ SubSeq(<<k>>, 1, 1)[1] = k
    BY <2>3, <2>4, <2>5
  <2> QED BY <2>2, <2>4, <2>6
<1> QED BY <1>1, <1>2

(* A name that is beside another is as long, and ends N higher. *)
LEMMA BesideIs ==
  ASSUME NEW p \in Paths
  PROVE  /\ Beside(p) \in Paths /\ Len(Beside(p)) = Len(p)
         /\ Beside(p)[Len(p)] = p[Len(p)] + N
<1>1. N \in Nat
  BY TreeAssumption DEF N
<1>2. p \in Seq(Nat) /\ Len(p) \in Nat \ {0} /\ \A i \in 1..Len(p) : p[i] \in Nat
  BY EmptySeq, ElementOfSeq DEF Paths
<1>3. p[Len(p)] + N \in Nat
  BY <1>1, <1>2
<1> DEFINE front == SubSeq(p, 1, Len(p) - 1)
<1>4. front \in Seq(Nat) /\ Len(front) = Len(p) - 1
  <2>0. \A i \in 1..(Len(p) - 1) : i \in 1..Len(p)
    BY <1>2
  <2>1. /\ 1 \in Int /\ Len(p) - 1 \in Int
        /\ \A i \in 1..(Len(p) - 1) : p[i] \in Nat
    BY <1>2, <2>0
  <2>2. front \in Seq(Nat)
    BY <2>1, SubSeqProperties
  <2>3. Len(front) = IF 1 <= Len(p) - 1 THEN (Len(p) - 1) - 1 + 1 ELSE 0
    BY <2>1, SubSeqProperties
  <2> HIDE DEF front
  <2>4. PICK n \in Nat : n = Len(front)
    BY <2>2, LenProperties
  <2>5. n = IF 1 <= Len(p) - 1 THEN (Len(p) - 1) - 1 + 1 ELSE 0
    BY <2>3, <2>4
  <2>6. n = Len(p) - 1
    <3>1. PICK m \in Nat \ {0} : m = Len(p)
      BY <1>2
    <3>2. n = IF 1 <= m - 1 THEN (m - 1) - 1 + 1 ELSE 0
      BY <2>5, <3>1
    <3>3. n = m - 1
      BY <3>1, <3>2
    <3> QED BY <3>1, <3>3
  <2> QED BY <2>2, <2>4, <2>6
<1> HIDE DEF front
<1>5. Beside(p) = Append(front, p[Len(p)] + N)
  BY DEF Beside, Front, Last, front
<1>6. Len(front) + 1 = Len(p)
  BY <1>2, <1>4
<1> QED BY <1>3, <1>4, <1>5, <1>6, AppendProperties DEF Paths
---------------------------------------------------------------------------
(* A move by itself.  A thing goes to a name that is its own, its number or its
   number and N, so that a name made or given up for one is no other's.       *)
Named(p, k) == p[Len(p)] \in {k, k + N}
Placed(j, k) == \E p \in DOMAIN dst : Named(p, k) /\ Whole(dst[p], j, k)

(* What is still to be done, each thing once, and the name it is done to. *)
Copying == {"look", "ask", "make", "write", "tidy"}
ToDo(u) ==
  /\ u.todo \in Seq(Things) /\ Once(u.todo)
  /\ u.pc # "look" =>
       /\ u.todo # << >> /\ u.to \in Paths /\ Named(u.to, Head(u.todo))
       /\ u.pc = "ask" => u.to[Len(u.to)] = Head(u.todo)
       /\ u.renames => Len(u.to) = 1
       /\ u.pc = "write" => ~u.renames

(* A directory put beside another is one that is done with. *)
Aside(u) ==
  /\ u.renames => u.moved = {}
  /\ \A m \in u.moved : /\ m[1] \in Paths /\ m[2] \in Paths
                        /\ u.pc \in Copying => ~Listed(m[1][Len(m[1])], u.todo)
Counts(u) == u.skipped \in Nat /\ u.before \in 0..u.skipped

(* What was copied, when nothing was left alone. *)
Copied(j, u, left) ==
  /\ u.plan \in Seq(Things)
  /\ \/ u.skipped > u.before
     \/ \A k \in Things \ Dirs : Listed(k, u.plan) => Listed(k, left) \/ Placed(j, k)

(* What is to be done is where it was found, and all that is inside it. *)
StillThere(j, u) ==
  \A k \in Things : Listed(k, u.todo) =>
    IF u.renames THEN Parent[k] = 0 /\ Under(k) \subseteq src[j] ELSE k \in src[j]

Moving(j, u) ==
  /\ Counts(u) /\ Aside(u)
  /\ u.pc = "plan" => src[j] = Things /\ u.moved = {}
  /\ u.pc \in Copying => ToDo(u) /\ StillThere(j, u) /\ (u.renames \/ Copied(j, u, u.todo))
  /\ u.pc = "narrow" /\ u.err = "" => Copied(j, u, << >>)
  /\ u.pc = "remove" => /\ u.todo \in Seq(Things)
                        /\ \A k \in Things \ Dirs : Listed(k, u.todo) => Placed(j, k)
GonePlaced(j) == \A k \in Things \ Dirs : k \notin src[j] => Placed(j, k)

MoveKept(j) ==
  /\ job[j].pc = "tidy" => job[j].err # ""
  /\ job[j].kind = "move" => Moving(j, job[j]) /\ GonePlaced(j)

(* What is at the names that are not h's stays there. *)
OthersStay(h) ==
  /\ \A p \in DOMAIN dst : ~Named(p, h) => p \in DOMAIN dst' /\ dst'[p] = dst[p]
  /\ \A p \in DOMAIN dst : NewFile(dst[p]) => data'[dst[p]] = data[dst[p]]

LEMMA NotNamed == \A k, h \in Things : \A p : Named(p, k) /\ Named(p, h) => k = h
<1>1. N \in Nat /\ \A k \in Things : k \in 1..N
  BY TreeAssumption DEF Things, N
<1> QED BY <1>1 DEF Named

LEMMA StaysPlaced ==
  ASSUME NEW j, NEW h \in Things, OthersStay(h), NEW k \in Things, k # h, Placed(j, k)
  PROVE  Placed(j, k)'
<1>1. PICK p \in DOMAIN dst : Named(p, k) /\ Whole(dst[p], j, k)
  BY DEF Placed
<1>2. ~Named(p, h)
  BY <1>1, NotNamed
<1>3. p \in DOMAIN dst' /\ dst'[p] = dst[p] /\ (NewFile(dst[p]) => data'[dst[p]] = data[dst[p]])
  BY <1>2 DEF OthersStay
<1>4. Whole(dst[p], j, k)'
  BY <1>1, <1>3 DEF Whole, NewFile, Original, Made
<1> QED BY <1>1, <1>3, <1>4 DEF Placed, Named

(* What nobody touched stays. *)
LEMMA AllStay ==
  ASSUME NEW j, dst' = dst, \A p \in DOMAIN dst : NewFile(dst[p]) => data'[dst[p]] = data[dst[p]]
  PROVE  \A k : Placed(j, k) => Placed(j, k)'
<1> SUFFICES ASSUME NEW k, Placed(j, k) PROVE Placed(j, k)'
  OBVIOUS
<1>1. PICK p \in DOMAIN dst : Named(p, k) /\ Whole(dst[p], j, k)
  BY DEF Placed
<1>2. Whole(dst[p], j, k)'
  BY <1>1 DEF Whole, NewFile, Original, Made
<1> QED BY <1>1, <1>2 DEF Placed, Named
---------------------------------------------------------------------------
(* The work stops. *)
Unmoved(j, v) ==
  /\ v.kind = job[j].kind /\ v.renames = job[j].renames /\ v.moved = job[j].moved
  /\ v.skipped = job[j].skipped /\ v.before = job[j].before

LEMMA Becoming == ASSUME Typed, NEW j \in Jobs, NEW v, Becomes(j, v) PROVE job'[j] = v
BY DEF Becomes, Typed, Works

LEMMA MoveStops ==
  ASSUME NEW j \in Jobs, Typed, MoveKept(j), NEW v, Becomes(j, v), Unmoved(j, v),
         v.pc = "end" \/ (v.pc = "narrow" /\ v.err # ""), UNCHANGED <<src, dst, data>>
  PROVE  MoveKept(j)'
<1> SUFFICES ASSUME job[j].kind = "move" PROVE MoveKept(j)'
  BY Becoming DEF MoveKept, Unmoved
<1>1. job'[j] = v
  BY Becoming
<1>2. Moving(j, job[j]) /\ GonePlaced(j)
  BY DEF MoveKept
<1>3. Counts(v) /\ Aside(v)
  BY <1>2 DEF Moving, Counts, Aside, Copying, Unmoved
<1>4. GonePlaced(j)'
  BY <1>2, AllStay DEF GonePlaced
<1> QED BY <1>1, <1>3, <1>4 DEF MoveKept, Moving, Copying

(* The work goes on with nothing of this changed. *)
LEMMA MoveSame ==
  ASSUME NEW j \in Jobs, Typed, MoveKept(j), NEW v, Becomes(j, v), Unmoved(j, v),
         v.pc = job[j].pc, v.err = job[j].err, v.todo = job[j].todo, v.plan = job[j].plan,
         v.to = job[j].to, UNCHANGED <<src, dst, data>>
  PROVE  MoveKept(j)'
<1> SUFFICES ASSUME job[j].kind = "move" PROVE MoveKept(j)'
  BY Becoming DEF MoveKept, Unmoved
<1>1. job'[j] = v
  BY Becoming
<1>2. Moving(j, job[j]) /\ GonePlaced(j)
  BY DEF MoveKept
<1>3. Counts(v) /\ Aside(v)
  BY <1>2 DEF Moving, Counts, Aside, Copying, Unmoved
<1>4. \A k : Placed(j, k) => Placed(j, k)'
  BY AllStay
<1>5. GonePlaced(j)'
  BY <1>2, <1>4 DEF GonePlaced
<1>6. v.pc \in Copying => ToDo(v) /\ StillThere(j, v)'
  BY <1>2 DEF Moving, ToDo, StillThere, Unmoved
<1>7. \A left : Copied(j, job[j], left) => Copied(j, v, left)'
  BY <1>4 DEF Copied, Unmoved
<1>8. Moving(j, v)'
  BY <1>2, <1>3, <1>4, <1>6, <1>7 DEF Moving, Unmoved
<1> QED BY <1>1, <1>5, <1>8 DEF MoveKept

(* The work stays at what it has in hand. *)
LEMMA StaysAtHand ==
  ASSUME NEW j \in Jobs, Typed, MoveKept(j), NEW v, Becomes(j, v), Unmoved(j, v),
         job[j].pc \in Copying, v.pc \in Copying \ {"look"}, v.pc = "tidy" => v.err # "",
         v.todo = job[j].todo, v.plan = job[j].plan,
         v.todo # << >>, v.to \in Paths, Named(v.to, Head(v.todo)),
         v.pc = "ask" => v.to[Len(v.to)] = Head(v.todo), v.renames => Len(v.to) = 1,
         v.pc = "write" => ~v.renames,
         src' = src, OthersStay(Hand(j))
  PROVE  MoveKept(j)'
<1> SUFFICES ASSUME job[j].kind = "move" PROVE MoveKept(j)'
  BY Becoming DEF MoveKept, Unmoved
<1>1. job'[j] = v
  BY Becoming
<1>2. Moving(j, job[j]) /\ GonePlaced(j) /\ ToDo(job[j]) /\ StillThere(j, job[j])
      /\ (job[j].renames \/ Copied(j, job[j], job[j].todo))
  BY DEF MoveKept, Moving
<1>3. Counts(v) /\ Aside(v)
  BY <1>2 DEF Moving, Counts, Aside, Copying, Unmoved
<1>4. Hand(j) \in Things /\ Listed(Hand(j), job[j].todo)
  BY <1>2, TailIs DEF ToDo, Hand
<1>5. \A k \in Things : k # Hand(j) /\ Placed(j, k) => Placed(j, k)'
  BY <1>4, StaysPlaced
<1>6. Hand(j) \in src[j]
  BY <1>2, <1>4, UnderIs DEF StillThere
<1>7. GonePlaced(j)'
  BY <1>2, <1>5, <1>6 DEF GonePlaced
<1>8. ToDo(v) /\ StillThere(j, v)'
  BY <1>2 DEF ToDo, StillThere, Unmoved
<1>9. v.renames \/ Copied(j, v, v.todo)'
  BY <1>2, <1>4, <1>5 DEF Copied, Unmoved
<1>10. Moving(j, v)'
  BY <1>3, <1>8, <1>9 DEF Moving, Copying
<1> QED BY <1>1, <1>7, <1>10 DEF MoveKept

(* What is in hand is done with, or left alone and counted. *)
LEMMA GoesToNext ==
  ASSUME NEW j \in Jobs, Typed, MoveKept(j), NEW h, h = Hand(j), NEW v, Becomes(j, v),
         v.kind = job[j].kind, v.renames = job[j].renames, v.before = job[j].before,
         job[j].pc \in Copying, v.pc = "look", v.plan = job[j].plan,
         job[j].todo # << >>, v.todo = Tail(job[j].todo),
         v.renames => v.moved = {},
         \A m \in v.moved : m \in job[j].moved
                            \/ (m[1] \in Paths /\ m[2] \in Paths /\ m[1][Len(m[1])] = h),
         \/ v.skipped = job[j].skipped + 1
         \/ v.skipped = job[j].skipped /\ (h \in Dirs \/ Placed(j, h)'),
         src' = src, OthersStay(h)
  PROVE  MoveKept(j)'
<1> SUFFICES ASSUME job[j].kind = "move" PROVE MoveKept(j)'
  BY Becoming DEF MoveKept
<1>1. job'[j] = v
  BY Becoming
<1>2. Moving(j, job[j]) /\ GonePlaced(j) /\ ToDo(job[j]) /\ StillThere(j, job[j])
      /\ (job[j].renames \/ Copied(j, job[j], job[j].todo))
  BY DEF MoveKept, Moving
<1>3. /\ h \in Things /\ Listed(h, job[j].todo) /\ v.todo \in Seq(Things)
      /\ \A k : Listed(k, job[j].todo) <=> k = h \/ Listed(k, v.todo)
      /\ Once(v.todo) /\ ~Listed(h, v.todo)
  BY <1>2, TailIs DEF ToDo, Hand
<1>4. v.skipped \in Nat /\ v.skipped >= job[j].skipped /\ job[j].skipped \in Nat
      /\ job[j].before \in 0..job[j].skipped
  <2>1. job[j].skipped \in Nat /\ job[j].before \in 0..job[j].skipped
    BY <1>2 DEF Moving, Counts
  <2>2. v.skipped = job[j].skipped + 1 \/ v.skipped = job[j].skipped
    OBVIOUS
  <2> QED BY <2>1, <2>2
<1>5. Counts(v)
  BY <1>4 DEF Counts
<1>6. Aside(v)
  BY <1>2, <1>3 DEF Moving, Aside
<1>7. \A k \in Things : k # h /\ Placed(j, k) => Placed(j, k)'
  BY <1>3, StaysPlaced
<1>8. h \in src[j]
  BY <1>2, <1>3, UnderIs DEF StillThere
<1>9. GonePlaced(j)'
  BY <1>2, <1>7, <1>8 DEF GonePlaced
<1>10. ToDo(v) /\ StillThere(j, v)'
  BY <1>2, <1>3 DEF ToDo, StillThere
<1>11. v.renames \/ Copied(j, v, v.todo)'
  <2> SUFFICES ASSUME ~v.renames PROVE Copied(j, v, v.todo)'
    OBVIOUS
  <2>1. Copied(j, job[j], job[j].todo)
    BY <1>2
  <2>2. CASE v.skipped > job[j].before
    BY <2>1, <2>2 DEF Copied
  <2>3. CASE ~(v.skipped > job[j].before)
    <3>1. /\ ~(job[j].skipped > job[j].before) /\ v.skipped = job[j].skipped
          /\ h \in Dirs \/ Placed(j, h)'
      BY <1>4, <2>3
    <3>2. \A k \in Things \ Dirs : Listed(k, job[j].plan) => Listed(k, v.todo) \/ Placed(j, k)'
      BY <1>3, <1>7, <2>1, <3>1 DEF Copied
    <3> QED BY <2>1, <3>2 DEF Copied
  <2> QED BY <2>2, <2>3
<1>12. Moving(j, v)'
  BY <1>5, <1>6, <1>10, <1>11 DEF Moving, Copying
<1> QED BY <1>1, <1>9, <1>12 DEF MoveKept
---------------------------------------------------------------------------
(* A path put behind another, from a point before its end, ends as it did. *)
LEMMA PutBehind ==
  ASSUME NEW p \in Paths, NEW q \in Paths, NEW c \in Nat \ {0}, c <= Len(q),
         NEW r, r = p \o SubSeq(q, c, Len(q))
  PROVE  r \in Paths /\ r[Len(r)] = q[Len(q)]
<1>1. PICK m \in Nat \ {0} : m = Len(q)
  BY EmptySeq DEF Paths
<1>2. q \in Seq(Nat) /\ p \in Seq(Nat) /\ Len(p) \in Nat \ {0} /\ \A i \in 1..m : q[i] \in Nat
  BY <1>1, EmptySeq, ElementOfSeq DEF Paths
<1>3. c \in Int /\ m \in Int /\ c <= m /\ \A i \in c..m : i \in 1..m
  BY <1>1
<1>4. \A i \in c..m : q[i] \in Nat
  BY <1>2, <1>3
<1>5. PICK t : t = SubSeq(q, c, m)
  OBVIOUS
<1>6. t \in Seq(Nat)
  BY <1>3, <1>4, <1>5, SubSeqProperties
<1>7. Len(t) = IF c <= m THEN m - c + 1 ELSE 0
  BY <1>3, <1>4, <1>5, SubSeqProperties
<1>8. \A i \in 1..(m - c + 1) : t[i] = q[c + i - 1]
  BY <1>3, <1>4, <1>5, SubSeqProperties
<1>9. Len(t) = m - c + 1 /\ m - c + 1 \in Nat \ {0}
  <2>1. Len(t) = m - c + 1
    BY <1>3, <1>7
  <2> QED BY <1>1, <1>3, <2>1
<1>10. t[m - c + 1] = q[m]
  <2>1. m - c + 1 \in 1..(m - c + 1) /\ c + (m - c + 1) - 1 = m
    BY <1>1, <1>3
  <2>2. t[m - c + 1] = q[c + (m - c + 1) - 1]
    BY <1>8, <2>1
  <2> QED BY <2>1, <2>2
<1>11. /\ p \o t \in Seq(Nat) /\ Len(p \o t) = Len(p) + Len(t)
       /\ \A i \in 1 .. Len(p) + Len(t) : (p \o t)[i] = IF i <= Len(p) THEN p[i] ELSE t[i - Len(p)]
  BY <1>2, <1>6, ConcatProperties
<1>12. r = p \o t
  BY <1>1, <1>5
<1>13. /\ r \in Seq(Nat) /\ Len(r) = Len(p) + (m - c + 1)
       /\ \A i \in 1 .. Len(p) + (m - c + 1) : r[i] = IF i <= Len(p) THEN p[i] ELSE t[i - Len(p)]
  BY <1>9, <1>11, <1>12
<1>14. r # << >> /\ r[Len(r)] = t[m - c + 1]
  <2>1. PICK l \in Nat \ {0} : l = Len(p)
    BY <1>2
  <2>2. /\ Len(r) = l + (m - c + 1) /\ l + (m - c + 1) \in 1..(l + (m - c + 1)) /\ ~(l + (m - c + 1) <= l)
        /\ (l + (m - c + 1)) - l = m - c + 1
    BY <1>9, <1>13, <2>1
  <2>3. r[l + (m - c + 1)] = t[m - c + 1]
    BY <1>13, <2>1, <2>2
  <2>4. Len(r) # 0
    BY <1>9, <2>1, <2>2
  <2> QED BY <2>2, <2>3, <2>4, EmptySeq
<1> QED BY <1>1, <1>10, <1>13, <1>14 DEF Paths

(* What is beginning of a path and ends otherwise is shorter. *)
LEMMA PrefixShorter ==
  ASSUME NEW p \in Paths, NEW q \in Paths, IsPrefix(p, q), p[Len(p)] # q[Len(q)]
  PROVE  Len(p) \in Nat /\ Len(p) < Len(q)
<1>1. PICK l \in Nat \ {0} : l = Len(p)
  BY EmptySeq DEF Paths
<1>2. PICK m \in Nat \ {0} : m = Len(q)
  BY EmptySeq DEF Paths
<1>3. l <= m /\ SubSeq(p, 1, l) = SubSeq(q, 1, l)
  BY <1>1, <1>2 DEF IsPrefix
<1>4. SUFFICES ASSUME l = m PROVE FALSE
  BY <1>1, <1>2, <1>3
<1>5. p \in Seq(Nat) /\ q \in Seq(Nat)
  BY DEF Paths
<1>6. SubSeq(p, 1, l) = p /\ SubSeq(q, 1, l) = q
  BY <1>1, <1>2, <1>4, <1>5, SubSeqFull
<1> QED BY <1>1, <1>2, <1>3, <1>4, <1>6

LEMMA WantedIs ==
  ASSUME NEW j, Moving(j, job[j]), job[j].pc \in Copying, job[j].todo # << >>
  PROVE  /\ Hand(j) \in Things /\ Wanted(j) \in Paths /\ Wanted(j)[Len(Wanted(j))] = Hand(j)
         /\ job[j].renames => Len(Wanted(j)) = 1
<1>1. Hand(j) \in Things /\ Listed(Hand(j), job[j].todo) /\ Aside(job[j]) /\ StillThere(j, job[j])
  BY TailIs DEF Moving, ToDo, Hand
<1>2. PICK p : p = Path[Hand(j)]
  OBVIOUS
<1>3. p \in Paths /\ p[Len(p)] = Hand(j)
  BY <1>1, <1>2, PathIs
<1>4. CASE job[j].renames
  <2>1. p = <<Hand(j)>>
    BY <1>1, <1>2, <1>4, PathIs DEF StillThere
  <2> QED BY <1>1, <1>2, <1>3, <1>4, <2>1 DEF Wanted
<1>5. CASE ~job[j].renames
  <2> DEFINE onto == {x \in job[j].moved : IsPrefix(x[1], p)}
             m == CHOOSE x \in onto : TRUE
  <2>1. Wanted(j) = IF onto = {} THEN p ELSE m[2] \o SubSeq(p, Len(m[1]) + 1, Len(p))
    BY <1>2, <1>5 DEF Wanted, Rewritten
  <2>2. CASE onto = {}
    BY <1>1, <1>3, <1>5, <2>1, <2>2
  <2>3. CASE onto # {}
    <3>1. m \in onto
      BY <2>3
    <3> HIDE DEF m
    <3>2. /\ m[1] \in Paths /\ m[2] \in Paths /\ IsPrefix(m[1], p)
          /\ ~Listed(m[1][Len(m[1])], job[j].todo)
      BY <1>1, <3>1 DEF Aside
    <3>3. Len(m[1]) \in Nat /\ Len(m[1]) < Len(p)
      BY <1>1, <1>3, <3>2, PrefixShorter
    <3>4. Wanted(j) = m[2] \o SubSeq(p, Len(m[1]) + 1, Len(p))
      BY <2>1, <2>3
    <3>5. PICK q \in Paths, c \in Nat \ {0} : q = m[2] /\ c = Len(m[1]) + 1
      BY <3>2, <3>3
    <3>6. c <= Len(p)
      <4>1. PICK n \in Nat : n = Len(p)
        BY <1>3, LenProperties DEF Paths
      <4> QED BY <3>3, <3>5, <4>1
    <3>7. PICK w : w = Wanted(j)
      OBVIOUS
    <3>8. w = q \o SubSeq(p, c, Len(p))
      BY <3>4, <3>5, <3>7
    <3>9. w \in Paths /\ w[Len(w)] = p[Len(p)]
      <4>1. c \in Nat \ {0} /\ q \in Paths /\ p \in Paths
        BY <1>3, <3>5
      <4>2. w \in Paths
        BY <3>6, <3>8, <4>1, PutBehind
      <4>3. w[Len(w)] = p[Len(p)]
        BY <3>6, <3>8, <4>1, PutBehind
      <4> QED BY <4>2, <4>3
    <3> QED BY <1>1, <1>3, <1>5, <3>7, <3>9
  <2> QED BY <2>2, <2>3
<1> QED BY <1>4, <1>5
---------------------------------------------------------------------------
(* The steps that stop the work. *)
LEMMA MoveFails ==
  ASSUME NEW j \in Jobs, Typed, MoveKept(j),
         \/ PlanFails(j) \/ LookFails(j) \/ AnswerFails(j) \/ MakeFails(j) \/ MakeRefused(j)
         \/ NarrowFails(j) \/ RemoveFails(j) \/ RemoveDone(j) \/ Tidies(j) \/ TidyFails(j)
  PROVE  MoveKept(j)'
<1>0. DOMAIN job[j] = Fields
  BY DEF Typed, Works, WorkType
<1> DEFINE Stop(v) == Unmoved(j, v) /\ (v.pc = "end" \/ (v.pc = "narrow" /\ v.err # ""))
<1>1. UNCHANGED <<src, dst, data>>
  BY DEF PlanFails, LookFails, AnswerFails, MakeFails, MakeRefused, NarrowFails, RemoveFails,
         RemoveDone, Tidies, TidyFails
<1>2. \A why : why # "" => /\ Stop(Ended(job[j], why))
                           /\ Stop([Ended(job[j], why) EXCEPT !.trouble = TRUE])
  BY <1>0 DEF Ended, Unmoved, Fields
<1>3. \A why : Stop([job[j] EXCEPT !.err = why, !.pc = "end"]) /\ Stop([job[j] EXCEPT !.pc = "end"])
  BY <1>0 DEF Unmoved, Fields
<1>4. \A p, why : Stop([job[j] EXCEPT !.made = {p}, !.trouble = TRUE, !.pc = "end", !.err = why])
  BY <1>0 DEF Unmoved, Fields
<1> HIDE DEF Stop
<1>5. SUFFICES \E v : Becomes(j, v) /\ Stop(v)
  BY <1>1, MoveStops DEF Stop
<1>6. CASE LookFails(j) \/ AnswerFails(j) \/ MakeFails(j) \/ MakeRefused(j)
  <2>1. "failed" # "" /\ "canceled" # ""
    OBVIOUS
  <2>2. PICK why : why # "" /\ Becomes(j, Ended(job[j], why))
    BY <1>6, <2>1, Zenon DEF LookFails, AnswerFails, MakeFails, MakeRefused
  <2> QED BY <1>2, <2>2
<1>7. CASE Tidies(j) \/ TidyFails(j)
  <2>1. job[j].err # ""
    BY <1>7 DEF Tidies, TidyFails, Is, MoveKept
  <2> QED BY <1>2, <1>7, <2>1, Zenon DEF Tidies, TidyFails
<1>8. CASE PlanFails(j) \/ RemoveFails(j) \/ RemoveDone(j)
  BY <1>3, <1>8, Zenon DEF PlanFails, RemoveFails, RemoveDone
<1>9. CASE NarrowFails(j)
  BY <1>4, <1>9, Zenon DEF NarrowFails
<1> QED BY <1>6, <1>7, <1>8, <1>9

(* What becomes of the copy: nothing was left alone, so what was planned is there. *)
LEMMA Narrowed == ASSUME NEW j \in Jobs, Typed, MoveKept(j), Narrows(j) PROVE MoveKept(j)'
<1>0. DOMAIN job[j] = Fields /\ job[j].pc = "narrow"
  BY DEF Typed, Works, WorkType, Narrows, Is
<1>1. UNCHANGED <<src, dst, data>> /\ Becomes(j, AfterCopy(j, [job[j] EXCEPT !.made = {}]))
  BY DEF Narrows
<1> DEFINE u == [job[j] EXCEPT !.made = {}]
           w == AfterCopy(j, u)
<1>2. /\ Unmoved(j, u) /\ u.err = job[j].err /\ u.plan = job[j].plan /\ DOMAIN u = Fields
  BY <1>0 DEF Unmoved, Fields
<1> HIDE DEF u
<1>3. /\ Unmoved(j, w) /\ w.plan = job[j].plan
      /\ \/ w.pc = "end"
         \/ /\ job[j].err = "" /\ ~(job[j].skipped > job[j].before)
            /\ w.pc = "remove" /\ w.todo = Reverse(job[j].plan)
  BY <1>2 DEF AfterCopy, Unmoved, Fields
<1>4. PICK v : v = w /\ Becomes(j, v)
  BY <1>1 DEF u
<1> HIDE DEF w
<1>5. CASE v.pc = "end"
  BY <1>1, <1>3, <1>4, <1>5, MoveStops
<1>6. CASE v.pc # "end"
  <2> SUFFICES ASSUME job[j].kind = "move" PROVE MoveKept(j)'
    BY <1>3, <1>4, <1>6, Becoming DEF MoveKept, Unmoved
  <2>1. job'[j] = v
    BY <1>4, Becoming
  <2>2. Moving(j, job[j]) /\ GonePlaced(j) /\ Copied(j, job[j], << >>)
    BY <1>0, <1>3, <1>4, <1>6 DEF MoveKept, Moving
  <2>3. Counts(v) /\ Aside(v)
    BY <1>3, <1>4, <1>6, <2>2 DEF Moving, Counts, Aside, Copying, Unmoved
  <2>4. \A k : Placed(j, k) => Placed(j, k)'
    BY <1>1, AllStay
  <2>5. GonePlaced(j)'
    BY <1>1, <2>2, <2>4 DEF GonePlaced
  <2>6. \A k \in Things \ Dirs : Listed(k, job[j].plan) => Placed(j, k)
    <3>1. \A k : ~Listed(k, << >>)
      BY DEF Listed
    <3>2. ~(job[j].skipped > job[j].before)
      BY <1>3, <1>4, <1>6
    <3> QED BY <2>2, <3>1, <3>2 DEF Copied
  <2>7. v.todo \in Seq(Things) /\ \A k \in Things \ Dirs : Listed(k, v.todo) => Placed(j, k)'
    BY <1>3, <1>4, <1>6, <2>2, <2>4, <2>6, ReverseIs DEF Copied
  <2>8. Moving(j, v)'
    BY <1>3, <1>4, <1>6, <2>3, <2>7 DEF Moving, Copying
  <2> QED BY <1>3, <1>4, <1>6, <2>1, <2>5, <2>8 DEF MoveKept
<1> QED BY <1>5, <1>6

LEMMA CopyIsDone == ASSUME NEW j \in Jobs, Typed, MoveKept(j), CopyDone(j) PROVE MoveKept(j)'
<1>0. DOMAIN job[j] = Fields /\ job[j].pc = "look" /\ job[j].todo = << >>
  BY DEF Typed, Works, WorkType, CopyDone, Is
<1> DEFINE w == Ended(job[j], "")
<1>1. UNCHANGED <<src, dst, data>> /\ Becomes(j, w)
  BY DEF CopyDone
<1>2. /\ Unmoved(j, w) /\ w.plan = job[j].plan
      /\ w.pc = IF job[j].renames THEN "end" ELSE "narrow"
  BY <1>0 DEF Ended, Unmoved, Fields
<1> HIDE DEF w
<1>3. PICK v : v = w
  OBVIOUS
<1>4. CASE v.pc = "end"
  BY <1>1, <1>2, <1>3, <1>4, MoveStops
<1>5. CASE v.pc # "end"
  <2> SUFFICES ASSUME job[j].kind = "move" PROVE MoveKept(j)'
    BY <1>1, <1>2, <1>3, <1>5, Becoming DEF MoveKept, Unmoved
  <2>1. job'[j] = v
    BY <1>1, <1>3, Becoming
  <2>2. Moving(j, job[j]) /\ GonePlaced(j) /\ Copied(j, job[j], << >>)
    BY <1>0, <1>2, <1>3, <1>5 DEF MoveKept, Moving, Copying
  <2>3. Counts(v) /\ Aside(v)
    BY <1>2, <1>3, <1>5, <2>2 DEF Moving, Counts, Aside, Copying, Unmoved
  <2>4. \A k : Placed(j, k) => Placed(j, k)'
    BY <1>1, AllStay
  <2>5. GonePlaced(j)'
    BY <1>1, <2>2, <2>4 DEF GonePlaced
  <2>6. Copied(j, v, << >>)'
    BY <1>2, <1>3, <2>2, <2>4 DEF Copied, Unmoved
  <2>7. Moving(j, v)'
    BY <1>2, <1>3, <1>5, <2>3, <2>6 DEF Moving, Copying
  <2> QED BY <1>2, <1>3, <1>5, <2>1, <2>5, <2>7 DEF MoveKept
<1> QED BY <1>4, <1>5

LEMMA MoveRemoves == ASSUME NEW j \in Jobs, Typed, MoveKept(j), Removes(j) PROVE MoveKept(j)'
<1>0. DOMAIN job[j] = Fields /\ job[j].pc = "remove" /\ job[j].todo # << >>
  BY DEF Typed, Works, WorkType, Removes, Is
<1> DEFINE w == [job[j] EXCEPT !.todo = Tail(@),
                   !.done = IF job[j].kind = "delete" /\ Hand(j) \notin Dirs THEN @ + 1 ELSE @]
<1>1. dst' = dst /\ data' = data /\ src' = [src EXCEPT ![j] = @ \ {Hand(j)}] /\ Becomes(j, w)
  BY DEF Removes
<1>10. Unmoved(j, w) /\ w.pc = "remove" /\ w.todo = Tail(job[j].todo)
  BY <1>0 DEF Unmoved, Fields
<1> HIDE DEF w
<1>2. PICK v : Becomes(j, v) /\ Unmoved(j, v) /\ v.pc = "remove" /\ v.todo = Tail(job[j].todo)
  BY <1>1, <1>10
<1> SUFFICES ASSUME job[j].kind = "move" PROVE MoveKept(j)'
  BY <1>1, <1>2, Becoming DEF MoveKept, Unmoved
<1>3. job'[j] = v /\ src'[j] = src[j] \ {Hand(j)}
  BY <1>1, <1>2, Becoming DEF Typed, Works
<1>4. /\ Moving(j, job[j]) /\ GonePlaced(j) /\ job[j].todo \in Seq(Things)
      /\ \A k \in Things \ Dirs : Listed(k, job[j].todo) => Placed(j, k)
  BY <1>0 DEF MoveKept, Moving
<1>5. /\ Listed(Hand(j), job[j].todo) /\ v.todo \in Seq(Things)
      /\ \A k : Listed(k, v.todo) => Listed(k, job[j].todo)
  BY <1>0, <1>2, <1>4, TailIs DEF Hand
<1>6. Counts(v) /\ Aside(v)
  BY <1>2, <1>4 DEF Moving, Counts, Aside, Copying, Unmoved
<1>7. \A k : Placed(j, k) => Placed(j, k)'
  BY <1>1, AllStay
<1>8. GonePlaced(j)'
  BY <1>3, <1>4, <1>5, <1>7 DEF GonePlaced
<1>9. Moving(j, v)'
  BY <1>2, <1>4, <1>5, <1>6, <1>7 DEF Moving, Copying
<1> QED BY <1>2, <1>3, <1>8, <1>9 DEF MoveKept
---------------------------------------------------------------------------
(* The steps that go on.  Of other work than a move nothing is said. *)
LEMMA NotAMove ==
  ASSUME NEW j \in Jobs, Typed, NEW v, Becomes(j, v), v.kind # "move", v.pc = "tidy" => v.err # ""
  PROVE  MoveKept(j)'
BY Becoming DEF MoveKept

LEMMA PutStays ==
  ASSUME NEW h, NEW p, Named(p, h), data' = data,
         dst' = dst \/ dst' = Without(dst, {p}) \/ \E x : dst' = Put(dst, p, x)
  PROVE  OthersStay(h)
<1>1. \A q \in DOMAIN dst : ~Named(q, h) => q # p
  OBVIOUS
<1> QED BY <1>1 DEF OthersStay, Without, Restrict, Put

LEMMA InHand ==
  ASSUME NEW j, MoveKept(j), job[j].kind = "move", job[j].pc \in Copying, job[j].todo # << >>
  PROVE  /\ Moving(j, job[j]) /\ ToDo(job[j]) /\ Aside(job[j]) /\ Hand(j) \in Things
         /\ job[j].pc # "look" => Named(job[j].to, Hand(j)) /\ job[j].to \in Paths
BY TailIs DEF MoveKept, Moving, ToDo, Hand

LEMMA SkipsOn ==
  ASSUME NEW j \in Jobs, Typed, MoveKept(j), job[j].pc \in Copying, job[j].todo # << >>,
         NEW u, DOMAIN u = Fields, Unmoved(j, u), u.todo = job[j].todo, u.plan = job[j].plan,
         NEW left, Becomes(j, [Skipped(j, u) EXCEPT !.left = left]), UNCHANGED <<src, dst, data>>
  PROVE  MoveKept(j)'
<1> DEFINE w == [Skipped(j, u) EXCEPT !.left = left]
<1>1. PICK v : v = w /\ Becomes(j, v)
  OBVIOUS
<1>2. /\ v.kind = job[j].kind /\ v.renames = job[j].renames /\ v.before = job[j].before
      /\ v.pc = "look" /\ v.plan = job[j].plan /\ v.todo = Tail(job[j].todo)
      /\ v.moved = job[j].moved /\ v.skipped = job[j].skipped + 1
  BY <1>1 DEF Skipped, OnToNext, Unmoved, Fields
<1> HIDE DEF w
<1>3. CASE job[j].kind # "move"
  BY <1>1, <1>2, <1>3, NotAMove
<1>4. CASE job[j].kind = "move"
  <2>1. PICK h : h = Hand(j)
    OBVIOUS
  <2>2. v.renames => v.moved = {}
    BY <1>2, <1>4, InHand DEF Aside
  <2>3. OthersStay(h)
    BY DEF OthersStay
  <2> QED BY <1>1, <1>2, <2>1, <2>2, <2>3, GoesToNext
<1> QED BY <1>3, <1>4

LEMMA SkippedLeft == ASSUME NEW j \in Jobs, Typed, MoveKept(j), SkipsLeft(j) PROVE MoveKept(j)'
<1>1. /\ job[j].pc = "look" /\ job[j].todo # << >> /\ UNCHANGED <<src, dst, data>>
      /\ Becomes(j, Skipped(j, job[j])) /\ DOMAIN job[j] = Fields
  BY DEF SkipsLeft, Looking, Is, Typed, Works, WorkType
<1>2. Skipped(j, job[j]) = [Skipped(j, job[j]) EXCEPT !.left = job[j].left]
  BY <1>1 DEF Skipped, OnToNext, Fields
<1>3. PICK left : left = job[j].left
  OBVIOUS
<1>4. Becomes(j, [Skipped(j, job[j]) EXCEPT !.left = left])
  BY <1>1, <1>2, <1>3
<1>5. PICK u : u = job[j]
  OBVIOUS
<1>6. DOMAIN u = Fields /\ Unmoved(j, u) /\ u.todo = job[j].todo /\ u.plan = job[j].plan
  BY <1>1, <1>5 DEF Unmoved
<1> QED BY <1>1, <1>4, <1>5, <1>6, SkipsOn DEF Copying

LEMMA MoveLooks == ASSUME NEW j \in Jobs, Typed, MoveKept(j), Looks(j) PROVE MoveKept(j)'
<1>0. DOMAIN job[j] = Fields /\ job[j].pc = "look" /\ job[j].todo # << >>
  BY DEF Typed, Works, WorkType, Looks, Looking, Is
<1> DEFINE to == Wanted(j)
           merges == At(to) = "dir" /\ Hand(j) \in Dirs /\ ~job[j].renames
           pc == IF At(to) = "none" THEN "make" ELSE "ask"
           w == [job[j] EXCEPT !.to = to, !.pc = pc]
<1>1. UNCHANGED <<src, dst, data>> /\ Becomes(j, IF merges THEN OnToNext(job[j]) ELSE w)
  BY DEF Looks
<1>2. CASE merges
  <2>1. PICK v : v = OnToNext(job[j]) /\ Becomes(j, v)
    BY <1>1, <1>2
  <2>2. /\ v.kind = job[j].kind /\ v.renames = job[j].renames /\ v.before = job[j].before
        /\ v.pc = "look" /\ v.plan = job[j].plan /\ v.todo = Tail(job[j].todo)
        /\ v.moved = job[j].moved /\ v.skipped = job[j].skipped
    BY <1>0, <2>1 DEF OnToNext, Fields
  <2>3. PICK h : h = Hand(j) /\ h \in Dirs
    BY <1>2
  <2>4. CASE job[j].kind # "move"
    BY <2>1, <2>2, <2>4, NotAMove
  <2>5. CASE job[j].kind = "move"
    <3>1. v.renames => v.moved = {}
      BY <1>0, <2>2, <2>5, InHand DEF Aside, Copying
    <3>2. OthersStay(h)
      BY <1>1 DEF OthersStay
    <3> QED BY <1>0, <1>1, <2>1, <2>2, <2>3, <3>1, <3>2, GoesToNext DEF Copying
  <2> QED BY <2>4, <2>5
<1>3. CASE ~merges
  <2>1. pc \in {"make", "ask"}
    OBVIOUS
  <2> HIDE DEF pc, merges, to
  <2>2. /\ Unmoved(j, w) /\ w.pc = pc /\ w.todo = job[j].todo /\ w.plan = job[j].plan /\ w.to = to
    BY <1>0 DEF Unmoved, Fields
  <2>3. Becomes(j, w)
    BY <1>1, <1>3
  <2> HIDE DEF w
  <2>4. PICK v : v = w
    OBVIOUS
  <2>5. CASE job[j].kind # "move"
    BY <2>1, <2>2, <2>3, <2>4, <2>5, NotAMove DEF Unmoved
  <2>6. CASE job[j].kind = "move"
    <3>1. /\ Hand(j) \in Things /\ to \in Paths /\ to[Len(to)] = Hand(j)
          /\ job[j].renames => Len(to) = 1
      BY <1>0, <2>6, WantedIs DEF MoveKept, Copying, to
    <3>2. Named(to, Head(job[j].todo)) /\ to[Len(to)] = Head(job[j].todo)
      BY <3>1 DEF Named, Hand
    <3>3. OthersStay(Hand(j))
      BY <1>1 DEF OthersStay
    <3>4. /\ Unmoved(j, v) /\ Becomes(j, v) /\ job[j].pc \in Copying /\ v.pc \in {"make", "ask"}
          /\ v.todo = job[j].todo /\ v.plan = job[j].plan /\ v.todo # << >> /\ src' = src
          /\ v.pc \in Copying \ {"look"} /\ v.pc # "tidy" /\ v.pc # "write"
      BY <1>0, <1>1, <2>1, <2>2, <2>3, <2>4 DEF Copying
    <3>5. /\ v.to \in Paths /\ Named(v.to, Head(v.todo)) /\ v.to[Len(v.to)] = Head(v.todo)
          /\ v.renames => Len(v.to) = 1
      BY <2>2, <2>4, <3>1, <3>2 DEF Unmoved
    <3> QED BY <3>3, <3>4, <3>5, StaysAtHand
  <2> QED BY <2>5, <2>6
<1> QED BY <1>2, <1>3

LEMMA MoveActs ==
  ASSUME NEW j \in Jobs, Typed, MoveKept(j), job[j].pc = "ask",
         NEW u, DOMAIN u = Fields, Unmoved(j, u), u.pc = "ask", u.todo = job[j].todo,
         u.plan = job[j].plan, u.to = job[j].to, NEW what, Acts(j, u, what), src' = src, data' = data
  PROVE  MoveKept(j)'
<1>1. CASE what = "skip"
  <2>1. dst' = dst /\ \E left : Becomes(j, [Skipped(j, u) EXCEPT !.left = left])
    BY <1>1, Zenon DEF Acts
  <2>2. CASE job[j].todo # << >>
    BY <2>1, <2>2, SkipsOn DEF Copying
  <2>3. CASE job[j].todo = << >>
    <3>1. job[j].kind # "move"
      BY <2>3 DEF MoveKept, Moving, Copying, ToDo
    <3>2. PICK left : Becomes(j, [Skipped(j, u) EXCEPT !.left = left])
      BY <2>1
    <3> DEFINE w == [Skipped(j, u) EXCEPT !.left = left]
    <3>3. PICK v : v = w /\ Becomes(j, v)
      BY <3>2
    <3>4. v.kind = u.kind /\ v.pc = "look"
      BY <3>3 DEF Skipped, OnToNext, Fields
    <3> QED BY <3>1, <3>3, <3>4, NotAMove DEF Unmoved
  <2> QED BY <2>2, <2>3
<1>2. CASE (Becomes(j, Ended(u, "stopped")) \/ Becomes(j, Ended(u, "failed"))) /\ dst' = dst
  <2>1. PICK why : why # "" /\ Becomes(j, Ended(u, why))
    BY <1>2
  <2>2. PICK v : v = Ended(u, why) /\ Becomes(j, v)
    BY <2>1
  <2>3. Unmoved(j, v) /\ (v.pc = "end" \/ (v.pc = "narrow" /\ v.err # ""))
    BY <2>1, <2>2 DEF Ended, Unmoved, Fields
  <2> QED BY <1>2, <2>2, <2>3, MoveStops
<1>3. ASSUME NEW to, NEW v, v = [u EXCEPT !.pc = "make", !.to = to], Becomes(j, v),
             job[j].kind = "move" => /\ to \in Paths /\ Named(to, Hand(j)) /\ Len(to) = Len(u.to)
                                     /\ OthersStay(Hand(j))
      PROVE  MoveKept(j)'
  <2>1. /\ Unmoved(j, v) /\ v.pc = "make" /\ v.todo = job[j].todo /\ v.plan = job[j].plan
        /\ v.to = to
    BY <1>3 DEF Unmoved, Fields
  <2>2. CASE job[j].kind # "move"
    BY <1>3, <2>1, <2>2, NotAMove DEF Unmoved
  <2>3. CASE job[j].kind = "move"
    <3>1. job[j].todo # << >> /\ (job[j].renames => Len(job[j].to) = 1)
      BY <2>3 DEF MoveKept, Moving, Copying, ToDo
    <3>2. /\ v.to \in Paths /\ Named(v.to, Head(v.todo)) /\ (v.renames => Len(v.to) = 1)
      BY <1>3, <2>1, <2>3, <3>1 DEF Unmoved, Hand
    <3>3. job[j].pc \in Copying /\ v.pc \in Copying \ {"look"} /\ v.pc # "tidy" /\ v.pc # "write"
          /\ v.pc # "ask"
      BY <2>1 DEF Copying
    <3> QED BY <1>3, <2>1, <2>3, <3>1, <3>2, <3>3, StaysAtHand
  <2> QED BY <2>2, <2>3
<1>4. job[j].kind = "move" => /\ u.to \in Paths /\ u.to[Len(u.to)] = Hand(j) /\ Hand(j) \in Things
                              /\ Named(u.to, Hand(j))
  BY InHand DEF MoveKept, Moving, Copying, ToDo, Hand
<1>5. CASE Becomes(j, [u EXCEPT !.pc = "make", !.to = Beside(@)]) /\ dst' = dst
  <2>1. PICK to : to = Beside(u.to)
    OBVIOUS
  <2>2. PICK v : v = [u EXCEPT !.pc = "make", !.to = to] /\ Becomes(j, v)
    BY <1>5, <2>1
  <2>3. OthersStay(Hand(j))
    BY <1>5 DEF OthersStay
  <2>4. job[j].kind = "move" => to \in Paths /\ Named(to, Hand(j)) /\ Len(to) = Len(u.to)
    BY <1>4, <2>1, BesideIs DEF Named
  <2> QED BY <1>3, <2>2, <2>3, <2>4
<1>6. CASE Becomes(j, [u EXCEPT !.pc = "make"]) /\ (dst' = dst \/ dst' = Without(dst, {u.to}))
  <2>1. PICK to : to = u.to
    OBVIOUS
  <2>2. [u EXCEPT !.pc = "make"] = [u EXCEPT !.pc = "make", !.to = to]
    BY <2>1 DEF Fields
  <2>3. PICK v : v = [u EXCEPT !.pc = "make", !.to = to] /\ Becomes(j, v)
    BY <1>6, <2>2
  <2>4. job[j].kind = "move" => OthersStay(Hand(j))
    BY <1>4, <1>6, <2>1, PutStays
  <2> QED BY <1>3, <1>4, <2>1, <2>3, <2>4
<1>7. \/ what = "skip"
      \/ (Becomes(j, Ended(u, "stopped")) \/ Becomes(j, Ended(u, "failed"))) /\ dst' = dst
      \/ Becomes(j, [u EXCEPT !.pc = "make", !.to = Beside(@)]) /\ dst' = dst
      \/ Becomes(j, [u EXCEPT !.pc = "make"]) /\ (dst' = dst \/ dst' = Without(dst, {u.to}))
  BY Zenon DEF Acts
<1> QED BY <1>1, <1>2, <1>5, <1>6, <1>7

LEMMA MoveAnswers == ASSUME NEW j \in Jobs, Typed, MoveKept(j), Answers(j) PROVE MoveKept(j)'
<1>0. DOMAIN job[j] = Fields /\ job[j].pc = "ask" /\ src' = src /\ data' = data
  BY DEF Typed, Works, WorkType, Answers, Is
<1>1. \/ Acts(j, job[j], job[j].choice)
      \/ \E what, kept, given : Acts(j, [job[j] EXCEPT !.choice = kept, !.agreed = @ \cup given], what)
  BY Zenon DEF Answers
<1>2. CASE Acts(j, job[j], job[j].choice)
  <2>1. PICK u, what : u = job[j] /\ what = job[j].choice
    OBVIOUS
  <2>2. DOMAIN u = Fields /\ Unmoved(j, u) /\ Acts(j, u, what)
    BY <1>0, <1>2, <2>1 DEF Unmoved
  <2> QED BY <1>0, <2>1, <2>2, MoveActs
<1>3. ASSUME NEW what, NEW kept, NEW given,
             Acts(j, [job[j] EXCEPT !.choice = kept, !.agreed = @ \cup given], what)
      PROVE  MoveKept(j)'
  <2> DEFINE w == [job[j] EXCEPT !.choice = kept, !.agreed = @ \cup given]
  <2>1. /\ DOMAIN w = Fields /\ Unmoved(j, w) /\ w.pc = "ask" /\ w.todo = job[j].todo
        /\ w.plan = job[j].plan /\ w.to = job[j].to
    BY <1>0 DEF Unmoved, Fields
  <2>2. Acts(j, w, what)
    BY <1>3
  <2> HIDE DEF w
  <2>3. PICK u : u = w
    OBVIOUS
  <2>4. /\ DOMAIN u = Fields /\ Unmoved(j, u) /\ u.pc = "ask" /\ u.todo = job[j].todo
        /\ u.plan = job[j].plan /\ u.to = job[j].to /\ Acts(j, u, what)
    BY <2>1, <2>2, <2>3
  <2> QED BY <1>0, <2>4, MoveActs
<1> QED BY <1>1, <1>2, <1>3

LEMMA MoveCancelled == ASSUME NEW j \in Jobs, Typed, MoveKept(j), Cancel(j) PROVE MoveKept(j)'
<1> DEFINE w == [job[j] EXCEPT !.canceled = TRUE]
<1>1. UNCHANGED <<src, dst, data>> /\ Becomes(j, w) /\ DOMAIN job[j] = Fields
  BY DEF Cancel, Typed, Works, WorkType
<1>2. /\ Unmoved(j, w) /\ w.pc = job[j].pc /\ w.err = job[j].err /\ w.todo = job[j].todo
      /\ w.plan = job[j].plan /\ w.to = job[j].to
  BY <1>1 DEF Unmoved, Fields
<1> HIDE DEF w
<1>3. PICK v : v = w
  OBVIOUS
<1> QED BY <1>1, <1>2, <1>3, MoveSame

LEMMA OthersMake == ASSUME NEW j \in Jobs, Typed, MoveKept(j), SomebodyMakes(j) PROVE MoveKept(j)'
<1>1. /\ job' = job /\ src' = src /\ data' = data /\ \E x : dst' = Put(dst, job[j].to, x)
      /\ job[j].pc \in {"make", "write"}
  BY DEF SomebodyMakes
<1>2. PICK v : v = job[j] /\ Becomes(j, v)
  BY <1>1 DEF Becomes, Typed, Works
<1>3. CASE job[j].kind # "move"
  BY <1>1, <1>2, <1>3, NotAMove
<1>4. CASE job[j].kind = "move"
  <2>1. Moving(j, job[j]) /\ ToDo(job[j]) /\ job[j].pc \in Copying /\ job[j].todo # << >>
    BY <1>1, <1>4 DEF MoveKept, Moving, Copying, ToDo
  <2>2. PICK to : to = job[j].to
    OBVIOUS
  <2>3. OthersStay(Hand(j))
    BY <1>1, <2>1, <2>2, PutStays DEF ToDo, Hand
  <2>4. /\ v.to \in Paths /\ Named(v.to, Head(v.todo)) /\ (v.renames => Len(v.to) = 1)
        /\ v.pc = "write" => ~v.renames
    BY <1>1, <1>2, <2>1 DEF ToDo
  <2>5. /\ v.pc \in Copying \ {"look"} /\ v.pc # "tidy" /\ v.pc # "ask" /\ Unmoved(j, v)
        /\ v.todo = job[j].todo /\ v.plan = job[j].plan /\ v.todo # << >>
    BY <1>1, <1>2, <2>1 DEF Copying, Unmoved
  <2> QED BY <1>1, <1>2, <2>1, <2>3, <2>4, <2>5, StaysAtHand
<1> QED BY <1>3, <1>4

(* A file being written: what has a name already is not written any more. *)
LEMMA MoveWrites ==
  ASSUME NEW j, Jobs = {j}, Typed, FilesWhole(j), MoveKept(j),
         Creates(j) \/ Writes(j) \/ WriteFails(j) \/ LandFails(j)
  PROVE  MoveKept(j)'
<1>0. WorkType(job[j]) /\ j \in Jobs /\ DOMAIN job[j] = Fields
  BY DEF Typed, Works, WorkType
<1>1. src' = src /\ dst' = dst
  BY DEF Creates, Writes, WriteFails, LandFails
<1>2. \A p \in DOMAIN dst : NewFile(dst[p]) => data'[dst[p]] = data[dst[p]]
  <2>1. CASE Creates(j)
    <3> DEFINE u == [job[j] EXCEPT !.n = @ + 1]
               ino == Made(j, "file", u.n)
    <3>1. u.n = job[j].n + 1 /\ Part(u)[2] = u.n
      BY <1>0 DEF WorkType, Fields, Part
    <3>2. Part(u) \notin DOMAIN parts
      BY <1>0, <3>1 DEF FilesWhole, PartsOwn, WorkType
    <3>3. data' = Put(data, ino, [c \in 1..Chunks |-> Hole])
      BY <2>1, <3>2, Zenon DEF Creates
    <3>4. \A p \in DOMAIN dst : NewFile(dst[p]) => dst[p] \in DOMAIN data /\ dst[p].n # u.n
      BY <1>0, <3>1 DEF FilesWhole, NamesWhole, WorkType
    <3>5. ino.n = u.n
      BY DEF Made
    <3> HIDE DEF u, ino
    <3> QED BY <3>3, <3>4, <3>5 DEF Put
  <2>2. CASE Writes(j)
    <3>1. AtWork(j, job[j]) /\ \E x : data' = [data EXCEPT ![job[j].ino] = x]
      <4>1. data' = [data EXCEPT ![job[j].ino][job[j].off + 1] = <<j, Hand(j)>>]
        BY <2>2 DEF Writes
      <4>2. AtWork(j, job[j])
        BY <2>2 DEF Writes, Is, FilesWhole
      <4> QED BY <4>1, <4>2
    <3>2. \A p \in DOMAIN dst : NewFile(dst[p]) => dst[p] # job[j].ino
      BY <1>0, <3>1 DEF AtWork, FilesWhole, NamesWhole, WorkType, Made
    <3>3. \A p \in DOMAIN dst : NewFile(dst[p]) => dst[p] \in DOMAIN data
      BY DEF FilesWhole, NamesWhole
    <3> QED BY <3>1, <3>2, <3>3
  <2>3. CASE WriteFails(j) \/ LandFails(j)
    BY <2>3 DEF WriteFails, LandFails
  <2> QED BY <2>1, <2>2, <2>3
<1>3. OthersStay(Hand(j))
  BY <1>1, <1>2 DEF OthersStay
<1>4. /\ job[j].pc \in {"make", "write"}
      /\ \E v : /\ Becomes(j, v) /\ Unmoved(j, v) /\ v.todo = job[j].todo /\ v.plan = job[j].plan
                /\ v.to = job[j].to
                /\ \/ v.pc = "write" /\ (job[j].pc = "write" \/ ~job[j].renames)
                   \/ v.pc = "tidy" /\ v.err # ""
  <2>1. CASE Creates(j)
    <3> DEFINE u == [job[j] EXCEPT !.n = @ + 1]
               ino == IF Part(u) \in DOMAIN parts THEN parts[Part(u)] ELSE Made(j, "file", u.n)
               w == [u EXCEPT !.pc = "write", !.ino = ino, !.off = 0]
    <3>1. Becomes(j, w)
      BY <2>1, Zenon DEF Creates
    <3>2. job[j].pc = "make" /\ ~job[j].renames
      BY <2>1 DEF Creates, Is
    <3> HIDE DEF ino
    <3>3. /\ Unmoved(j, w) /\ w.todo = job[j].todo /\ w.plan = job[j].plan
          /\ w.to = job[j].to /\ w.pc = "write"
      BY <1>0 DEF Unmoved, Fields
    <3> HIDE DEF w
    <3> QED BY <3>1, <3>2, <3>3
  <2>2. CASE Writes(j)
    <3> DEFINE w == [job[j] EXCEPT !.off = @ + 1]
    <3>1. Becomes(j, w) /\ job[j].pc = "write"
      BY <2>2 DEF Writes, Is
    <3>2. /\ Unmoved(j, w) /\ w.todo = job[j].todo /\ w.plan = job[j].plan
          /\ w.to = job[j].to /\ w.pc = "write"
      BY <1>0, <3>1 DEF Unmoved, Fields
    <3> HIDE DEF w
    <3> QED BY <3>1, <3>2
  <2>3. CASE WriteFails(j) \/ LandFails(j)
    <3>1. "failed" # "" /\ "canceled" # ""
      OBVIOUS
    <3>2. PICK why : why # "" /\ Becomes(j, [job[j] EXCEPT !.err = why, !.pc = "tidy"])
      BY <2>3, <3>1, Zenon DEF WriteFails, LandFails
    <3>3. job[j].pc = "write"
      BY <2>3 DEF WriteFails, LandFails, Landing, Is
    <3> DEFINE w == [job[j] EXCEPT !.err = why, !.pc = "tidy"]
    <3>4. /\ Unmoved(j, w) /\ w.todo = job[j].todo /\ w.plan = job[j].plan
          /\ w.to = job[j].to /\ w.pc = "tidy" /\ w.err = why
      BY <1>0 DEF Unmoved, Fields
    <3> HIDE DEF w
    <3> QED BY <3>2, <3>3, <3>4 DEF w
  <2> QED BY <2>1, <2>2, <2>3
<1>5. PICK v : /\ Becomes(j, v) /\ Unmoved(j, v) /\ v.todo = job[j].todo /\ v.plan = job[j].plan
               /\ v.to = job[j].to
               /\ \/ v.pc = "write" /\ (job[j].pc = "write" \/ ~job[j].renames)
                  \/ v.pc = "tidy" /\ v.err # ""
  BY <1>4
<1>6. CASE job[j].kind # "move"
  BY <1>0, <1>5, <1>6, NotAMove DEF Unmoved
<1>7. CASE job[j].kind = "move"
  <2>1. Moving(j, job[j]) /\ ToDo(job[j]) /\ job[j].pc \in Copying /\ job[j].todo # << >>
    BY <1>4, <1>7 DEF MoveKept, Moving, Copying, ToDo
  <2>2. /\ v.to \in Paths /\ Named(v.to, Head(v.todo)) /\ (v.renames => Len(v.to) = 1)
        /\ (v.pc = "write" => ~v.renames)
    BY <1>4, <1>5, <2>1 DEF ToDo, Unmoved
  <2>3. /\ v.pc \in Copying \ {"look"} /\ (v.pc = "tidy" => v.err # "") /\ v.pc # "ask"
        /\ v.todo = job[j].todo /\ v.plan = job[j].plan /\ v.todo # << >>
    BY <1>5, <2>1 DEF Copying
  <2> QED BY <1>0, <1>1, <1>3, <1>5, <2>1, <2>2, <2>3, StaysAtHand
<1> QED BY <1>6, <1>7

(* What is made at a name is the whole of what is in hand, or a directory. *)
LEMMA MoveMakes ==
  ASSUME NEW j, Jobs = {j}, Typed, FilesWhole(j), MoveKept(j),
         MakesDir(j) \/ MakesLink(j) \/ Lands(j)
  PROVE  MoveKept(j)'
<1>0. WorkType(job[j]) /\ j \in Jobs /\ DOMAIN job[j] = Fields
  BY DEF Typed, Works, WorkType
<1> DEFINE moved == IF job[j].to = Wanted(j) THEN job[j].moved
                    ELSE job[j].moved \cup {<<Wanted(j), job[j].to>>}
           Next1(v) == /\ v.kind = job[j].kind /\ v.renames = job[j].renames
                       /\ v.before = job[j].before /\ v.pc = "look" /\ v.plan = job[j].plan
                       /\ v.todo = Tail(job[j].todo) /\ v.skipped = job[j].skipped
                       /\ v.moved = moved
<1>1. Wrote(j, job[j]) = [OnToNext(job[j]) EXCEPT !.moved = moved]
  BY <1>0 DEF Wrote, OnToNext, Fields
<1> HIDE DEF moved
<1>2. /\ Next1([Wrote(j, job[j]) EXCEPT !.made = @ \cup {job[j].to}])
      /\ Next1([Wrote(j, job[j]) EXCEPT !.done = @ + 1])
  BY <1>0, <1>1 DEF OnToNext, Fields
<1> HIDE DEF Next1
<1>3. PICK v : Becomes(j, v) /\ Next1(v)
  BY <1>2, Zenon DEF MakesDir, MakesLink, Lands
<1>4. /\ src' = src /\ data' = data /\ \E x : dst' = Put(dst, job[j].to, x)
      /\ job[j].pc \in {"make", "write"}
  BY DEF MakesDir, MakesLink, Lands, Landing, Is
<1>5. CASE job[j].kind # "move"
  <2>1. v.kind # "move" /\ v.pc # "tidy"
    BY <1>3, <1>5 DEF Next1
  <2> QED BY <1>0, <1>3, <2>1, NotAMove
<1>6. CASE job[j].kind = "move"
  <2>1. /\ Moving(j, job[j]) /\ ToDo(job[j]) /\ Aside(job[j]) /\ job[j].pc \in Copying
        /\ job[j].todo # << >>
    BY <1>4, <1>6 DEF MoveKept, Moving, Copying, ToDo
  <2>2. ~job[j].renames
    <3>1. Lands(j) => job[j].pc = "write"
      BY DEF Lands, Landing, Is
    <3> QED BY <2>1, <3>1 DEF MakesDir, MakesLink, ToDo
  <2>3. PICK h \in Things : h = Hand(j)
    BY <2>1, WantedIs
  <2>4. PICK to \in Paths : to = job[j].to
    BY <1>4, <2>1 DEF ToDo
  <2>5. Named(to, h)
    BY <1>4, <2>1, <2>3, <2>4 DEF ToDo, Hand
  <2>6. OthersStay(h)
    BY <1>4, <2>4, <2>5, PutStays
  <2>7. PICK want \in Paths : want = Wanted(j) /\ want[Len(want)] = h
    BY <2>1, <2>3, WantedIs
  <2>8. \A m \in v.moved : m \in job[j].moved
                           \/ (m[1] \in Paths /\ m[2] \in Paths /\ m[1][Len(m[1])] = h)
    BY <1>3, <2>4, <2>7 DEF Next1, moved
  <2>9. h \in Dirs \/ Placed(j, h)'
    <3>1. CASE MakesDir(j)
      BY <2>3, <3>1 DEF MakesDir
    <3>2. ASSUME NEW node, dst' = Put(dst, to, node), Whole(node, j, h) PROVE Placed(j, h)'
      <4>1. to \in DOMAIN dst' /\ dst'[to] = node
        BY <3>2 DEF Put
      <4>2. Whole(node, j, h)'
        BY <1>4, <3>2 DEF Whole, Original, Made
      <4> QED BY <2>5, <4>1, <4>2 DEF Placed, Named
    <3>3. CASE MakesLink(j)
      <4>1. PICK node : node = Made(j, "link", h)
        OBVIOUS
      <4>2. dst' = Put(dst, to, node)
        BY <2>3, <2>4, <3>3, <4>1 DEF MakesLink
      <4> QED BY <3>2, <4>1, <4>2 DEF Whole
    <3>4. CASE Lands(j)
      <4>1. AtWork(j, job[j]) /\ job[j].off = Chunks
        BY <3>4 DEF Lands, Landing, Is, FilesWhole
      <4>2. PICK here : here = Part(job[j]) /\ here[2] = job[j].n
        <5>1. Part(job[j])[2] = job[j].n
          BY DEF Part
        <5> QED BY <5>1
      <4>3. here \in DOMAIN parts /\ dst' = Put(dst, to, parts[here])
        BY <2>4, <3>4, <4>2 DEF Lands
      <4>4. PICK node : node = Made(j, "file", job[j].n)
        OBVIOUS
      <4>5. parts[here] = node /\ job[j].n \in 1..job[j].n /\ job[j].ino = node
        BY <4>1, <4>2, <4>3, <4>4 DEF FilesWhole, PartsOwn, AtWork
      <4>6. node.kind = "file" /\ node.n > 0
        BY <1>0, <4>4, <4>5 DEF Made, WorkType
      <4>7. \A c \in 1..Chunks : data[node][c] = <<j, h>>
        BY <2>3, <4>1, <4>5 DEF AtWork, Hand
      <4> QED BY <3>2, <4>3, <4>5, <4>6, <4>7 DEF Whole
    <3> QED BY <3>1, <3>3, <3>4
  <2>10. /\ v.kind = job[j].kind /\ v.renames = job[j].renames /\ v.before = job[j].before
         /\ v.pc = "look" /\ v.plan = job[j].plan /\ v.todo = Tail(job[j].todo)
         /\ v.skipped = job[j].skipped
    BY <1>3 DEF Next1
  <2> QED BY <1>0, <1>3, <1>4, <2>1, <2>2, <2>3, <2>6, <2>8, <2>9, <2>10, GoesToNext
<1> QED BY <1>5, <1>6

LEMMA MovePlans == ASSUME NEW j \in Jobs, Typed, MoveKept(j), Plan(j) PROVE MoveKept(j)'
<1>0. DOMAIN job[j] = Fields /\ job[j].pc = "plan"
  BY DEF Typed, Works, WorkType, Plan, Is
<1> DEFINE ks == IF job[j].renames THEN Tops ELSE Order
           w == [job[j] EXCEPT !.plan = ks, !.todo = ks, !.pc = "look",
                               !.files = IF job[j].renames THEN Len(ks) ELSE Files(ks)]
           x == [w EXCEPT !.pc = "remove", !.todo = Reverse(ks)]
<1>1. /\ UNCHANGED <<src, dst, data>>
      /\ Becomes(j, IF job[j].kind = "delete" THEN x ELSE w)
  BY DEF Plan
<1>2. /\ ks \in Seq(Things) /\ Once(ks)
      /\ \A k : Listed(k, ks) <=> k \in Things /\ (job[j].renames => Parent[k] = 0)
  BY TopsAre, OrderIs
<1> HIDE DEF ks
<1>3. /\ Unmoved(j, w) /\ w.pc = "look" /\ w.todo = ks /\ w.plan = ks
      /\ Unmoved(j, x) /\ x.pc = "remove"
  BY <1>0 DEF Unmoved, Fields
<1> HIDE DEF w, x
<1>4. CASE job[j].kind # "move"
  <2>1. PICK v : Becomes(j, v) /\ Unmoved(j, v) /\ v.pc \in {"look", "remove"}
    BY <1>1, <1>3
  <2> QED BY <1>4, <2>1, NotAMove DEF Unmoved
<1>5. CASE job[j].kind = "move"
  <2>1. PICK v : v = w /\ Becomes(j, v)
    BY <1>1, <1>5
  <2>2. job'[j] = v
    BY <2>1, Becoming
  <2>3. Moving(j, job[j]) /\ GonePlaced(j) /\ src[j] = Things /\ job[j].moved = {}
    BY <1>0, <1>5 DEF MoveKept, Moving
  <2>4. Counts(v) /\ Aside(v)
    BY <1>3, <2>1, <2>3 DEF Moving, Counts, Aside, Unmoved
  <2>5. GonePlaced(j)'
    BY <1>1, <2>3, AllStay DEF GonePlaced
  <2>6. ToDo(v)
    BY <1>2, <1>3, <2>1 DEF ToDo
  <2>7. StillThere(j, v)'
    BY <1>1, <1>2, <1>3, <2>1, <2>3, UnderIs DEF StillThere, Unmoved
  <2>8. Copied(j, v, v.todo)'
    BY <1>2, <1>3, <2>1 DEF Copied
  <2>9. Moving(j, v)'
    BY <1>3, <2>1, <2>4, <2>6, <2>7, <2>8 DEF Moving, Copying
  <2> QED BY <1>3, <2>1, <2>2, <2>5, <2>9 DEF MoveKept
<1> QED BY <1>4, <1>5

LEMMA MoveCrosses == ASSUME NEW j \in Jobs, Typed, MoveKept(j), CrossDevice(j) PROVE MoveKept(j)'
<1>0. DOMAIN job[j] = Fields /\ job[j].pc = "make" /\ job[j].renames
  BY DEF Typed, Works, WorkType, CrossDevice, Is
<1> DEFINE S == UNION {Under(k) : k \in ToSet(job[j].todo)}
           rest == InOrder(S)
           w == [job[j] EXCEPT !.renames = FALSE, !.pc = "look",
                               !.plan = rest, !.todo = rest, !.before = job[j].skipped,
                               !.files = (@ - Len(job[j].todo)) + Files(rest)]
<1>1. UNCHANGED <<src, dst, data>> /\ Becomes(j, w)
  BY DEF CrossDevice
<1> HIDE DEF rest
<1>2. /\ w.kind = job[j].kind /\ w.moved = job[j].moved /\ w.skipped = job[j].skipped
      /\ w.before = job[j].skipped /\ w.renames = FALSE /\ w.pc = "look"
      /\ w.todo = rest /\ w.plan = rest
  BY <1>0 DEF Fields
<1> HIDE DEF w
<1>3. PICK v : v = w
  OBVIOUS
<1>4. CASE job[j].kind # "move"
  BY <1>1, <1>2, <1>3, <1>4, NotAMove
<1>5. CASE job[j].kind = "move"
  <2>1. job'[j] = v
    BY <1>1, <1>3, Becoming
  <2>2. /\ Moving(j, job[j]) /\ GonePlaced(j) /\ StillThere(j, job[j]) /\ job[j].moved = {}
        /\ Counts(job[j]) /\ job[j].todo \in Seq(Things)
    BY <1>0, <1>5 DEF MoveKept, Moving, Aside, Copying, ToDo
  <2>3. \A k \in ToSet(job[j].todo) : k \in Things /\ Under(k) \subseteq src[j]
    <3>1. \A k \in ToSet(job[j].todo) : Listed(k, job[j].todo) /\ k \in Things
      BY <2>2, LenProperties, ElementOfSeq DEF ToSet, Listed
    <3> QED BY <1>0, <2>2, <3>1 DEF StillThere
  <2>4. S \in SUBSET Things /\ S \subseteq src[j]
    BY <2>3, UnderIs
  <2>5. rest \in Seq(Things) /\ Once(rest) /\ \A k : Listed(k, rest) => k \in src[j]
    <3> HIDE DEF S
    <3> QED BY <2>4, InOrderIs DEF rest
  <2>6. Counts(v) /\ Aside(v)
    BY <1>2, <1>3, <2>2 DEF Counts, Aside
  <2>7. GonePlaced(j)'
    BY <1>1, <2>2, AllStay DEF GonePlaced
  <2>8. ToDo(v)
    BY <1>2, <1>3, <2>5 DEF ToDo
  <2>9. StillThere(j, v)'
    BY <1>1, <1>2, <1>3, <2>5 DEF StillThere
  <2>10. Copied(j, v, v.todo)'
    BY <1>2, <1>3, <2>5 DEF Copied
  <2>11. Moving(j, v)'
    BY <1>2, <1>3, <2>6, <2>8, <2>9, <2>10 DEF Moving, Copying
  <2> QED BY <1>2, <1>3, <2>1, <2>7, <2>11 DEF MoveKept
<1> QED BY <1>4, <1>5

(* Where a thing under k goes when k is renamed to a name: to one of its own. *)
LEMMA GoesUnder ==
  ASSUME NEW k \in Things, Parent[k] = 0, NEW c \in Under(k), NEW to \in Paths, Named(to, k)
  PROVE  Named(to \o SubSeq(Path[c], 2, Len(Path[c])), c)
<1>1. PICK p \in Paths : p = Path[c] /\ p[Len(p)] = c
  BY UnderIs, PathIs
<1>2. p[1] = k
  <2>1. IsPrefix(<<k>>, p)
    BY <1>1, PathIs DEF Under
  <2>2. SubSeq(<<k>>, 1, 1) = SubSeq(p, 1, 1) /\ 1 <= Len(p)
    BY <2>1 DEF IsPrefix
  <2>3. p \in Seq(Nat) /\ k \in Nat
    BY ThingsCounted DEF Paths
  <2>4. 1 \in 1..Len(p) /\ \A i \in 1..1 : p[i] \in Nat
    BY <2>2, <2>3, LenProperties
  <2>5. SubSeq(p, 1, 1)[1] = p[1] /\ SubSeq(<<k>>, 1, 1)[1] = k
    BY <2>3, <2>4
  <2> QED BY <2>2, <2>5
<1>3. PICK m \in Nat \ {0} : m = Len(p)
  BY EmptySeq DEF Paths
<1>4. PICK r : r = to \o SubSeq(p, 2, Len(p))
  OBVIOUS
<1>5. CASE m = 1
  <2>1. c = k
    BY <1>1, <1>2, <1>3, <1>5
  <2>2. SubSeq(p, 2, 1) = << >>
    BY SubSeqEmpty
  <2>3. r = to
    BY <1>3, <1>4, <1>5, <2>2, ConcatEmptySeq DEF Paths
  <2> QED BY <1>1, <1>4, <2>1, <2>3
<1>6. CASE m # 1
  <2>1. 2 \in Nat \ {0} /\ 2 <= Len(p)
    BY <1>3, <1>6
  <2>2. r[Len(r)] = p[Len(p)]
    BY <1>4, <2>1, PutBehind
  <2> QED BY <1>1, <1>4, <2>2 DEF Named
<1> QED BY <1>5, <1>6

LEMMA MoveRenames == ASSUME NEW j \in Jobs, Typed, MoveKept(j), Renames(j) PROVE MoveKept(j)'
<1>0. DOMAIN job[j] = Fields /\ job[j].pc = "make" /\ job[j].renames
  BY DEF Typed, Works, WorkType, Renames, Is
<1> DEFINE w == [OnToNext(job[j]) EXCEPT !.done = @ + 1]
           Goes(k, to, c) == to \o SubSeq(Path[c], 2, Len(Path[c]))
           There(k, to) == [q \in {Goes(k, to, c) : c \in Under(k)} |->
                              Original(j, CHOOSE c \in Under(k) : q = Goes(k, to, c))]
           Onto(new) == [q \in DOMAIN dst \cup DOMAIN new |->
                           IF q \in DOMAIN new THEN new[q] ELSE dst[q]]
<1>7. /\ dst' = Onto(There(Hand(j), job[j].to))
      /\ src' = [src EXCEPT ![j] = @ \ Under(Hand(j))] /\ data' = data /\ Becomes(j, w)
  BY Zenon DEF Renames
<1>1. PICK k, to : k = Hand(j) /\ to = job[j].to
  OBVIOUS
<1> DEFINE new == There(k, to)
<1>2. /\ dst' = Onto(new)
      /\ src' = [src EXCEPT ![j] = @ \ Under(k)] /\ data' = data /\ Becomes(j, w)
  <2> HIDE DEF There, Onto, w
  <2> QED BY <1>1, <1>7
<1>3. /\ Unmoved(j, w) /\ w.pc = "look" /\ w.todo = Tail(job[j].todo) /\ w.plan = job[j].plan
  BY <1>0 DEF Unmoved, OnToNext, Fields
<1> HIDE DEF w
<1>4. PICK v : v = w
  OBVIOUS
<1>5. CASE job[j].kind # "move"
  BY <1>2, <1>3, <1>4, <1>5, NotAMove DEF Unmoved
<1>6. CASE job[j].kind = "move"
  <2>1. job'[j] = v /\ src'[j] = src[j] \ Under(k)
    BY <1>2, <1>4, Becoming DEF Typed, Works
  <2>2. /\ Moving(j, job[j]) /\ GonePlaced(j) /\ StillThere(j, job[j]) /\ ToDo(job[j])
        /\ Counts(job[j]) /\ Aside(job[j])
    BY <1>0, <1>6 DEF MoveKept, Moving, Copying
  <2>3. /\ k \in Things /\ Listed(k, job[j].todo) /\ v.todo \in Seq(Things) /\ Once(v.todo)
        /\ \A c : Listed(c, v.todo) => Listed(c, job[j].todo) /\ c # k
    BY <1>0, <1>1, <1>3, <1>4, <2>2, TailIs DEF ToDo, Hand
  <2>4. Parent[k] = 0 /\ to \in Paths /\ Named(to, k)
    BY <1>0, <1>1, <2>2, <2>3 DEF StillThere, ToDo, Hand
  <2>5. \A c \in Under(k) : Named(Goes(k, to, c), c) /\ c \in Things
    BY <2>3, <2>4, GoesUnder, UnderIs
  <2>6. \A c \in Under(k) : Goes(k, to, c) \in DOMAIN new /\ new[Goes(k, to, c)] = Original(j, c)
    <3> SUFFICES ASSUME NEW c \in Under(k)
        PROVE  Goes(k, to, c) \in DOMAIN new /\ new[Goes(k, to, c)] = Original(j, c)
      OBVIOUS
    <3>1. PICK q : q = Goes(k, to, c)
      OBVIOUS
    <3>2. PICK d : d = CHOOSE e \in Under(k) : q = Goes(k, to, e)
      OBVIOUS
    <3>3. d \in Under(k) /\ q = Goes(k, to, d)
      BY <3>1, <3>2
    <3> HIDE DEF Goes
    <3>4. d = c
      BY <2>5, <3>1, <3>3, NotNamed
    <3> QED BY <3>1, <3>2, <3>4
  <2>7. \A q \in DOMAIN new : \E c \in Under(k) : Named(q, c)
    BY <2>5
  <2> HIDE DEF new, Goes
  <2>8. \A c \in Under(k) : Placed(j, c)'
    <3> SUFFICES ASSUME NEW c \in Under(k) PROVE Placed(j, c)'
      OBVIOUS
    <3>1. PICK q : q = Goes(k, to, c)
      OBVIOUS
    <3>2. q \in DOMAIN dst' /\ dst'[q] = Original(j, c) /\ Named(q, c)
      BY <1>2, <2>5, <2>6, <3>1
    <3> QED BY <3>2 DEF Placed, Whole, Named, Original
  <2>9. \A c \in Things \ Under(k) : Placed(j, c) => Placed(j, c)'
    <3> SUFFICES ASSUME NEW c \in Things \ Under(k), Placed(j, c) PROVE Placed(j, c)'
      OBVIOUS
    <3>1. PICK p \in DOMAIN dst : Named(p, c) /\ Whole(dst[p], j, c)
      BY DEF Placed
    <3>2. p \notin DOMAIN new
      BY <2>5, <2>7, <3>1, NotNamed
    <3>3. p \in DOMAIN dst' /\ dst'[p] = dst[p]
      BY <1>2, <3>2
    <3>4. Whole(dst[p], j, c)'
      BY <1>2, <3>1, <3>3 DEF Whole, Original, Made
    <3> QED BY <3>1, <3>3, <3>4 DEF Placed, Named
  <2>10. GonePlaced(j)'
    BY <2>1, <2>2, <2>8, <2>9 DEF GonePlaced
  <2>11. Counts(v) /\ Aside(v)
    BY <1>0, <1>3, <1>4, <2>2 DEF Counts, Aside, Unmoved
  <2>12. ToDo(v)
    BY <1>3, <1>4, <2>3 DEF ToDo
  <2>13. StillThere(j, v)'
    <3> SUFFICES ASSUME NEW c \in Things, Listed(c, v.todo)
        PROVE  Parent[c] = 0 /\ Under(c) \subseteq src'[j]
      BY <1>0, <1>3, <1>4 DEF StillThere, Unmoved
    <3>1. Parent[c] = 0 /\ Under(c) \subseteq src[j] /\ c # k
      BY <1>0, <2>2, <2>3 DEF StillThere
    <3>2. Under(c) \cap Under(k) = {}
      BY <2>3, <2>4, <3>1, UnderIs
    <3> QED BY <2>1, <3>1, <3>2
  <2>14. Moving(j, v)'
    BY <1>0, <1>3, <1>4, <2>11, <2>12, <2>13 DEF Moving, Copying, Unmoved
  <2> QED BY <1>3, <1>4, <2>1, <2>10, <2>14 DEF MoveKept
<1> QED BY <1>5, <1>6

LEMMA InitMove == ASSUME NEW j \in Jobs, Init PROVE MoveKept(j)
<1>1. PICK kinds \in [Jobs -> Kinds], renames \in [Jobs -> BOOLEAN] :
        job = [i \in Jobs |-> New(kinds[i], renames[i])]
  BY Zenon DEF Init
<1>2. \A kind, r : /\ New(kind, r).pc = "plan" /\ New(kind, r).moved = {}
                   /\ New(kind, r).skipped = 0 /\ New(kind, r).before = 0
  BY DEF New
<1>3. job[j].pc = "plan" /\ job[j].moved = {} /\ job[j].skipped = 0 /\ job[j].before = 0
  BY <1>1, <1>2
<1>4. src[j] = Things
  BY DEF Init
<1> QED BY <1>3, <1>4 DEF MoveKept, Moving, GonePlaced, Counts, Aside, Copying

LEMMA MoveNext ==
  ASSUME NEW j, Jobs = {j}
  PROVE  Typed /\ FilesWhole(j) /\ MoveKept(j) /\ [Next]_vars => MoveKept(j)'
<1> SUFFICES ASSUME Typed, FilesWhole(j), MoveKept(j), [Next]_vars PROVE MoveKept(j)'
  OBVIOUS
<1>1. CASE UNCHANGED vars
  <2>1. PICK v : v = job[j]
    OBVIOUS
  <2>2. Becomes(j, v) /\ UNCHANGED <<src, dst, data>>
    BY <1>1, <2>1 DEF vars, Becomes, Typed, Works
  <2> QED BY <2>1, <2>2, MoveSame DEF Unmoved
<1>2. CASE \/ Cancel(j) \/ Plan(j) \/ SkipsLeft(j) \/ Looks(j) \/ Answers(j) \/ SomebodyMakes(j)
           \/ Renames(j) \/ CrossDevice(j)
  BY <1>2, MoveCancelled, MovePlans, SkippedLeft, MoveLooks, MoveAnswers, OthersMake, MoveRenames,
     MoveCrosses
<1>3. CASE \/ MakesDir(j) \/ MakesLink(j) \/ Creates(j) \/ Writes(j) \/ WriteFails(j) \/ Lands(j)
           \/ LandFails(j)
  BY <1>3, MoveMakes, MoveWrites
<1>4. CASE \/ PlanFails(j) \/ LookFails(j) \/ AnswerFails(j) \/ MakeFails(j) \/ MakeRefused(j)
           \/ NarrowFails(j) \/ RemoveFails(j) \/ RemoveDone(j) \/ Tidies(j) \/ TidyFails(j)
  BY <1>4, MoveFails
<1>5. CASE CopyDone(j) \/ Narrows(j) \/ Removes(j)
  BY <1>5, CopyIsDone, Narrowed, MoveRemoves
<1> QED BY <1>1, <1>2, <1>3, <1>4, <1>5 DEF Next

(* A move by itself, by renaming, by copying and taking away, or half by each, of any
   tree: whatever is no longer where it was is whole at the destination, through
   failing calls, a cancel anywhere, what was left alone and names others make
   meanwhile (move and remove in jobs/run.go).                                *)
THEOREM AloneLosesNothing == ASSUME NEW j, Jobs = {j} PROVE Spec => []MoveLosesNothing
<1>1. MoveKept(j) => MoveLosesNothing
  BY DEF MoveKept, GonePlaced, Placed, MoveLosesNothing
<1>2. Init => Typed /\ PartsKnown /\ FilesWhole(j) /\ MoveKept(j)
  BY InitTyped, InitFiles, InitMove
<1>3. Typed /\ PartsKnown /\ FilesWhole(j) /\ MoveKept(j) /\ [Next]_vars
        => (Typed /\ PartsKnown /\ FilesWhole(j) /\ MoveKept(j))'
  BY KeptNext, FilesNext, MoveNext
<1> QED BY <1>1, <1>2, <1>3, PTL DEF Spec
---------------------------------------------------------------------------
(* Any work: copies, deletes and moves, any number of them.                    *)
MayGo(p) == p \notin DOMAIN had \/ \E i \in Jobs : p \in job[i].agreed

(* The user's things at the destination, each in a directory that is there too. *)
Tree(f) ==
  \A p \in DOMAIN f :
    /\ p \in Paths /\ f[p] \in {"file", "dir"}
    /\ \A n \in 1..(Len(p) - 1) : SubSeq(p, 1, n) \in DOMAIN f /\ f[SubSeq(p, 1, n)] = "dir"

(* What is the user's yet is in its directories yet. *)
Held ==
  \A p \in DOMAIN had : ~MayGo(p) => \A n \in 1..(Len(p) - 1) : At(SubSeq(p, 1, n)) = "dir"

(* A rename is of a move, and has a thing in hand and a name for it. *)
ToRename(u) ==
  u.renames => /\ u.kind = "move" /\ u.pc \in {"plan", "look", "ask", "make", "end"}
               /\ u.todo \in Seq(Things)
               /\ u.pc \in {"ask", "make"} => u.todo # << >> /\ u.to \in Paths

(* What is about to be made or written at a name, and an answer for all of them,
   have the user's word. *)
Allowed ==
  /\ Tree(had) /\ Held
  /\ \A j \in Jobs : /\ ToRename(job[j])
                     /\ job[j].choice = "replace" => DOMAIN had \subseteq job[j].agreed
                     /\ job[j].pc \in {"make", "write"} => MayGo(job[j].to)
  /\ TheirsStays

LEMMA NothingThere == ASSUME Allowed, NEW p, At(p) = "none" PROVE MayGo(p)
<1> SUFFICES ASSUME p \in DOMAIN had, \A i \in Jobs : p \notin job[i].agreed PROVE FALSE
  BY DEF MayGo
<1>1. p \in DOMAIN dst /\ dst[p] = Users(had[p]) /\ had[p] \in {"file", "dir"}
  BY DEF Allowed, TheirsStays, Tree
<1>2. dst[p].kind = "file" \/ dst[p].kind = "dir"
  BY <1>1 DEF Users
<1> QED BY <1>1, <1>2 DEF At

(* The user's names are a tree: Layouts asks it of a name and the one it is in. *)
LEMMA LayoutIsTree == \A f \in Layouts : Tree(f)
<1> SUFFICES ASSUME NEW f \in Layouts PROVE Tree(f)
  OBVIOUS
<1>1. PICK S \in SUBSET {Path[k] : k \in Taken} : f \in [S -> {"file", "dir"}]
  BY Zenon DEF Layouts
<1>2. \A p \in DOMAIN f : Len(p) > 1 => Front(p) \in DOMAIN f /\ f[Front(p)] = "dir"
  BY Zenon DEF Layouts
<1>3. \A p \in DOMAIN f : p \in Paths /\ f[p] \in {"file", "dir"}
  <2>1. DOMAIN f = S /\ \A p \in S : f[p] \in {"file", "dir"}
    BY <1>1
  <2>2. Taken \subseteq Things
    BY TreeAssumption
  <2>3. \A p \in S : \E k \in Things : p = Path[k]
    BY <2>2
  <2>4. \A p \in S : p \in Paths
    BY <2>3, PathIs
  <2> QED BY <2>1, <2>4, Zenon
<1> SUFFICES ASSUME NEW p \in DOMAIN f
    PROVE  \A n \in 1..(Len(p) - 1) : SubSeq(p, 1, n) \in DOMAIN f /\ f[SubSeq(p, 1, n)] = "dir"
  BY <1>3 DEF Tree
<1>4. p \in Seq(Nat) /\ Len(p) \in Nat \ {0}
  BY <1>3 DEF Paths
<1>5. PICK l \in Nat \ {0} : l = Len(p)
  BY <1>4
<1> DEFINE bad == {m \in 0..(l - 1) : SubSeq(p, 1, l - m) \notin DOMAIN f}
<1>6. ASSUME NEW n \in 1..(l - 1), SubSeq(p, 1, n + 1) \in DOMAIN f
      PROVE  SubSeq(p, 1, n) \in DOMAIN f /\ f[SubSeq(p, 1, n)] = "dir"
  <2>1. PICK q : q = SubSeq(p, 1, n + 1)
    OBVIOUS
  <2>2. q \in DOMAIN f
    BY <1>6, <2>1
  <2>3. Len(q) = n + 1 /\ q \in Seq(Nat) /\ \A i \in 1..(n + 1) : q[i] = p[i]
    BY <1>4, <1>5, <2>1
  <2>4. Front(q) = SubSeq(p, 1, n)
    <3>1. Front(q) = SubSeq(q, 1, n)
      BY <2>3 DEF Front
    <3> QED BY <3>1, <2>3, <1>4, <1>5
  <2>5. Len(q) > 1
    BY <2>3
  <2>6. Front(q) \in DOMAIN f /\ f[Front(q)] = "dir"
    BY <2>2, <2>5, <1>2
  <2> QED BY <2>4, <2>6
<1>7. bad = {}
  <2> SUFFICES ASSUME bad # {} PROVE FALSE
    OBVIOUS
  <2>1. PICK m \in bad : \A c \in bad : m <= c
    <3>1. bad \subseteq 0..(l - 1) /\ l - 1 \in Nat
      BY <1>5
    <3> HIDE DEF bad
    <3> QED BY <3>1, LeastOfSet
  <2>2. m # 0
    <3>1. SubSeq(p, 1, Len(p)) = p
      BY <1>4
    <3>2. l - 0 = Len(p)
      BY <1>5
    <3> QED BY <3>1, <3>2, <2>1, Zenon
  <2>3. l - m \in 1..(l - 1) /\ m - 1 \in 0..(l - 1) /\ l - (m - 1) = (l - m) + 1 /\ ~(m <= m - 1)
    BY <2>1, <2>2, <1>5
  <2>4. m - 1 \notin bad
    BY <2>1, <2>3
  <2>5. SubSeq(p, 1, (l - m) + 1) \in DOMAIN f
    BY <2>3, <2>4
  <2> QED BY <2>1, <2>3, <2>5, <1>6
<1>8. ASSUME NEW n \in 1..(Len(p) - 1) PROVE SubSeq(p, 1, n + 1) \in DOMAIN f /\ n \in 1..(l - 1)
  <2>1. l - (n + 1) \in 0..(l - 1) /\ l - (l - (n + 1)) = n + 1 /\ n \in 1..(l - 1)
    BY <1>5
  <2>2. SubSeq(p, 1, l - (l - (n + 1))) \in DOMAIN f
    BY <2>1, <1>7
  <2> QED BY <2>1, <2>2, Zenon
<1> QED BY <1>6, <1>8

LEMMA InitAllowed == Init => Allowed
<1> SUFFICES ASSUME Init PROVE Allowed
  OBVIOUS
<1>1. PICK kinds \in [Jobs -> Kinds], renames \in [Jobs -> BOOLEAN] :
        /\ \A j \in Jobs : renames[j] => kinds[j] = "move"
        /\ job = [i \in Jobs |-> New(kinds[i], renames[i])]
  BY Zenon DEF Init
<1>2. \A kind, r : /\ New(kind, r).pc = "plan" /\ New(kind, r).choice = "none"
                   /\ New(kind, r).todo = << >>
                   /\ New(kind, r).kind = kind /\ New(kind, r).renames = r
  BY DEF New
<1>3. \A j \in Jobs : job[j].pc = "plan" /\ job[j].choice = "none" /\ job[j].todo = << >>
  BY <1>1, <1>2
<1>4. had \in Layouts /\ dst = [p \in DOMAIN had |-> Users(had[p])]
  BY Zenon DEF Init
<1>5. Tree(had)
  BY <1>4, LayoutIsTree
<1>6. Held
  <2> SUFFICES ASSUME NEW p \in DOMAIN had, NEW n \in 1..(Len(p) - 1)
      PROVE  At(SubSeq(p, 1, n)) = "dir"
    BY DEF Held
  <2>1. PICK q : q = SubSeq(p, 1, n)
    OBVIOUS
  <2>2. q \in DOMAIN had /\ had[q] = "dir"
    BY <2>1, <1>5 DEF Tree
  <2>3. q \in DOMAIN dst /\ dst[q] = Users("dir")
    BY <2>2, <1>4
  <2> QED BY <2>1, <2>3 DEF At, Users
<1>7. \A j \in Jobs : ToRename(job[j])
  <2>1. << >> \in Seq(Things)
    OBVIOUS
  <2>2. \A j \in Jobs : job[j].renames => job[j].kind = "move"
    BY <1>1, <1>2
  <2> QED BY <2>1, <2>2, <1>3 DEF ToRename
<1>8. TheirsStays
  BY <1>4 DEF TheirsStays
<1> QED BY <1>3, <1>5, <1>6, <1>7, <1>8 DEF Allowed

(* What a step does at the destination: the user's things that nobody agreed to
   lose stay, and the directories they are in. *)
KeepsTheirs(agreed) ==
  \A p \in DOMAIN had : MayGo(p) \/ p \in agreed \/
    /\ p \in DOMAIN dst => p \in DOMAIN dst' /\ dst'[p] = dst[p]
    /\ \A n \in 1..(Len(p) - 1) : At(SubSeq(p, 1, n)) = "dir" => At(SubSeq(p, 1, n))' = "dir"

(* One piece of work goes on, with the user's word for what it does. *)
LEMMA AllowedStep ==
  ASSUME Typed, Allowed, NEW j \in Jobs, NEW u, Becomes(j, u), had' = had, ToRename(u),
         job[j].agreed \subseteq u.agreed, u.choice = "replace" => DOMAIN had \subseteq u.agreed,
         u.pc \in {"make", "write"} => MayGo(u.to) \/ u.to \in u.agreed, KeepsTheirs(u.agreed)
  PROVE  Allowed'
<1>1. \A i \in Jobs : job'[i] = IF i = j THEN u ELSE job[i]
  BY DEF Becomes, Typed, Works
<1>2. \A i \in Jobs : job[i].agreed \subseteq job'[i].agreed
  BY <1>1
<1>3. \A p : MayGo(p) \/ p \in u.agreed => MayGo(p)'
  BY <1>1, <1>2 DEF MayGo
<1>4. TheirsStays'
  <2> SUFFICES ASSUME NEW p \in DOMAIN had, \A i \in Jobs : p \notin job'[i].agreed
      PROVE  p \in DOMAIN dst' /\ dst'[p] = Users(had[p])
    BY DEF TheirsStays, Users
  <2>1. (\A i \in Jobs : p \notin job[i].agreed) /\ p \notin u.agreed
    BY <1>1, <1>2
  <2>2. p \in DOMAIN dst /\ dst[p] = Users(had[p]) /\ ~MayGo(p)
    BY <2>1 DEF Allowed, TheirsStays, MayGo
  <2> QED BY <2>1, <2>2 DEF KeepsTheirs
<1>6. Held'
  <2> SUFFICES ASSUME NEW p \in DOMAIN had, ~MayGo(p)', NEW n \in 1..(Len(p) - 1)
      PROVE  At(SubSeq(p, 1, n))' = "dir"
    BY DEF Held
  <2>1. ~MayGo(p) /\ p \notin u.agreed
    BY <1>3
  <2> QED BY <2>1 DEF KeepsTheirs, Allowed, Held
<1>5. \A i \in Jobs : /\ ToRename(job'[i])
                      /\ job'[i].choice = "replace" => DOMAIN had \subseteq job'[i].agreed
                      /\ job'[i].pc \in {"make", "write"} => MayGo(job[i].to)'
  BY <1>1, <1>3 DEF Allowed
<1> QED BY <1>4, <1>5, <1>6 DEF Allowed, MayGo, Tree, ToRename

(* What happens at the destination, when a name is taken only if nothing is there. *)
LEMMA KeepsAll ==
  ASSUME NEW agreed, had' = had,
         \/ dst' = dst
         \/ \E p, x : /\ dst' = Put(dst, p, x) /\ At(p) # "dir" /\ MayGo(p)
  PROVE  KeepsTheirs(agreed)
<1>1. CASE dst' = dst
  BY <1>1 DEF KeepsTheirs, At
<1>2. ASSUME NEW p, NEW x, dst' = Put(dst, p, x), At(p) # "dir", MayGo(p)
      PROVE  KeepsTheirs(agreed)
  <2>1. \A q : q \in DOMAIN dst /\ q # p => q \in DOMAIN dst' /\ dst'[q] = dst[q]
    BY <1>2 DEF Put
  <2>2. \A q : At(q) = "dir" => At(q)' = "dir"
    BY <1>2, <2>1 DEF At
  <2> QED BY <1>2, <2>1, <2>2 DEF KeepsTheirs
<1> QED BY <1>1, <1>2

(* What is the user's still is in the directories on its path. *)
LEMMA TheirsWithin ==
  ASSUME Allowed, NEW p \in DOMAIN had, ~MayGo(p), NEW n \in 1..(Len(p) - 1)
  PROVE  HasThings(SubSeq(p, 1, n)) /\ At(SubSeq(p, 1, n)) = "dir"
<1>1. p \in DOMAIN dst /\ p \in Seq(Nat) /\ At(SubSeq(p, 1, n)) = "dir"
  BY DEF Allowed, TheirsStays, MayGo, Tree, Paths, Held
<1>2. PICK q : q = SubSeq(p, 1, n)
  OBVIOUS
<1>3. q \in Seq(Nat) /\ Len(q) = n /\ Len(p) \in Nat /\ n \in Nat /\ n < Len(p)
  BY <1>1, <1>2
<1>4. IsPrefix(q, p)
  <2>1. SubSeq(q, 1, n) = SubSeq(p, 1, n)
    BY <1>1, <1>2, <1>3
  <2> QED BY <1>3, <2>1 DEF IsPrefix
<1> QED BY <1>1, <1>2, <1>3, <1>4 DEF HasThings

(* u goes on from job[j] with no new word of the user's and to no other name. *)
Carries(j, u) ==
  /\ u.renames = job[j].renames /\ u.agreed = job[j].agreed /\ u.choice = job[j].choice
  /\ u.pc \in {"make", "write"} => job[j].pc \in {"make", "write"} /\ u.to = job[j].to

(* The steps that ask nothing of the user. *)
LEMMA CarriesOn ==
  ASSUME Typed, NEW j \in Jobs, ~job[j].renames,
         \/ Cancel(j) \/ Plan(j) \/ PlanFails(j) \/ SkipsLeft(j) \/ LookFails(j) \/ AnswerFails(j)
         \/ MakesDir(j) \/ MakesLink(j) \/ Creates(j) \/ MakeFails(j) \/ MakeRefused(j)
         \/ Writes(j) \/ WriteFails(j) \/ Lands(j) \/ LandFails(j) \/ Tidies(j) \/ TidyFails(j)
         \/ CopyDone(j) \/ Narrows(j) \/ NarrowFails(j) \/ Removes(j) \/ RemoveFails(j)
         \/ RemoveDone(j)
  PROVE  \E u : Becomes(j, u) /\ Carries(j, u)
<1>0. DOMAIN job[j] = Fields
  BY DEF Typed, Works, WorkType
<1>1. \A why : /\ Carries(j, Ended(job[j], why))
               /\ Carries(j, [Ended(job[j], why) EXCEPT !.trouble = TRUE])
               /\ Carries(j, [job[j] EXCEPT !.err = why, !.pc = "end"])
               /\ Carries(j, [job[j] EXCEPT !.err = why, !.pc = "tidy"])
  BY <1>0 DEF Carries, Ended, Fields
<1>2. Carries(j, Skipped(j, job[j]))
  BY <1>0 DEF Carries, OnToNext, Skipped, Fields
<1>3. /\ Carries(j, [Wrote(j, job[j]) EXCEPT !.done = @ + 1])
      /\ Carries(j, [Wrote(j, job[j]) EXCEPT !.made = @ \cup {job[j].to}])
  BY <1>0 DEF Carries, OnToNext, Wrote, Fields
<1>4. /\ Carries(j, [job[j] EXCEPT !.pc = "end"]) /\ Carries(j, [job[j] EXCEPT !.canceled = TRUE])
      /\ Carries(j, [job[j] EXCEPT !.off = @ + 1])
  BY <1>0 DEF Carries, Fields
<1>5. CASE \/ LookFails(j) \/ AnswerFails(j) \/ MakeFails(j) \/ MakeRefused(j) \/ TidyFails(j)
           \/ Tidies(j) \/ CopyDone(j) \/ PlanFails(j) \/ RemoveFails(j) \/ WriteFails(j)
           \/ LandFails(j)
  BY <1>1, <1>5, Zenon DEF LookFails, AnswerFails, MakeFails, MakeRefused, TidyFails, Tidies,
                           CopyDone, PlanFails, RemoveFails, WriteFails, LandFails
<1>6. CASE SkipsLeft(j) \/ MakesDir(j) \/ MakesLink(j) \/ Lands(j)
  BY <1>2, <1>3, <1>6, Zenon DEF SkipsLeft, MakesDir, MakesLink, Lands
<1>7. CASE RemoveDone(j) \/ Cancel(j) \/ Writes(j)
  BY <1>4, <1>7, Zenon DEF RemoveDone, Cancel, Writes
<1>8. CASE Narrows(j)
  <2>1. job[j].pc = "narrow" /\ Becomes(j, AfterCopy(j, [job[j] EXCEPT !.made = {}]))
    BY <1>8 DEF Narrows, Is
  <2>2. Carries(j, AfterCopy(j, [job[j] EXCEPT !.made = {}]))
    BY <1>0, <2>1 DEF Carries, AfterCopy, Fields
  <2> QED BY <2>1, <2>2
<1>9. CASE NarrowFails(j)
  <2>1. PICK p : Becomes(j, [job[j] EXCEPT !.made = {p}, !.trouble = TRUE, !.pc = "end",
                                           !.err = IF @ = "" THEN "failed" ELSE @])
    BY <1>9, Zenon DEF NarrowFails
  <2> DEFINE u == [job[j] EXCEPT !.made = {p}, !.trouble = TRUE, !.pc = "end",
                                 !.err = IF @ = "" THEN "failed" ELSE @]
  <2>2. Carries(j, u)
    BY <1>0 DEF Carries, Fields
  <2> HIDE DEF u
  <2> QED BY <2>1, <2>2 DEF u
<1>10. CASE Removes(j)
  <2> DEFINE u == [job[j] EXCEPT !.todo = Tail(@),
                     !.done = IF job[j].kind = "delete" /\ Hand(j) \notin Dirs THEN @ + 1 ELSE @]
  <2>1. Becomes(j, u)
    BY <1>10, Zenon DEF Removes
  <2>2. Carries(j, u)
    BY <1>0 DEF Carries, Fields
  <2> HIDE DEF u
  <2> QED BY <2>1, <2>2
<1>11. CASE Plan(j)
  <2> DEFINE ks == IF job[j].renames THEN Tops ELSE Order
             w == [job[j] EXCEPT !.plan = ks, !.todo = ks, !.pc = "look",
                                 !.files = IF job[j].renames THEN Len(ks) ELSE Files(ks)]
             v == [w EXCEPT !.pc = "remove", !.todo = Reverse(ks)]
  <2>1. Becomes(j, IF job[j].kind = "delete" THEN v ELSE w)
    BY <1>11, Zenon DEF Plan
  <2>2. Carries(j, w) /\ Carries(j, v)
    BY <1>0 DEF Carries, Fields
  <2> HIDE DEF v, w
  <2> QED BY <2>1, <2>2
<1>12. CASE Creates(j)
  <2> DEFINE u == [job[j] EXCEPT !.n = @ + 1]
             ino == IF Part(u) \in DOMAIN parts THEN parts[Part(u)] ELSE Made(j, "file", u.n)
             w == [u EXCEPT !.pc = "write", !.ino = ino, !.off = 0]
  <2>1. Becomes(j, w)
    BY <1>12, Zenon DEF Creates
  <2>2. job[j].pc = "make"
    BY <1>12 DEF Creates, Is
  <2> HIDE DEF ino
  <2>3. Carries(j, w)
    BY <1>0, <2>2 DEF Carries, Fields
  <2> HIDE DEF w
  <2> QED BY <2>1, <2>3
<1> QED BY <1>5, <1>6, <1>7, <1>8, <1>9, <1>10, <1>11, <1>12

(* The same of a rename, which takes few of them. *)
LEMMA RenameCarriesOn ==
  ASSUME Typed, NEW j \in Jobs, job[j].renames, ToRename(job[j]),
         \/ Cancel(j) \/ Plan(j) \/ PlanFails(j) \/ SkipsLeft(j) \/ LookFails(j) \/ AnswerFails(j)
         \/ MakesDir(j) \/ MakesLink(j) \/ Creates(j) \/ MakeFails(j) \/ MakeRefused(j)
         \/ Writes(j) \/ WriteFails(j) \/ Lands(j) \/ LandFails(j) \/ Tidies(j) \/ TidyFails(j)
         \/ CopyDone(j) \/ Narrows(j) \/ NarrowFails(j) \/ Removes(j) \/ RemoveFails(j)
         \/ RemoveDone(j)
  PROVE  \E u : Becomes(j, u) /\ Carries(j, u) /\ ToRename(u)
<1> DEFINE Fine(u) == Carries(j, u) /\ ToRename(u)
<1>0. DOMAIN job[j] = Fields
  BY DEF Typed, Works, WorkType
<1>1. \A why : Fine(Ended(job[j], why)) /\ Fine([job[j] EXCEPT !.err = why, !.pc = "end"])
  BY <1>0 DEF Carries, Ended, Fields, ToRename
<1>2. Fine([job[j] EXCEPT !.canceled = TRUE])
  BY <1>0 DEF Carries, Fields, ToRename
<1>3. CASE LookFails(j) \/ AnswerFails(j) \/ MakeFails(j) \/ MakeRefused(j) \/ CopyDone(j) \/ PlanFails(j)
  BY <1>1, <1>3, Zenon DEF LookFails, AnswerFails, MakeFails, MakeRefused, CopyDone, PlanFails
<1>4. CASE Cancel(j)
  BY <1>2, <1>4, Zenon DEF Cancel
<1>5. CASE SkipsLeft(j)
  <2>1. Becomes(j, Skipped(j, job[j])) /\ job[j].todo # << >>
    BY <1>5 DEF SkipsLeft, Looking
  <2>2. Tail(job[j].todo) \in Seq(Things)
    BY <2>1 DEF ToRename
  <2>3. Fine(Skipped(j, job[j]))
    BY <1>0, <2>2 DEF Carries, OnToNext, Skipped, Fields, ToRename
  <2> QED BY <2>1, <2>3
<1>6. CASE Plan(j)
  <2> DEFINE w == [job[j] EXCEPT !.plan = Tops, !.todo = Tops, !.pc = "look", !.files = Len(Tops)]
  <2>1. Becomes(j, w)
    BY <1>6 DEF Plan, ToRename
  <2>2. Fine(w)
    BY <1>0, TopsAre DEF Carries, Fields, ToRename
  <2> HIDE DEF w
  <2> QED BY <2>1, <2>2
<1>7. ~(MakesDir(j) \/ MakesLink(j) \/ Creates(j))
  BY DEF MakesDir, MakesLink, Creates
<1>8. job[j].pc \notin {"write", "tidy", "narrow", "remove"}
  BY DEF ToRename
<1>9. /\ ~(Writes(j) \/ WriteFails(j) \/ Lands(j) \/ LandFails(j) \/ Tidies(j) \/ TidyFails(j))
      /\ ~(Narrows(j) \/ NarrowFails(j) \/ Removes(j) \/ RemoveFails(j) \/ RemoveDone(j))
  BY <1>8 DEF Writes, WriteFails, Lands, LandFails, Landing, Tidies, TidyFails, Narrows, NarrowFails,
              Removes, RemoveFails, RemoveDone, Is
<1> QED BY <1>3, <1>4, <1>5, <1>6, <1>7, <1>9

(* What those steps do to the names. *)
LEMMA NamesMayGo ==
  ASSUME Typed, Allowed, NEW j \in Jobs,
         \/ Cancel(j) \/ Plan(j) \/ PlanFails(j) \/ SkipsLeft(j) \/ LookFails(j) \/ AnswerFails(j)
         \/ MakesDir(j) \/ MakesLink(j) \/ Creates(j) \/ MakeFails(j) \/ MakeRefused(j)
         \/ Writes(j) \/ WriteFails(j) \/ Lands(j) \/ LandFails(j) \/ Tidies(j) \/ TidyFails(j)
         \/ CopyDone(j) \/ Narrows(j) \/ NarrowFails(j) \/ Removes(j) \/ RemoveFails(j)
         \/ RemoveDone(j)
  PROVE  had' = had /\ \A agreed : KeepsTheirs(agreed)
<1>1. CASE MakesDir(j) \/ MakesLink(j) \/ Lands(j)
  <2>1. had' = had /\ (\E node : dst' = Put(dst, job[j].to, node)) /\ At(job[j].to) # "dir"
    <3>1. "none" # "dir"
      OBVIOUS
    <3> QED BY <1>1, <3>1, Zenon DEF MakesDir, MakesLink, Lands
  <2>2. job[j].pc \in {"make", "write"}
    BY <1>1 DEF MakesDir, MakesLink, Lands, Landing, Is
  <2>3. MayGo(job[j].to)
    BY <2>2 DEF Allowed
  <2> QED BY <2>1, <2>3, KeepsAll
<1>2. CASE ~(MakesDir(j) \/ MakesLink(j) \/ Lands(j))
  <2>1. had' = had /\ dst' = dst
    BY <1>2 DEF Cancel, Plan, PlanFails, SkipsLeft, LookFails, AnswerFails, Creates, MakeFails,
                MakeRefused, Writes, WriteFails, LandFails, Tidies, TidyFails, CopyDone, Narrows,
                NarrowFails, Removes, RemoveFails, RemoveDone
  <2> QED BY <2>1, KeepsAll
<1> QED BY <1>1, <1>2

LEMMA LooksAllowed == ASSUME Typed, Allowed, NEW j \in Jobs, Looks(j) PROVE Allowed'
<1>0. DOMAIN job[j] = Fields /\ ToRename(job[j])
  BY DEF Typed, Works, WorkType, Allowed
<1> DEFINE to == Wanted(j)
           pc == IF At(to) = "none" THEN "make" ELSE "ask"
           merges == At(to) = "dir" /\ Hand(j) \in Dirs /\ ~job[j].renames
           w == [job[j] EXCEPT !.to = to, !.pc = pc]
           u == IF merges THEN OnToNext(job[j]) ELSE w
<1>1. Becomes(j, u) /\ had' = had /\ dst' = dst
  BY Zenon DEF Looks
<1>2. pc = "make" => MayGo(to)
  BY NothingThere
<1>7. job[j].renames => to \in Paths /\ job[j].todo # << >>
  <2> SUFFICES ASSUME job[j].renames PROVE to \in Paths /\ job[j].todo # << >>
    OBVIOUS
  <2>1. job[j].todo # << >> /\ job[j].todo \in Seq(Things)
    BY <1>0 DEF Looks, Looking, ToRename
  <2>2. Hand(j) \in Things
    BY <2>1 DEF Hand
  <2>3. to = Path[Hand(j)]
    BY DEF Wanted
  <2> QED BY <2>1, <2>2, <2>3, PathIs
<1>8. pc \in {"make", "ask"}
  OBVIOUS
<1> HIDE DEF to, pc
<1>3. Carries(j, OnToNext(job[j])) /\ OnToNext(job[j]).pc = "look"
  BY <1>0 DEF Carries, OnToNext, Fields
<1>4. /\ w.renames = job[j].renames /\ w.agreed = job[j].agreed /\ w.choice = job[j].choice
      /\ w.to = to /\ w.pc = pc /\ w.todo = job[j].todo /\ w.kind = job[j].kind
  BY <1>0 DEF Fields
<1>5. pc # "write"
  BY <1>8
<1>9. ToRename(u)
  <2>1. CASE job[j].renames
    <3>1. u = w
      BY <2>1
    <3> HIDE DEF w, u
    <3> QED BY <3>1, <1>0, <1>4, <1>7, <1>8, <2>1 DEF ToRename
  <2>2. CASE ~job[j].renames
    <3>1. ~u.renames
      <4> HIDE DEF w
      <4> QED BY <2>2, <1>3, <1>4 DEF Carries
    <3> HIDE DEF u
    <3> QED BY <3>1 DEF ToRename
  <2> QED BY <2>1, <2>2
<1> HIDE DEF w, merges
<1>6. /\ u.renames = job[j].renames /\ u.agreed = job[j].agreed /\ u.choice = job[j].choice
      /\ u.pc \in {"make", "write"} => MayGo(u.to)
  BY <1>2, <1>3, <1>4, <1>5 DEF Carries
<1> HIDE DEF u
<1>10. KeepsTheirs(u.agreed)
  BY <1>1, KeepsAll
<1> QED BY <1>0, <1>1, <1>6, <1>9, <1>10, AllowedStep DEF Allowed

LEMMA ActsAllowed ==
  ASSUME Typed, Allowed, NEW j \in Jobs, NEW u, NEW what, Acts(j, u, what), had' = had,
         DOMAIN u = Fields, ToRename(u), u.to = job[j].to, u.pc = "ask",
         job[j].agreed \subseteq u.agreed, u.choice = "replace" => DOMAIN had \subseteq u.agreed,
         what = "replace" => u.to \notin DOMAIN had \/ u.to \in u.agreed
  PROVE  Allowed'
<1> DEFINE Same(v) == v.agreed = u.agreed /\ v.choice = u.choice /\ ToRename(v)
<1>0. dst' = dst => KeepsTheirs(u.agreed)
  BY KeepsAll
<1>1. \A why : Same(Ended(u, why)) /\ Ended(u, why).pc \in {"narrow", "end"}
  BY DEF Ended, Fields, ToRename
<1>2. CASE what = "skip"
  <2> DEFINE alone == IF Hand(j) \in Dirs /\ ~u.renames THEN {Hand(j)} ELSE {}
             v == [Skipped(j, u) EXCEPT !.left = @ \cup alone]
  <2>1. Becomes(j, v) /\ dst' = dst
    BY <1>2 DEF Acts
  <2>2. v.agreed = u.agreed /\ v.choice = u.choice /\ v.pc = "look" /\ v.renames = u.renames
        /\ v.todo = Tail(u.todo) /\ v.kind = u.kind
    BY DEF Skipped, OnToNext, Fields
  <2>3. u.renames => Tail(u.todo) \in Seq(Things)
    BY DEF ToRename
  <2> HIDE DEF v
  <2>4. ToRename(v)
    BY <2>2, <2>3 DEF ToRename
  <2> QED BY <2>1, <2>2, <2>4, <1>0, AllowedStep
<1>3. CASE (Becomes(j, Ended(u, "stopped")) \/ Becomes(j, Ended(u, "failed"))) /\ dst' = dst
  BY <1>0, <1>1, <1>3, AllowedStep
<1>4. CASE /\ Becomes(j, [u EXCEPT !.pc = "make", !.to = Beside(@)]) /\ dst' = dst
           /\ At(Beside(u.to)) = "none"
  <2> DEFINE to == Beside(u.to)
             v == [u EXCEPT !.pc = "make", !.to = to]
  <2>1. Becomes(j, v) /\ MayGo(to)
    BY <1>4, NothingThere, Zenon
  <2>3. u.renames => to \in Paths
    BY BesideIs DEF ToRename
  <2> HIDE DEF to
  <2>2. /\ v.agreed = u.agreed /\ v.choice = u.choice /\ v.to = to /\ v.pc = "make"
        /\ v.renames = u.renames /\ v.todo = u.todo /\ v.kind = u.kind
    BY DEF Fields
  <2> HIDE DEF v
  <2>4. ToRename(v)
    BY <2>2, <2>3 DEF ToRename
  <2> QED BY <1>0, <1>4, <2>1, <2>2, <2>4, AllowedStep
<1>5. CASE /\ what = "replace" /\ Becomes(j, [u EXCEPT !.pc = "make"])
           /\ ~HasThings(u.to) /\ (dst' = dst \/ dst' = Without(dst, {u.to}))
  <2> DEFINE v == [u EXCEPT !.pc = "make"]
  <2>1. /\ v.agreed = u.agreed /\ v.choice = u.choice /\ v.to = u.to /\ v.pc = "make"
        /\ v.renames = u.renames /\ v.todo = u.todo /\ v.kind = u.kind
    BY DEF Fields
  <2> HIDE DEF v
  <2>2. ToRename(v)
    BY <2>1 DEF ToRename
  <2>3. MayGo(u.to) \/ u.to \in u.agreed
    BY <1>5 DEF MayGo
  <2>4. ASSUME dst' = Without(dst, {u.to}) PROVE KeepsTheirs(u.agreed)
    <3>1. \A q : q \in DOMAIN dst /\ q # u.to => q \in DOMAIN dst' /\ dst'[q] = dst[q]
      BY <2>4 DEF Without, Restrict
    <3>2. \A q : At(q) = "dir" /\ q # u.to => At(q)' = "dir"
      BY <3>1 DEF At
    <3>3. \A p \in DOMAIN had : ~MayGo(p) => \A n \in 1..(Len(p) - 1) : SubSeq(p, 1, n) # u.to
      BY <1>5, TheirsWithin
    <3> SUFFICES ASSUME NEW p \in DOMAIN had, ~MayGo(p), p \notin u.agreed
        PROVE  /\ p \in DOMAIN dst => p \in DOMAIN dst' /\ dst'[p] = dst[p]
               /\ \A n \in 1..(Len(p) - 1) : At(SubSeq(p, 1, n)) = "dir" => At(SubSeq(p, 1, n))' = "dir"
      BY DEF KeepsTheirs
    <3>4. p # u.to
      BY <2>3
    <3> QED BY <3>1, <3>2, <3>3, <3>4
  <2>7. dst' = dst \/ dst' = Without(dst, {u.to})
    BY <1>5
  <2>5. KeepsTheirs(u.agreed)
    BY <1>0, <2>4, <2>7, Zenon
  <2>6. Becomes(j, v)
    BY <1>5 DEF v
  <2> QED BY <2>1, <2>2, <2>3, <2>5, <2>6, AllowedStep
<1> QED BY <1>2, <1>3, <1>4, <1>5 DEF Acts

LEMMA AnswersAllowed == ASSUME Typed, Allowed, NEW j \in Jobs, Answers(j) PROVE Allowed'
<1>0. DOMAIN job[j] = Fields /\ ToRename(job[j])
  BY DEF Typed, Works, WorkType, Allowed
<1>1. had' = had /\ job[j].pc = "ask"
  BY DEF Answers, Is
<1>2. \/ Acts(j, job[j], job[j].choice)
      \/ \E what \in {"replace", "skip", "rename", "stop"}, all \in BOOLEAN :
           Acts(j, [job[j] EXCEPT !.choice = Remembered(what, all),
                                  !.agreed = @ \cup Agreed(j, what, all)], what)
  BY Zenon DEF Answers
<1>3. CASE Acts(j, job[j], job[j].choice)
  BY <1>0, <1>1, <1>3, ActsAllowed DEF Allowed
<1>4. ASSUME NEW what, NEW all \in BOOLEAN,
             Acts(j, [job[j] EXCEPT !.choice = Remembered(what, all),
                                    !.agreed = @ \cup Agreed(j, what, all)], what)
      PROVE  Allowed'
  <2> DEFINE choice == Remembered(what, all)
             agreed == Agreed(j, what, all)
             u == [job[j] EXCEPT !.choice = choice, !.agreed = @ \cup agreed]
  <2>1. choice = "replace" => DOMAIN had \subseteq agreed
    BY DEF Remembered, Agreed
  <2>2. what = "replace" => job[j].to \notin DOMAIN had \/ job[j].to \in agreed
    BY DEF Agreed
  <2> HIDE DEF choice, agreed
  <2>3. /\ DOMAIN u = Fields /\ u.renames = job[j].renames /\ u.to = job[j].to
        /\ u.pc = "ask" /\ u.agreed = job[j].agreed \cup agreed /\ u.choice = choice
        /\ u.todo = job[j].todo /\ u.kind = job[j].kind
    BY <1>0, <1>1 DEF Fields
  <2> HIDE DEF u
  <2>4. ToRename(u)
    BY <1>0, <1>1, <2>3 DEF ToRename
  <2>5. Acts(j, u, what)
    BY <1>4 DEF u, choice, agreed
  <2> QED BY <1>1, <2>1, <2>2, <2>3, <2>4, <2>5, ActsAllowed
<1> QED BY <1>2, <1>3, <1>4

(* A rename takes with it what is inside the thing, and none of the names it makes
   is the user's still: such a name is in a directory the rename would find. *)
LEMMA RenamesAllowed == ASSUME Typed, Allowed, NEW j \in Jobs, Renames(j) PROVE Allowed'
<1>0. DOMAIN job[j] = Fields /\ ToRename(job[j])
  BY DEF Typed, Works, WorkType, Allowed
<1> DEFINE k == Hand(j)
           to == job[j].to
           Goes(c) == to \o SubSeq(Path[c], 2, Len(Path[c]))
           new == [q \in {Goes(c) : c \in Under(k)} |->
                     Original(j, CHOOSE c \in Under(k) : q = Goes(c))]
           u == [OnToNext(job[j]) EXCEPT !.done = @ + 1]
<1>1. /\ job[j].pc = "make" /\ job[j].renames /\ GivesWay(j) /\ had' = had
      /\ dst' = [q \in DOMAIN dst \cup DOMAIN new |-> IF q \in DOMAIN new THEN new[q] ELSE dst[q]]
      /\ Becomes(j, u)
  BY Zenon DEF Renames, Is
<1>2. to \in Paths /\ job[j].todo # << >> /\ job[j].todo \in Seq(Things) /\ MayGo(to)
  BY <1>0, <1>1 DEF ToRename, Allowed
<1>3. k \in Things
  BY <1>2 DEF Hand
<1>4. to \in Seq(Nat) /\ Len(to) \in Nat \ {0}
  BY <1>2 DEF Paths
<1>5. \A q \in DOMAIN new : \E s \in Seq(Nat) : q = to \o s
  <2>1. \A c \in Under(k) : SubSeq(Path[c], 2, Len(Path[c])) \in Seq(Nat)
    <3> SUFFICES ASSUME NEW c \in Under(k) PROVE SubSeq(Path[c], 2, Len(Path[c])) \in Seq(Nat)
      OBVIOUS
    <3>1. c \in Things
      BY DEF Under
    <3>2. PICK p \in Seq(Nat) : p = Path[c]
      BY <3>1, PathIs DEF Paths
    <3>3. SubSeq(p, 2, Len(p)) \in Seq(Nat)
      OBVIOUS
    <3> QED BY <3>2, <3>3
  <2> QED BY <2>1
<1>6. u.agreed = job[j].agreed /\ u.choice = job[j].choice /\ u.renames = job[j].renames
      /\ u.pc = "look" /\ u.todo = Tail(job[j].todo) /\ u.kind = job[j].kind
  BY <1>0 DEF OnToNext, Fields
<1> HIDE DEF u, new, k
<1>7. ToRename(u)
  <2>1. Tail(job[j].todo) \in Seq(Things)
    BY <1>2
  <2> QED BY <2>1, <1>0, <1>1, <1>6 DEF ToRename
<1>8. ASSUME NEW p \in DOMAIN had, ~MayGo(p), NEW n \in 1..Len(p)
      PROVE  SubSeq(p, 1, n) \notin DOMAIN new
  <2> SUFFICES ASSUME SubSeq(p, 1, n) \in DOMAIN new PROVE FALSE
    OBVIOUS
  <2>1. PICK s \in Seq(Nat) : SubSeq(p, 1, n) = to \o s
    BY <1>5
  <2>2. p \in Seq(Nat) /\ Len(p) \in Nat /\ n \in 1..Len(p)
    BY <1>8 DEF Allowed, Tree, Paths
  <2>3. PICK l \in Nat \ {0} : l = Len(to)
    BY <1>4
  <2>4. l <= n
    <3>1. Len(SubSeq(p, 1, n)) = n
      BY <2>2
    <3>2. Len(to \o s) = l + Len(s) /\ Len(s) \in Nat
      BY <1>4, <2>3
    <3> QED BY <2>1, <2>2, <3>1, <3>2
  <2>5. SubSeq(p, 1, l) = to
    <3>1. \A i \in 1..l : p[i] = to[i]
      <4> SUFFICES ASSUME NEW i \in 1..l PROVE p[i] = to[i]
        OBVIOUS
      <4>1. SubSeq(p, 1, n)[i] = p[i]
        BY <2>2, <2>4
      <4>2. (to \o s)[i] = to[i]
        BY <1>4, <2>3
      <4> QED BY <2>1, <4>1, <4>2
    <3> QED BY <3>1, <2>2, <2>3, <2>4, <1>4
  <2>6. p # to
    BY <1>2, <1>8
  <2>7. l \in 1..(Len(p) - 1)
    <3>1. SubSeq(p, 1, Len(p)) = p
      BY <2>2
    <3>2. l # Len(p)
      BY <2>5, <2>6, <3>1
    <3> QED BY <3>2, <2>2, <2>3, <2>4
  <2>8. HasThings(to) /\ At(to) = "dir"
    BY <1>8, <2>5, <2>7, TheirsWithin
  <2> QED BY <2>8, <1>1 DEF GivesWay
<1>9. KeepsTheirs(u.agreed)
  <2>1. \A q : q \in DOMAIN dst /\ q \notin DOMAIN new => q \in DOMAIN dst' /\ dst'[q] = dst[q]
    BY <1>1
  <2>2. \A q : At(q) = "dir" /\ q \notin DOMAIN new => At(q)' = "dir"
    BY <2>1 DEF At
  <2> SUFFICES ASSUME NEW p \in DOMAIN had, ~MayGo(p)
      PROVE  /\ p \in DOMAIN dst => p \in DOMAIN dst' /\ dst'[p] = dst[p]
             /\ \A n \in 1..(Len(p) - 1) : At(SubSeq(p, 1, n)) = "dir" => At(SubSeq(p, 1, n))' = "dir"
    BY DEF KeepsTheirs
  <2>3. p \in Seq(Nat) /\ Len(p) \in Nat \ {0}
    BY DEF Allowed, Tree, Paths
  <2>4. p \notin DOMAIN new
    <3>1. SubSeq(p, 1, Len(p)) = p /\ Len(p) \in 1..Len(p)
      BY <2>3
    <3> QED BY <3>1, <1>8
  <2>5. \A n \in 1..(Len(p) - 1) : n \in 1..Len(p)
    BY <2>3
  <2> QED BY <2>1, <2>2, <2>4, <2>5, <1>8
<1> QED BY <1>1, <1>6, <1>7, <1>9, AllowedStep DEF Allowed

LEMMA CrossAllowed == ASSUME Typed, Allowed, NEW j \in Jobs, CrossDevice(j) PROVE Allowed'
<1>0. DOMAIN job[j] = Fields
  BY DEF Typed, Works, WorkType
<1> DEFINE rest == InOrder(UNION {Under(k) : k \in ToSet(job[j].todo)})
           u == [job[j] EXCEPT !.renames = FALSE, !.pc = "look",
                               !.plan = rest, !.todo = rest, !.before = job[j].skipped,
                               !.files = (@ - Len(job[j].todo)) + Files(rest)]
<1>1. Becomes(j, u) /\ had' = had /\ dst' = dst
  BY Zenon DEF CrossDevice
<1> HIDE DEF rest
<1>2. u.agreed = job[j].agreed /\ u.choice = job[j].choice /\ ~u.renames /\ u.pc = "look"
  BY <1>0 DEF Fields
<1> HIDE DEF u
<1>3. ToRename(u) /\ KeepsTheirs(u.agreed)
  BY <1>1, <1>2, KeepsAll DEF ToRename
<1> QED BY <1>1, <1>2, <1>3, AllowedStep DEF Allowed

LEMMA AllowedNext == Typed /\ Allowed /\ [Next]_vars => Allowed'
<1> SUFFICES ASSUME Typed, Allowed, [Next]_vars PROVE Allowed'
  OBVIOUS
<1>1. CASE UNCHANGED vars
  BY <1>1 DEF vars, Allowed, TheirsStays, MayGo, Tree, Held, At, ToRename
<1>2. ASSUME NEW j \in Jobs, SomebodyMakes(j) PROVE Allowed'
  <2>1. had' = had /\ Becomes(j, job[j])
    BY <1>2 DEF SomebodyMakes, Becomes, Typed, Works
  <2>2. \E node : dst' = Put(dst, job[j].to, node)
    BY <1>2, Zenon DEF SomebodyMakes
  <2>3. job[j].pc \in {"make", "write"}
    BY <1>2 DEF SomebodyMakes
  <2>4. At(job[j].to) = "none" /\ MayGo(job[j].to)
    BY <1>2, <2>3 DEF SomebodyMakes, Allowed
  <2>5. KeepsTheirs(job[j].agreed)
    BY <2>1, <2>2, <2>4, KeepsAll
  <2> QED BY <2>1, <2>5, AllowedStep DEF Allowed
<1>3. ASSUME NEW j \in Jobs,
        \/ Cancel(j) \/ Plan(j) \/ PlanFails(j) \/ SkipsLeft(j) \/ LookFails(j) \/ AnswerFails(j)
        \/ MakesDir(j) \/ MakesLink(j) \/ Creates(j) \/ MakeFails(j) \/ MakeRefused(j)
        \/ Writes(j) \/ WriteFails(j) \/ Lands(j) \/ LandFails(j) \/ Tidies(j) \/ TidyFails(j)
        \/ CopyDone(j) \/ Narrows(j) \/ NarrowFails(j) \/ Removes(j) \/ RemoveFails(j)
        \/ RemoveDone(j)
      PROVE  Allowed'
  <2>1. ToRename(job[j])
    BY DEF Allowed
  <2>2. \E u : Becomes(j, u) /\ Carries(j, u) /\ ToRename(u)
    <3>1. CASE job[j].renames
      BY <1>3, <2>1, <3>1, RenameCarriesOn
    <3>2. CASE ~job[j].renames
      <4>1. PICK u : Becomes(j, u) /\ Carries(j, u)
        BY <1>3, <3>2, CarriesOn
      <4>2. ToRename(u)
        BY <3>2, <4>1 DEF Carries, ToRename
      <4> QED BY <4>1, <4>2
    <3> QED BY <3>1, <3>2
  <2>3. PICK u : Becomes(j, u) /\ Carries(j, u) /\ ToRename(u)
    BY <2>2
  <2>4. had' = had /\ KeepsTheirs(u.agreed)
    BY <1>3, NamesMayGo
  <2>5. u.pc \in {"make", "write"} => MayGo(u.to)
    BY <2>3 DEF Carries, Allowed
  <2> QED BY <2>3, <2>4, <2>5, AllowedStep DEF Carries, Allowed
<1> QED BY <1>1, <1>2, <1>3, LooksAllowed, AnswersAllowed, RenamesAllowed, CrossAllowed DEF Next

(* Copies, deletes and moves of either kind, any number of them at once on any
   tree: what the user had at the destination is there until an answer, for that
   name or for all of them, gave it up (decide and put).                      *)
THEOREM NothingGoesUnasked == Spec => []TheirsStays
<1>1. Allowed => TheirsStays
  BY DEF Allowed
<1>2. Init => Typed /\ PartsKnown /\ Allowed
  BY InitTyped, InitAllowed
<1>3. Typed /\ PartsKnown /\ Allowed /\ [Next]_vars => (Typed /\ PartsKnown /\ Allowed)'
  BY KeptNext, AllowedNext
<1> QED BY <1>1, <1>2, <1>3, PTL DEF Spec
=============================================================================
