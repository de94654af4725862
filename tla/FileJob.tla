---------------------------- MODULE FileJob ----------------------------
(* Pieces of file work, jobs/run.go and jobs/ask.go: a copy, a move by renaming
   or by copying and taking away, or a delete, of a small tree into one place.

   Things are numbered as the plan lists them, parents first.  A path is the
   sequence of the names on it, a name being the number of the thing that has
   it, or N + 1 up for a name the user gave to put it beside what was there.
   A file's contents is a sequence of Chunks writes, each saying whose it is;
   names lead to inodes, since a file being written can be renamed.  Each call
   on a filesystem is one step, may fail, and the work may be cancelled before
   any.                                                                     *)
EXTENDS Integers, FiniteSets, Sequences, SequencesExt, Functions

CONSTANTS Jobs,    \* the pieces of work, running at once
          Kinds,   \* what they may be: "copy", "move", "delete"
          Parent,  \* for each thing, the directory it is in, 0 at the top
          Dirs,    \* the things that are directories
          Links,   \* and those that are links
          Taken,   \* bound: the things whose names may be taken already
          Chunks,  \* bound: writes to a file
          Faults   \* bound: calls that fail, and things others make meanwhile

N == Len(Parent)
Things == 1..N
ASSUME TreeAssumption ==
  /\ Parent \in Seq(Nat)
  /\ \A k \in Things : Parent[k] \in 0..(k - 1) /\ (Parent[k] = 0 \/ Parent[k] \in Dirs)
  /\ Dirs \cap Links = {} /\ Dirs \cup Links \cup Taken \subseteq Things

ASSUME BoundsAssumption == Chunks \in Nat /\ Faults \in Nat
Plain == Things \ (Dirs \cup Links)   \* the things that are files

VARIABLES job,    \* each piece of work
          src,    \* the things still where each found them
          dst,    \* what is at the destination: paths to nodes
          parts,  \* the files being written beside their names
          data,   \* what is in the inodes written so far
          had,    \* history: what the user had at the destination at first
          faults  \* bound: how many of them there have been

vars == <<job, src, dst, parts, data, had, faults>>

Path[k \in Things] == IF Parent[k] = 0 THEN <<k>> ELSE Append(Path[Parent[k]], k)
Order == [i \in Things |-> i]
InOrder(S) ==   \* the things in S, as the plan lists them
  LET upto[k \in 0..N] == IF k = 0 THEN << >> ELSE IF k \in S THEN Append(upto[k - 1], k) ELSE upto[k - 1]
  IN upto[N]
Tops == InOrder({k \in Things : Parent[k] = 0})
Under(k) == {c \in Things : IsPrefix(Path[k], Path[c])}
Beside(to) == Append(Front(to), Last(to) + N)

Users(kind) == [kind |-> kind, of |-> "user", n |-> 0]     \* a node the user had
Original(j, k) ==                                        \* a thing itself, renamed
  [kind |-> IF k \in Dirs THEN "dir" ELSE IF k \in Links THEN "link" ELSE "file",
   of |-> j, n |-> -k]
Made(j, kind, n) == [kind |-> kind, of |-> j, n |-> n]   \* one that j made

Empty == [p \in {} |-> 0]
Put(f, p, x) == [q \in DOMAIN f \cup {p} |-> IF q = p THEN x ELSE f[q]]
Without(f, gone) == Restrict(f, DOMAIN f \ gone)

At(p) == IF p \in DOMAIN dst THEN dst[p].kind ELSE "none"

TypeOK ==
  /\ \A j \in Jobs : /\ job[j].pc \in {"plan", "look", "ask", "make", "write", "tidy",
                                        "narrow", "remove", "end"}
                     /\ job[j].err \in {"", "canceled", "stopped", "failed", "skipped"}
                     /\ src[j] \subseteq Things
                     /\ job[j].off \in 0..Chunks /\ job[j].n \in Nat
  /\ faults \in 0..Faults

New(kind, renames) ==
  [pc |-> "plan", kind |-> kind, renames |-> renames, plan |-> <<>>, todo |-> <<>>,
   to |-> <<>>, n |-> 0, ino |-> Users("file"), off |-> 0,
   moved |-> {}, left |-> {}, made |-> {}, choice |-> "none", agreed |-> {},
   skipped |-> 0, before |-> 0, files |-> 0, done |-> 0,
   err |-> "", trouble |-> FALSE, canceled |-> FALSE]

(* What the user has at the destination: files and directories with the names
   the work wants. *)
Layouts ==
  {f \in UNION {[S -> {"file", "dir"}] : S \in SUBSET {Path[k] : k \in Taken}} :
     \A p \in DOMAIN f : Len(p) > 1 => Front(p) \in DOMAIN f /\ f[Front(p)] = "dir"}

(* A move renames within one filesystem, and copies between two. *)
Init ==
  /\ \E kinds \in [Jobs -> Kinds], renames \in [Jobs -> BOOLEAN] :
       /\ \A j \in Jobs : renames[j] => kinds[j] = "move"
       /\ job = [j \in Jobs |-> New(kinds[j], renames[j])]
  /\ src = [j \in Jobs |-> Things]
  /\ had \in Layouts /\ dst = [p \in DOMAIN had |-> Users(had[p])]
  /\ parts = Empty /\ data = Empty /\ faults = 0
---------------------------------------------------------------------------
Is(j, pc) == job[j].pc = pc
Hand(j) == Head(job[j].todo)
Files(ks) == Cardinality({i \in DOMAIN ks : ks[i] \notin Dirs})
HasThings(p) == \E q \in DOMAIN dst : Len(q) > Len(p) /\ IsPrefix(p, q)

Becomes(j, u) == job' = [job EXCEPT ![j] = u]
OnToNext(u) == [u EXCEPT !.pc = "look", !.todo = Tail(@)]

(* The bound on failing calls. *)
Fails == faults < Faults /\ faults' = faults + 1

(* Cancelled work stops where it looks at its context; a call may fail. *)
GoesWrong(j, why) ==
  IF job[j].canceled THEN why = "canceled" /\ UNCHANGED faults ELSE why = "failed" /\ Fails

(* The work stops with why; what copy made is narrowed on every way out. *)
Ended(u, why) ==
  [u EXCEPT !.err = why, !.pc = IF u.renames THEN "end" ELSE "narrow"]

(* Job.Cancel, at any time. *)
Cancel(j) ==
  /\ ~Is(j, "end") /\ ~job[j].canceled
  /\ Becomes(j, [job[j] EXCEPT !.canceled = TRUE])
  /\ UNCHANGED <<src, dst, parts, data, had, faults>>

(* do, with named or plan: what there is to do, counted. *)
Plan(j) ==
  /\ Is(j, "plan") /\ ~job[j].canceled
  /\ LET ks == IF job[j].renames THEN Tops ELSE Order
         u == [job[j] EXCEPT !.plan = ks, !.todo = ks, !.pc = "look",
                             !.files = IF job[j].renames THEN Len(ks) ELSE Files(ks)]
     IN Becomes(j, IF job[j].kind = "delete"
                   THEN [u EXCEPT !.pc = "remove", !.todo = Reverse(ks)] ELSE u)
  /\ UNCHANGED <<src, dst, parts, data, had, faults>>

PlanFails(j) ==
  /\ Is(j, "plan")
  /\ \E why \in {"canceled", "failed"} :
       GoesWrong(j, why) /\ Becomes(j, [job[j] EXCEPT !.err = why, !.pc = "end"])
  /\ UNCHANGED <<src, dst, parts, data, had>>
---------------------------------------------------------------------------
(* under: what is inside a directory put beside another goes where it went. *)
Rewritten(j, p) ==
  LET onto == {m \in job[j].moved : IsPrefix(m[1], p)}
      m == CHOOSE m \in onto : TRUE
  IN IF onto = {} THEN p ELSE m[2] \o SubSeq(p, Len(m[1]) + 1, Len(p))

Wanted(j) == IF job[j].renames THEN Path[Hand(j)] ELSE Rewritten(j, Path[Hand(j)])

(* inside: what is in a directory left alone is left alone too. *)
IsLeft(j) == \E l \in job[j].left : Hand(j) \in Under(l)
Looking(j) == Is(j, "look") /\ job[j].todo # <<>>

(* skip; a rename skips with countDone. *)
Skipped(j, u) ==
  [OnToNext(u) EXCEPT !.skipped = @ + 1,
                      !.done = IF Hand(j) \in Dirs /\ ~u.renames THEN @ ELSE @ + 1]

SkipsLeft(j) ==
  /\ Looking(j) /\ ~job[j].canceled /\ IsLeft(j)
  /\ Becomes(j, Skipped(j, job[j]))
  /\ UNCHANGED <<src, dst, parts, data, had, faults>>

(* copy and rename: what is there already.  A directory over a directory is no
   conflict for a copy. *)
Looks(j) ==
  /\ Looking(j) /\ ~job[j].canceled /\ ~IsLeft(j)
  /\ LET to == Wanted(j)
         merges == At(to) = "dir" /\ Hand(j) \in Dirs /\ ~job[j].renames
     IN Becomes(j, IF merges THEN OnToNext(job[j])
                   ELSE [job[j] EXCEPT !.to = to,
                                       !.pc = IF At(to) = "none" THEN "make" ELSE "ask"])
  /\ UNCHANGED <<src, dst, parts, data, had, faults>>

LookFails(j) ==
  /\ Looking(j)
  /\ \E why \in {"canceled", "failed"} :
       GoesWrong(j, why) /\ Becomes(j, Ended(job[j], why))
  /\ UNCHANGED <<src, dst, parts, data, had>>

(* clear and clearForRename: what is put onto a file replaces it by itself. *)
ReplacesItself(j) ==
  /\ At(job[j].to) # "dir" /\ Hand(j) \notin Dirs
  /\ job[j].renames \/ (At(job[j].to) = "file" /\ Hand(j) \notin Links)

(* put and rename, with the user's answer about the name that is taken. *)
Acts(j, u, what) ==
  \/ /\ what = "skip" /\ UNCHANGED dst
     /\ LET alone == IF Hand(j) \in Dirs /\ ~u.renames THEN {Hand(j)} ELSE {}
        IN Becomes(j, [Skipped(j, u) EXCEPT !.left = @ \cup alone])
  \/ what = "stop" /\ Becomes(j, Ended(u, "stopped")) /\ UNCHANGED dst
  \/ /\ what = "rename" /\ UNCHANGED dst
     /\ Becomes(j, IF At(Beside(u.to)) # "none" THEN Ended(u, "failed")
                   ELSE [u EXCEPT !.pc = "make", !.to = Beside(@)])
  \/ /\ what = "replace" /\ HasThings(u.to) /\ UNCHANGED dst
     /\ Becomes(j, Ended(u, "failed"))
  \/ /\ what = "replace" /\ ~HasThings(u.to)
     /\ Becomes(j, [u EXCEPT !.pc = "make"])
     /\ dst' = IF ReplacesItself(j) THEN dst ELSE Without(dst, {u.to})

RememberedAlways(what, all) == IF what = "rename" THEN "none" ELSE what   \* faulty variant

(* decide: only an answer for all of them is kept, and none that gives a name. *)
Remembered(what, all) == IF all /\ what # "rename" THEN what ELSE "none"

(* History: the names a user who answers what says may be replaced. *)
Agreed(j, what, all) ==
  IF what # "replace" THEN {} ELSE IF all THEN DOMAIN had ELSE {job[j].to}

(* decide: the answer given for all of them, or the user's now. *)
Answers(j) ==
  /\ Is(j, "ask")
  /\ IF job[j].choice # "none" THEN Acts(j, job[j], job[j].choice)
     ELSE \E what \in {"replace", "skip", "rename", "stop"}, all \in BOOLEAN :
            Acts(j, [job[j] EXCEPT !.choice = Remembered(what, all),
                                   !.agreed = @ \cup Agreed(j, what, all)], what)
  /\ UNCHANGED <<src, parts, data, had, faults>>

AnswerFails(j) ==
  /\ Is(j, "ask") /\ job[j].choice = "none"
  /\ \E why \in {"canceled", "failed"} :
       GoesWrong(j, why) /\ Becomes(j, Ended(job[j], why))
  /\ UNCHANGED <<src, dst, parts, data, had>>
---------------------------------------------------------------------------
(* Another program makes something at the name just looked at. *)
SomebodyMakes(j) ==
  /\ job[j].pc \in {"make", "write"} /\ At(job[j].to) = "none" /\ Fails
  /\ \E kind \in {"file", "dir"} : dst' = Put(dst, job[j].to, Users(kind))
  /\ UNCHANGED <<job, src, parts, data, had>>

(* A rename replaces a file by what is no directory, and an empty directory by
   a directory. *)
GivesWay(j) ==
  LET to == job[j].to
  IN At(to) = "none" \/ ((Hand(j) \in Dirs <=> At(to) = "dir") /\ ~HasThings(to))

(* rename: the thing and what is inside it, in one step. *)
Renames(j) ==
  /\ Is(j, "make") /\ job[j].renames /\ GivesWay(j)
  /\ LET k == Hand(j)
         to == job[j].to
         new == [q \in {to \o SubSeq(Path[c], 2, Len(Path[c])) : c \in Under(k)} |->
                   Original(j, CHOOSE c \in Under(k) : q = to \o SubSeq(Path[c], 2, Len(Path[c])))]
     IN /\ dst' = [q \in DOMAIN dst \cup DOMAIN new |-> IF q \in DOMAIN new THEN new[q] ELSE dst[q]]
        /\ src' = [src EXCEPT ![j] = @ \ Under(k)]
        /\ Becomes(j, [OnToNext(job[j]) EXCEPT !.done = @ + 1])
  /\ UNCHANGED <<parts, data, had, faults>>

(* do, after rename: the two ends are on two devices, and what is left is
   copied and then taken away. *)
CrossDevice(j) ==
  /\ Is(j, "make") /\ job[j].renames
  /\ LET rest == InOrder(UNION {Under(k) : k \in ToSet(job[j].todo)})
     IN Becomes(j, [job[j] EXCEPT !.renames = FALSE, !.pc = "look",
                                  !.plan = rest, !.todo = rest, !.before = job[j].skipped,
                                  !.files = (@ - Len(job[j].todo)) + Files(rest)])
  /\ UNCHANGED <<src, dst, parts, data, had, faults>>

Wrote(j, u) ==
  [OnToNext(u) EXCEPT !.moved = IF u.to = Wanted(j) THEN @ ELSE @ \cup {<<Wanted(j), u.to>>}]

MakesDir(j) ==
  /\ Is(j, "make") /\ ~job[j].renames /\ Hand(j) \in Dirs /\ At(job[j].to) = "none"
  /\ dst' = Put(dst, job[j].to, Made(j, "dir", Hand(j)))
  /\ Becomes(j, [Wrote(j, job[j]) EXCEPT !.made = @ \cup {job[j].to}])
  /\ UNCHANGED <<src, parts, data, had, faults>>

MakesLink(j) ==
  /\ Is(j, "make") /\ ~job[j].renames /\ Hand(j) \in Links /\ At(job[j].to) = "none"
  /\ dst' = Put(dst, job[j].to, Made(j, "link", Hand(j)))
  /\ Becomes(j, [Wrote(j, job[j]) EXCEPT !.done = @ + 1])
  /\ UNCHANGED <<src, parts, data, had, faults>>

Hole == <<"none", 0>>
Part(u) == <<u.to, u.n>>

CreatesInPlace(j) ==   \* faulty variant: written straight onto its name
  /\ Is(j, "make") /\ ~job[j].renames /\ Hand(j) \in Plain
  /\ LET u == [job[j] EXCEPT !.n = @ + 1]
         ino == Made(j, "file", u.n)
     IN /\ parts' = Put(parts, Part(u), ino) /\ dst' = Put(dst, u.to, ino)
        /\ data' = Put(data, ino, [c \in 1..Chunks |-> Hole])
        /\ Becomes(j, [u EXCEPT !.pc = "write", !.ino = ino, !.off = 0])
  /\ UNCHANGED <<src, had, faults>>

(* file: the part is made beside the name.  One of that name is emptied. *)
Creates(j) ==
  /\ Is(j, "make") /\ ~job[j].renames /\ Hand(j) \in Plain
  /\ LET u == [job[j] EXCEPT !.n = @ + 1]
         ino == IF Part(u) \in DOMAIN parts THEN parts[Part(u)] ELSE Made(j, "file", u.n)
     IN /\ parts' = Put(parts, Part(u), ino)
        /\ data' = Put(data, ino, [c \in 1..Chunks |-> Hole])
        /\ Becomes(j, [u EXCEPT !.pc = "write", !.ino = ino, !.off = 0])
  /\ UNCHANGED <<src, dst, had, faults>>

MakeFails(j) ==
  /\ Is(j, "make") /\ Fails
  /\ Becomes(j, Ended(job[j], "failed"))
  /\ UNCHANGED <<src, dst, parts, data, had>>

(* Another put something there since: Mkdir and Symlink fail, and a rename
   that does not replace it. *)
MakeRefused(j) ==
  /\ Is(j, "make")
  /\ IF job[j].renames THEN ~GivesWay(j)
     ELSE Hand(j) \in Dirs \cup Links /\ At(job[j].to) # "none"
  /\ Becomes(j, Ended(job[j], "failed"))
  /\ UNCHANGED <<src, dst, parts, data, had, faults>>

(* stream: one write, wherever the inode has gone. *)
Writes(j) ==
  /\ Is(j, "write") /\ job[j].off < Chunks /\ ~job[j].canceled
  /\ data' = [data EXCEPT ![job[j].ino][job[j].off + 1] = <<j, Hand(j)>>]
  /\ Becomes(j, [job[j] EXCEPT !.off = @ + 1])
  /\ UNCHANGED <<src, dst, parts, had, faults>>

WriteStopsShort(j) ==   \* faulty variant: cancelled work leaves its part
  /\ Is(j, "write") /\ job[j].off < Chunks
  /\ \E why \in {"canceled", "failed"} :
       GoesWrong(j, why) /\ Becomes(j, Ended(job[j], why))
  /\ UNCHANGED <<src, dst, parts, data, had>>

WriteFails(j) ==
  /\ Is(j, "write") /\ job[j].off < Chunks
  /\ \E why \in {"canceled", "failed"} :
       GoesWrong(j, why) /\ Becomes(j, [job[j] EXCEPT !.err = why, !.pc = "tidy"])
  /\ UNCHANGED <<src, dst, parts, data, had>>

Landing(j) == Is(j, "write") /\ job[j].off = Chunks

(* file: closed and renamed onto the name, in one step. *)
Lands(j) ==
  /\ Landing(j) /\ Part(job[j]) \in DOMAIN parts /\ At(job[j].to) # "dir"
  /\ dst' = Put(dst, job[j].to, parts[Part(job[j])])
  /\ parts' = Without(parts, {Part(job[j])})
  /\ Becomes(j, [Wrote(j, job[j]) EXCEPT !.done = @ + 1])
  /\ UNCHANGED <<src, data, had, faults>>

LandFails(j) ==
  /\ Landing(j)
  /\ \/ Fails
     \/ (Part(job[j]) \notin DOMAIN parts \/ At(job[j].to) = "dir") /\ UNCHANGED faults
  /\ Becomes(j, [job[j] EXCEPT !.err = "failed", !.pc = "tidy"])
  /\ UNCHANGED <<src, dst, parts, data, had>>

(* file: what was written is taken away, or that is said as well. *)
Tidies(j) ==
  /\ Is(j, "tidy") /\ Part(job[j]) \in DOMAIN parts
  /\ parts' = Without(parts, {Part(job[j])})
  /\ Becomes(j, Ended(job[j], job[j].err))
  /\ UNCHANGED <<src, dst, data, had, faults>>

TidyFails(j) ==
  /\ Is(j, "tidy")
  /\ Fails \/ (Part(job[j]) \notin DOMAIN parts /\ UNCHANGED faults)
  /\ Becomes(j, [Ended(job[j], job[j].err) EXCEPT !.trouble = TRUE])
  /\ UNCHANGED <<src, dst, parts, data, had>>
---------------------------------------------------------------------------
(* copy has been through everything. *)
CopyDone(j) ==
  /\ Is(j, "look") /\ job[j].todo = <<>>
  /\ Becomes(j, Ended(job[j], ""))
  /\ UNCHANGED <<src, dst, parts, data, had, faults>>

TakesAllAway(j, u) ==   \* faulty variant: nobody looks for what was left alone
  IF u.err # "" \/ u.kind # "move" THEN [u EXCEPT !.pc = "end"]
  ELSE [u EXCEPT !.pc = "remove", !.todo = Reverse(u.plan)]

(* move, once the copy has returned: the originals go if nothing was left
   alone. *)
AfterCopy(j, u) ==
  IF u.err # "" \/ u.kind # "move" THEN [u EXCEPT !.pc = "end"]
  ELSE IF u.skipped > u.before THEN [u EXCEPT !.err = "skipped", !.pc = "end"]
  ELSE [u EXCEPT !.pc = "remove", !.todo = Reverse(u.plan)]

Narrows(j) ==
  /\ Is(j, "narrow")
  /\ Becomes(j, AfterCopy(j, [job[j] EXCEPT !.made = {}]))
  /\ UNCHANGED <<src, dst, parts, data, had, faults>>

NarrowFails(j) ==
  /\ Is(j, "narrow") /\ Fails
  /\ \E p \in job[j].made :
       Becomes(j, [job[j] EXCEPT !.made = {p}, !.trouble = TRUE, !.pc = "end",
                                 !.err = IF @ = "" THEN "failed" ELSE @])
  /\ UNCHANGED <<src, dst, parts, data, had>>

(* remove: backwards, so a directory goes after what is in it. *)
Removes(j) ==
  /\ Is(j, "remove") /\ job[j].todo # <<>> /\ ~job[j].canceled
  /\ src' = [src EXCEPT ![j] = @ \ {Hand(j)}]
  /\ Becomes(j, [job[j] EXCEPT !.todo = Tail(@),
                   !.done = IF job[j].kind = "delete" /\ Hand(j) \notin Dirs THEN @ + 1 ELSE @])
  /\ UNCHANGED <<dst, parts, data, had, faults>>

RemoveFails(j) ==
  /\ Is(j, "remove") /\ job[j].todo # <<>>
  /\ \E why \in {"canceled", "failed"} :
       GoesWrong(j, why) /\ Becomes(j, [job[j] EXCEPT !.err = why, !.pc = "end"])
  /\ UNCHANGED <<src, dst, parts, data, had>>

RemoveDone(j) ==
  /\ Is(j, "remove") /\ job[j].todo = <<>>
  /\ Becomes(j, [job[j] EXCEPT !.pc = "end"])
  /\ UNCHANGED <<src, dst, parts, data, had, faults>>
---------------------------------------------------------------------------
Next ==
  \E j \in Jobs :
    \/ Cancel(j) \/ Plan(j) \/ PlanFails(j) \/ SkipsLeft(j) \/ Looks(j) \/ LookFails(j)
    \/ Answers(j) \/ AnswerFails(j) \/ SomebodyMakes(j) \/ Renames(j) \/ CrossDevice(j)
    \/ MakesDir(j) \/ MakesLink(j) \/ Creates(j) \/ MakeFails(j) \/ MakeRefused(j)
    \/ Writes(j) \/ WriteFails(j) \/ Lands(j) \/ LandFails(j) \/ Tidies(j) \/ TidyFails(j)
    \/ CopyDone(j) \/ Narrows(j) \/ NarrowFails(j)
    \/ Removes(j) \/ RemoveFails(j) \/ RemoveDone(j)

Spec == Init /\ [][Next]_vars
---------------------------------------------------------------------------
(* node is the whole of thing k as j took it. *)
Whole(node, j, k) ==
  \/ node = Original(j, k)
  \/ node = Made(j, "link", k)
  \/ /\ node.kind = "file" /\ node.n > 0
     /\ \A c \in 1..Chunks : data[node][c] = <<j, k>>

(* The file at a name is either the one that was there before or the whole of
   the new one, and never half of either, wherever the work stops. *)
NeverHalf ==
  \A p \in DOMAIN dst : dst[p].kind = "file" /\ dst[p].n > 0
                         => \E j \in Jobs, k \in Things : Whole(dst[p], j, k)

(* Whatever a move took away from where it was is whole at the destination:
   skipped, cancelled, failed or renamed half way, no original is lost. *)
MoveLosesNothing ==
  \A j \in Jobs : job[j].kind = "move" =>
    \A k \in Things \ (src[j] \cup Dirs) : \E p \in DOMAIN dst : Whole(dst[p], j, k)

(* What the user had at the destination stays until the user agreed to have
   that very name replaced, or all of them. *)
TheirsStays ==
  \A p \in DOMAIN had : (\A j \in Jobs : p \notin job[j].agreed)
                          => p \in DOMAIN dst /\ dst[p] = Users(had[p])

(* Work that ended left no part behind, and no directory wider than it was
   asked for, without saying so. *)
NothingLeftUnsaid ==
  \A j \in Jobs : Is(j, "end") /\ ~job[j].trouble
     => job[j].made = {} /\ \A q \in DOMAIN parts : parts[q].of # j

============================================================================
