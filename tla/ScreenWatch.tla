--------------------------- MODULE ScreenWatch ---------------------------
(* A pane's screen copied to the windows that watch it: the watchers of
   ui/term/watch.go and the queue each of them reads in screen/watch.go.

   What the program writes is numbered 1, 2, 3, ...; a screen is the number
   of the last chunk painted on it, and a watcher's picture is the sequence
   of the chunks its own emulator has been given.  A queued item is a chunk,
   a whole screen or the empty wake-up Nil.

   Whoever feeds the watchers holds the emulator's lock and the watchers'
   lock, so one record `feed` stands for the holder, the item it hands out
   and how far it has come.  A watcher takes from its queue without a lock:
   its reads interleave with every step of a feed.                          *)
EXTENDS Integers, Sequences, SequencesExt

CONSTANTS Watchers,     \* the sessions that may watch the pane
          Program,      \* the pane's read loop, as holder of the locks
          Window,       \* the window's own goroutine (SetPalette)
          NoOne,        \* the locks are free
          Cap,          \* how many items a watcher's queue holds (256)
          MaxSaid,      \* bound: chunks the program writes
          MaxPaints,    \* bound: palette changes
          MaxRestarts   \* bound: restarts of the pane

ASSUME CapAssumption == Cap \in Nat \ {0}
ASSUME BoundsAssumption == MaxSaid \in Nat /\ MaxPaints \in Nat /\ MaxRestarts \in Nat
ASSUME ActorsAssumption == /\ Program # Window /\ Program # NoOne /\ Window # NoOne
                           /\ {Program, Window, NoOne} \cap Watchers = {}

VARIABLES
  said,       \* chunks written to the emulator so far
  reading,    \* the read loop of the pane's run is still going
  ended,      \* Terminal.ended: watchers are refused
  watchers,   \* Terminal.watchers, in the order they came
  telling,    \* watchers endWatchers took off the list and has yet to tell
  feed,       \* who holds the locks, what is handed out, to whom still
  out,        \* watched.out, a channel of Cap items
  behind,     \* watched.behind
  done,       \* watched.done is closed: the watcher went
  over,       \* watched.over is closed: the program went
  pc,         \* where each watcher's goroutine is
  picture,    \* the chunks on each watcher's own screen, in order
  paints,     \* palette changes so far
  restarts,   \* restarts so far
  endedAt,    \* history: what had been said when the watcher's program went
  cutOff      \* history: the program went while a repaint was still due

pane == <<said, reading, ended, watchers, telling, paints, restarts>>
mine == <<out, behind, done, over, pc, picture>>
hist == <<endedAt, cutOff>>
vars == <<pane, feed, mine, hist>>

Nil == [kind |-> "nil", n |-> 0]
Chunk(n) == [kind |-> "chunk", n |-> n]
Screen(n) == [kind |-> "screen", n |-> n]
IsScreen(item) == item.kind = "screen"
Items == [kind : {"nil", "chunk", "screen"}, n : 0..MaxSaid]

Idle == [by |-> NoOne, item |-> Nil, todo |-> <<>>, phase |-> "offer"]
Feeding(who, item, list) ==
  IF list = <<>> THEN Idle
  ELSE [by |-> who, item |-> item, todo |-> list, phase |-> "offer"]
Free == feed.by = NoOne

Feeds == [by : Watchers \cup {Program, Window, NoOne}, item : Items,
          todo : Seq(Watchers), phase : {"offer", "drain", "put"}]
Places == {"off", "watching", "late", "check", "resync", "select", "last", "eof"}

TypeOK ==
  /\ said \in 0..MaxSaid /\ reading \in BOOLEAN /\ ended \in BOOLEAN
  /\ watchers \in Seq(Watchers) /\ telling \in SUBSET Watchers
  /\ feed \in Feeds
  /\ out \in [Watchers -> Seq(Items)] /\ \A w \in Watchers : Len(out[w]) <= Cap
  /\ behind \in [Watchers -> BOOLEAN]
  /\ done \in [Watchers -> BOOLEAN] /\ over \in [Watchers -> BOOLEAN]
  /\ pc \in [Watchers -> Places]
  /\ picture \in [Watchers -> Seq(0..MaxSaid)]
  /\ paints \in 0..MaxPaints /\ restarts \in 0..MaxRestarts
  /\ endedAt \in [Watchers -> 0..MaxSaid] /\ cutOff \in [Watchers -> BOOLEAN]

Init ==
  /\ said = 0 /\ reading = TRUE /\ ended = FALSE
  /\ watchers = <<>> /\ telling = {} /\ feed = Idle
  /\ out = [w \in Watchers |-> <<>>]
  /\ behind = [w \in Watchers |-> FALSE]
  /\ done = [w \in Watchers |-> FALSE]
  /\ over = [w \in Watchers |-> FALSE]
  /\ pc = [w \in Watchers |-> "off"]
  /\ picture = [w \in Watchers |-> <<>>]
  /\ paints = 0 /\ restarts = 0
  /\ endedAt = [w \in Watchers |-> 0] /\ cutOff = [w \in Watchers |-> FALSE]
---------------------------------------------------------------------------
(* The terminal's side. *)

(* The read loop: the chunk goes into the emulator and to the watchers under
   one hold of the emulator's lock.                                         *)
Output ==
  /\ Free /\ reading /\ said < MaxSaid
  /\ said' = said + 1
  /\ feed' = Feeding(Program, Chunk(said + 1), watchers)
  /\ UNCHANGED <<reading, ended, watchers, telling, paints, restarts, mine, hist>>

(* sendScreen, for a new palette: everyone is given the screen again. *)
SendScreen ==
  /\ Free /\ ~ended /\ watchers # <<>> /\ paints < MaxPaints
  /\ paints' = paints + 1
  /\ feed' = Feeding(Window, Screen(said), watchers)
  /\ UNCHANGED <<said, reading, ended, watchers, telling, restarts, mine, hist>>

(* A repaint the watcher's goroutine still owes itself. *)
Owed(w) == behind[w] \/ pc[w] = "resync"

(* endWatchers: the list is taken under the lock, and told after it. *)
EndWatchers ==
  /\ ended' = TRUE /\ watchers' = <<>>
  /\ telling' = ToSet(watchers)
  /\ endedAt' = [w \in Watchers |-> IF w \in ToSet(watchers) THEN said ELSE endedAt[w]]
  /\ cutOff' = [w \in Watchers |-> cutOff[w] \/ (w \in ToSet(watchers) /\ Owed(w))]

(* The read loop meets the end of the output, and finishes the pane unless a
   failed write has finished it already.                                    *)
ReadEnds ==
  /\ Free /\ reading
  /\ reading' = FALSE
  /\ IF ended THEN UNCHANGED <<ended, watchers, telling, hist>> ELSE EndWatchers
  /\ UNCHANGED <<said, paints, restarts, feed, mine>>

(* The write loop's write fails: the pane is finished while its read loop
   still has output to read.                                                *)
WriteFails ==
  /\ Free /\ reading /\ ~ended
  /\ EndWatchers
  /\ UNCHANGED <<said, reading, paints, restarts, feed, mine>>

EndedUntold(w) ==   \* faulty variant: a watcher is dropped and not told
  /\ w \in telling
  /\ telling' = telling \ {w}
  /\ UNCHANGED <<said, reading, ended, watchers, paints, restarts, feed, mine, hist>>

Ended(w) ==
  /\ w \in telling
  /\ telling' = telling \ {w}
  /\ over' = [over EXCEPT ![w] = TRUE]
  /\ UNCHANGED <<said, reading, ended, watchers, paints, restarts, feed,
                 out, behind, done, pc, picture, hist>>

(* Restart waits for both loops of the old run before it lets watchers in. *)
Revive ==
  /\ Free /\ ended /\ ~reading /\ telling = {} /\ restarts < MaxRestarts
  /\ restarts' = restarts + 1
  /\ ended' = FALSE /\ reading' = TRUE
  /\ UNCHANGED <<said, watchers, telling, paints, feed, mine, hist>>
---------------------------------------------------------------------------
(* Feeding the watcher at the head of the list. *)

At == Head(feed.todo)
Room(w) == Len(out[w]) < Cap

(* forget: a watcher is on the list once at most. *)
Forget(list, w) ==
  IF \E i \in DOMAIN list : list[i] = w
  THEN RemoveAt(list, CHOOSE i \in DOMAIN list : list[i] = w) ELSE list

(* The item is handed over: the holder goes to the next watcher, or lets the
   locks go; a watcher that was giving itself a screen carries on reading.  *)
HandedOver ==
  /\ feed' = Feeding(feed.by, feed.item, Tail(feed.todo))
  /\ pc' = CASE feed.by = At /\ pc[At] = "watching" -> [pc EXCEPT ![At] = "check"]
             [] feed.by = At /\ pc[At] = "resync" -> [pc EXCEPT ![At] = "select"]
             [] OTHER -> pc

(* The watcher went: the ones that feed a list strike it off, Resync ignores
   the error.                                                               *)
FeedGone ==
  /\ ~Free /\ feed.phase = "offer" /\ done[At]
  /\ watchers' = IF feed.by \in {Program, Window}
                 THEN Forget(watchers, At) ELSE watchers
  /\ HandedOver
  /\ UNCHANGED <<said, reading, ended, telling, paints, restarts,
                 out, behind, done, over, picture, hist>>

(* feed.Write *)
WriteFits ==
  /\ ~Free /\ feed.phase = "offer" /\ ~done[At] /\ ~IsScreen(feed.item) /\ Room(At)
  /\ out' = [out EXCEPT ![At] = Append(@, feed.item)]
  /\ HandedOver
  /\ UNCHANGED <<pane, behind, done, over, picture, hist>>

WriteFull ==
  /\ ~Free /\ feed.phase = "offer" /\ ~done[At] /\ ~IsScreen(feed.item) /\ ~Room(At)
  /\ behind' = [behind EXCEPT ![At] = TRUE]
  /\ feed' = [feed EXCEPT !.phase = "drain"]
  /\ UNCHANGED <<pane, out, done, over, pc, picture, hist>>

ScreenUndrained ==   \* faulty variant: the screen is sent behind what is queued
  /\ ~Free /\ feed.phase = "offer" /\ ~done[At] /\ IsScreen(feed.item)
  /\ feed' = [feed EXCEPT !.phase = "put"]
  /\ UNCHANGED <<pane, mine, hist>>

(* feed.Screen *)
ScreenBegins ==
  /\ ~Free /\ feed.phase = "offer" /\ ~done[At] /\ IsScreen(feed.item)
  /\ feed' = [feed EXCEPT !.phase = "drain"]
  /\ UNCHANGED <<pane, mine, hist>>

(* drain takes one item at a time, and the watcher may take some of them. *)
Drain ==
  /\ ~Free /\ feed.phase = "drain" /\ out[At] # <<>>
  /\ out' = [out EXCEPT ![At] = Tail(@)]
  /\ UNCHANGED <<pane, feed, behind, done, over, pc, picture, hist>>

DrainEnds ==
  /\ ~Free /\ feed.phase = "drain" /\ out[At] = <<>>
  /\ feed' = [feed EXCEPT !.phase = "put"]
  /\ UNCHANGED <<pane, mine, hist>>

(* The screen is sent with a blocking send: it waits for room. *)
PutScreen ==
  /\ ~Free /\ feed.phase = "put" /\ IsScreen(feed.item) /\ Room(At)
  /\ out' = [out EXCEPT ![At] = Append(@, feed.item)]
  /\ HandedOver
  /\ UNCHANGED <<pane, behind, done, over, picture, hist>>

PutNothing ==   \* faulty variant: a watcher is not woken after an overflow
  /\ ~Free /\ feed.phase = "put" /\ ~IsScreen(feed.item)
  /\ HandedOver
  /\ UNCHANGED <<pane, out, behind, done, over, picture, hist>>

(* The wake-up after an overflow is left out when there is no room. *)
PutNil ==
  /\ ~Free /\ feed.phase = "put" /\ ~IsScreen(feed.item)
  /\ out' = IF Room(At) THEN [out EXCEPT ![At] = Append(@, Nil)] ELSE out
  /\ HandedOver
  /\ UNCHANGED <<pane, behind, done, over, picture, hist>>
---------------------------------------------------------------------------
(* A watcher's side. *)

Goes(w, to) == pc' = [pc EXCEPT ![w] = to]

WatchStale(w) ==   \* faulty variant: the screen is taken before the locks are held
  /\ pc[w] = "off" /\ Free /\ ~ended
  /\ watchers' = Append(watchers, w)
  /\ \E n \in {said - 1, said} \cap Nat : feed' = Feeding(w, Screen(n), <<w>>)
  /\ Goes(w, "watching")
  /\ UNCHANGED <<said, reading, ended, telling, paints, restarts,
                 out, behind, done, over, picture, hist>>

(* Terminal.Watch: refused once the program has gone, otherwise on the list
   and fed the screen under the same hold of the locks.                     *)
Watch(w) ==
  /\ pc[w] = "off" /\ Free
  /\ \/ /\ ended
        /\ Goes(w, "late")
        /\ UNCHANGED <<watchers, feed>>
     \/ /\ ~ended
        /\ watchers' = Append(watchers, w)
        /\ feed' = Feeding(w, Screen(said), <<w>>)
        /\ Goes(w, "watching")
  /\ UNCHANGED <<said, reading, ended, telling, paints, restarts,
                 out, behind, done, over, picture, hist>>

(* screen.Watch after ErrEnded: the screen it left, and the end. *)
WatchLate(w) ==
  /\ pc[w] = "late" /\ Free /\ Room(w)
  /\ out' = [out EXCEPT ![w] = Append(@, Screen(said))]
  /\ over' = [over EXCEPT ![w] = TRUE]
  /\ Goes(w, "check")
  /\ endedAt' = [endedAt EXCEPT ![w] = said]
  /\ UNCHANGED <<pane, feed, behind, done, picture, cutOff>>

CheckOnly(w) ==   \* faulty variant: the mark is taken down and nothing painted
  /\ pc[w] = "check"
  /\ behind' = [behind EXCEPT ![w] = FALSE]
  /\ Goes(w, "select")
  /\ UNCHANGED <<pane, feed, out, done, over, picture, hist>>

(* Read: behind.Swap(false). *)
Check(w) ==
  /\ pc[w] = "check"
  /\ behind' = [behind EXCEPT ![w] = FALSE]
  /\ Goes(w, IF behind[w] THEN "resync" ELSE "select")
  /\ UNCHANGED <<pane, feed, out, done, over, picture, hist>>

(* Read: Terminal.Resync, whose error is dropped. *)
Resync(w) ==
  /\ pc[w] = "resync" /\ Free
  /\ \/ ended /\ Goes(w, "select") /\ UNCHANGED feed
     \/ ~ended /\ feed' = Feeding(w, Screen(said), <<w>>) /\ UNCHANGED pc
  /\ UNCHANGED <<pane, out, behind, done, over, picture, hist>>

Painted(n) == [i \in 1..n |-> i]

(* What an item does to the watcher's own screen. *)
Shown(p, item) == CASE item.kind = "nil" -> p
                    [] item.kind = "screen" -> Painted(item.n)
                    [] item.kind = "chunk" -> Append(p, item.n)

(* Read: an item is taken; a wake-up goes round the loop again, and so does
   the next Read after a chunk.                                             *)
Take(w) ==
  /\ pc[w] \in {"select", "last"} /\ out[w] # <<>>
  /\ out' = [out EXCEPT ![w] = Tail(@)]
  /\ picture' = [picture EXCEPT ![w] = Shown(@, Head(out[w]))]
  /\ Goes(w, "check")
  /\ UNCHANGED <<pane, feed, behind, done, over, hist>>

OverIsEOF(w) ==   \* faulty variant: what is still queued is left unread
  /\ pc[w] = "select" /\ over[w]
  /\ Goes(w, "eof")
  /\ UNCHANGED <<pane, feed, out, behind, done, over, picture, hist>>

(* Read: the select meets a closed channel. *)
SeesOver(w) ==
  /\ pc[w] = "select" /\ over[w]
  /\ Goes(w, "last")
  /\ UNCHANGED <<pane, feed, out, behind, done, over, picture, hist>>

ReadEOF(w) ==
  /\ \/ pc[w] = "select" /\ done[w]
     \/ pc[w] = "last" /\ out[w] = <<>>
  /\ Goes(w, "eof")
  /\ UNCHANGED <<pane, feed, out, behind, done, over, picture, hist>>

(* watched.Close: done is closed, and then the watcher is taken off. *)
Close(w) ==
  /\ pc[w] \notin {"off", "watching", "late"} /\ ~done[w]
  /\ done' = [done EXCEPT ![w] = TRUE]
  /\ UNCHANGED <<pane, feed, out, behind, over, pc, picture, hist>>

Unwatch(w) ==
  /\ done[w] /\ Free /\ w \in ToSet(watchers)
  /\ watchers' = Forget(watchers, w)
  /\ UNCHANGED <<said, reading, ended, telling, paints, restarts, feed, mine, hist>>
---------------------------------------------------------------------------
FeedStep == FeedGone \/ WriteFits \/ WriteFull \/ ScreenBegins
            \/ Drain \/ DrainEnds \/ PutScreen \/ PutNil
ReadStep(w) == WatchLate(w) \/ Check(w) \/ Resync(w) \/ Take(w)
               \/ SeesOver(w) \/ ReadEOF(w)

(* Nobody has anything left to do: no watcher waits, nothing holds a lock. *)
Quiet == /\ Free /\ telling = {}
         /\ \A w \in Watchers : pc[w] \in {"off", "eof"}
         /\ UNCHANGED vars

Next == \/ Output \/ SendScreen \/ ReadEnds \/ WriteFails \/ Revive
        \/ FeedStep
        \/ \E w \in Watchers : Ended(w) \/ Watch(w) \/ Close(w) \/ Unwatch(w)
                               \/ ReadStep(w)
        \/ Quiet

(* A goroutine that holds the locks goes on, a watcher goes on reading, and
   endWatchers goes through its list.  Resync and Replay wait for locks that
   others take again and again, and Go's mutexes do not starve a waiter.
   Nothing says that the program writes or ends, or that a watcher goes.    *)
Fairness == /\ WF_vars(FeedStep)
            /\ \A w \in Watchers : /\ WF_vars(Ended(w))
                                   /\ WF_vars(Check(w)) /\ WF_vars(Take(w))
                                   /\ SF_vars(Resync(w)) /\ SF_vars(WatchLate(w))
                                   /\ WF_vars(SeesOver(w)) /\ WF_vars(ReadEOF(w))
Spec == Init /\ [][Next]_vars
FairSpec == Spec /\ Fairness
---------------------------------------------------------------------------
(* Neither Screen nor Write may block while the emulator's lock is held: a
   send that waits for room in the queue always finds it.                   *)
NeverBlocks ==
  (~Free /\ feed.phase = "put" /\ IsScreen(feed.item)) => Room(At)

(* The repaint a watcher is waiting for: it owes itself one, or one is in its
   queue, or one is being handed to it at this moment.                      *)
RepaintDue(w) ==
  \/ Owed(w)
  \/ \E i \in 1..Len(out[w]) : IsScreen(out[w][i])
  \/ ~Free /\ w \in ToSet(feed.todo) /\ IsScreen(feed.item)

(* The watcher's picture and its queue make up what had been said by n: the
   queue is chunks up to n, or a screen and the chunks after it.            *)
UpTo(w, n) ==
  LET q == out[w]
      first == n - Len(q)
  IN  /\ \A i \in 2..Len(q) : q[i] = Chunk(first + i)
      /\ q = <<>> => picture[w] = Painted(first)
      /\ q # <<>> => \/ q[1] = Screen(first + 1)
                     \/ q[1] = Chunk(first + 1) /\ picture[w] = Painted(first)

(* A watcher on the list is never shown a chunk twice and never misses one:
   with nothing being handed to it and no repaint owed, its picture and its
   queue make up all that the program has written.                          *)
NothingLostNorTwice ==
  \A w \in ToSet(watchers) :
    (~Owed(w) /\ w \notin ToSet(feed.todo) /\ ~done[w]) => UpTo(w, said)

(* A picture with a hole in it, which the race between drain and Read can
   show, is never left standing: a repaint is due, unless the watcher or its
   program has gone.                                                        *)
HolesAreRepainted ==
  \A w \in Watchers :
    picture[w] # Painted(Len(picture[w])) => RepaintDue(w) \/ done[w] \/ cutOff[w]

(* A watcher that reads to the end has all that was written before its program
   was declared gone, if no repaint was owed to it at that moment.          *)
TailIsRead ==
  \A w \in Watchers :
    pc[w] = "eof" /\ ~done[w] /\ ~cutOff[w] =>
      picture[w] = Painted(Len(picture[w])) /\ Len(picture[w]) >= endedAt[w]

(* What screen/watch.go promises: the screen and then everything the program
   writes.  The code keeps it only for a watcher that was not behind at the
   end (TailIsRead); this is in no run: README, Where code and words part.  *)
EverythingThenTheEnd ==
  \A w \in Watchers :
    pc[w] = "eof" /\ ~done[w] =>
      picture[w] = Painted(Len(picture[w])) /\ Len(picture[w]) >= endedAt[w]

(* A watcher that stays gets everything the program says, however far behind
   it falls, or its program goes.                                           *)
CatchesUp ==
  \A w \in Watchers : \A n \in 1..MaxSaid :
    (w \in ToSet(watchers) /\ said >= n) ~>
      (Len(picture[w]) >= n \/ done[w] \/ w \notin ToSet(watchers))

(* Every watcher whose program goes reads its end: none waits for output from
   a shell that has exited.                                                 *)
EndIsRead ==
  \A w \in Watchers : (w \in telling) ~> (pc[w] = "eof")
=============================================================================
