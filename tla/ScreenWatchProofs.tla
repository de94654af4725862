------------------------ MODULE ScreenWatchProofs ------------------------
(* What holds of ScreenWatch for every number of watchers, every length of
   their queues and every bound: its types; that nothing which feeds a watcher
   ever waits for room while it holds the emulator's lock; and what the watchers
   see: who is on the list is shown everything once, a hole is repainted, and
   what was written before the end is read before it.                       *)
EXTENDS ScreenWatch, TLAPS, SequenceTheorems

LEMMA ToSetType ==
  ASSUME NEW S, NEW s \in Seq(S) PROVE ToSet(s) \in SUBSET S
  BY DEF ToSet

LEMMA ForgetType ==
  ASSUME NEW S, NEW s \in Seq(S), NEW w PROVE Forget(s, w) \in Seq(S)
<1>1. CASE \E i \in DOMAIN s : s[i] = w
  <2> DEFINE i == CHOOSE j \in DOMAIN s : s[j] = w
  <2>1. i \in 1..Len(s)
    BY <1>1
  <2> HIDE DEF i
  <2>2. SubSeq(s, 1, i - 1) \in Seq(S)
    <3>1. \A j \in 1..(i - 1) : s[j] \in S
      BY <2>1
    <3> QED BY <2>1, <3>1, SubSeqProperties
  <2>3. SubSeq(s, i + 1, Len(s)) \in Seq(S)
    <3>1. \A j \in (i + 1)..Len(s) : s[j] \in S
      BY <2>1
    <3> QED BY <2>1, <3>1, SubSeqProperties
  <2> QED BY <1>1, <2>2, <2>3, ConcatProperties DEF Forget, RemoveAt, i
<1>2. CASE ~ \E i \in DOMAIN s : s[i] = w
  BY <1>2 DEF Forget
<1> QED BY <1>1, <1>2

LEMMA PaintedType ==
  ASSUME NEW n \in 0..MaxSaid PROVE Painted(n) \in Seq(0..MaxSaid)
  BY BoundsAssumption DEF Painted

LEMMA ShownType ==
  ASSUME NEW p \in Seq(0..MaxSaid), NEW item \in Items
  PROVE  Shown(p, item) \in Seq(0..MaxSaid)
<1>1. CASE item.kind = "nil"
  BY <1>1 DEF Shown
<1>2. CASE item.kind = "screen"
  BY <1>2, PaintedType DEF Shown, Items
<1>3. CASE item.kind = "chunk"
  BY <1>3, AppendProperties DEF Shown, Items
<1> QED BY <1>1, <1>2, <1>3 DEF Items

LEMMA FeedingType ==
  ASSUME NEW who \in Watchers \cup {Program, Window, NoOne}, NEW item \in Items,
         NEW list \in Seq(Watchers)
  PROVE  Feeding(who, item, list) \in Feeds
  BY BoundsAssumption DEF Feeding, Idle, Feeds, Nil, Items

(* Whoever holds the locks has a watcher left to feed. *)
Holding == ~Free => feed.todo # <<>>

LEMMA FeedingHolds ==
  ASSUME NEW who, NEW item, NEW list
  PROVE  Feeding(who, item, list).by # NoOne => Feeding(who, item, list).todo # <<>>
  BY DEF Feeding, Idle

LEMMA HeldType ==
  ASSUME feed \in Feeds, Holding, ~Free
  PROVE  At \in Watchers /\ Tail(feed.todo) \in Seq(Watchers)
  BY HeadTailProperties DEF Feeds, Holding, At

LEMMA ItemTypes ==
  /\ Nil \in Items
  /\ \A n \in 0..MaxSaid : Chunk(n) \in Items /\ Screen(n) \in Items
  BY BoundsAssumption DEF Nil, Chunk, Screen, Items

LEMMA HandedOverType ==
  ASSUME TypeOK, Holding, ~Free, HandedOver
  PROVE  /\ feed' \in Feeds /\ Holding'
         /\ pc' \in [Watchers -> Places]
<1>1. feed \in Feeds /\ At \in Watchers /\ Tail(feed.todo) \in Seq(Watchers)
  BY HeldType DEF TypeOK, Feeds
<1>2. feed' \in Feeds
  BY <1>1, FeedingType DEF HandedOver, Feeds
<1>3. Holding'
  BY FeedingHolds DEF HandedOver, Holding, Free
<1>4. pc' \in [Watchers -> Places]
  BY <1>1 DEF HandedOver, TypeOK, Places
<1> QED BY <1>2, <1>3, <1>4

TypeInv == TypeOK /\ Holding

LEMMA TypeInit == Init => TypeInv
<1> SUFFICES ASSUME Init PROVE TypeInv
  OBVIOUS
<1>1. Holding
  BY DEF Init, Holding, Free, Idle
<1>2. feed \in Feeds
  BY ItemTypes, EmptySeq DEF Init, Idle, Feeds
<1>3. out \in [Watchers -> Seq(Items)] /\ \A w \in Watchers : Len(out[w]) <= Cap
  BY CapAssumption, EmptySeq DEF Init
<1>4. picture \in [Watchers -> Seq(0..MaxSaid)] /\ watchers \in Seq(Watchers)
  BY EmptySeq DEF Init
<1>5. /\ behind \in [Watchers -> BOOLEAN] /\ done \in [Watchers -> BOOLEAN]
      /\ over \in [Watchers -> BOOLEAN] /\ cutOff \in [Watchers -> BOOLEAN]
      /\ reading \in BOOLEAN /\ ended \in BOOLEAN
  BY Zenon DEF Init
<1>6. /\ said \in 0..MaxSaid /\ paints \in 0..MaxPaints /\ restarts \in 0..MaxRestarts
      /\ endedAt \in [Watchers -> 0..MaxSaid]
  BY BoundsAssumption DEF Init
<1>7. pc \in [Watchers -> Places] /\ telling \in SUBSET Watchers
  BY DEF Init, Places
<1> QED BY <1>1, <1>2, <1>3, <1>4, <1>5, <1>6, <1>7 DEF TypeInv, TypeOK

LEMMA TypeNext == TypeInv /\ [Next]_vars => TypeInv'
<1> SUFFICES ASSUME TypeInv, [Next]_vars PROVE TypeInv'
  OBVIOUS
<1> USE DEF TypeInv
<1>1. CASE Output
  <2>1. said' \in 0..MaxSaid /\ Chunk(said + 1) \in Items
    BY <1>1, BoundsAssumption DEF Output, TypeOK, Chunk, Items
  <2>2. feed' \in Feeds /\ Holding'
    BY <1>1, <2>1, FeedingType, FeedingHolds DEF Output, TypeOK, Holding, Free
  <2> QED BY <1>1, <2>1, <2>2 DEF Output, TypeOK, mine, hist
<1>2. CASE SendScreen
  <2>1. Screen(said) \in Items /\ paints' \in 0..MaxPaints
    BY <1>2, BoundsAssumption DEF SendScreen, TypeOK, Screen, Items
  <2>2. feed' \in Feeds /\ Holding'
    BY <1>2, <2>1, FeedingType, FeedingHolds DEF SendScreen, TypeOK, Holding, Free
  <2> QED BY <1>2, <2>1, <2>2 DEF SendScreen, TypeOK, mine, hist
<1>3. ASSUME EndWatchers
      PROVE  /\ ended' \in BOOLEAN /\ watchers' \in Seq(Watchers) /\ telling' \in SUBSET Watchers
             /\ endedAt' \in [Watchers -> 0..MaxSaid] /\ cutOff' \in [Watchers -> BOOLEAN]
  <2>1. ended' \in BOOLEAN /\ cutOff' \in [Watchers -> BOOLEAN]
    BY <1>3, Zenon DEF EndWatchers, TypeOK, Owed
  <2>2. watchers' \in Seq(Watchers) /\ telling' \in SUBSET Watchers
    BY <1>3, EmptySeq, ToSetType DEF EndWatchers, TypeOK
  <2>3. endedAt' \in [Watchers -> 0..MaxSaid]
    BY <1>3 DEF EndWatchers, TypeOK
  <2> QED BY <2>1, <2>2, <2>3
<1>4. CASE ReadEnds
  BY <1>3, <1>4 DEF ReadEnds, TypeOK, mine, hist, Holding, Free
<1>5. CASE WriteFails
  BY <1>3, <1>5 DEF WriteFails, TypeOK, mine, Holding, Free
<1>6. CASE Revive
  <2>1. restarts' \in 0..MaxRestarts
    BY <1>6, BoundsAssumption DEF Revive, TypeOK
  <2>2. ended' \in BOOLEAN /\ reading' \in BOOLEAN
    BY <1>6, Zenon DEF Revive
  <2> QED BY <1>6, <2>1, <2>2 DEF Revive, TypeOK, mine, hist, Holding, Free
<1>7. CASE FeedGone
  <2>1. feed' \in Feeds /\ Holding' /\ pc' \in [Watchers -> Places]
    BY <1>7, HandedOverType DEF FeedGone
  <2>2. watchers' \in Seq(Watchers)
    BY <1>7, ForgetType DEF FeedGone, TypeOK
  <2> QED BY <1>7, <2>1, <2>2 DEF FeedGone, TypeOK, hist
<1>8. ASSUME NEW item \in Items, ~Free, out' = [out EXCEPT ![At] = Append(@, item)], Room(At)
      PROVE  out' \in [Watchers -> Seq(Items)] /\ \A w \in Watchers : Len(out'[w]) <= Cap
  <2>1. At \in Watchers /\ out[At] \in Seq(Items)
    BY <1>8, HeldType DEF TypeOK
  <2>2. Append(out[At], item) \in Seq(Items) /\ Len(Append(out[At], item)) <= Cap
    BY <1>8, <2>1, AppendProperties, LenProperties, CapAssumption DEF Room
  <2> QED BY <1>8, <2>1, <2>2 DEF TypeOK
<1>9. CASE WriteFits
  <2>1. feed' \in Feeds /\ Holding' /\ pc' \in [Watchers -> Places]
    BY <1>9, HandedOverType DEF WriteFits
  <2>2. feed.item \in Items
    BY DEF TypeOK, Feeds
  <2> QED BY <1>8, <1>9, <2>1, <2>2 DEF WriteFits, TypeOK, hist, pane
<1>10. CASE WriteFull
  <2>1. feed' \in Feeds /\ Holding'
    BY <1>10 DEF WriteFull, TypeOK, Feeds, Holding, Free
  <2>2. behind' \in [Watchers -> BOOLEAN]
    BY <1>10, Zenon DEF WriteFull, TypeOK
  <2> QED BY <1>10, <2>1, <2>2 DEF WriteFull, TypeOK, hist, pane
<1>11. CASE ScreenBegins
  <2>1. feed' \in Feeds /\ Holding'
    BY <1>11 DEF ScreenBegins, TypeOK, Feeds, Holding, Free
  <2> QED BY <1>11, <2>1 DEF ScreenBegins, TypeOK, hist, pane, mine
<1>12. CASE Drain
  <2>1. At \in Watchers /\ out[At] \in Seq(Items)
    BY <1>12, HeldType DEF TypeOK, Drain
  <2>2. Tail(out[At]) \in Seq(Items) /\ Len(Tail(out[At])) <= Cap
    BY <1>12, <2>1, HeadTailProperties, LenProperties, CapAssumption DEF Drain, TypeOK
  <2> QED BY <1>12, <2>1, <2>2 DEF Drain, TypeOK, hist, pane, Holding, Free
<1>13. CASE DrainEnds
  <2>1. feed' \in Feeds /\ Holding'
    BY <1>13 DEF DrainEnds, TypeOK, Feeds, Holding, Free
  <2> QED BY <1>13, <2>1 DEF DrainEnds, TypeOK, hist, pane, mine
<1>14. CASE PutScreen
  <2>1. feed' \in Feeds /\ Holding' /\ pc' \in [Watchers -> Places]
    BY <1>14, HandedOverType DEF PutScreen
  <2>2. feed.item \in Items
    BY DEF TypeOK, Feeds
  <2> QED BY <1>8, <1>14, <2>1, <2>2 DEF PutScreen, TypeOK, hist, pane
<1>15. CASE PutNil
  <2>1. feed' \in Feeds /\ Holding' /\ pc' \in [Watchers -> Places]
    BY <1>15, HandedOverType DEF PutNil
  <2>2. out' \in [Watchers -> Seq(Items)] /\ \A w \in Watchers : Len(out'[w]) <= Cap
    BY <1>8, <1>15, ItemTypes DEF PutNil, TypeOK
  <2> QED BY <1>15, <2>1, <2>2 DEF PutNil, TypeOK, hist, pane
<1>16. ASSUME NEW w \in Watchers, Ended(w) PROVE TypeInv'
  BY <1>16, Zenon DEF Ended, TypeOK, hist, Holding, Free
<1>17. ASSUME NEW w \in Watchers, Watch(w) PROVE TypeInv'
  <2>1. pc' \in [Watchers -> Places]
    BY <1>17 DEF Watch, Goes, TypeOK, Places
  <2>2. Screen(said) \in Items /\ <<w>> \in Seq(Watchers)
    BY ItemTypes DEF TypeOK
  <2>3. \/ feed' = feed /\ watchers' = watchers
        \/ feed' = Feeding(w, Screen(said), <<w>>) /\ watchers' = Append(watchers, w)
    BY <1>17 DEF Watch
  <2>4. feed' \in Feeds /\ Holding'
    <3>1. CASE feed' = feed
      BY <3>1 DEF TypeOK, Holding, Free
    <3>2. CASE feed' = Feeding(w, Screen(said), <<w>>)
      BY <2>2, <3>2, FeedingType, FeedingHolds DEF Holding, Free
    <3> QED BY <2>3, <3>1, <3>2
  <2>5. watchers' \in Seq(Watchers)
    <3>1. Append(watchers, w) \in Seq(Watchers)
      BY AppendProperties DEF TypeOK
    <3> QED BY <2>3, <3>1 DEF TypeOK
  <2> QED BY <1>17, <2>1, <2>4, <2>5 DEF Watch, TypeOK, hist
<1>18. ASSUME NEW w \in Watchers, Close(w) PROVE TypeInv'
  BY <1>18, Zenon DEF Close, TypeOK, hist, pane, Holding, Free
<1>19. ASSUME NEW w \in Watchers, Unwatch(w) PROVE TypeInv'
  BY <1>19, ForgetType DEF Unwatch, TypeOK, hist, mine, Holding, Free
<1>20. ASSUME NEW w \in Watchers, WatchLate(w) PROVE TypeInv'
  <2>1. pc' \in [Watchers -> Places] /\ endedAt' \in [Watchers -> 0..MaxSaid]
    BY <1>20 DEF WatchLate, Goes, TypeOK, Places
  <2>2. over' \in [Watchers -> BOOLEAN]
    BY <1>20, Zenon DEF WatchLate, TypeOK
  <2>3. Append(out[w], Screen(said)) \in Seq(Items) /\ Len(Append(out[w], Screen(said))) <= Cap
    BY <1>20, AppendProperties, LenProperties, ItemTypes, CapAssumption DEF WatchLate, Room, TypeOK
  <2>4. out' \in [Watchers -> Seq(Items)] /\ \A v \in Watchers : Len(out'[v]) <= Cap
    BY <1>20, <2>3 DEF WatchLate, TypeOK
  <2> QED BY <1>20, <2>1, <2>2, <2>4 DEF WatchLate, TypeOK, pane, Holding, Free
<1>21. ASSUME NEW w \in Watchers, Check(w) PROVE TypeInv'
  <2>1. behind' \in [Watchers -> BOOLEAN]
    BY <1>21, Zenon DEF Check, TypeOK
  <2>2. pc' \in [Watchers -> Places]
    BY <1>21 DEF Check, Goes, TypeOK, Places
  <2> QED BY <1>21, <2>1, <2>2 DEF Check, TypeOK, pane, hist, Holding, Free
<1>22. ASSUME NEW w \in Watchers, Resync(w) PROVE TypeInv'
  <2>1. pc' \in [Watchers -> Places]
    BY <1>22 DEF Resync, Goes, TypeOK, Places
  <2>2. Screen(said) \in Items /\ <<w>> \in Seq(Watchers)
    BY ItemTypes DEF TypeOK
  <2>3. feed' = feed \/ feed' = Feeding(w, Screen(said), <<w>>)
    BY <1>22 DEF Resync
  <2>4. feed' \in Feeds /\ Holding'
    <3>1. CASE feed' = feed
      BY <3>1 DEF TypeOK, Holding, Free
    <3>2. CASE feed' = Feeding(w, Screen(said), <<w>>)
      BY <2>2, <3>2, FeedingType, FeedingHolds DEF Holding, Free
    <3> QED BY <2>3, <3>1, <3>2
  <2> QED BY <1>22, <2>1, <2>4 DEF Resync, TypeOK, pane, hist
<1>23. ASSUME NEW w \in Watchers, Take(w) PROVE TypeInv'
  <2>1. out[w] \in Seq(Items) /\ out[w] # <<>> /\ Len(out[w]) <= Cap
    BY <1>23 DEF Take, TypeOK
  <2>2. /\ Head(out[w]) \in Items /\ Tail(out[w]) \in Seq(Items)
        /\ Len(Tail(out[w])) <= Cap
    BY <2>1, HeadTailProperties, LenProperties, CapAssumption
  <2>3. out' \in [Watchers -> Seq(Items)] /\ \A v \in Watchers : Len(out'[v]) <= Cap
    BY <1>23, <2>2 DEF Take, TypeOK
  <2>4. picture' \in [Watchers -> Seq(0..MaxSaid)]
    BY <1>23, <2>2, ShownType DEF Take, TypeOK
  <2>5. pc' \in [Watchers -> Places]
    BY <1>23 DEF Take, Goes, TypeOK, Places
  <2> QED BY <1>23, <2>3, <2>4, <2>5 DEF Take, TypeOK, pane, hist, Holding, Free
<1>24. ASSUME NEW w \in Watchers, SeesOver(w) PROVE TypeInv'
  BY <1>24 DEF SeesOver, Goes, TypeOK, Places, pane, hist, Holding, Free
<1>25. ASSUME NEW w \in Watchers, ReadEOF(w) PROVE TypeInv'
  BY <1>25 DEF ReadEOF, Goes, TypeOK, Places, pane, hist, Holding, Free
<1>26. CASE UNCHANGED vars
  BY <1>26 DEF vars, pane, mine, hist, TypeOK, Holding, Free
<1> QED
  BY <1>1, <1>2, <1>4, <1>5, <1>6, <1>7, <1>9, <1>10, <1>11, <1>12, <1>13, <1>14,
     <1>15, <1>16, <1>17, <1>18, <1>19, <1>20, <1>21, <1>22, <1>23, <1>24, <1>25, <1>26
  DEF Next, FeedStep, ReadStep, Quiet

(* Every reachable state is well typed: no queue is ever longer than its
   channel, and what is fed is fed to watchers.                             *)
THEOREM TypeCorrect == Spec => []TypeOK
<1>1. Spec => []TypeInv
  BY TypeInit, TypeNext, PTL DEF Spec
<1> QED BY <1>1, PTL DEF TypeInv

(* feed.Screen sends after it has emptied the queue, and nobody else can have
   put anything in since: they would need the locks.                        *)
EmptyBeforePut == (~Free /\ feed.phase = "put") => out[At] = <<>>

LEMMA EmptyNext ==
  TypeInv /\ EmptyBeforePut /\ [Next]_vars => EmptyBeforePut'
<1> SUFFICES ASSUME TypeInv, EmptyBeforePut, [Next]_vars PROVE EmptyBeforePut'
  OBVIOUS
<1>1. \A who, item, list : LET f == Feeding(who, item, list)
                          IN  f.by = NoOne \/ f.phase = "offer"
  BY DEF Feeding, Idle
<1>2. CASE Output \/ SendScreen \/ FeedGone \/ WriteFits \/ PutScreen \/ PutNil
           \/ \E w \in Watchers : (Watch(w) \/ Resync(w)) /\ ~ended
  <2>1. \E who, item, list : feed' = Feeding(who, item, list)
    BY <1>2 DEF Output, SendScreen, FeedGone, WriteFits, PutScreen, PutNil, HandedOver,
                Watch, Resync
  <2> QED BY <1>1, <2>1 DEF EmptyBeforePut, Free
<1>3. CASE WriteFull \/ ScreenBegins
  BY <1>3 DEF WriteFull, ScreenBegins, EmptyBeforePut, TypeInv, TypeOK, Feeds
<1>4. CASE DrainEnds
  BY <1>4 DEF DrainEnds, EmptyBeforePut, TypeInv, TypeOK, Feeds, At, mine
<1>5. CASE Drain
  BY <1>5 DEF Drain, EmptyBeforePut
<1>6. ASSUME NEW w \in Watchers, Take(w) PROVE EmptyBeforePut'
  BY <1>6, HeldType DEF Take, EmptyBeforePut, Free, At, TypeInv, TypeOK
<1>7. ASSUME NEW w \in Watchers, WatchLate(w) PROVE EmptyBeforePut'
  BY <1>7 DEF WatchLate, EmptyBeforePut, Free
<1>8. CASE ReadEnds \/ WriteFails \/ Revive \/ Quiet \/ UNCHANGED vars
  BY <1>8 DEF ReadEnds, WriteFails, Revive, Quiet, EmptyBeforePut, Free, At, vars, mine
<1>9. ASSUME NEW w \in Watchers,
             Ended(w) \/ Close(w) \/ Unwatch(w) \/ Check(w) \/ SeesOver(w) \/ ReadEOF(w)
                      \/ ((Watch(w) \/ Resync(w)) /\ ended)
      PROVE  EmptyBeforePut'
  BY <1>9 DEF Ended, Close, Unwatch, Check, SeesOver, ReadEOF, Watch, Resync,
              EmptyBeforePut, Free, At, mine
<1> QED
  <2>1. CASE Output \/ SendScreen \/ ReadEnds \/ WriteFails \/ Revive \/ FeedStep
             \/ Quiet \/ UNCHANGED vars
    BY <1>2, <1>3, <1>4, <1>5, <1>8, <2>1 DEF FeedStep
  <2>2. ASSUME NEW w \in Watchers,
               Ended(w) \/ Watch(w) \/ Close(w) \/ Unwatch(w) \/ ReadStep(w)
        PROVE  EmptyBeforePut'
    BY <1>2, <1>6, <1>7, <1>9, <2>2 DEF ReadStep
  <2> QED BY <2>1, <2>2 DEF Next

(* Whatever the length of the queues and however many watch: no send to a
   watcher waits for room while the emulator's lock is held, so a slow window
   elsewhere never stops the pane from drawing (feed.Screen's bare send).     *)
THEOREM FeedNeverBlocks == Spec => []NeverBlocks
<1>1. Init => EmptyBeforePut
  BY DEF Init, EmptyBeforePut, Free, Idle
<1>2. TypeInv /\ EmptyBeforePut => NeverBlocks
  <2> SUFFICES ASSUME TypeInv, EmptyBeforePut, ~Free, feed.phase = "put" PROVE Room(At)
    BY DEF NeverBlocks
  <2>1. Len(out[At]) = 0
    BY EmptySeq DEF EmptyBeforePut
  <2> QED BY <2>1, CapAssumption DEF Room
<1> QED BY <1>1, <1>2, TypeInit, TypeNext, EmptyNext, PTL DEF Spec
---------------------------------------------------------------------------

Distinct(s) == \A i, j \in 1..Len(s) : s[i] = s[j] => i = j

LEMMA TailDistinct ==
  ASSUME NEW S, NEW s \in Seq(S), s # <<>>, Distinct(s)
  PROVE  /\ Distinct(Tail(s)) /\ Head(s) \notin ToSet(Tail(s))
         /\ ToSet(s) = {Head(s)} \cup ToSet(Tail(s))
<1>1. /\ Len(s) \in Nat \ {0} /\ Tail(s) \in Seq(S) /\ Len(Tail(s)) = Len(s) - 1 /\ Head(s) = s[1]
      /\ \A i \in 1..Len(s) - 1 : Tail(s)[i] = s[i + 1]
  OBVIOUS
<1>2. \A i \in 1..Len(s) - 1 : i + 1 \in 1..Len(s) /\ i + 1 # 1
  BY <1>1
<1>3. 1 \in 1..Len(s)
  BY <1>1
<1>4. Distinct(Tail(s))
  BY <1>1, <1>2 DEF Distinct
<1>5. ToSet(s) = {s[i] : i \in 1..Len(s)} /\ ToSet(Tail(s)) = {Tail(s)[i] : i \in 1..Len(s) - 1}
  <2>1. DOMAIN s = 1..Len(s) /\ DOMAIN Tail(s) = 1..Len(s) - 1
    BY <1>1
  <2> QED BY <2>1, Zenon DEF ToSet
<1>6. Head(s) \notin ToSet(Tail(s))
  BY <1>1, <1>2, <1>3, <1>5 DEF Distinct
<1>7. ToSet(s) \subseteq {Head(s)} \cup ToSet(Tail(s))
  <2> SUFFICES ASSUME NEW i \in 1..Len(s) PROVE s[i] \in {Head(s)} \cup ToSet(Tail(s))
    BY <1>5
  <2>1. CASE i = 1
    BY <1>1, <2>1
  <2>2. CASE i # 1
    <3>1. i - 1 \in 1..Len(s) - 1 /\ (i - 1) + 1 = i
      BY <1>1, <2>2
    <3>2. Tail(s)[i - 1] = s[i]
      BY <1>1, <3>1
    <3> QED BY <1>5, <3>1, <3>2
  <2> QED BY <2>1, <2>2
<1>8. {Head(s)} \cup ToSet(Tail(s)) \subseteq ToSet(s)
  BY <1>1, <1>2, <1>3, <1>5
<1> QED BY <1>4, <1>6, <1>7, <1>8

LEMMA AppendDistinct ==
  ASSUME NEW S, NEW s \in Seq(S), NEW e \in S, Distinct(s), e \notin ToSet(s)
  PROVE  Distinct(Append(s, e)) /\ ToSet(Append(s, e)) = ToSet(s) \cup {e}
<1> DEFINE t == Append(s, e)
<1>1. /\ Len(s) \in Nat /\ t \in Seq(S) /\ Len(t) = Len(s) + 1 /\ t[Len(s) + 1] = e
      /\ \A i \in 1..Len(s) : t[i] = s[i]
  OBVIOUS
<1>2. \A i \in 1..Len(t) : i \in 1..Len(s) \/ i = Len(s) + 1
  BY <1>1
<1>3. Len(s) + 1 \in 1..Len(t) /\ \A i \in 1..Len(s) : i \in 1..Len(t)
  BY <1>1
<1>4. ToSet(s) = {s[i] : i \in 1..Len(s)} /\ ToSet(t) = {t[i] : i \in 1..Len(t)}
  BY <1>1 DEF ToSet
<1> HIDE DEF t
<1>5. Distinct(t)
  BY <1>1, <1>2, <1>4 DEF Distinct
<1>6. ToSet(t) = ToSet(s) \cup {e}
  BY <1>1, <1>2, <1>3, <1>4
<1> QED BY <1>5, <1>6 DEF t

LEMMA ForgetKeeps ==
  ASSUME NEW S, NEW s \in Seq(S), NEW w, Distinct(s)
  PROVE  /\ Distinct(Forget(s, w)) /\ ToSet(Forget(s, w)) \subseteq ToSet(s)
         /\ ToSet(s) \ {w} \subseteq ToSet(Forget(s, w))
<1>1. CASE \E i \in DOMAIN s : s[i] = w
  <2> DEFINE i == CHOOSE j \in DOMAIN s : s[j] = w
             t == Forget(s, w)
  <2>1. i \in 1..Len(s) /\ s[i] = w
    BY <1>1
  <2>2. t = SubSeq(s, 1, i - 1) \o SubSeq(s, i + 1, Len(s))
    BY <1>1 DEF Forget, RemoveAt
  <2> HIDE DEF i, t
  <2>3. /\ t \in Seq(S) /\ Len(t) = Len(s) - 1 /\ Len(s) \in Nat
        /\ \A k \in 1..Len(s) - 1 : t[k] = IF k < i THEN s[k] ELSE s[k + 1]
    <3> DEFINE a == SubSeq(s, 1, i - 1)
               b == SubSeq(s, i + 1, Len(s))
    <3>1. Len(s) \in Nat /\ i \in 1..Len(s)
      BY <2>1
    <3>2. a \in Seq(S) /\ Len(a) = i - 1 /\ \A k \in 1..i - 1 : a[k] = s[k]
      BY <3>1
    <3>3. b \in Seq(S) /\ Len(b) = Len(s) - i /\ \A k \in 1..Len(s) - i : b[k] = s[k + i]
      BY <3>1
    <3> HIDE DEF a, b
    <3>4. t \in Seq(S) /\ Len(t) = Len(s) - 1
      <4>1. t = a \o b
        BY <2>2 DEF a, b
      <4>2. t \in Seq(S) /\ Len(t) = Len(a) + Len(b)
        BY <3>2, <3>3, <4>1, ConcatProperties
      <4> QED BY <3>1, <3>2, <3>3, <4>2
    <3>5. ASSUME NEW k \in 1..Len(s) - 1 PROVE t[k] = IF k < i THEN s[k] ELSE s[k + 1]
      <4>1. t[k] = IF k <= Len(a) THEN a[k] ELSE b[k - Len(a)]
        <5>1. k \in 1..Len(a) + Len(b)
          BY <3>1, <3>2, <3>3
        <5>2. t = a \o b
          BY <2>2 DEF a, b
        <5> QED BY <3>2, <3>3, <5>1, <5>2, ConcatProperties
      <4>2. CASE k < i
        <5>1. k <= Len(a) /\ k \in 1..i - 1
          BY <3>1, <3>2, <4>2
        <5> QED BY <3>2, <4>1, <4>2, <5>1
      <4>3. CASE ~(k < i)
        <5>1. ~(k <= Len(a)) /\ k - Len(a) \in 1..Len(s) - i /\ (k - Len(a)) + i = k + 1
          BY <3>1, <3>2, <4>3
        <5> QED BY <3>3, <4>1, <4>3, <5>1
      <4> QED BY <4>2, <4>3
    <3> QED BY <3>1, <3>4, <3>5
  <2>4. \A k \in 1..Len(s) - 1 : k \in 1..Len(s) /\ k + 1 \in 1..Len(s)
    BY <2>3
  <2>5. Distinct(t)
    <3> SUFFICES ASSUME NEW j \in 1..Len(s) - 1, NEW k \in 1..Len(s) - 1, t[j] = t[k] PROVE j = k
      BY <2>3 DEF Distinct
    <3>1. CASE j < i /\ k < i
      BY <2>3, <2>4, <3>1 DEF Distinct
    <3>2. CASE j < i /\ ~(k < i)
      <4>1. s[j] = s[k + 1]
        BY <2>3, <3>2
      <4>2. j # k + 1
        BY <2>1, <3>2
      <4> QED BY <2>4, <4>1, <4>2 DEF Distinct
    <3>3. CASE ~(j < i) /\ k < i
      <4>1. s[j + 1] = s[k]
        BY <2>3, <3>3
      <4>2. k # j + 1
        BY <2>1, <3>3
      <4> QED BY <2>4, <4>1, <4>2 DEF Distinct
    <3>4. CASE ~(j < i) /\ ~(k < i)
      <4>1. s[j + 1] = s[k + 1]
        BY <2>3, <3>4
      <4>2. j + 1 = k + 1
        BY <2>4, <4>1 DEF Distinct
      <4> QED BY <4>2
    <3> QED BY <3>1, <3>2, <3>3, <3>4
  <2>6. ToSet(s) = {s[k] : k \in 1..Len(s)} /\ ToSet(t) = {t[k] : k \in 1..Len(s) - 1}
    BY <2>3 DEF ToSet
  <2>7. ToSet(t) \subseteq ToSet(s)
    BY <2>3, <2>4, <2>6
  <2>8. ASSUME NEW k \in 1..Len(s), s[k] # w PROVE s[k] \in ToSet(t)
    <3>1. CASE k < i
      <4>1. k \in 1..Len(s) - 1 /\ t[k] = s[k]
        BY <2>1, <2>3, <3>1
      <4> QED BY <2>6, <4>1
    <3>2. CASE k > i
      <4>1. k - 1 \in 1..Len(s) - 1 /\ (k - 1) + 1 = k /\ ~(k - 1 < i)
        BY <2>1, <3>2
      <4>2. t[k - 1] = s[k]
        BY <2>3, <4>1
      <4> QED BY <2>6, <4>1, <4>2
    <3> QED BY <2>1, <2>8, <3>1, <3>2
  <2> QED BY <2>5, <2>6, <2>7, <2>8 DEF t
<1>2. CASE ~ \E i \in DOMAIN s : s[i] = w
  BY <1>2 DEF Forget
<1> QED BY <1>1, <1>2
---------------------------------------------------------------------------
(* A queue and a picture that make up what was said by n; the bounds on what is
   first keep the numbers of chunks from 1.                                     *)
Makes(q, p, n) ==
  LET first == n - Len(q)
  IN  /\ n \in Nat
      /\ \A i \in 2..Len(q) : q[i] = Chunk(first + i)
      /\ q = <<>> => p = Painted(first)
      /\ q # <<>> => \/ q[1] = Screen(first + 1) /\ first + 1 \in Nat
                     \/ q[1] = Chunk(first + 1) /\ p = Painted(first) /\ first \in Nat

LEMMA MakesUpTo ==
  ASSUME NEW w, NEW n, Makes(out[w], picture[w], n)
  PROVE  UpTo(w, n)
  BY DEF Makes, UpTo

LEMMA PaintedFacts ==
  ASSUME NEW n \in Nat
  PROVE  /\ Painted(n) \in Seq(Int) /\ Len(Painted(n)) = n
         /\ Append(Painted(n), n + 1) = Painted(n + 1)
<1>1. Painted(n) \in Seq(Int) /\ Len(Painted(n)) = n /\ \A i \in 1..n : Painted(n)[i] = i
  BY DEF Painted
<1>2. Painted(n + 1) \in Seq(Int) /\ Len(Painted(n + 1)) = n + 1 /\ \A i \in 1..n + 1 : Painted(n + 1)[i] = i
  BY DEF Painted
<1> DEFINE t == Append(Painted(n), n + 1)
<1>3. t \in Seq(Int) /\ Len(t) = n + 1 /\ t[n + 1] = n + 1 /\ \A i \in 1..n : t[i] = Painted(n)[i]
  BY <1>1
<1> HIDE DEF t
<1>4. \A i \in 1..n + 1 : i \in 1..n \/ i = n + 1
  OBVIOUS
<1>5. \A i \in 1..n + 1 : t[i] = Painted(n + 1)[i]
  BY <1>1, <1>2, <1>3, <1>4
<1>6. t = Painted(n + 1)
  BY <1>2, <1>3, <1>5, SeqEqual
<1> QED BY <1>1, <1>6 DEF t

LEMMA MakesTake ==
  ASSUME NEW q \in Seq(Items), NEW p, NEW n, Makes(q, p, n), q # <<>>
  PROVE  Makes(Tail(q), Shown(p, Head(q)), n)
<1> DEFINE t == Tail(q)
           first == n - Len(q)
           r == Shown(p, Head(q))
<1>1. /\ Len(q) \in Nat \ {0} /\ t \in Seq(Items) /\ Len(t) = Len(q) - 1 /\ Head(q) = q[1]
      /\ \A i \in 1..Len(q) - 1 : t[i] = q[i + 1]
  OBVIOUS
<1>2. /\ n \in Nat /\ first \in Int /\ n - Len(t) = first + 1
      /\ \A i \in 2..Len(q) : q[i] = Chunk(first + i)
      /\ \/ q[1] = Screen(first + 1) /\ first + 1 \in Nat
         \/ q[1] = Chunk(first + 1) /\ p = Painted(first) /\ first \in Nat
  BY <1>1 DEF Makes
<1>3. r = Painted(first + 1) /\ first + 1 \in Nat
  <2>1. CASE q[1] = Screen(first + 1) /\ first + 1 \in Nat
    BY <1>1, <2>1 DEF Shown, Screen
  <2>2. CASE q[1] = Chunk(first + 1) /\ p = Painted(first) /\ first \in Nat
    <3>1. r = Append(Painted(first), first + 1)
      BY <1>1, <2>2 DEF Shown, Chunk
    <3>2. Append(Painted(first), first + 1) = Painted(first + 1) /\ first + 1 \in Nat
      <4> HIDE DEF first
      <4>1. first \in Nat
        BY <2>2
      <4>2. Append(Painted(first), first + 1) = Painted(first + 1)
        BY <4>1, PaintedFacts, Zenon
      <4> QED BY <4>1, <4>2
    <3> QED BY <3>1, <3>2
  <2> QED BY <1>2, <2>1, <2>2
<1>4. \A i \in 1..Len(t) : t[i] = Chunk((first + 1) + i)
  <2> SUFFICES ASSUME NEW i \in 1..Len(t) PROVE t[i] = Chunk((first + 1) + i)
    OBVIOUS
  <2>1. i + 1 \in 2..Len(q) /\ first + (i + 1) = (first + 1) + i /\ i \in 1..Len(q) - 1
    BY <1>1, <1>2
  <2> QED BY <1>1, <1>2, <2>1
<1>5. t # <<>> => t[1] = Chunk((first + 1) + 1)
  BY <1>1, <1>4
<1> HIDE DEF t, first, r
<1>6. \A i \in 2..Len(t) : i \in 1..Len(t)
  BY <1>1
<1>7. n - Len(t) = first + 1
  BY <1>2
<1> QED BY <1>2, <1>3, <1>4, <1>5, <1>6, <1>7 DEF Makes, t, r

LEMMA MakesMore ==
  ASSUME NEW q \in Seq(Items), NEW p, NEW n, Makes(q, p, n)
  PROVE  Makes(Append(q, Chunk(n + 1)), p, n + 1)
<1> DEFINE t == Append(q, Chunk(n + 1))
           first == n - Len(q)
<1>1. /\ Len(q) \in Nat /\ Len(t) = Len(q) + 1 /\ t[Len(q) + 1] = Chunk(n + 1) /\ t # <<>>
      /\ \A i \in 1..Len(q) : t[i] = q[i]
  <2>1. q \in Seq(Items \cup {Chunk(n + 1)})
    OBVIOUS
  <2> QED BY <2>1, AppendProperties
<1>2. /\ n \in Nat /\ first \in Int /\ (n + 1) - Len(t) = first
      /\ \A i \in 2..Len(q) : q[i] = Chunk(first + i)
      /\ q = <<>> => p = Painted(first) /\ first = n
      /\ q # <<>> => \/ q[1] = Screen(first + 1) /\ first + 1 \in Nat
                     \/ q[1] = Chunk(first + 1) /\ p = Painted(first) /\ first \in Nat
  BY <1>1 DEF Makes
<1>3. ASSUME NEW i \in 2..Len(t) PROVE t[i] = Chunk(first + i)
  <2>1. CASE i \in 2..Len(q)
    BY <1>1, <1>2, <2>1
  <2>2. CASE i = Len(q) + 1
    <3>1. first + i = n + 1
      BY <1>1, <1>2, <2>2
    <3> QED BY <1>1, <2>2, <3>1
  <2> QED BY <1>1, <2>1, <2>2
<1>4. \/ t[1] = Screen(first + 1) /\ first + 1 \in Nat
      \/ t[1] = Chunk(first + 1) /\ p = Painted(first) /\ first \in Nat
  <2>1. CASE q = <<>>
    <3>1. Len(q) + 1 = 1
      BY <2>1
    <3> QED BY <1>1, <1>2, <2>1, <3>1
  <2>2. CASE q # <<>>
    <3>1. t[1] = q[1]
      BY <1>1, <2>2
    <3> QED BY <1>2, <2>2, <3>1
  <2> QED BY <2>1, <2>2
<1> HIDE DEF t, first
<1>5. n + 1 \in Nat /\ (n + 1) - Len(t) = first
  BY <1>2
<1> QED BY <1>1, <1>3, <1>4, <1>5 DEF Makes, t

LEMMA MakesScreen ==
  ASSUME NEW p, NEW n \in Nat
  PROVE  Makes(Append(<<>>, Screen(n)), p, n)
<1> DEFINE t == Append(<<>>, Screen(n))
<1>1. t = <<Screen(n)>>
  OBVIOUS
<1>2. Len(t) = 1 /\ t[1] = Screen(n) /\ t # <<>>
  BY <1>1
<1> HIDE DEF t
<1>3. n - Len(t) = n - 1 /\ (n - 1) + 1 = n /\ 2..Len(t) = {}
  BY <1>2
<1> QED BY <1>2, <1>3 DEF Makes, t

LEMMA MakesHoles ==
  ASSUME NEW q \in Seq(Items), NEW p, NEW n, Makes(q, p, n)
  PROVE  p = Painted(Len(p)) \/ \E i \in 1..Len(q) : IsScreen(q[i])
<1> DEFINE first == n - Len(q)
<1>1. CASE p = Painted(first) /\ first \in Nat
  BY <1>1, PaintedFacts
<1>2. CASE q # <<>> /\ q[1] = Screen(first + 1)
  <2>1. 1 \in 1..Len(q)
    BY <1>2
  <2> QED BY <1>2, <2>1 DEF IsScreen, Screen
<1>3. q = <<>> => first = n
  BY DEF Makes
<1> QED BY <1>1, <1>2, <1>3 DEF Makes
---------------------------------------------------------------------------
(* What is handed out is what was said last, to each once, and nobody holds the
   locks for nobody.                                                            *)
Fed ==
  /\ Free => feed.todo = <<>>
  /\ ~Free => feed.item = Chunk(said) \/ feed.item = Screen(said)
  /\ feed.by \in Watchers => IsScreen(feed.item)
  /\ Distinct(feed.todo)
  /\ \A w \in ToSet(feed.todo) : pc[w] \notin {"off", "late"}

(* A watcher comes once, is on the list once, and is off it before it is told
   that its program went.                                                       *)
Listed ==
  /\ Distinct(watchers) /\ (ended => watchers = <<>>)
  /\ \A w \in ToSet(watchers) : pc[w] \notin {"off", "late"} /\ ~over[w] /\ w \notin telling
  /\ \A w \in Watchers : pc[w] = "off" => ~over[w] /\ w \notin telling
  /\ \A w \in Watchers : pc[w] \in {"last", "eof"} => over[w] \/ done[w]

(* On the list and owed nothing, a watcher has what was said, or all but the
   chunk that is about to be handed to it. *)
Current(w) ==
  w \in ToSet(watchers) /\ ~done[w] /\ ~Owed(w) =>
    /\ w \notin ToSet(feed.todo) => Makes(out[w], picture[w], said)
    /\ w \in ToSet(feed.todo) /\ ~IsScreen(feed.item) =>
         Makes(out[w], picture[w], said - 1) /\ (w = At => feed.phase = "offer")

(* Off the list, it had nothing before it came, and has all that was said before
   the end unless a repaint was owed to it then; nothing more is handed to it.  *)
Behind(w) ==
  w \notin ToSet(watchers) /\ ~done[w] /\ ~cutOff[w] =>
    /\ pc[w] \in {"off", "late"} => out[w] = <<>> /\ picture[w] = <<>> /\ ~behind[w]
    /\ pc[w] \notin {"off", "late"} =>
         Makes(out[w], picture[w], endedAt[w]) /\ ~Owed(w) /\ w \notin ToSet(feed.todo)
    /\ pc[w] = "eof" => out[w] = <<>>

Seen == Fed /\ Listed /\ \A w \in Watchers : Current(w) /\ Behind(w)
Kept == TypeInv /\ EmptyBeforePut /\ Seen

LEMMA ToSetEmpty == ToSet(<<>>) = {}
  BY DEF ToSet

LEMMA ToSetOne == ASSUME NEW w PROVE ToSet(<<w>>) = {w} /\ Distinct(<<w>>)
<1>1. Len(<<w>>) = 1 /\ DOMAIN <<w>> = 1..1 /\ <<w>>[1] = w
  OBVIOUS
<1> QED BY <1>1 DEF ToSet, Distinct

LEMMA FeedingFacts ==
  ASSUME NEW who, who # NoOne, NEW item, NEW list, NEW f, f = Feeding(who, item, list)
  PROVE  /\ f.todo = list /\ f.phase = "offer" /\ (f.by = NoOne <=> list = <<>>)
         /\ list # <<>> => f.by = who /\ f.item = item
  BY DEF Feeding, Idle

LEMMA InitSeen == Init => Seen
<1> SUFFICES ASSUME Init PROVE Seen
  OBVIOUS
<1>1. /\ watchers = <<>> /\ feed = Idle /\ ended = FALSE /\ telling = {}
      /\ out = [w \in Watchers |-> <<>>] /\ picture = [w \in Watchers |-> <<>>]
      /\ pc = [w \in Watchers |-> "off"] /\ over = [w \in Watchers |-> FALSE]
      /\ behind = [w \in Watchers |-> FALSE]
  BY Zenon DEF Init
<1>2. Distinct(<<>>)
  BY DEF Distinct
<1>3. Free /\ feed.todo = <<>> /\ feed.by \notin Watchers
  BY <1>1, ActorsAssumption DEF Free, Idle
<1>4. Fed
  BY <1>2, <1>3, ToSetEmpty DEF Fed
<1>5. Listed
  BY <1>1, <1>2, ToSetEmpty DEF Listed
<1>6. \A w \in Watchers : Current(w) /\ Behind(w)
  BY <1>1, ToSetEmpty DEF Current, Behind
<1> QED BY <1>4, <1>5, <1>6 DEF Seen

(* What is left alone, or has gone, stays right. *)
LEMMA WatcherKept ==
  ASSUME NEW w, Current(w), Behind(w),
         UNCHANGED <<said, feed, out[w], picture[w], behind[w], pc[w], endedAt[w], cutOff[w]>>,
         done[w] => done'[w],
         (w \in ToSet(watchers') <=> w \in ToSet(watchers)) \/ done'[w]
  PROVE  Current(w)' /\ Behind(w)'
<1>1. Current(w)'
  BY DEF Current, Owed, At
<1>2. Behind(w)'
  BY DEF Behind, Owed
<1> QED BY <1>1, <1>2

LEMMA OutputSeen ==
  ASSUME Kept, Output
  PROVE  Seen'
<1>1. /\ Free /\ said \in Nat /\ said' = said + 1 /\ feed' = Feeding(Program, Chunk(said + 1), watchers)
      /\ UNCHANGED <<ended, watchers, telling, mine, hist>>
  BY BoundsAssumption DEF Output, Kept, TypeInv, TypeOK
<1>2. /\ feed'.todo = watchers /\ feed'.phase = "offer" /\ (feed'.by = NoOne <=> watchers = <<>>)
      /\ watchers # <<>> => feed'.by = Program /\ feed'.item = Chunk(said + 1)
  BY <1>1, FeedingFacts, ActorsAssumption
<1>3. Fed'
  BY <1>1, <1>2, ActorsAssumption DEF Kept, Seen, Fed, Listed, Free, mine
<1>4. Listed'
  BY <1>1 DEF Kept, Seen, Listed, mine
<1>5. ASSUME NEW w \in Watchers PROVE Current(w)' /\ Behind(w)'
  <2>1. w \notin ToSet(feed.todo) /\ Current(w) /\ Behind(w)
    BY <1>1, ToSetEmpty DEF Kept, Seen, Fed
  <2>2. Current(w)'
    BY <1>1, <1>2, <2>1 DEF Current, Owed, mine, At
  <2>3. Behind(w)'
    BY <1>1, <1>2, <2>1 DEF Behind, Owed, mine, hist
  <2> QED BY <2>2, <2>3
<1> QED BY <1>3, <1>4, <1>5 DEF Seen

LEMMA SendScreenSeen ==
  ASSUME Kept, SendScreen
  PROVE  Seen'
<1>1. /\ Free /\ feed' = Feeding(Window, Screen(said), watchers)
      /\ UNCHANGED <<said, ended, watchers, telling, mine, hist>>
  BY DEF SendScreen
<1>2. /\ feed'.todo = watchers /\ feed'.phase = "offer" /\ (feed'.by = NoOne <=> watchers = <<>>)
      /\ watchers # <<>> => feed'.by = Window /\ feed'.item = Screen(said)
  BY <1>1, FeedingFacts, ActorsAssumption
<1>3. Fed'
  BY <1>1, <1>2, ActorsAssumption DEF Kept, Seen, Fed, Listed, Free, mine
<1>4. Listed'
  BY <1>1 DEF Kept, Seen, Listed, mine
<1>5. ASSUME NEW w \in Watchers PROVE Current(w)' /\ Behind(w)'
  <2>1. w \notin ToSet(feed.todo) /\ Current(w) /\ Behind(w)
    BY <1>1, ToSetEmpty DEF Kept, Seen, Fed
  <2>2. w \in ToSet(watchers) => IsScreen(feed'.item)
    BY <1>2, ToSetEmpty DEF IsScreen, Screen
  <2>3. Current(w)'
    BY <1>1, <1>2, <2>1, <2>2 DEF Current, Owed, mine, At
  <2>4. Behind(w)'
    BY <1>1, <1>2, <2>1 DEF Behind, Owed, mine, hist
  <2> QED BY <2>3, <2>4
<1> QED BY <1>3, <1>4, <1>5 DEF Seen

(* A watcher comes, or is refused since its program went. *)
LEMMA WatchSeen ==
  ASSUME Kept, NEW w \in Watchers, Watch(w)
  PROVE  Seen'
<1>1. /\ pc[w] = "off" /\ Free /\ w \notin ToSet(watchers) /\ ~over[w] /\ w \notin telling
      /\ feed.todo = <<>> /\ w \notin ToSet(feed.todo)
      /\ UNCHANGED <<said, ended, telling, out, behind, done, over, picture, hist>>
      /\ pc \in [Watchers -> Places] /\ watchers \in Seq(Watchers)
  BY ToSetEmpty DEF Watch, Kept, Seen, Listed, Fed, TypeInv, TypeOK
<1>2. CASE ended /\ Goes(w, "late") /\ UNCHANGED <<watchers, feed>>
  <2>1. pc'[w] = "late" /\ \A v \in Watchers \ {w} : pc'[v] = pc[v]
    BY <1>1, <1>2 DEF Goes
  <2>2. watchers = <<>> /\ watchers' = <<>>
    BY <1>2 DEF Kept, Seen, Listed
  <2>3. Fed'
    BY <1>1, <1>2, ToSetEmpty DEF Kept, Seen, Fed, Free
  <2>4. Listed'
    BY <1>1, <1>2, <2>1, <2>2, ToSetEmpty DEF Kept, Seen, Listed
  <2>5. ASSUME NEW v \in Watchers PROVE Current(v)' /\ Behind(v)'
    <3>1. CASE v # w
      BY <1>1, <1>2, <2>1, <3>1, WatcherKept DEF Kept, Seen, hist
    <3>2. CASE v = w
      BY <1>1, <1>2, <2>1, <3>2 DEF Kept, Seen, Current, Behind, hist
    <3> QED BY <3>1, <3>2
  <2> QED BY <2>3, <2>4, <2>5 DEF Seen
<1>3. CASE ~ended /\ watchers' = Append(watchers, w) /\ feed' = Feeding(w, Screen(said), <<w>>)
           /\ Goes(w, "watching")
  <2>1. pc'[w] = "watching" /\ \A v \in Watchers \ {w} : pc'[v] = pc[v]
    BY <1>1, <1>3 DEF Goes
  <2>2. feed'.todo = <<w>> /\ feed'.phase = "offer" /\ feed'.by = w /\ feed'.item = Screen(said)
    <3>1. w # NoOne /\ <<w>> # <<>>
      BY ActorsAssumption
    <3> QED BY <1>3, <3>1, FeedingFacts
  <2>3. Distinct(watchers') /\ ToSet(watchers') = ToSet(watchers) \cup {w}
    BY <1>1, <1>3, AppendDistinct DEF Kept, Seen, Listed
  <2>4. ToSet(feed'.todo) = {w} /\ Distinct(feed'.todo) /\ IsScreen(feed'.item)
    BY <2>2, ToSetOne DEF IsScreen, Screen
  <2>5. Fed'
    BY <1>1, <2>1, <2>2, <2>4, ActorsAssumption DEF Fed, Free
  <2>6. Listed'
    <3>1. \A v \in ToSet(watchers') : v \in Watchers
      BY <1>1, <2>3, ToSetType
    <3> QED BY <1>1, <1>3, <2>1, <2>3, <3>1 DEF Kept, Seen, Listed
  <2>7. ASSUME NEW v \in Watchers PROVE Current(v)' /\ Behind(v)'
    <3>1. CASE v # w
      <4>1. /\ v \notin ToSet(feed.todo) /\ v \notin ToSet(feed'.todo)
            /\ v \in ToSet(watchers') <=> v \in ToSet(watchers)
        BY <1>1, <2>3, <2>4, <3>1, ToSetEmpty
      <4>2. Current(v)'
        BY <1>1, <2>1, <3>1, <4>1 DEF Kept, Seen, Current, Owed
      <4>3. Behind(v)'
        BY <1>1, <2>1, <3>1, <4>1 DEF Kept, Seen, Behind, Owed, hist
      <4> QED BY <4>2, <4>3
    <3>2. CASE v = w
      BY <2>3, <2>4, <3>2 DEF Current, Behind
    <3> QED BY <3>1, <3>2
  <2> QED BY <2>5, <2>6, <2>7 DEF Seen
<1> QED BY <1>2, <1>3 DEF Watch

(* A watcher that fell behind gives itself the screen again, unless its program
   went. *)
LEMMA ResyncSeen ==
  ASSUME Kept, NEW w \in Watchers, Resync(w)
  PROVE  Seen'
<1>1. /\ pc[w] = "resync" /\ Free /\ feed.todo = <<>> /\ ToSet(feed.todo) = {}
      /\ UNCHANGED <<pane, out, behind, done, over, picture, hist>>
      /\ pc \in [Watchers -> Places]
  BY ToSetEmpty DEF Resync, Kept, Seen, Fed, TypeInv, TypeOK
<1>2. CASE ended /\ Goes(w, "select") /\ UNCHANGED feed
  <2>1. pc'[w] = "select" /\ \A v \in Watchers \ {w} : pc'[v] = pc[v]
    BY <1>1, <1>2 DEF Goes
  <2>2. watchers = <<>> /\ watchers' = <<>>
    BY <1>1, <1>2 DEF Kept, Seen, Listed, pane
  <2>3. Fed'
    BY <1>1, <1>2 DEF Kept, Seen, Fed, Free, pane
  <2>4. Listed'
    BY <1>1, <1>2, <2>1, <2>2, ToSetEmpty DEF Kept, Seen, Listed, pane
  <2>5. ASSUME NEW v \in Watchers PROVE Current(v)' /\ Behind(v)'
    <3>1. CASE v # w
      BY <1>1, <1>2, <2>1, <3>1, WatcherKept DEF Kept, Seen, hist, pane
    <3>2. CASE v = w
      BY <1>1, <1>2, <2>1, <2>2, <3>2, ToSetEmpty DEF Kept, Seen, Current, Behind, Owed, hist
    <3> QED BY <3>1, <3>2
  <2> QED BY <2>3, <2>4, <2>5 DEF Seen
<1>3. CASE ~ended /\ feed' = Feeding(w, Screen(said), <<w>>) /\ UNCHANGED pc
  <2>2. feed'.todo = <<w>> /\ feed'.phase = "offer" /\ feed'.by = w /\ feed'.item = Screen(said)
    <3>1. w # NoOne /\ <<w>> # <<>>
      BY ActorsAssumption
    <3> QED BY <1>3, <3>1, FeedingFacts
  <2>4. ToSet(feed'.todo) = {w} /\ Distinct(feed'.todo) /\ IsScreen(feed'.item)
    BY <2>2, ToSetOne DEF IsScreen, Screen
  <2>5. Fed'
    BY <1>1, <1>3, <2>2, <2>4, ActorsAssumption DEF Fed, Free, pane
  <2>6. Listed'
    BY <1>1, <1>3 DEF Kept, Seen, Listed, pane
  <2>7. ASSUME NEW v \in Watchers PROVE Current(v)' /\ Behind(v)'
    <3>1. CASE v # w
      <4>1. Current(v)'
        BY <1>1, <1>3, <2>4, <3>1 DEF Kept, Seen, Current, Owed, pane
      <4>2. Behind(v)'
        BY <1>1, <1>3, <2>4, <3>1 DEF Kept, Seen, Behind, Owed, hist, pane
      <4> QED BY <4>1, <4>2
    <3>2. CASE v = w
      <4>1. Owed(w) /\ Owed(w)'
        BY <1>1, <1>3 DEF Owed
      <4>2. Current(v)'
        BY <3>2, <4>1 DEF Current
      <4>3. Behind(v)'
        BY <1>1, <1>3, <3>2, <4>1 DEF Kept, Seen, Behind, hist, pane
      <4> QED BY <4>2, <4>3
    <3> QED BY <3>1, <3>2
  <2> QED BY <2>5, <2>6, <2>7 DEF Seen
<1> QED BY <1>2, <1>3 DEF Resync
---------------------------------------------------------------------------
(* The one whose turn it is came, is on the list or cut off, and is handed what
   was said last. *)
LEMMA TurnFacts ==
  ASSUME Kept, ~Free
  PROVE  /\ feed.todo \in Seq(Watchers) /\ feed.todo # <<>> /\ At \in Watchers
         /\ At \notin ToSet(Tail(feed.todo)) /\ ToSet(feed.todo) = {At} \cup ToSet(Tail(feed.todo))
         /\ Distinct(Tail(feed.todo)) /\ pc[At] \notin {"off", "late"}
         /\ At \in ToSet(watchers) \/ done[At] \/ cutOff[At]
         /\ feed.by # NoOne
         /\ IsScreen(feed.item) => feed.item = Screen(said)
         /\ ~IsScreen(feed.item) => feed.item = Chunk(said) /\ feed.by \notin Watchers
<1>1. feed \in Feeds /\ feed.todo \in Seq(Watchers) /\ feed.todo # <<>>
  BY DEF Kept, TypeInv, TypeOK, Holding, Feeds
<1>2. At \in Watchers
  BY HeldType DEF Kept, TypeInv, TypeOK
<1>3. /\ Distinct(Tail(feed.todo)) /\ At \notin ToSet(Tail(feed.todo))
      /\ ToSet(feed.todo) = {At} \cup ToSet(Tail(feed.todo))
  BY <1>1, TailDistinct DEF Kept, Seen, Fed, At
<1>4. pc[At] \notin {"off", "late"}
  BY <1>3 DEF Kept, Seen, Fed
<1>5. At \in ToSet(watchers) \/ done[At] \/ cutOff[At]
  BY <1>2, <1>3, <1>4 DEF Kept, Seen, Behind
<1>6. /\ IsScreen(feed.item) => feed.item = Screen(said)
      /\ ~IsScreen(feed.item) => feed.item = Chunk(said) /\ feed.by \notin Watchers
  BY DEF Kept, Seen, Fed, IsScreen, Screen, Chunk
<1> QED BY <1>1, <1>2, <1>3, <1>4, <1>5, <1>6 DEF Free

LEMMA HandsOver ==
  ASSUME Kept, ~Free, HandedOver, UNCHANGED said
  PROVE  /\ feed'.todo = Tail(feed.todo) /\ feed'.phase = "offer"
         /\ feed'.todo # <<>> => feed'.item = feed.item
         /\ \A w \in Watchers \ {At} : pc'[w] = pc[w]
         /\ ~IsScreen(feed.item) => pc'[At] = pc[At]
         /\ pc'[At] = pc[At] \/ (pc[At] \in {"watching", "resync"} /\ pc'[At] \in {"check", "select"})
         /\ Fed'
<1>1. /\ feed' = Feeding(feed.by, feed.item, Tail(feed.todo)) /\ pc \in [Watchers -> Places]
      /\ feed.by # NoOne /\ At \in Watchers
  BY TurnFacts DEF HandedOver, Kept, TypeInv, TypeOK
<1>2. /\ feed'.todo = Tail(feed.todo) /\ feed'.phase = "offer" /\ (feed'.by = NoOne <=> Tail(feed.todo) = <<>>)
      /\ Tail(feed.todo) # <<>> => feed'.by = feed.by /\ feed'.item = feed.item
  <2> DEFINE who == feed.by
             item == feed.item
             rest == Tail(feed.todo)
  <2>1. feed' = Feeding(who, item, rest) /\ who # NoOne
    BY <1>1
  <2> HIDE DEF who, item, rest
  <2>2. /\ feed'.todo = rest /\ feed'.phase = "offer" /\ (feed'.by = NoOne <=> rest = <<>>)
        /\ rest # <<>> => feed'.by = who /\ feed'.item = item
    BY <2>1, FeedingFacts
  <2> QED BY <2>2 DEF who, item, rest
<1>3. \/ pc' = pc
      \/ feed.by = At /\ pc[At] = "watching" /\ pc' = [pc EXCEPT ![At] = "check"]
      \/ feed.by = At /\ pc[At] = "resync" /\ pc' = [pc EXCEPT ![At] = "select"]
  BY DEF HandedOver
<1>4. /\ \A w \in Watchers \ {At} : pc'[w] = pc[w]
      /\ feed.by # At => pc'[At] = pc[At]
      /\ pc'[At] = pc[At] \/ (pc[At] \in {"watching", "resync"} /\ pc'[At] \in {"check", "select"})
  BY <1>1, <1>3
<1>5. ~IsScreen(feed.item) => feed.by # At
  BY <1>1, TurnFacts
<1>6. \A w \in ToSet(Tail(feed.todo)) : w \in ToSet(feed.todo) /\ pc'[w] = pc[w]
  <2>1. ToSet(Tail(feed.todo)) \subseteq Watchers \ {At}
    <3>1. Tail(feed.todo) \in Seq(Watchers) /\ At \notin ToSet(Tail(feed.todo))
      BY TurnFacts
    <3> QED BY <3>1, ToSetType
  <2> QED BY <1>4, <2>1, TurnFacts
<1>7. Fed'
  BY <1>2, <1>6, TurnFacts, ActorsAssumption DEF Kept, Seen, Fed, Free
<1> QED BY <1>2, <1>4, <1>5, <1>7

LEMMA OthersKept ==
  ASSUME Kept, ~Free, HandedOver, UNCHANGED said, NEW w \in Watchers \ {At},
         UNCHANGED <<out[w], picture[w], behind[w], done[w], endedAt[w], cutOff[w]>>,
         w \in ToSet(watchers') <=> w \in ToSet(watchers)
  PROVE  Current(w)' /\ Behind(w)'
<1>1. /\ pc'[w] = pc[w] /\ feed'.phase = "offer"
      /\ w \in ToSet(feed'.todo) <=> w \in ToSet(feed.todo)
      /\ w \in ToSet(feed'.todo) => feed'.item = feed.item
  BY HandsOver, TurnFacts, ToSetEmpty
<1>2. Current(w)'
  BY <1>1 DEF Kept, Seen, Current, Owed, At
<1>3. Behind(w)'
  BY <1>1 DEF Kept, Seen, Behind, Owed
<1> QED BY <1>2, <1>3

LEMMA ListedHanded ==
  ASSUME Kept, ~Free, HandedOver, UNCHANGED <<said, ended, telling, over, done>>,
         Distinct(watchers'), ToSet(watchers') \subseteq ToSet(watchers), ended => watchers' = <<>>
  PROVE  Listed'
<1>1. /\ \A w \in Watchers \ {At} : pc'[w] = pc[w]
      /\ pc'[At] = pc[At] \/ (pc[At] \in {"watching", "resync"} /\ pc'[At] \in {"check", "select"})
      /\ pc[At] \notin {"off", "late"} /\ At \in Watchers
  BY HandsOver, TurnFacts
<1>2. \A w \in Watchers : pc'[w] = pc[w] \/ (pc'[w] \in {"check", "select"})
  BY <1>1
<1>3. \A w \in ToSet(watchers') : w \in Watchers
  BY ToSetType DEF Kept, TypeInv, TypeOK
<1> QED BY <1>2, <1>3 DEF Kept, Seen, Listed

LEMMA FeedGoneSeen ==
  ASSUME Kept, FeedGone
  PROVE  Seen'
<1>1. /\ ~Free /\ HandedOver /\ done[At] /\ done' = done
      /\ UNCHANGED <<said, ended, telling, over, out, behind, picture, hist>>
      /\ watchers' = Forget(watchers, At) \/ watchers' = watchers
  BY DEF FeedGone
<1>2. /\ Distinct(watchers') /\ ToSet(watchers') \subseteq ToSet(watchers)
      /\ ToSet(watchers) \ {At} \subseteq ToSet(watchers')
  <2>1. watchers \in Seq(Watchers) /\ Distinct(watchers)
    BY DEF Kept, Seen, Listed, TypeInv, TypeOK
  <2> QED BY <1>1, <2>1, ForgetKeeps
<1>3. ended => watchers' = <<>>
  <2>1. Forget(<<>>, At) = <<>>
    BY DEF Forget
  <2> QED BY <1>1, <2>1 DEF Kept, Seen, Listed
<1>4. Fed' /\ Listed'
  BY <1>1, <1>2, <1>3, HandsOver, ListedHanded
<1>5. ASSUME NEW w \in Watchers PROVE Current(w)' /\ Behind(w)'
  <2>1. CASE w = At
    BY <1>1, <2>1 DEF Current, Behind
  <2>2. CASE w # At
    BY <1>1, <1>2, <2>2, OthersKept DEF hist
  <2> QED BY <2>1, <2>2
<1> QED BY <1>4, <1>5 DEF Seen

(* An item goes into the queue of the one whose turn it is. *)
LEMMA PutSeen ==
  ASSUME Kept, WriteFits \/ PutScreen \/ PutNil
  PROVE  Seen'
<1>1. /\ ~Free /\ HandedOver /\ UNCHANGED <<pane, behind, done, over, picture, hist>>
      /\ At \in Watchers /\ out \in [Watchers -> Seq(Items)]
  BY TurnFacts DEF WriteFits, PutScreen, PutNil, Kept, TypeInv, TypeOK
<1>2. \A w \in Watchers \ {At} : out'[w] = out[w]
  BY <1>1 DEF WriteFits, PutScreen, PutNil
<1>3. Fed' /\ Listed'
  BY <1>1, HandsOver, ListedHanded DEF pane, Kept, Seen, Listed
<1>4. At \notin ToSet(feed'.todo) /\ (At \in ToSet(watchers) \/ done[At] \/ cutOff[At])
  BY <1>1, HandsOver, TurnFacts DEF pane
<1>5. \A b : b = At => Behind(b)'
  BY <1>1, <1>4 DEF Behind, pane, hist
<1>6. \A b : b = At => Current(b)'
  <2>1. CASE WriteFits
    <3>1. /\ out'[At] = Append(out[At], Chunk(said)) /\ pc'[At] = pc[At] /\ said \in Nat
          /\ out[At] \in Seq(Items) /\ ~IsScreen(feed.item) /\ At \in ToSet(feed.todo)
      BY <1>1, <2>1, TurnFacts, HandsOver DEF WriteFits, pane, Kept, TypeInv, TypeOK
    <3>2. ASSUME Makes(out[At], picture[At], said - 1)
          PROVE  Makes(Append(out[At], Chunk(said)), picture[At], said)
      <4>1. (said - 1) + 1 = said
        BY <3>1
      <4> QED BY <3>1, <3>2, <4>1, MakesMore
    <3>3. At \in ToSet(watchers) /\ ~done[At] /\ ~Owed(At) => Makes(out[At], picture[At], said - 1)
      BY <1>1, <3>1 DEF Kept, Seen, Current
    <3> QED BY <1>1, <1>4, <3>1, <3>2, <3>3 DEF Current, Owed, pane
  <2>2. CASE PutScreen
    <3>1. /\ out[At] = <<>> /\ out'[At] = Append(<<>>, Screen(said)) /\ said \in Nat
      <4>1. out[At] = <<>> /\ said \in Nat
        BY <1>1, <2>2, BoundsAssumption DEF PutScreen, Kept, EmptyBeforePut, TypeInv, TypeOK
      <4>2. out'[At] = Append(out[At], feed.item) /\ feed.item = Screen(said)
        BY <1>1, <2>2, TurnFacts DEF PutScreen
      <4> QED BY <4>1, <4>2
    <3>2. \A q : Makes(Append(<<>>, Screen(said)), q, said)
      BY <3>1, MakesScreen
    <3> QED BY <1>1, <1>4, <3>1, <3>2 DEF Current, pane
  <2>3. CASE PutNil
    <3>1. /\ pc'[At] = pc[At] /\ ~IsScreen(feed.item) /\ At \in ToSet(feed.todo) /\ feed.phase = "put"
      BY <1>1, <2>3, TurnFacts, HandsOver DEF PutNil, pane
    <3>2. ~(At \in ToSet(watchers) /\ ~done[At] /\ ~Owed(At))
      BY <1>1, <3>1 DEF Kept, Seen, Current
    <3> QED BY <1>1, <3>1, <3>2 DEF Current, Owed, pane
  <2> QED BY <2>1, <2>2, <2>3
<1>7. ASSUME NEW w \in Watchers PROVE Current(w)' /\ Behind(w)'
  <2>1. CASE w = At
    BY <1>5, <1>6, <2>1
  <2>2. CASE w # At
    BY <1>1, <1>2, <2>2, OthersKept DEF hist, pane
  <2> QED BY <2>1, <2>2
<1> QED BY <1>3, <1>7 DEF Seen

(* A queue without room is emptied, of one who will be given the screen again. *)
LEMMA DrainsSeen ==
  ASSUME Kept, WriteFull \/ ScreenBegins \/ Drain \/ DrainEnds
  PROVE  Seen'
<1>1. /\ ~Free /\ UNCHANGED <<pane, done, over, pc, picture, hist>>
      /\ At \in Watchers /\ feed \in Feeds
      /\ out \in [Watchers -> Seq(Items)] /\ behind \in [Watchers -> BOOLEAN]
  BY TurnFacts DEF WriteFull, ScreenBegins, Drain, DrainEnds, mine, Kept, TypeInv, TypeOK
<1>2. /\ feed'.todo = feed.todo /\ feed'.by = feed.by /\ feed'.item = feed.item
      /\ \A w \in Watchers \ {At} : out'[w] = out[w] /\ behind'[w] = behind[w]
      /\ behind[At] => behind'[At]
  BY <1>1 DEF WriteFull, ScreenBegins, Drain, DrainEnds, mine, Feeds
<1>3. Fed' /\ Listed'
  BY <1>1, <1>2 DEF Kept, Seen, Fed, Listed, Free, pane
<1>4. IsScreen(feed.item) \/ behind'[At] \/ (feed.phase # "offer")
  BY <1>1 DEF WriteFull, ScreenBegins, Drain, DrainEnds
<1>5. ASSUME NEW w \in Watchers PROVE Current(w)' /\ Behind(w)'
  <2>1. CASE w # At
    <3>1. Current(w)'
      BY <1>1, <1>2, <2>1 DEF Kept, Seen, Current, Owed, pane, At
    <3>2. Behind(w)'
      BY <1>1, <1>2, <2>1 DEF Kept, Seen, Behind, Owed, pane, hist
    <3> QED BY <3>1, <3>2
  <2>2. CASE w = At
    <3>1. w \in ToSet(feed.todo) /\ (w \in ToSet(watchers) \/ done[w] \/ cutOff[w])
      BY <1>1, <2>2, TurnFacts
    <3>2. Behind(w)'
      BY <1>1, <3>1 DEF Behind, pane, hist
    <3>3. IsScreen(feed.item) \/ ~(w \in ToSet(watchers) /\ ~done[w] /\ ~Owed(w)') 
      BY <1>1, <1>2, <1>4, <2>2, <3>1 DEF Kept, Seen, Current, Owed
    <3>4. Current(w)'
      BY <1>1, <1>2, <3>1, <3>3 DEF Current, pane
    <3> QED BY <3>2, <3>4
  <2> QED BY <2>1, <2>2
<1> QED BY <1>3, <1>5 DEF Seen
---------------------------------------------------------------------------
(* The program goes: who was owed nothing has in its queue what was said. *)
LEMMA EndSeen ==
  ASSUME Kept, Free, EndWatchers, UNCHANGED <<said, feed, mine>>
  PROVE  Seen'
<1>1. /\ ToSet(feed.todo) = {} /\ watchers' = <<>> /\ ToSet(watchers') = {} /\ telling' = ToSet(watchers)
      /\ \A w \in Watchers : /\ endedAt'[w] = IF w \in ToSet(watchers) THEN said ELSE endedAt[w]
                            /\ cutOff'[w] = (cutOff[w] \/ (w \in ToSet(watchers) /\ Owed(w)))
  BY ToSetEmpty DEF EndWatchers, Kept, Seen, Fed
<1>2. Fed'
  BY <1>1 DEF Kept, Seen, Fed, Free, mine
<1>3. Listed'
  <2>1. Distinct(<<>>)
    BY DEF Distinct
  <2> QED BY <1>1, <2>1 DEF Kept, Seen, Listed, mine
<1>4. ASSUME NEW w \in Watchers PROVE Current(w)' /\ Behind(w)'
  <2>1. Current(w)'
    BY <1>1 DEF Current
  <2>2. CASE w \in ToSet(watchers)
    <3>1. pc[w] \notin {"off", "late"} /\ (pc[w] = "eof" => done[w])
      BY <2>2 DEF Kept, Seen, Listed
    <3>2. ~done[w] /\ ~Owed(w) => Makes(out[w], picture[w], said)
      BY <1>1, <2>2 DEF Kept, Seen, Current
    <3>3. Behind(w)'
      BY <1>1, <2>2, <3>1, <3>2 DEF Behind, Owed, mine
    <3> QED BY <2>1, <3>3
  <2>3. CASE w \notin ToSet(watchers)
    <3>1. Behind(w)'
      BY <1>1, <2>3 DEF Kept, Seen, Behind, Owed, mine
    <3> QED BY <2>1, <3>1
  <2> QED BY <2>2, <2>3
<1> QED BY <1>2, <1>3, <1>4 DEF Seen

LEMMA NothingSeen ==
  ASSUME Kept, UNCHANGED <<said, watchers, telling, feed, mine, hist>>, ended' => watchers = <<>>
  PROVE  Seen'
<1>1. Fed' /\ Listed'
  BY DEF Kept, Seen, Fed, Listed, Free, mine
<1>2. ASSUME NEW w \in Watchers PROVE Current(w)' /\ Behind(w)'
  BY WatcherKept DEF Kept, Seen, mine, hist
<1> QED BY <1>1, <1>2 DEF Seen

LEMMA PaneSeen ==
  ASSUME Kept, ReadEnds \/ WriteFails \/ Revive \/ UNCHANGED vars
  PROVE  Seen'
<1>1. CASE ReadEnds
  <2>1. CASE ended
    BY <1>1, <2>1, NothingSeen DEF ReadEnds, Kept, Seen, Listed
  <2>2. CASE ~ended
    BY <1>1, <2>2, EndSeen DEF ReadEnds
  <2> QED BY <2>1, <2>2
<1>2. CASE WriteFails
  BY <1>2, EndSeen DEF WriteFails
<1>3. CASE Revive
  BY <1>3, NothingSeen DEF Revive
<1>4. CASE UNCHANGED vars
  BY <1>4, NothingSeen DEF vars, pane, Kept, Seen, Listed
<1> QED BY <1>1, <1>2, <1>3, <1>4

(* A watcher hears of the end, goes, or is struck off. *)
LEMMA GoesSeen ==
  ASSUME Kept, NEW w \in Watchers, Ended(w) \/ Close(w) \/ Unwatch(w)
  PROVE  Seen'
<1>1. /\ UNCHANGED <<said, ended, feed, out, behind, pc, picture, hist>>
      /\ over \in [Watchers -> BOOLEAN] /\ done \in [Watchers -> BOOLEAN] /\ watchers \in Seq(Watchers)
  BY DEF Ended, Close, Unwatch, mine, pane, Kept, TypeInv, TypeOK
<1>2. /\ \A v \in Watchers : (done[v] => done'[v]) /\ (over[v] => over'[v])
      /\ telling' \subseteq telling
      /\ \A v \in Watchers : over'[v] => over[v] \/ (v = w /\ w \in telling)
  BY <1>1 DEF Ended, Close, Unwatch, mine, pane
<1>3. /\ Distinct(watchers') /\ ToSet(watchers') \subseteq ToSet(watchers)
      /\ ToSet(watchers) \ {w} \subseteq ToSet(watchers')
      /\ (w \in ToSet(watchers) /\ w \notin ToSet(watchers')) => done'[w]
      /\ ended => watchers' = <<>>
  <2>1. CASE Unwatch(w)
    <3>1. watchers' = Forget(watchers, w) /\ done'[w] /\ watchers # <<>>
      BY <2>1, ToSetEmpty DEF Unwatch, mine
    <3> QED BY <1>1, <3>1, ForgetKeeps DEF Kept, Seen, Listed
  <2>2. CASE Ended(w) \/ Close(w)
    BY <2>2 DEF Ended, Close, pane, Kept, Seen, Listed
  <2> QED BY <2>1, <2>2
<1>4. Fed'
  BY <1>1 DEF Kept, Seen, Fed, Free
<1>5. Listed'
  <2>1. ToSet(watchers') \subseteq Watchers
    BY <1>1, <1>3, ToSetType
  <2> QED BY <1>1, <1>2, <1>3, <2>1 DEF Kept, Seen, Listed
<1>6. ASSUME NEW v \in Watchers PROVE Current(v)' /\ Behind(v)'
  <2>1. /\ Current(v) /\ Behind(v) /\ (done[v] => done'[v])
        /\ (v \in ToSet(watchers') <=> v \in ToSet(watchers)) \/ done'[v]
    BY <1>2, <1>3 DEF Kept, Seen
  <2> QED BY <1>1, <2>1, WatcherKept DEF hist
<1> QED BY <1>4, <1>5, <1>6 DEF Seen

(* A watcher's own steps: no other is concerned. *)
LEMMA ReaderSeen ==
  ASSUME Kept, NEW w \in Watchers, UNCHANGED <<pane, feed, done>>,
         \A v \in Watchers \ {w} :
           UNCHANGED <<out[v], picture[v], behind[v], pc[v], over[v], endedAt[v], cutOff[v]>>,
         over[w] => over'[w], over'[w] => over[w] \/ pc[w] = "late",
         pc'[w] \notin {"off", "late"}, pc[w] # "off",
         pc'[w] \in {"last", "eof"} => over'[w] \/ done[w],
         Current(w)', Behind(w)'
  PROVE  Seen'
<1>1. \A v \in ToSet(watchers) \cup ToSet(feed.todo) : v \in Watchers
  BY ToSetType DEF Kept, TypeInv, TypeOK, Feeds
<1>2. Fed'
  BY <1>1 DEF Kept, Seen, Fed, Free, pane
<1>3. Listed'
  BY <1>1 DEF Kept, Seen, Listed, pane
<1>4. ASSUME NEW v \in Watchers PROVE Current(v)' /\ Behind(v)'
  <2>1. CASE v # w
    BY <2>1, WatcherKept DEF Kept, Seen, pane
  <2> QED BY <2>1
<1> QED BY <1>2, <1>3, <1>4 DEF Seen

LEMMA WatchLateSeen ==
  ASSUME Kept, NEW w \in Watchers, WatchLate(w)
  PROVE  Seen'
<1>1. /\ UNCHANGED <<pane, feed, behind, done, picture, cutOff>> /\ pc[w] = "late" /\ Free
      /\ out' = [out EXCEPT ![w] = Append(out[w], Screen(said))] /\ over' = [over EXCEPT ![w] = TRUE]
      /\ pc' = [pc EXCEPT ![w] = "check"] /\ endedAt' = [endedAt EXCEPT ![w] = said]
      /\ out \in [Watchers -> Seq(Items)] /\ over \in [Watchers -> BOOLEAN]
      /\ pc \in [Watchers -> Places] /\ endedAt \in [Watchers -> 0..MaxSaid] /\ said \in Nat
  BY BoundsAssumption DEF WatchLate, Goes, Kept, TypeInv, TypeOK
<1>2. /\ out'[w] = Append(out[w], Screen(said)) /\ over'[w] = TRUE /\ pc'[w] = "check" /\ endedAt'[w] = said
      /\ \A v \in Watchers \ {w} :
           UNCHANGED <<out[v], picture[v], behind[v], pc[v], over[v], endedAt[v], cutOff[v]>>
  BY <1>1
<1>3. w \notin ToSet(watchers) /\ w \notin ToSet(feed.todo)
  BY <1>1 DEF Kept, Seen, Listed, Fed
<1>4. Current(w)'
  BY <1>1, <1>3 DEF Current, pane
<1>5. Behind(w)'
  <2>1. ~done[w] /\ ~cutOff[w] => out[w] = <<>> /\ ~behind[w]
    BY <1>1, <1>3 DEF Kept, Seen, Behind
  <2>2. \A q : Makes(Append(<<>>, Screen(said)), q, said)
    BY <1>1, MakesScreen
  <2> QED BY <1>1, <1>2, <1>3, <2>1, <2>2 DEF Behind, Owed, pane
<1> QED BY <1>1, <1>2, <1>4, <1>5, ReaderSeen

LEMMA CheckSeen ==
  ASSUME Kept, NEW w \in Watchers, Check(w)
  PROVE  Seen'
<1>1. /\ UNCHANGED <<pane, feed, out, done, over, picture, hist>> /\ pc[w] = "check"
      /\ behind' = [behind EXCEPT ![w] = FALSE]
      /\ pc' = [pc EXCEPT ![w] = IF behind[w] THEN "resync" ELSE "select"]
      /\ pc \in [Watchers -> Places] /\ behind \in [Watchers -> BOOLEAN]
  BY DEF Check, Goes, Kept, TypeInv, TypeOK
<1>2. /\ ~behind'[w] /\ pc'[w] = (IF behind[w] THEN "resync" ELSE "select")
      /\ \A v \in Watchers \ {w} :
           UNCHANGED <<out[v], picture[v], behind[v], pc[v], over[v], endedAt[v], cutOff[v]>>
  BY <1>1 DEF hist
<1>3. Owed(w)' <=> Owed(w)
  BY <1>1, <1>2 DEF Owed
<1>4. Current(w)'
  BY <1>1, <1>3 DEF Kept, Seen, Current, pane, At
<1>5. Behind(w)'
  BY <1>1, <1>2, <1>3 DEF Kept, Seen, Behind, pane, hist
<1> QED BY <1>1, <1>2, <1>4, <1>5, ReaderSeen

LEMMA TakeSeen ==
  ASSUME Kept, NEW w \in Watchers, Take(w)
  PROVE  Seen'
<1>1. /\ UNCHANGED <<pane, feed, behind, done, over, hist>> /\ pc[w] \in {"select", "last"} /\ out[w] # <<>>
      /\ out' = [out EXCEPT ![w] = Tail(out[w])]
      /\ picture' = [picture EXCEPT ![w] = Shown(picture[w], Head(out[w]))]
      /\ pc' = [pc EXCEPT ![w] = "check"]
      /\ pc \in [Watchers -> Places] /\ out \in [Watchers -> Seq(Items)]
      /\ picture \in [Watchers -> Seq(0..MaxSaid)] /\ out[w] \in Seq(Items)
  BY DEF Take, Goes, Kept, TypeInv, TypeOK
<1>2. /\ out'[w] = Tail(out[w]) /\ pc'[w] = "check" /\ picture'[w] = Shown(picture[w], Head(out[w]))
      /\ \A v \in Watchers \ {w} :
           UNCHANGED <<out[v], picture[v], behind[v], pc[v], over[v], endedAt[v], cutOff[v]>>
  BY <1>1 DEF hist
<1>3. Owed(w)' <=> Owed(w)
  BY <1>1, <1>2 DEF Owed
<1>4. \A n : Makes(out[w], picture[w], n) => Makes(out'[w], picture'[w], n)
  BY <1>1, <1>2, MakesTake
<1>5. Current(w)'
  BY <1>1, <1>3, <1>4 DEF Kept, Seen, Current, pane, At
<1>6. Behind(w)'
  BY <1>1, <1>2, <1>3, <1>4 DEF Kept, Seen, Behind, pane, hist
<1> QED BY <1>1, <1>2, <1>5, <1>6, ReaderSeen

LEMMA EofSeen ==
  ASSUME Kept, NEW w \in Watchers, SeesOver(w) \/ ReadEOF(w)
  PROVE  Seen'
<1>1. /\ UNCHANGED <<pane, feed, out, behind, done, over, picture, hist>> /\ pc[w] \in {"select", "last"}
      /\ pc \in [Watchers -> Places]
      /\ \/ pc' = [pc EXCEPT ![w] = "last"] /\ over[w]
         \/ pc' = [pc EXCEPT ![w] = "eof"] /\ (done[w] \/ (pc[w] = "last" /\ out[w] = <<>>))
  BY DEF SeesOver, ReadEOF, Goes, Kept, TypeInv, TypeOK
<1>2. /\ pc'[w] \in {"last", "eof"} /\ (pc'[w] = "eof" => done[w] \/ out[w] = <<>>)
      /\ over[w] \/ done[w]
      /\ \A v \in Watchers \ {w} :
           UNCHANGED <<out[v], picture[v], behind[v], pc[v], over[v], endedAt[v], cutOff[v]>>
  BY <1>1 DEF hist, Kept, Seen, Listed
<1>3. Owed(w)' <=> Owed(w)
  BY <1>1, <1>2 DEF Owed
<1>4. Current(w)'
  BY <1>1, <1>3 DEF Kept, Seen, Current, pane, At
<1>5. Behind(w)'
  BY <1>1, <1>2, <1>3 DEF Kept, Seen, Behind, pane, hist
<1> QED BY <1>1, <1>2, <1>4, <1>5, ReaderSeen
---------------------------------------------------------------------------
LEMMA SeenNext == Kept /\ [Next]_vars => Seen'
<1> SUFFICES ASSUME Kept, [Next]_vars PROVE Seen'
  OBVIOUS
<1>1. CASE Output \/ SendScreen
  BY <1>1, OutputSeen, SendScreenSeen
<1>2. CASE ReadEnds \/ WriteFails \/ Revive \/ Quiet \/ UNCHANGED vars
  BY <1>2, PaneSeen DEF Quiet
<1>3. CASE FeedStep
  BY <1>3, FeedGoneSeen, PutSeen, DrainsSeen DEF FeedStep
<1>4. ASSUME NEW w \in Watchers, Ended(w) \/ Watch(w) \/ Close(w) \/ Unwatch(w) PROVE Seen'
  BY <1>4, GoesSeen, WatchSeen
<1>5. ASSUME NEW w \in Watchers, ReadStep(w) PROVE Seen'
  BY <1>5, WatchLateSeen, CheckSeen, ResyncSeen, TakeSeen, EofSeen DEF ReadStep
<1> QED BY <1>1, <1>2, <1>3, <1>4, <1>5 DEF Next

(* All that the promises below rest on: what each watcher has and what is still
   coming to it make up what was said. *)
THEOREM KeptAlways == Spec => []Kept
<1>1. Init => Kept
  <2>1. Init => EmptyBeforePut
    BY DEF Init, EmptyBeforePut, Free, Idle
  <2> QED BY <2>1, TypeInit, InitSeen DEF Kept
<1>2. Kept /\ [Next]_vars => Kept'
  BY TypeNext, EmptyNext, SeenNext DEF Kept
<1> QED BY <1>1, <1>2, PTL DEF Spec

(* A watcher on the list, with nothing being handed to it and no repaint owed, has
   all that the program wrote, each chunk once (screen/watch.go and
   ui/term/watch.go). *)
THEOREM EveryChunkOnce == Spec => []NothingLostNorTwice
<1>1. Kept => NothingLostNorTwice
  <2> SUFFICES ASSUME Kept, NEW w \in ToSet(watchers), ~Owed(w), w \notin ToSet(feed.todo), ~done[w]
               PROVE  UpTo(w, said)
    BY DEF NothingLostNorTwice
  <2>1. w \in Watchers
    BY ToSetType DEF Kept, TypeInv, TypeOK
  <2>2. Makes(out[w], picture[w], said)
    BY <2>1 DEF Kept, Seen, Current
  <2> QED BY <2>2, MakesUpTo
<1> QED BY <1>1, KeptAlways, PTL

(* A picture with a hole in it is about to be repainted, unless its watcher went
   or its program did with the repaint still owed. *)
THEOREM HolesGo == Spec => []HolesAreRepainted
<1>1. Kept => HolesAreRepainted
  <2> SUFFICES ASSUME Kept, NEW w \in Watchers, picture[w] # Painted(Len(picture[w])), ~done[w], ~cutOff[w]
               PROVE  RepaintDue(w)
    BY DEF HolesAreRepainted
  <2>1. /\ out[w] \in Seq(Items) /\ Current(w) /\ Behind(w)
        /\ w \in ToSet(feed.todo) => ~Free
    BY ToSetEmpty DEF Kept, Seen, Fed, TypeInv, TypeOK
  <2>2. ASSUME NEW n, Makes(out[w], picture[w], n) PROVE RepaintDue(w)
    BY <2>1, <2>2, MakesHoles DEF RepaintDue
  <2>3. CASE w \in ToSet(watchers)
    BY <2>1, <2>2, <2>3 DEF Current, RepaintDue
  <2>4. CASE w \notin ToSet(watchers) /\ pc[w] \notin {"off", "late"}
    BY <2>1, <2>2, <2>4 DEF Behind
  <2>5. CASE w \notin ToSet(watchers) /\ pc[w] \in {"off", "late"}
    <3>1. picture[w] = <<>>
      BY <2>1, <2>5 DEF Behind
    <3>2. Makes(<<>>, <<>>, 0)
      <4>1. Painted(0) = <<>>
        BY PaintedFacts, EmptySeq
      <4> QED BY <4>1 DEF Makes
    <3>3. <<>> = Painted(0) /\ Len(<<>>) = 0
      BY <3>2 DEF Makes
    <3> QED BY <3>1, <3>3
  <2> QED BY <2>3, <2>4, <2>5
<1> QED BY <1>1, KeptAlways, PTL

(* What was written before the end is read before it, by whoever was owed no
   repaint as the program went (Read, the case of a closed over). *)
THEOREM TailIsShown == Spec => []TailIsRead
<1>1. Kept => TailIsRead
  <2> SUFFICES ASSUME Kept, NEW w \in Watchers, pc[w] = "eof", ~done[w], ~cutOff[w]
               PROVE  picture[w] = Painted(Len(picture[w])) /\ Len(picture[w]) >= endedAt[w]
    BY DEF TailIsRead
  <2>1. w \notin ToSet(watchers)
    BY DEF Kept, Seen, Listed
  <2>2. Makes(out[w], picture[w], endedAt[w]) /\ out[w] = <<>>
    BY <2>1 DEF Kept, Seen, Behind
  <2>3. endedAt[w] \in Nat /\ picture[w] = Painted(endedAt[w])
    BY <2>2 DEF Makes
  <2>4. Len(picture[w]) = endedAt[w]
    BY <2>3, PaintedFacts
  <2> QED BY <2>3, <2>4
<1> QED BY <1>1, KeptAlways, PTL
=============================================================================
