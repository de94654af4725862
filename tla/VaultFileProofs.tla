-------------------------- MODULE VaultFileProofs --------------------------
(* What VaultFile promises, for any number of windows, entries, keys, writes
   and faults.

   The promises do not carry themselves from step to step: a rename is right
   because of what its window read some steps before.  Kept strengthens them
   with what a memory has to do with the turn of the file it last read.       *)
EXTENDS VaultFile, TLAPS

(* While there is no vault nobody has one open, or remembers a key of it. *)
NoneYet ==
  disk.is # "vault" =>
    /\ disk.saves = 0 /\ disk.entries = {} /\ ought.entries = {} /\ ought.slots = {}
    /\ \A w \in Windows : mem[w].at # "making" =>
         ~mem[w].open /\ mem[w].slots = {} /\ mem[w].at # "writing"

(* What a locked vault has forgotten, and what an operation holds that writes. *)
Shape(w) ==
  /\ mem[w].seen <= disk.turn /\ was[w].seen <= disk.turn
  /\ ~mem[w].open => mem[w].entries = {} /\ mem[w].at \in {"shut", "idle"}
  /\ mem[w].at = "shut" => ~mem[w].open
  /\ mem[w].at = "writing" =>
       was[w].at = "idle" /\ was[w].open /\ mem[w].saves = was[w].saves + 1 /\ was[w].slots # {}
  /\ mem[w].at = "making" =>
       /\ was[w].at = "idle" /\ ~was[w].open /\ was[w].entries = {} /\ was[w].slots = {}
       /\ was[w].seen = disk.turn /\ mem[w].entries = {} /\ mem[w].saves = 1

Shapes == \A w \in Windows : Shape(w)

(* A memory of the file as it is now holds what the file holds. *)
SeenIsHeld ==
  ~torn => \A w \in Windows :
    mem[w].open /\ mem[w].at # "making" /\ Held(w).seen = disk.turn => Held(w).saves = disk.saves

Kept == TypeOK /\ OneMaker /\ NoneYet /\ Shapes /\ NothingSavedIsLost /\ TheCountTells /\ SeenIsHeld

(* A memory a window may come to rest in. *)
Sound(m) ==
  /\ m \in Memory /\ m.at \in {"shut", "idle"} /\ m.seen <= disk.turn
  /\ m.open => m.at = "idle" /\ m.slots # {} /\ disk.is = "vault"
  /\ ~m.open => m.entries = {}
  /\ disk.is # "vault" => m.slots = {}
  /\ ~torn /\ m.open =>
       /\ m.saves <= disk.saves
       /\ m.saves = disk.saves => m.entries = disk.entries /\ m.slots = disk.slots
       /\ m.seen = disk.turn => m.saves = disk.saves

(* The numbers and sets of a memory and of the file. *)
LEMMA Parts ==
  ASSUME TypeOK
  PROVE  /\ disk.saves \in Nat /\ disk.turn \in Nat /\ disk.slots \in SUBSET Keys
         /\ disk.entries \in SUBSET Entries
         /\ \A w \in Windows : mem[w] \in Memory /\ was[w] \in Memory
  BY DEF TypeOK

LEMMA PartsOfMemory ==
  ASSUME NEW m \in Memory
  PROVE  /\ m.saves \in Nat /\ m.seen \in Nat /\ m.open \in BOOLEAN
         /\ m.entries \in SUBSET Entries /\ m.slots \in SUBSET Keys
  BY DEF Memory

LEMMA InitKept == Init => Kept
<1> SUFFICES ASSUME Init PROVE Kept
  OBVIOUS
<1>1. Shut \in Memory /\ Shut.at = "shut" /\ ~Shut.open /\ Shut.entries = {} /\ Shut.slots = {} /\ Shut.seen = 0
  BY DEF Shut, Memory
<1>2. \A w \in Windows : mem[w] = Shut /\ was[w] = Shut
  BY DEF Init
<1>3. TypeOK
  BY <1>1, <1>2 DEF Init, TypeOK
<1>4. OneMaker /\ NoneYet /\ Shapes
  BY <1>1, <1>2 DEF Init, OneMaker, NoneYet, Shapes, Shape
<1>5. NothingSavedIsLost /\ TheCountTells /\ SeenIsHeld
  BY <1>1, <1>2 DEF Init, NothingSavedIsLost, TheCountTells, SeenIsHeld
<1> QED
  BY <1>3, <1>4, <1>5 DEF Kept

(* What is at rest already is sound. *)
LEMMA RestIsSound ==
  ASSUME Kept, NEW w \in Windows, mem[w].at \in {"shut", "idle"}
  PROVE  Sound(mem[w])
<1>1. mem[w] \in Memory
  BY DEF Kept, TypeOK
<1>2. Held(w) = mem[w]
  BY DEF Held
<1>3. ~torn /\ mem[w].open =>
        /\ mem[w].saves <= disk.saves
        /\ mem[w].saves = disk.saves => mem[w].entries = disk.entries /\ mem[w].slots = disk.slots
        /\ mem[w].seen = disk.turn => mem[w].saves = disk.saves
  BY <1>2 DEF Kept, TheCountTells, SeenIsHeld
<1> QED
  BY <1>1, <1>3 DEF Kept, TypeOK, NoneYet, Shapes, Shape, Sound

(* And so is what refresh makes of it, whether the file was read or not. *)
LEMMA RefreshIsSound ==
  ASSUME Kept, NEW w \in Windows, Unlocked(w), NEW m \in Refreshed(w), Refresh(w, m)
  PROVE  Sound(m) /\ m.open /\ m.at = "idle" /\ faults' \in Nat
<1>1. Sound(mem[w]) /\ mem[w].open /\ mem[w].at = "idle" /\ mem[w] \in Memory
  BY RestIsSound DEF Unlocked, Sound
<1>2. faults' \in Nat
  BY DEF Refresh, Fault, Kept, TypeOK
<1>3. CASE m = mem[w]
  BY <1>1, <1>2, <1>3
<1>4. CASE m = Reopened(w)
  BY <1>1, <1>2, <1>4 DEF Reopened, Sound, Memory, Kept, TypeOK
<1>5. CASE m = [mem[w] EXCEPT !.seen = disk.turn] /\ ~(disk.saves > mem[w].saves)
  <2>1. /\ m \in Memory /\ m.at = "idle" /\ m.open = mem[w].open /\ m.saves = mem[w].saves
        /\ m.entries = mem[w].entries /\ m.slots = mem[w].slots /\ m.seen = disk.turn
    BY <1>1, <1>5 DEF Memory, Kept, TypeOK
  <2>2. ~torn => mem[w].saves = disk.saves
    BY <1>1, <1>5, Parts, PartsOfMemory DEF Sound, Kept
  <2> QED
    BY <1>1, <1>2, <2>1, <2>2 DEF Sound, Kept, TypeOK
<1> QED
  BY <1>3, <1>4, <1>5 DEF Refreshed, Adopted

(* A window that comes to rest in a sound memory, and touches nothing else. *)
LEMMA RestKept ==
  ASSUME Kept, NEW w \in Windows, NEW m, Sound(m),
         mem' = [mem EXCEPT ![w] = m], UNCHANGED <<disk, ought, torn>>, faults' \in Nat,
         was' \in [Windows -> Memory], was'[w].seen <= disk.turn,
         \A u \in Windows \ {w} : was'[u] = was[u]
  PROVE  Kept'
<1>1. mem \in [Windows -> Memory] /\ m \in Memory
  BY DEF Kept, TypeOK, Sound
<1>2. mem'[w] = m /\ \A u \in Windows \ {w} : mem'[u] = mem[u] /\ was'[u] = was[u]
  BY <1>1
<1>3. Held(w)' = m /\ \A u \in Windows \ {w} : Held(u)' = Held(u)
  BY <1>2 DEF Held, Sound
<1>4. TypeOK'
  BY <1>1, <1>2 DEF Kept, TypeOK, Sound
<1>5. OneMaker'
  BY <1>2 DEF Kept, OneMaker, Sound
<1>6. NoneYet'
  BY <1>2 DEF Kept, NoneYet, Sound
<1>7. Shapes'
  BY <1>2 DEF Kept, Shapes, Shape, Sound
<1>8. NothingSavedIsLost'
  BY DEF Kept, NothingSavedIsLost
<1>9. TheCountTells' /\ SeenIsHeld'
  BY <1>2, <1>3 DEF Kept, TheCountTells, SeenIsHeld, Sound
<1> QED
  BY <1>4, <1>5, <1>6, <1>7, <1>8, <1>9 DEF Kept

(* A change made on what refresh left, and not yet written. *)
LEMMA SavesKept ==
  ASSUME Kept, NEW w \in Windows, NEW m, Sound(m), m.open, faults' \in Nat, Unlocked(w),
         NEW entries \in SUBSET Entries, NEW slots \in SUBSET Keys, slots # {},
         Saves(w, m, entries, slots)
  PROVE  Kept'
<1> DEFINE n == [m EXCEPT !.at = "writing", !.saves = m.saves + 1,
                          !.entries = entries, !.slots = slots]
<1>1. mem \in [Windows -> Memory] /\ was \in [Windows -> Memory] /\ m \in Memory
  BY DEF Kept, TypeOK, Sound
<1>2. /\ n \in Memory /\ n.at = "writing" /\ n.open /\ n.saves = m.saves + 1
      /\ n.entries = entries /\ n.slots = slots /\ n.seen = m.seen
  <2>1. m.saves + 1 \in Nat
    BY <1>1, PartsOfMemory
  <2>2. n \in Memory
    BY <1>1, <2>1 DEF Memory
  <2>3. n.at = "writing" /\ n.saves = m.saves + 1 /\ n.entries = entries /\ n.slots = slots
    BY <1>1 DEF Memory
  <2>4. n.open = m.open /\ n.seen = m.seen
    BY <1>1 DEF Memory
  <2> QED
    BY <2>2, <2>3, <2>4
<1>3. mem' = [mem EXCEPT ![w] = n] /\ was' = [was EXCEPT ![w] = m] /\ UNCHANGED <<disk, ought, torn>>
  BY DEF Saves
<1>4. /\ mem'[w] = n /\ was'[w] = m
      /\ \A u \in Windows \ {w} : mem'[u] = mem[u] /\ was'[u] = was[u]
  BY <1>1, <1>3
<1>5. Held(w)' = m /\ \A u \in Windows \ {w} : Held(u)' = Held(u)
  BY <1>2, <1>4 DEF Held
<1>6. TypeOK'
  BY <1>1, <1>2, <1>3, <1>4 DEF Kept, TypeOK
<1>7. OneMaker' /\ NoneYet'
  BY <1>2, <1>3, <1>4 DEF Kept, OneMaker, NoneYet, Sound
<1>8. Shapes'
  <2>1. n.seen <= disk.turn /\ m.seen <= disk.turn /\ m.at = "idle" /\ m.slots # {}
    BY <1>2 DEF Sound
  <2> HIDE DEF n
  <2>2. Shape(w)'
    BY <1>2, <1>3, <1>4, <2>1 DEF Shape
  <2>3. ASSUME NEW u \in Windows \ {w} PROVE Shape(u)'
    BY <1>3, <1>4 DEF Kept, Shapes, Shape
  <2> QED
    BY <2>2, <2>3 DEF Shapes
<1>9. NothingSavedIsLost' /\ TheCountTells' /\ SeenIsHeld'
  BY <1>2, <1>3, <1>4, <1>5 DEF Kept, NothingSavedIsLost, TheCountTells, SeenIsHeld, Sound
<1> QED
  BY <1>6, <1>7, <1>8, <1>9 DEF Kept

LEMMA CreatesKept ==
  ASSUME Kept, NEW w \in Windows, Creates(w)
  PROVE  Kept'
<1>1. Sound(mem[w]) /\ mem[w].slots = {} /\ mem[w].entries = {} /\ disk.is = "none"
  BY RestIsSound DEF Creates, Locked, NameIsFree, Sound
<1>2. PICK k \in Keys :
        mem' = [mem EXCEPT ![w] = [at |-> "making", open |-> TRUE, saves |-> 1,
                                   entries |-> {}, slots |-> {k}, seen |-> disk.turn]]
  BY DEF Creates
<1> DEFINE n == [at |-> "making", open |-> TRUE, saves |-> 1,
                 entries |-> {}, slots |-> {k}, seen |-> disk.turn]
<1> DEFINE old == [mem[w] EXCEPT !.seen = disk.turn]
<1>3. /\ mem \in [Windows -> Memory] /\ was \in [Windows -> Memory]
      /\ disk \in [is : {"none", "taken", "vault"}, saves : Nat, entries : SUBSET Entries,
                   slots : SUBSET Keys, turn : Nat]
  BY DEF Kept, TypeOK
<1>4. n \in Memory /\ n.at = "making" /\ n.slots # {}
  BY <1>3 DEF Memory
<1>5. /\ old \in Memory /\ old.at = "idle" /\ ~old.open /\ old.entries = {} /\ old.slots = {}
      /\ old.seen = disk.turn
  BY <1>1, <1>3 DEF Memory, Creates, Locked
<1>6. /\ disk' = [disk EXCEPT !.is = "taken"] /\ was' = [was EXCEPT ![w] = old]
      /\ UNCHANGED <<faults, ought, torn>>
  BY DEF Creates
<1>7. /\ disk'.is = "taken" /\ disk'.saves = disk.saves /\ disk'.entries = disk.entries
      /\ disk'.slots = disk.slots /\ disk'.turn = disk.turn
      /\ disk' \in [is : {"none", "taken", "vault"}, saves : Nat, entries : SUBSET Entries,
                    slots : SUBSET Keys, turn : Nat]
  BY <1>3, <1>6
<1>8. /\ mem'[w] = n /\ was'[w] = old
      /\ \A u \in Windows \ {w} : mem'[u] = mem[u] /\ was'[u] = was[u]
  BY <1>2, <1>3, <1>6
<1>9. \A u \in Windows : mem[u].at # "making"
  BY <1>1 DEF Kept, OneMaker
<1>10. TypeOK'
  BY <1>1, <1>2, <1>3, <1>4, <1>5, <1>6, <1>7, <1>8 DEF Kept, TypeOK
<1>11. OneMaker'
  BY <1>7, <1>8, <1>9 DEF OneMaker
<1>12. NoneYet'
  BY <1>1, <1>6, <1>7, <1>8, <1>9 DEF Kept, NoneYet
<1>13. Shapes'
  <2>1. disk.turn <= disk.turn
    BY Parts DEF Kept
  <2>2. n.open /\ n.seen = disk.turn /\ n.entries = {} /\ n.saves = 1
    OBVIOUS
  <2> HIDE DEF n, old
  <2>3. Shape(w)'
    BY <1>4, <1>5, <1>7, <1>8, <2>1, <2>2 DEF Shape
  <2>4. ASSUME NEW u \in Windows \ {w} PROVE Shape(u)'
    BY <1>7, <1>8, <1>9 DEF Kept, Shapes, Shape
  <2> QED
    BY <2>3, <2>4 DEF Shapes
<1>14. NothingSavedIsLost' /\ TheCountTells' /\ SeenIsHeld'
  BY <1>7, <1>12 DEF NoneYet, NothingSavedIsLost, TheCountTells, SeenIsHeld
<1> QED
  BY <1>10, <1>11, <1>12, <1>13, <1>14 DEF Kept

LEMMA MakeFailsKept ==
  ASSUME Kept, NEW w \in Windows, MakeFails(w)
  PROVE  Kept'
<1>1. PICK is \in {"none", "taken"} : disk' = [disk EXCEPT !.is = is]
  BY DEF MakeFails
<1>2. /\ mem \in [Windows -> Memory] /\ was \in [Windows -> Memory] /\ Shut \in Memory
      /\ disk \in [is : {"none", "taken", "vault"}, saves : Nat, entries : SUBSET Entries,
                   slots : SUBSET Keys, turn : Nat]
  BY DEF Kept, TypeOK, Shut, Memory
<1>3. /\ disk'.is = is /\ disk'.saves = disk.saves /\ disk'.entries = disk.entries
      /\ disk'.slots = disk.slots /\ disk'.turn = disk.turn
      /\ disk' \in [is : {"none", "taken", "vault"}, saves : Nat, entries : SUBSET Entries,
                    slots : SUBSET Keys, turn : Nat]
  BY <1>1, <1>2
<1>4. /\ mem[w].at = "making" /\ mem' = [mem EXCEPT ![w] = was[w]]
      /\ was' = [was EXCEPT ![w] = Shut] /\ faults' = faults + 1 /\ UNCHANGED <<ought, torn>>
  BY DEF MakeFails, Fault
<1>5. /\ mem'[w] = was[w] /\ was'[w] = Shut
      /\ \A u \in Windows \ {w} : mem'[u] = mem[u] /\ was'[u] = was[u]
  BY <1>2, <1>4
<1>6. /\ disk.is = "taken" /\ \A u \in Windows \ {w} : mem[u].at # "making"
      /\ was[w].at = "idle" /\ ~was[w].open /\ was[w].entries = {} /\ was[w].slots = {}
      /\ was[w].seen = disk.turn
  BY <1>4 DEF Kept, OneMaker, Shapes, Shape
<1>7. TypeOK'
  BY <1>2, <1>3, <1>4, <1>5, <1>6 DEF Kept, TypeOK
<1>8. OneMaker' /\ NoneYet'
  BY <1>3, <1>4, <1>5, <1>6 DEF Kept, OneMaker, NoneYet
<1>9. Shapes'
  <2>1. disk.turn <= disk.turn /\ 0 <= disk.turn
    BY Parts DEF Kept
  <2>2. Shape(w)'
    BY <1>3, <1>5, <1>6, <2>1 DEF Shape, Shut
  <2>3. ASSUME NEW u \in Windows \ {w} PROVE Shape(u)'
    BY <1>3, <1>5, <1>6 DEF Kept, Shapes, Shape
  <2> QED
    BY <2>2, <2>3 DEF Shapes
<1>10. NothingSavedIsLost' /\ TheCountTells' /\ SeenIsHeld'
  BY <1>3, <1>8 DEF NoneYet, NothingSavedIsLost, TheCountTells, SeenIsHeld
<1> QED
  BY <1>7, <1>8, <1>9, <1>10 DEF Kept

(* A rename on top of what its window read leaves the file with what was saved;
   one that was not marks the file torn. *)
LEMMA RenamesKept ==
  ASSUME Kept, NEW w \in Windows, Renames(w)
  PROVE  Kept'
<1> DEFINE m == mem[w]
           n == [mem[w] EXCEPT !.at = "idle", !.seen = disk.turn + 1]
<1>1. /\ mem \in [Windows -> Memory] /\ was \in [Windows -> Memory] /\ Shut \in Memory
      /\ m \in Memory /\ disk.turn \in Nat /\ disk.turn + 1 \in Nat /\ disk.saves \in Nat
      /\ m.saves \in Nat /\ m.entries \in SUBSET Entries /\ m.slots \in SUBSET Keys
  BY Parts, PartsOfMemory DEF Kept, TypeOK, Shut, Memory
<1>2. /\ m.at \in {"writing", "making"} /\ was[w].at = "idle" /\ m.open /\ m.slots # {}
      /\ m.at = "making" => disk.is = "taken"
      /\ m.at = "writing" => disk.is = "vault"
  BY DEF Renames, Kept, TypeOK, OneMaker, NoneYet, Shapes, Shape
<1>3. /\ disk' = [is |-> "vault", saves |-> m.saves, entries |-> m.entries, slots |-> m.slots,
                  turn |-> disk.turn + 1]
      /\ mem' = [mem EXCEPT ![w] = n] /\ was' = [was EXCEPT ![w] = Shut]
      /\ ought' = [entries |-> Merged(ought.entries, was[w].entries, m.entries),
                   slots |-> Merged(ought.slots, was[w].slots, m.slots)]
      /\ torn' = (torn \/ was[w].seen # disk.turn) /\ UNCHANGED faults
  BY DEF Renames
<1>4. /\ n \in Memory /\ n.at = "idle" /\ n.seen = disk.turn + 1 /\ n.open /\ n.saves = m.saves
      /\ n.entries = m.entries /\ n.slots = m.slots
  BY <1>1, <1>2 DEF Memory
<1>5. /\ mem'[w] = n /\ was'[w] = Shut
      /\ \A u \in Windows \ {w} : mem'[u] = mem[u] /\ was'[u] = was[u]
  BY <1>1, <1>3
<1>6. ought' \in [entries : SUBSET Entries, slots : SUBSET Keys]
  BY <1>1, <1>3 DEF Kept, TypeOK, Merged, Memory
<1>7. torn' \in BOOLEAN
  BY <1>3 DEF Kept, TypeOK
<1>8. \A u \in Windows \ {w} : mem[u].at # "making"
  BY <1>2 DEF Kept, OneMaker, NoneYet, TypeOK
<1>9. TypeOK'
  <2> HIDE DEF n
  <2> QED
    BY <1>1, <1>2, <1>3, <1>4, <1>5, <1>6, <1>7 DEF Kept, TypeOK
<1>10. OneMaker' /\ NoneYet'
  <2> HIDE DEF n
  <2> QED
    BY <1>3, <1>4, <1>5, <1>8 DEF OneMaker, NoneYet
<1>11. Shapes'
  <2> HIDE DEF n
  <2>1. Shape(w)'
    BY <1>1, <1>3, <1>4, <1>5 DEF Shape, Shut
  <2>2. ASSUME NEW u \in Windows \ {w} PROVE Shape(u)'
    <3>1. mem[u].seen <= disk.turn + 1 /\ was[u].seen <= disk.turn + 1
      BY <1>1, PartsOfMemory DEF Kept, Shapes, Shape
    <3> QED
      BY <1>3, <1>5, <1>8, <3>1 DEF Kept, Shapes, Shape
  <2> QED
    BY <2>1, <2>2 DEF Shapes
(* What the rename was made on is what the file and the saved changes were. *)
<1>12. ASSUME ~torn'
       PROVE  was[w].entries = ought.entries /\ was[w].slots = ought.slots /\ m.saves = disk.saves + 1
  <2>1. ~torn /\ was[w].seen = disk.turn
    BY <1>3, <1>12
  <2>2. CASE m.at = "making"
    <3>1. /\ was[w].entries = {} /\ was[w].slots = {} /\ m.saves = 1
      BY <2>2 DEF Kept, Shapes, Shape
    <3>2. disk.saves = 0 /\ ought.entries = {} /\ ought.slots = {}
      BY <1>2, <2>2 DEF Kept, NoneYet
    <3> QED
      BY <3>1, <3>2
  <2>3. CASE m.at = "writing"
    <3>1. Held(w) = was[w]
      BY <2>3 DEF Held
    <3> QED
      BY <1>2, <2>1, <2>3, <3>1 DEF Kept, NothingSavedIsLost, TheCountTells, SeenIsHeld, Shapes, Shape
  <2> QED
    BY <1>2, <2>2, <2>3
<1>13. NothingSavedIsLost'
  BY <1>3, <1>12 DEF NothingSavedIsLost, Merged
<1>14. TheCountTells' /\ SeenIsHeld'
  <2> HIDE DEF n
  <2>1. Held(w)' = n /\ \A u \in Windows \ {w} : Held(u)' = Held(u)
    BY <1>4, <1>5 DEF Held
  <2>2. ASSUME ~torn', NEW u \in Windows \ {w}, mem[u].open
        PROVE  Held(u).saves < disk.saves + 1 /\ Held(u).seen # disk.turn + 1
    <3>1. Held(u) \in Memory /\ Held(u).seen <= disk.turn
      BY <1>1 DEF Held, Kept, Shapes, Shape
    <3>2. Held(u).saves <= disk.saves
      BY <1>3, <1>8, <2>2 DEF Kept, TheCountTells
    <3> QED
      BY <1>1, <3>1, <3>2, PartsOfMemory
  <2>3. /\ disk'.saves = m.saves /\ disk'.entries = m.entries /\ disk'.slots = m.slots
        /\ disk'.turn = disk.turn + 1
    BY <1>3
  <2>4. ASSUME ~torn', NEW u \in Windows, mem'[u].open
        PROVE  /\ Held(u)'.saves <= disk'.saves
               /\ Held(u)'.saves = disk'.saves =>
                    Held(u)'.entries = disk'.entries /\ Held(u)'.slots = disk'.slots
               /\ Held(u)'.seen = disk'.turn => Held(u)'.saves = disk'.saves
    <3>1. CASE u = w
      BY <1>1, <1>4, <2>1, <2>3, <3>1
    <3>2. CASE u # w
      <4>1. Held(u)' = Held(u) /\ Held(u).saves < disk.saves + 1 /\ Held(u).seen # disk.turn + 1
        BY <1>5, <2>1, <2>2, <2>4, <3>2
      <4>2. Held(u).saves \in Nat
        BY <1>1, PartsOfMemory DEF Held
      <4>3. disk'.saves = disk.saves + 1
        BY <1>12, <2>3, <2>4
      <4> QED
        BY <1>1, <2>3, <4>1, <4>2, <4>3
    <3> QED
      BY <3>1, <3>2
  <2> QED
    BY <2>4 DEF TheCountTells, SeenIsHeld
<1> QED
  BY <1>9, <1>10, <1>11, <1>13, <1>14 DEF Kept

LEMMA StutterKept == Kept /\ UNCHANGED vars => Kept'
  BY DEF Kept, vars, TypeOK, OneMaker, NoneYet, Shapes, Shape, NothingSavedIsLost, TheCountTells,
     SeenIsHeld, Held

LEMMA NextKept == Kept /\ Next => Kept'
<1> SUFFICES ASSUME Kept, NEW w \in Windows,
                    \/ Opens(w) \/ Unlocks(w) \/ LooksLocked(w) \/ Locks(w) \/ Goes(w)
                    \/ Looks(w) \/ Put(w) \/ PutDetails(w) \/ Remove(w) \/ Import(w)
                    \/ AddKey(w) \/ RemoveKey(w) \/ Creates(w)
                    \/ Renames(w) \/ WriteFails(w) \/ MakeFails(w)
             PROVE  Kept'
  BY DEF Next
<1>1. /\ mem \in [Windows -> Memory] /\ was \in [Windows -> Memory] /\ mem[w] \in Memory
      /\ was[w].seen <= disk.turn /\ mem[w].seen <= disk.turn /\ faults \in Nat
      /\ disk.turn \in Nat /\ disk.saves \in Nat /\ Shut \in Memory
      /\ disk.entries \in SUBSET Entries /\ disk.slots \in SUBSET Keys
      /\ disk.is = "vault" <=> disk.slots # {}
      /\ [was EXCEPT ![w] = Shut] \in [Windows -> Memory]
      /\ [was EXCEPT ![w] = Shut][w].seen <= disk.turn
      /\ \A u \in Windows \ {w} : [was EXCEPT ![w] = Shut][u] = was[u]
  BY Parts DEF Kept, TypeOK, Shapes, Shape, Shut, Memory
<1>2. CASE Opens(w)
  <2> DEFINE n == [Shut EXCEPT !.at = "idle", !.slots = disk.slots, !.seen = disk.turn]
  <2>0. /\ n \in Memory /\ n.at = "idle" /\ ~n.open /\ n.entries = {} /\ n.slots = disk.slots
        /\ n.seen = disk.turn
    BY <1>1 DEF Memory, Shut
  <2>1. Sound(n)
    <3> HIDE DEF n
    <3> QED
      BY <1>1, <2>0 DEF Sound
  <2>2. mem' = [mem EXCEPT ![w] = n] /\ UNCHANGED <<disk, was, faults, ought, torn>>
    BY <1>2 DEF Opens, Remembers
  <2> HIDE DEF n
  <2> QED
    BY <1>1, <2>1, <2>2, RestKept
<1>3. CASE Unlocks(w)
  <2>1. Sound(Reopened(w))
    BY <1>1, <1>3 DEF Unlocks, Reopened, Sound, Memory
  <2> QED
    BY <1>1, <1>3, <2>1, RestKept DEF Unlocks, Remembers
<1>4. CASE LooksLocked(w)
  <2> DEFINE n == [mem[w] EXCEPT !.slots = disk.slots, !.seen = disk.turn]
  <2>1. Sound(mem[w]) /\ ~mem[w].open /\ mem[w].at = "idle"
    BY <1>4, RestIsSound DEF LooksLocked, Locked
  <2>2. n \in Memory /\ ~n.open /\ n.at = "idle" /\ n.slots = disk.slots /\ n.seen = disk.turn
        /\ n.entries = {}
    BY <1>1, <2>1 DEF Memory, Sound
  <2>3. Sound(n)
    BY <1>1, <2>2 DEF Sound
  <2> QED
    BY <1>1, <1>4, <2>3, RestKept DEF LooksLocked, Remembers
<1>5. CASE Locks(w)
  <2> DEFINE n == [mem[w] EXCEPT !.open = FALSE, !.entries = {}]
  <2>1. Sound(mem[w]) /\ mem[w].at = "idle"
    BY <1>5, RestIsSound DEF Locks, Unlocked
  <2>2. n \in Memory /\ ~n.open /\ n.at = "idle" /\ n.slots = mem[w].slots /\ n.seen = mem[w].seen
        /\ n.entries = {}
    BY <1>1, <2>1 DEF Memory
  <2>3. Sound(n)
    BY <1>1, <2>1, <2>2 DEF Sound
  <2> QED
    BY <1>1, <1>5, <2>3, RestKept DEF Locks, Remembers
<1>6. CASE Goes(w)
  <2>1. Sound(Shut)
    BY <1>1 DEF Sound, Shut
  <2>2. faults' \in Nat
    BY <1>1, <1>6 DEF Goes, Fault
  <2> QED
    BY <1>1, <1>6, <2>1, <2>2, RestKept DEF Goes
<1>7. CASE Looks(w)
  BY <1>1, <1>7, RefreshIsSound, RestKept DEF Looks, Remembers
<1>8. CASE Put(w)
  <2>1. PICK m \in Refreshed(w) :
          /\ Unlocked(w) /\ Refresh(w, m)
          /\ \E e \in Entries \ m.entries : Saves(w, m, m.entries \cup {e}, m.slots)
    BY <1>8 DEF Put
  <2>2. Sound(m) /\ m.open /\ faults' \in Nat /\ m.slots # {} /\ m \in Memory
    BY <2>1, RefreshIsSound DEF Sound
  <2> QED
    BY <2>1, <2>2, SavesKept, PartsOfMemory
<1>9. CASE PutDetails(w)
  <2>1. PICK m \in Refreshed(w) :
          /\ Unlocked(w) /\ Refresh(w, m)
          /\ \E old \in m.entries, e \in Entries \ m.entries :
               Saves(w, m, (m.entries \ {old}) \cup {e}, m.slots)
    BY <1>9 DEF PutDetails
  <2>2. Sound(m) /\ m.open /\ faults' \in Nat /\ m.slots # {} /\ m \in Memory
    BY <2>1, RefreshIsSound DEF Sound
  <2> QED
    BY <2>1, <2>2, SavesKept, PartsOfMemory
<1>10. CASE Remove(w)
  <2>1. PICK m \in Refreshed(w) :
          /\ Unlocked(w) /\ Refresh(w, m)
          /\ \E old \in m.entries : Saves(w, m, m.entries \ {old}, m.slots)
    BY <1>10 DEF Remove
  <2>2. Sound(m) /\ m.open /\ faults' \in Nat /\ m.slots # {} /\ m \in Memory
    BY <2>1, RefreshIsSound DEF Sound
  <2> QED
    BY <2>1, <2>2, SavesKept, PartsOfMemory
<1>11. CASE Import(w)
  <2>1. PICK m \in Refreshed(w) :
          /\ Unlocked(w) /\ Refresh(w, m)
          /\ \E old \in SUBSET m.entries, new \in SUBSET (Entries \ m.entries) :
               Saves(w, m, (m.entries \ old) \cup new, m.slots)
    BY <1>11 DEF Import
  <2>2. Sound(m) /\ m.open /\ faults' \in Nat /\ m.slots # {} /\ m \in Memory
    BY <2>1, RefreshIsSound DEF Sound
  <2> QED
    BY <2>1, <2>2, SavesKept, PartsOfMemory
<1>12. CASE AddKey(w)
  <2>1. PICK m \in Refreshed(w) :
          /\ Unlocked(w) /\ Refresh(w, m)
          /\ \E k \in Keys \ m.slots : Saves(w, m, m.entries, m.slots \cup {k})
    BY <1>12 DEF AddKey
  <2>2. Sound(m) /\ m.open /\ faults' \in Nat /\ m.slots # {} /\ m \in Memory
    BY <2>1, RefreshIsSound DEF Sound
  <2> QED
    BY <2>1, <2>2, SavesKept, PartsOfMemory
<1>13. CASE RemoveKey(w)
  <2>1. PICK m \in Refreshed(w) :
          /\ Unlocked(w) /\ Refresh(w, m)
          /\ \E k \in m.slots : m.slots # {k} /\ Saves(w, m, m.entries, m.slots \ {k})
    BY <1>13 DEF RemoveKey, Spare
  <2>2. Sound(m) /\ m.open /\ faults' \in Nat /\ m.slots # {} /\ m \in Memory
    BY <2>1, RefreshIsSound DEF Sound
  <2> QED
    BY <2>1, <2>2, SavesKept, PartsOfMemory
<1>14. CASE WriteFails(w)
  <2>1. mem[w].at = "writing" /\ Held(w) = was[w] /\ was[w] \in Memory /\ was[w].at = "idle"
        /\ was[w].open /\ was[w].slots # {} /\ mem[w].open /\ disk.is = "vault"
    BY <1>1, <1>14 DEF WriteFails, Held, Kept, NoneYet, Shapes, Shape
  <2>2. Sound(was[w])
    BY <1>1, <2>1 DEF Kept, TheCountTells, SeenIsHeld, Sound
  <2>3. faults' \in Nat
    BY <1>1, <1>14 DEF WriteFails, Fault
  <2> QED
    BY <1>1, <1>14, <2>2, <2>3, RestKept DEF WriteFails
<1> QED
  BY <1>2, <1>3, <1>4, <1>5, <1>6, <1>7, <1>8, <1>9, <1>10, <1>11, <1>12, <1>13, <1>14,
     CreatesKept, RenamesKept, MakeFailsKept

(* Kept holds of every state the windows and the file can come to. *)
THEOREM KeptAlways == Spec => []Kept
  BY InitKept, NextKept, StutterKept, PTL DEF Spec

(* The file and every memory of it have the shape the code gives them: a vault
   has a key that opens it, and so has whoever has it open. *)
THEOREM TypeCorrect == Spec => []TypeOK
  BY KeptAlways, PTL DEF Kept

(* However many windows save, fail to, crash and come back, what they were told
   is saved is what the file holds, until one writes over what it had not read. *)
THEOREM SavedIsKept == Spec => []NothingSavedIsLost
  BY KeptAlways, PTL DEF Kept

(* The count of saves is enough for refresh to go by. *)
THEOREM CountIsEnough == Spec => []TheCountTells
  BY KeptAlways, PTL DEF Kept

(* Taking the name first leaves one window to make the vault. *)
THEOREM OneMakesIt == Spec => []OneMaker
  BY KeptAlways, PTL DEF Kept
=============================================================================
