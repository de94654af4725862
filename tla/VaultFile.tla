---------------------------- MODULE VaultFile ----------------------------
(* The file of secrets (secrets/vault.go, secrets/file.go), read and written
   whole by several windows with no lock on it.

   A Vault's mutex makes each of its operations one at a time, so what
   interleaves is the windows' readings of the file and their renames over it.
   An operation that writes is two steps: it reads the file and changes its own
   memory, and later the rename lands or fails.  An entry is a secret with one
   value: another value is another entry.  A key is anything that opens the
   vault, a passphrase too.  The file is never taken away by hand.           *)
EXTENDS Integers, FiniteSets

CONSTANTS Windows,    \* the vaults, one to a window, on the one file
          Entries,    \* what may be kept
          Keys,       \* what may open it
          MaxWrites,  \* bound: the times the file is written
          MaxFaults   \* bound: reads, writes and removals that fail, and crashes

ASSUME BoundsAssumption == MaxWrites \in Nat /\ MaxFaults \in Nat

VARIABLES
  disk,    \* the file; turn numbers what was renamed onto it
  mem,     \* each window's Vault; seen is the turn it last read or wrote
  was,     \* what the operation under way goes back to if its write fails
  faults,  \* how much has gone wrong
  ought,   \* history: what every change that was saved adds up to
  torn     \* history: a rename replaced a file its window had not seen

vars == <<disk, mem, was, faults, ought, torn>>

Shut == [at |-> "shut", open |-> FALSE, saves |-> 0, entries |-> {}, slots |-> {}, seen |-> 0]

Memory == [at : {"shut", "idle", "writing", "making"}, open : BOOLEAN, saves : Nat,
           entries : SUBSET Entries, slots : SUBSET Keys, seen : Nat]

TypeOK ==
  /\ disk \in [is : {"none", "taken", "vault"}, saves : Nat, entries : SUBSET Entries,
               slots : SUBSET Keys, turn : Nat]
  /\ disk.is = "vault" <=> disk.slots # {}
  /\ mem \in [Windows -> Memory] /\ was \in [Windows -> Memory]
  /\ \A w \in Windows : mem[w].open => mem[w].slots # {}
  /\ faults \in Nat /\ torn \in BOOLEAN
  /\ ought \in [entries : SUBSET Entries, slots : SUBSET Keys]

Init ==
  /\ disk = [is |-> "none", saves |-> 0, entries |-> {}, slots |-> {}, turn |-> 0]
  /\ mem = [w \in Windows |-> Shut] /\ was = [w \in Windows |-> Shut]
  /\ faults = 0 /\ torn = FALSE
  /\ ought = [entries |-> {}, slots |-> {}]

Fault == faults < MaxFaults /\ faults' = faults + 1

Locked(w) == mem[w].at = "idle" /\ ~mem[w].open
Unlocked(w) == mem[w].at = "idle" /\ mem[w].open
Remembers(w, m) == mem' = [mem EXCEPT ![w] = m] /\ UNCHANGED <<disk, was, ought, torn>>

(***************************************************************************)
(* A window comes, unlocks, locks, goes.                                   *)
(***************************************************************************)

(* Open: a name that is only taken does not read as a vault, and is refused. *)
Opens(w) ==
  /\ mem[w].at = "shut" /\ disk.is # "taken"
  /\ Remembers(w, [Shut EXCEPT !.at = "idle", !.slots = disk.slots, !.seen = disk.turn])
  /\ UNCHANGED faults

(* Unlock and UnlockWith read the file again before a key is tried. *)
Reopened(w) == [at |-> "idle", open |-> TRUE, saves |-> disk.saves, entries |-> disk.entries,
                slots |-> disk.slots, seen |-> disk.turn]

Unlocks(w) ==
  /\ Locked(w) /\ disk.is = "vault"
  /\ Remembers(w, Reopened(w))
  /\ UNCHANGED faults

(* No key in hand fits, or Exists looks for a file this window never saw: the
   file is read and what is under its seal is not. *)
LooksLocked(w) ==
  /\ Locked(w) /\ disk.is # "taken"
  /\ Remembers(w, [mem[w] EXCEPT !.slots = disk.slots, !.seen = disk.turn])
  /\ UNCHANGED faults

Locks(w) ==
  /\ Unlocked(w)
  /\ Remembers(w, [mem[w] EXCEPT !.open = FALSE, !.entries = {}])
  /\ UNCHANGED faults

(* The process ends, wherever it is: between two operations it is a quit. *)
Goes(w) ==
  /\ mem[w].at # "shut"
  /\ IF mem[w].at = "idle" THEN UNCHANGED faults ELSE Fault
  /\ mem' = [mem EXCEPT ![w] = Shut]
  /\ was' = [was EXCEPT ![w] = Shut]
  /\ UNCHANGED <<disk, ought, torn>>

(***************************************************************************)
(* refresh, with which every operation on an open vault begins.            *)
(***************************************************************************)

(* faulty variant: what is in memory is never looked at again *)
KeepsOwn(w) == [mem[w] EXCEPT !.seen = disk.turn]

(* Only a file that says it has been written more often is taken in. *)
Adopted(w) ==
  IF disk.saves > mem[w].saves THEN Reopened(w)
  ELSE [mem[w] EXCEPT !.seen = disk.turn]

(* A read that fails leaves memory as it was, and is not reported. *)
Refreshed(w) == {mem[w], Adopted(w)}
Refresh(w, m) ==
  \/ m = Adopted(w) /\ UNCHANGED faults
  \/ m = mem[w] /\ Fault

(* Items, PassphraseFor, PasswordFor, and every change that is refused. *)
Looks(w) ==
  \E m \in Refreshed(w) : Unlocked(w) /\ Refresh(w, m) /\ Remembers(w, m)

(***************************************************************************)
(* A change: memory first, then save.                                      *)
(***************************************************************************)

Saves(w, m, entries, slots) ==
  /\ disk.turn + Cardinality({u \in Windows : mem[u].at = "writing"}) < MaxWrites
  /\ mem' = [mem EXCEPT ![w] = [m EXCEPT !.at = "writing", !.saves = m.saves + 1,
                                         !.entries = entries, !.slots = slots]]
  /\ was' = [was EXCEPT ![w] = m]
  /\ UNCHANGED <<disk, ought, torn>>

(* Put, of an entry that is new. *)
Put(w) ==
  \E m \in Refreshed(w) :
    /\ Unlocked(w) /\ Refresh(w, m)
    /\ \E e \in Entries \ m.entries : Saves(w, m, m.entries \cup {e}, m.slots)

(* Put with an id, and PutDetails: one entry takes the place of another. *)
PutDetails(w) ==
  \E m \in Refreshed(w) :
    /\ Unlocked(w) /\ Refresh(w, m)
    /\ \E old \in m.entries, e \in Entries \ m.entries :
         Saves(w, m, (m.entries \ {old}) \cup {e}, m.slots)

Remove(w) ==
  \E m \in Refreshed(w) :
    /\ Unlocked(w) /\ Refresh(w, m)
    /\ \E old \in m.entries : Saves(w, m, m.entries \ {old}, m.slots)

(* Import: many at once, some in the place of others, and one write. *)
Import(w) ==
  \E m \in Refreshed(w) :
    /\ Unlocked(w) /\ Refresh(w, m)
    /\ \E old \in SUBSET m.entries, new \in SUBSET (Entries \ m.entries) :
         /\ new # {} /\ Cardinality(old) <= Cardinality(new)
         /\ Saves(w, m, (m.entries \ old) \cup new, m.slots)

(* AddKey and AddPassphrase. *)
AddKey(w) ==
  \E m \in Refreshed(w) :
    /\ Unlocked(w) /\ Refresh(w, m)
    /\ \E k \in Keys \ m.slots : Saves(w, m, m.entries, m.slots \cup {k})

(* faulty variant: the last one goes as well *)
SpareAll(m) == m.slots

(* The last key cannot go. *)
Spare(m) == {k \in m.slots : m.slots # {k}}

RemoveKey(w) ==
  \E m \in Refreshed(w) :
    /\ Unlocked(w) /\ Refresh(w, m)
    /\ \E k \in Spare(m) : Saves(w, m, m.entries, m.slots \ {k})

(* faulty variant: looked at, and taken whoever has it *)
NotAVaultYet == disk.is # "vault"

(* The name is free to be taken: os.O_EXCL. *)
NameIsFree == disk.is = "none"

(* Create takes the name with an empty file before it makes anything. *)
Creates(w) ==
  /\ Locked(w) /\ NameIsFree
  /\ disk' = [disk EXCEPT !.is = "taken"]
  /\ \E k \in Keys :
       mem' = [mem EXCEPT ![w] = [at |-> "making", open |-> TRUE, saves |-> 1,
                                  entries |-> {}, slots |-> {k}, seen |-> disk.turn]]
  /\ was' = [was EXCEPT ![w] = [mem[w] EXCEPT !.seen = disk.turn]]
  /\ UNCHANGED <<faults, ought, torn>>

(***************************************************************************)
(* writeFile: the rename lands, or nothing does.                           *)
(***************************************************************************)

(* What a saved change does to a set, given the one it was made on. *)
Merged(all, before, after) == (all \ (before \ after)) \cup (after \ before)

Renames(w) ==
  LET m == mem[w] IN
  /\ m.at \in {"writing", "making"}
  /\ disk' = [is |-> "vault", saves |-> m.saves, entries |-> m.entries, slots |-> m.slots,
              turn |-> disk.turn + 1]
  /\ mem' = [mem EXCEPT ![w] = [m EXCEPT !.at = "idle", !.seen = disk.turn + 1]]
  /\ ought' = [entries |-> Merged(ought.entries, was[w].entries, m.entries),
               slots |-> Merged(ought.slots, was[w].slots, m.slots)]
  /\ torn' = (torn \/ was[w].seen # disk.turn)
  /\ was' = [was EXCEPT ![w] = Shut]
  /\ UNCHANGED faults

(* faulty variant: the count is not given back *)
CountSpent(w) ==
  /\ mem[w].at = "writing" /\ Fault
  /\ mem' = [mem EXCEPT ![w] = [was[w] EXCEPT !.saves = @ + 1]]
  /\ was' = [was EXCEPT ![w] = Shut]
  /\ UNCHANGED <<disk, ought, torn>>

(* Entries, slots and the count are taken back. *)
WriteFails(w) ==
  /\ mem[w].at = "writing" /\ Fault
  /\ mem' = [mem EXCEPT ![w] = was[w]]
  /\ was' = [was EXCEPT ![w] = Shut]
  /\ UNCHANGED <<disk, ought, torn>>

(* Create gives the name back, and the window keeps the vault it had.  It may
   fail at that too, and the name stays taken by nothing. *)
MakeFails(w) ==
  /\ mem[w].at = "making" /\ Fault
  /\ \E is \in {"none", "taken"} : disk' = [disk EXCEPT !.is = is]
  /\ mem' = [mem EXCEPT ![w] = was[w]]
  /\ was' = [was EXCEPT ![w] = Shut]
  /\ UNCHANGED <<ought, torn>>

Next ==
  \E w \in Windows :
    \/ Opens(w) \/ Unlocks(w) \/ LooksLocked(w) \/ Locks(w) \/ Goes(w)
    \/ Looks(w) \/ Put(w) \/ PutDetails(w) \/ Remove(w) \/ Import(w)
    \/ AddKey(w) \/ RemoveKey(w) \/ Creates(w)
    \/ Renames(w) \/ WriteFails(w) \/ MakeFails(w)

Spec == Init /\ [][Next]_vars

(***************************************************************************)
(* What the file promises.                                                 *)
(***************************************************************************)

(* What a window's memory is worth while its write may still fail. *)
Held(w) == IF mem[w].at = "writing" THEN was[w] ELSE mem[w]

(* Every change a window was told is saved is in the file, and nothing that was
   taken out is, as long as no window wrote over a file it had not read: what
   refresh leaves to two that write inside the same moment. *)
NothingSavedIsLost ==
  ~torn /\ disk.is = "vault" => disk.entries = ought.entries /\ disk.slots = ought.slots

(* The count alone says which write a memory is of (contents.Saves): no open
   vault is ahead of the file, and one level with it holds what the file does,
   through writes that fail and processes that end half way. *)
TheCountTells ==
  ~torn => \A w \in Windows : mem[w].open /\ mem[w].at # "making" =>
    /\ Held(w).saves <= disk.saves
    /\ Held(w).saves = disk.saves =>
         Held(w).entries = disk.entries /\ Held(w).slots = disk.slots

(* One window at a time makes the vault, and on a name that is its own, so what
   it renames into place replaces nobody's secrets (Create). *)
OneMaker ==
  \A w \in Windows : mem[w].at = "making" =>
    disk.is = "taken" /\ \A u \in Windows : mem[u].at = "making" => u = w

(* refresh takes in what another window has written, so a change by a window
   that read the file last written goes on top of it rather than over it. *)
OnTopNotOver ==
  \A w \in Windows : mem[w].at = "writing" /\ was[w].seen = disk.turn =>
    was[w].entries = disk.entries /\ was[w].slots = disk.slots
===========================================================================
