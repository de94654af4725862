-------------------------- MODULE MCVaultFile --------------------------
(* VaultFile on a small instance: windows, entries and keys are model values,
   each exchangeable with another of its kind.                               *)
EXTENDS VaultFile, TLC

Exchange == Permutations(Windows) \cup Permutations(Entries) \cup Permutations(Keys)
=============================================================================
