-------------------------- MODULE MCGroupTracker --------------------------
(***************************************************************************)
(* Instances of GroupTracker for TLC.  Crc is one to one on the few sets   *)
(* of names there are.                                                     *)
(***************************************************************************)
EXTENDS GroupTracker, TLC

MCCode == {<<s>> : s \in SUBSET Player}

MCCrc == [s \in SUBSET Player |-> <<s>>]

Sameness == Permutations(Player) \cup Permutations(Party)

=============================================================================
