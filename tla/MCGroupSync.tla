---------------------------- MODULE MCGroupSync ----------------------------
(***************************************************************************)
(* Instances of GroupSync for TLC.                                         *)
(***************************************************************************)
EXTENDS GroupSync, TLC

CONSTANTS
  Party,    \* the group of an instance
  Custom

Names == {Default, Party}

CustomIds == {Custom}

Suffixes == [i \in CustomIds |-> Party]

Alone ==
  [use_custom_id |-> FALSE, custom_id |-> Custom, instance |-> FALSE,
   instance_id |-> Empty, group_id |-> Empty]

InInstance == [Alone EXCEPT !.instance = TRUE, !.instance_id = Party]

Travels == {Alone, InInstance}

Symmetry == Permutations(Session) \cup Permutations(GroupId)

=============================================================================
