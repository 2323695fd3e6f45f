----------------------------- MODULE RegionLists -----------------------------
(***************************************************************************)
(* What the trigger regions promise to a player: every map has a list of   *)
(* its own.  Edits change the list in use only; a map is left when its     *)
(* list is kept, and one that is visited for the first time starts with    *)
(* the list of the map before it.  When the game ends it loses the edits   *)
(* since the last visit, unless it kept the list first, and never the list *)
(* of another map than the one in use: that one is lost for ever when the  *)
(* game ends while it is being kept.                                       *)
(***************************************************************************)
EXTENDS Sequences

CONSTANTS
  Map, Nowhere,
  Region,     \* what a list holds: an identity (uuid) with its attributes
  Absent,     \* the list of a map that was never left
  Torn        \* a list that is being kept, or was when the game ended

VARIABLES
  current,    \* the map whose list is in use
  list,       \* that list
  kept        \* the list of every map as it was when the map was left

listVars == <<current, list, kept>>

Init ==
  /\ current = Nowhere
  /\ list = <<>>
  /\ kept = [m \in Map |-> Absent]

Open ==
  /\ current # Nowhere
  /\ kept' = [kept EXCEPT ![current] = Torn]
  /\ UNCHANGED <<current, list>>

Keep ==
  /\ current # Nowhere /\ kept[current] = Torn
  /\ kept' = [kept EXCEPT ![current] = list]
  /\ UNCHANGED <<current, list>>

Visit(m) ==
  /\ current # Nowhere => kept[current] = list
  /\ kept[m] # Torn
  /\ current' = m
  /\ list' = IF kept[m] = Absent THEN list ELSE kept[m]
  /\ UNCHANGED kept

Edit ==
  /\ current # Nowhere /\ kept[current] # Torn
  /\ list' \in Seq(Region)
  /\ \A i, j \in DOMAIN list' : list'[i].uuid = list'[j].uuid => i = j
  /\ UNCHANGED <<current, kept>>

End == current' = Nowhere /\ list' = <<>> /\ UNCHANGED kept

Next == Open \/ Keep \/ (\E m \in Map : Visit(m)) \/ Edit \/ End

Spec == Init /\ [][Next]_listVars

=============================================================================
