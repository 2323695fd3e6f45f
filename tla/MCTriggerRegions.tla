-------------------------- MODULE MCTriggerRegions --------------------------
(***************************************************************************)
(* An instance of TriggerRegions for TLC: all behaviours in which the      *)
(* player, the watcher and the game take MaxSteps steps; the handlers of a *)
(* map change and the writing of a file are taken to their end besides.    *)
(***************************************************************************)
EXTENDS TriggerRegions, TLC

CONSTANTS
  Gate,       \* the name of a region
  MaxSteps    \* bound on the steps that begin something

VARIABLE steps

Names == {Unnamed, Gate}

MCInit == Init /\ steps = 0

MCNext ==
  \/ Continues /\ UNCHANGED steps
  \/ Begins /\ steps < MaxSteps /\ steps' = steps + 1

MCSpec == MCInit /\ [][MCNext]_<<vars, steps>>

Symmetry == Permutations(Ptr) \cup Permutations(Map) \cup Permutations(Uuid)

=============================================================================
