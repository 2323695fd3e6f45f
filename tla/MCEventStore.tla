---------------------------- MODULE MCEventStore ----------------------------
(***************************************************************************)
(* Instances of EventStore for TLC: the render thread alone, with key      *)
(* binds, with combat, and key binds with the deferred thread and combat.  *)
(* The more threads there are, the fewer events.                           *)
(***************************************************************************)
EXTENDS StoreThreads

CONSTANTS
  Render, Combat, Window, Deferred,   \* threads
  Fractal                             \* a map, and the name of a region

Threads == {Render, Combat, Window, Deferred}

Roles ==
  (Render :> "imgui") @@ (Combat :> "combat") @@ (Window :> "window") @@ (Deferred :> "deferred")

(* Ties are broken both ways: an event may draw a uuid smaller than those  *)
(* before it.                                                              *)
MCUuid == 1 .. MaxNow + 2
MCRegionUuid == {MaxNow + 2}
MCDraw == [n \in 1 .. MaxNow |-> IF n = 2 THEN {1, 3} ELSE {n + 1}]

MCName == {Fractal}

Alone == {Render}
Play == {Render, Window}
Fight == {Render, Combat}
KeyBinds == {Window, Deferred, Combat}

LastInstant == IF present = Alone THEN MaxNow ELSE 3

MCInit == ThreadsInit /\ present \in {Alone, Play, Fight, KeyBinds}

(* The addon is unloaded.                                                  *)
Unloaded ==
  present \in {Alone, Play} /\ pc[Render] = "released" /\ UNCHANGED <<vars, present>>

MCNext ==
  \/ ThreadsNext /\ now' <= LastInstant
  \/ Unloaded

MCSpec == MCInit /\ [][MCNext]_<<vars, present>> /\ Fairness

=============================================================================
