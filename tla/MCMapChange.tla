---------------------------- MODULE MCMapChange ----------------------------
(***************************************************************************)
(* Instances of MapChange for TLC: a lobby whose name is known, and an     *)
(* instance whose name has to be asked for.                                *)
(***************************************************************************)
EXTENDS MapChange

CONSTANTS Lobby, Raid, ServerA, ServerB, Here, There

Maps == {Lobby, Raid}

MCName == Maps \cup {"Unknown"}

MCUuid == 1 .. 20

TwoServers == {ServerA, ServerB}

JustLobby == {Lobby}

TwoAxes == {0, 1}

TwoCoordinates == {Here, There}

(* Two places with no coordinate in common.                                *)
TwoPlaces == {[a \in TwoAxes |-> c] : c \in TwoCoordinates}

(* Neither the servers nor the places differ in anything but their names.  *)
AnyMap == {[map |-> m, server |-> ServerA, avatar |-> [a \in TwoAxes |-> Here]] : m \in Maps}

=============================================================================
