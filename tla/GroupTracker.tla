---------------------------- MODULE GroupTracker ----------------------------
(***************************************************************************)
(* The group trackers of the players of some parties (grouptracker.cpp):   *)
(* each learns from arcdps who is with it and makes a code of the names,   *)
(* which the players send to the server as the id of their group, so the   *)
(* members of a party must come to the same one by themselves.             *)
(*                                                                         *)
(* arcdps is not part of the repository.  It tells every client of every   *)
(* player that is added to or removed from its surroundings, in order, and *)
(* of all of them, itself included, when the client loads a map.           *)
(***************************************************************************)
EXTENDS Integers, Sequences, SequencesExt

CONSTANTS
  Player,      \* account names, without the colon mod_combat erases
  NoPlayer,    \* "", the name of oneself before it is known
  Party,
  Code,
  NoCode,      \* "", the code before the first notice
  Crc,         \* of the concatenated names, which a set lists in one order
  MaxChanges     \* bound on loads and on changes of party

ASSUME PlayerAssumption == IsFiniteSet(Player) /\ NoPlayer \notin Player
ASSUME CrcAssumption == NoCode \notin Code /\ Crc \in [SUBSET Player -> Code]

(* Names are concatenated and reduced to 32 bits: that no two groups of    *)
(* players have one code is likely and no more.                            *)
ASSUME OneToOneAssumption == \A S, T \in SUBSET Player : Crc[S] = Crc[T] => S = T

VARIABLES
  party, loaded, changes,               \* the players
  notices,                            \* from arcdps, not yet handled, per client
  selfAccountName, group_players, group_code

playerVars == <<party, loaded, changes>>
ownVars == <<selfAccountName, group_players, group_code>>
trackerVars == <<playerVars, notices, ownVars>>

Notice == [player : Player, added : BOOLEAN]

-----------------------------------------------------------------------------

Members(p) == {q \in Player : party[q] = party[p]}

(* Notices of all of a set of players, in any order.                       *)
Listings(players, added) ==
  {[i \in DOMAIN s |-> [player |-> s[i], added |-> added]] : s \in SetToSeqs(players)}

TrackerInit ==
  /\ party \in [Player -> Party]
  /\ loaded = [p \in Player |-> FALSE]
  /\ changes = 0
  /\ notices = [p \in Player |-> <<>>]
  /\ selfAccountName = [p \in Player |-> NoPlayer]
  /\ group_players = [p \in Player |-> {}]
  /\ group_code = [p \in Player |-> NoCode]

(* Client p loads a map: all that it knows go, itself as well, all come.   *)
Load(p) ==
  /\ changes < MaxChanges /\ changes' = changes + 1
  /\ loaded' = [loaded EXCEPT ![p] = TRUE]
  /\ \E gone \in Listings(IF loaded[p] THEN Members(p) ELSE {}, FALSE),
        there \in Listings(Members(p), TRUE) :
       notices' = [notices EXCEPT ![p] = @ \o gone \o there]
  /\ UNCHANGED <<party, ownVars>>

(* Player p changes to another party: the clients of both hear of it, and  *)
(* its own of the members of both.                                         *)
ChangeParty(p, g) ==
  /\ party[p] # g
  /\ changes < MaxChanges /\ changes' = changes + 1
  /\ party' = [party EXCEPT ![p] = g]
  /\ \E gone \in Listings(Members(p) \ {p}, FALSE),
        there \in Listings({q \in Player : party[q] = g}, TRUE) :
       notices' = [q \in Player |->
         IF ~ loaded[q] THEN notices[q]
         ELSE IF q = p THEN notices[q] \o gone \o there
         ELSE IF party[q] = party[p]
         THEN Append(notices[q], [player |-> p, added |-> FALSE])
         ELSE IF party[q] = g
         THEN Append(notices[q], [player |-> p, added |-> TRUE])
         ELSE notices[q]]
  /\ UNCHANGED <<loaded, ownVars>>

-----------------------------------------------------------------------------
(* GroupTracker::mod_combat.  Only arcdps calls it, from one thread.       *)

calculate_groupcode(p, players) ==
  /\ group_players' = [group_players EXCEPT ![p] = players]
  /\ group_code' = [group_code EXCEPT ![p] = Crc[players]]

Added(p, who) ==
  /\ selfAccountName' = IF selfAccountName[p] = NoPlayer /\ who = p
                        THEN [selfAccountName EXCEPT ![p] = who]
                        ELSE selfAccountName
  /\ calculate_groupcode(p, group_players[p] \cup {who})

(* Mutant: no one is removed.                                              *)
RemovedNever(p, who) == UNCHANGED ownVars

Removed(p, who) ==
  /\ IF who # selfAccountName[p]
     THEN calculate_groupcode(p, group_players[p] \ {who})
     ELSE UNCHANGED <<group_players, group_code>>
  /\ UNCHANGED selfAccountName

mod_combat(p) ==
  /\ notices[p] # <<>>
  /\ LET n == Head(notices[p])
     IN  IF n.added THEN Added(p, n.player) ELSE Removed(p, n.player)
  /\ notices' = [notices EXCEPT ![p] = Tail(@)]
  /\ UNCHANGED playerVars

TrackerNext ==
  \E p \in Player :
    \/ Load(p)
    \/ \E g \in Party : ChangeParty(p, g)
    \/ mod_combat(p)

TrackerSpec == TrackerInit /\ [][TrackerNext]_trackerVars

-----------------------------------------------------------------------------

TrackerTypeOK ==
  /\ party \in [Player -> Party]
  /\ loaded \in [Player -> BOOLEAN]
  /\ changes \in Nat
  /\ notices \in [Player -> Seq(Notice)]
  /\ selfAccountName \in [Player -> Player \cup {NoPlayer}]
  /\ group_players \in [Player -> SUBSET Player]
  /\ group_code \in [Player -> Code \cup {NoCode}]

Settled(p) == loaded[p] /\ notices[p] = <<>>

(* Once two clients have handled what arcdps told them, they have the same *)
(* code exactly when their players are in the same party, whatever loads   *)
(* and changes of party there were and in whatever order either heard of   *)
(* them.  (grouptracker.cpp: the insert, the erase and the code after each *)
(* of them; api.cpp:90 makes a group id of the code.  Two sets of names    *)
(* with one CRC are left out: see README.)                                 *)
CodesMatchParties ==
  \A p, q \in Player :
    Settled(p) /\ Settled(q) =>
      (group_code[p] = group_code[q] <=> party[p] = party[q])

(* A player that was once added to its own client is always in its own     *)
(* group: the code a lone player goes by while a map loads is its own, not *)
(* that of nobody, which all players would share.  (grouptracker.cpp: no   *)
(* one with selfAccountName is erased)                                     *)
AlwaysWithOneself ==
  \A p \in Player :
    selfAccountName[p] # NoPlayer =>
      p \in group_players[p] /\ group_code[p] = Crc[group_players[p]]

=============================================================================
