------------------------------ MODULE BossKill ------------------------------
(***************************************************************************)
(* BossKillRecognition (bosskill_recognition.cpp): combat events collect   *)
(* what is known of the NPCs of an encounter; when arcdps ends a log that  *)
(* was long enough, every boss whose conditions all hold is signalled, and *)
(* the NPCs are forgotten.  One thread delivers the events, one step each. *)
(***************************************************************************)
EXTENDS Integers, FiniteSets

CONSTANTS
  Npc,             \* species of NPCs (ag::prof)
  Agent, NpcOf,    \* instances of NPCs (ag::id), and what each one is
  Player,          \* any agent that is no NPC
  NoNpc,           \* the species_id 0 of a new AgentData
  Boss,            \* a set of conditions for each boss, see below
  additional_boss_ids,
  MapId, Spot,     \* where the player is: a map, and a place on it
  Damage,          \* what a hit can take
  NoHit,           \* a combat event that is no damage
  Threshold, Delay,    \* the early /gg setting, and the 3 s of arcdps
  Boot, MaxNow,    \* the clock when the addon is loaded, its bound
  MaxEvents,       \* bound on the combat events
  Absent

ASSUME NpcAssumption == NpcOf \in [Agent -> Npc] /\ NoNpc \notin Npc
ASSUME AgentAssumption == Player \notin Agent
(* The ids a player adds (settings.cpp:153) are taken to be of NPCs.       *)
ASSUME BossAssumption ==
  /\ additional_boss_ids \subseteq Npc
  /\ \A b \in Boss : \A c \in b : c.kind = "npc_id" => c.npcs \subseteq Npc
ASSUME DamageAssumption == Damage \subseteq Nat /\ NoHit \notin Damage
ASSUME ClockAssumption ==
  /\ Boot \in Nat /\ MaxNow \in Nat /\ Threshold \in Nat /\ Delay \in Nat
  /\ Threshold + Delay < Boot /\ Boot <= MaxNow
ASSUME EventsAssumption == MaxEvents \in Nat

VARIABLES
  now,
  log_start_time,
  log_agents, map_id,    \* EncounterData; its other members are set and read
                         \* at the end of a log only, here parameters
  signalled,       \* the bosses signalled by the last event, with the NPC of
                   \* the log
  met,             \* what happened to each agent since agents were forgotten
  logging,         \* arcdps writes a log
  received         \* the number of combat events

data == <<log_agents, map_id>>
ghosts == <<met, received>>
vars == <<now, logging, log_start_time, data, signalled, ghosts>>

AgentData ==
  [species_id : Npc \cup {NoNpc}, damage_taken : Nat, damage_dealt : Nat,
   last_hit : Nat]

ASSUME AbsentAssumption == Absent \notin AgentData

NewAgent == [species_id |-> NoNpc, damage_taken |-> 0, damage_dealt |-> 0, last_hit |-> 0]

Unmet == [hits |-> 0, taken |-> 0, dealt |-> 0]

Init ==
  /\ now = Boot
  /\ log_start_time = 0
  /\ log_agents = [a \in Agent |-> Absent]
  /\ map_id = Absent
  /\ signalled = {}
  /\ met = [a \in Agent |-> Unmet]
  /\ logging \in BOOLEAN      \* the addon may be loaded during a log
  /\ received = 0

-----------------------------------------------------------------------------
(* A combat event.  log_agents.contains(id) is tested where it was meant   *)
(* to be negated: the first hit makes an agent without a species, and each *)
(* later event makes a new AgentData in its place.                         *)

(* Mutant: the species is not set.                                         *)
RenewedUnnamed(agents, a) ==
  IF agents[a] = Absent THEN agents ELSE [agents EXCEPT ![a] = NewAgent]

Renewed(agents, a) ==
  IF agents[a] = Absent THEN agents
  ELSE [agents EXCEPT ![a] = [NewAgent EXCEPT !.species_id = NpcOf[a]]]

(* log_agents[id]: an agent that is not there is made.                     *)
At(agents, a) == IF agents[a] = Absent THEN NewAgent ELSE agents[a]

Latest(t, u) == IF t > u THEN t ELSE u

(* Mutant: a hit that an agent gives is counted as one it takes.           *)
AsSourceTaken(agents, a, hit) ==
  LET renewed == Renewed(agents, a)
  IN  IF hit = NoHit THEN renewed
      ELSE [renewed EXCEPT ![a] = [At(renewed, a) EXCEPT !.damage_taken = @ + hit]]

(* The event as the source's and as the target's: target only if it is not *)
(* a friend.                                                               *)
AsSource(agents, a, hit) ==
  LET renewed == Renewed(agents, a)
  IN  IF hit = NoHit THEN renewed
      ELSE [renewed EXCEPT ![a] = [At(renewed, a) EXCEPT !.damage_dealt = @ + hit]]

AsTarget(agents, a, hit) ==
  LET renewed == Renewed(agents, a)
  IN  IF hit = NoHit THEN renewed
      ELSE [renewed EXCEPT ![a] = [At(renewed, a) EXCEPT
                                     !.last_hit = Latest(now, @),
                                     !.damage_taken = @ + hit]]

(* What really happened, for the properties.                               *)
Met(src, dst, hit) ==
  [a \in Agent |->
     IF hit = NoHit \/ a \notin {src, dst} THEN met[a]
     ELSE [hits  |-> met[a].hits + 1,
           taken |-> met[a].taken + (IF a = dst THEN hit ELSE 0),
           dealt |-> met[a].dealt + (IF a = src THEN hit ELSE 0)]]

Combat(src, dst, friend, hit) ==
  /\ src \in Agent \/ dst \in Agent
  /\ received < MaxEvents
  /\ received' = received + 1
  /\ LET target == IF friend THEN Player ELSE dst
         first == IF src = Player THEN log_agents ELSE AsSource(log_agents, src, hit)
     IN  /\ log_agents' = IF target = Player THEN first ELSE AsTarget(first, target, hit)
         /\ met' = Met(src, target, hit)
  /\ signalled' = {}
  /\ UNCHANGED <<now, logging, log_start_time, map_id>>

-----------------------------------------------------------------------------
(* The conditions of bosses.                                               *)

NpcIdIn(npcs) == [kind |-> "npc_id", npcs |-> npcs]     \* also: at least one
NpcId(npc) == NpcIdIn({npc})
DamageTaken(npc, damage) == [kind |-> "taken", npc |-> npc, damage |-> damage]
DamageDealt(npc, damage) == [kind |-> "dealt", npc |-> npc, damage |-> damage]
LastHitsApart(a, b, distance) ==
  [kind |-> "apart", a |-> a, b |-> b, distance |-> distance]
OnMap(m) == [kind |-> "map", map |-> m]
Near(spot) == [kind |-> "near", spot |-> spot]

(* Mutant: an agent without a species passes for any.                      *)
KnownUnnamed(npc) ==
  {a \in Agent : log_agents[a] # Absent /\ log_agents[a].species_id \in {npc, NoNpc}}

(* The agents that are known to be instances of an NPC.                    *)
Known(npc) == {a \in Agent : log_agents[a] # Absent /\ log_agents[a].species_id = npc}

LastHit(npc) ==
  LET hits == {log_agents[a].last_hit : a \in Known(npc)}
  IN  CHOOSE t \in hits : \A u \in hits : u <= t

Distance(t, u) == IF t < u THEN u - t ELSE t - u

(* A condition at the end of a log of the given NPC (log_species_id), with *)
(* the player at the given place (lastPlayerX, lastPlayerY).               *)
Holds(c, npc, spot) ==
  \/ c.kind = "npc_id" /\ (npc \in c.npcs \/ \E n \in c.npcs : Known(n) # {})
  \/ c.kind = "taken" /\ \E a \in Known(c.npc) : log_agents[a].damage_taken > c.damage
  \/ c.kind = "dealt" /\ \E a \in Known(c.npc) : log_agents[a].damage_dealt > c.damage
  \/ /\ c.kind = "apart"
     /\ Known(c.a) # {} /\ Known(c.b) # {} =>
          Distance(LastHit(c.a), LastHit(c.b)) > c.distance
  \/ c.kind = "map" /\ map_id = c.map
  \/ c.kind = "near" /\ spot = c.spot

(* is_kill: one of the additional bosses.                                  *)
AdditionalBoss == {NpcIdIn(additional_boss_ids)}

Signalled(npc, spot) ==
  {[boss |-> b, log |-> npc] :
     b \in {b \in Boss \cup {AdditionalBoss} : \A c \in b : Holds(c, npc, spot)}}

-----------------------------------------------------------------------------

LogStart(m) ==
  /\ ~logging
  /\ logging' = TRUE
  /\ log_start_time' = now
  /\ map_id' = m
  /\ signalled' = {}
  /\ UNCHANGED <<now, log_agents, ghosts>>

IsLong == now - log_start_time - Delay > Threshold

(* A log that is too short is not judged, but its agents stay.             *)
LogEnd(npc, spot) ==
  /\ logging
  /\ logging' = FALSE
  /\ IF IsLong
     THEN /\ signalled' = Signalled(npc, spot)
          /\ log_agents' = [a \in Agent |-> Absent]
          /\ met' = [a \in Agent |-> Unmet]
     ELSE /\ signalled' = {}
          /\ UNCHANGED <<log_agents, met>>
  /\ UNCHANGED <<now, log_start_time, map_id, received>>

Tick ==
  /\ now < MaxNow
  /\ now' = now + 1
  /\ signalled' = {}
  /\ UNCHANGED <<logging, log_start_time, data, ghosts>>

Next ==
  \/ \E src, dst \in Agent \cup {Player}, friend \in BOOLEAN, hit \in Damage \cup {NoHit} :
       Combat(src, dst, friend, hit)
  \/ \E m \in MapId : LogStart(m)
  \/ \E npc \in Npc \cup {NoNpc}, spot \in Spot : LogEnd(npc, spot)
  \/ Tick

Spec == Init /\ [][Next]_vars

-----------------------------------------------------------------------------

TypeOK ==
  /\ now \in Boot .. MaxNow /\ log_start_time \in 0 .. now
  /\ log_agents \in [Agent -> AgentData \cup {Absent}]
  /\ map_id \in MapId \cup {Absent}
  /\ signalled \subseteq [boss : Boss \cup {AdditionalBoss}, log : Npc \cup {NoNpc}]
  /\ logging \in BOOLEAN
  /\ met \in [Agent -> [hits : Nat, taken : Nat, dealt : Nat]]
  /\ received \in 0 .. MaxEvents

(* However often an agent is renewed, by events as source and as target,   *)
(* no agent is credited with damage that did not happen since agents were  *)
(* forgotten: a condition on damage never holds too early.                 *)
(* (bosskill_recognition.cpp: mod_combat, archive)                         *)
DamageNotOvercounted ==
  \A a \in Agent :
    log_agents[a] # Absent =>
      /\ log_agents[a].damage_taken <= met[a].taken
      /\ log_agents[a].damage_dealt <= met[a].dealt

(* An NPC that was part of two hits is known by its id until a log is      *)
(* judged, although the first hit leaves it without one; and an NPC that   *)
(* no hit was part of is not known.  (bosskill_recognition.cpp: the two    *)
(* tests of log_agents.contains)                                           *)
TwoHitsMakeKnown ==
  \A a \in Agent :
    /\ met[a].hits >= 2 => a \in Known(NpcOf[a])
    /\ met[a].hits = 0 => log_agents[a] = Absent

(* A boss is not signalled for a fight that was judged before, nor for     *)
(* another NPC: the log is of the boss, or a hit since the last judgement  *)
(* was part of it.  (bosskill_recognition.cpp: data.archive() and the      *)
(* conditions)                                                             *)
SignalledBossWasMet ==
  [][\A s \in signalled' : \A c \in s.boss :
       c.kind = "npc_id" =>
         \/ s.log \in c.npcs
         \/ \E a \in Agent : NpcOf[a] \in c.npcs /\ met[a].hits > 0]_vars

-----------------------------------------------------------------------------
(* "14,059,890 HP, lower to have leeway for measurement errors"            *)
(* (bosskill_recognition.cpp:118): once a boss lost more than the damage   *)
(* asked for, in two hits or more, the condition on its damage holds.      *)
DamageAddsUp ==
  \A b \in Boss : \A c \in b : \A a \in Agent :
    /\ c.kind = "taken" /\ c.npc = NpcOf[a]
    /\ met[a].taken > c.damage /\ met[a].hits >= 2
    => \E k \in Known(c.npc) : log_agents[k].damage_taken > c.damage

=============================================================================
