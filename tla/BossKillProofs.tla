--------------------------- MODULE BossKillProofs ---------------------------
(***************************************************************************)
(* Theorems about BossKill, for any NPCs, bosses, damages and clocks.      *)
(*                                                                         *)
(* The argument: an event leaves the agents it is about with no more than  *)
(* its own damage (SourceFacts, TargetFacts), since it renews them or      *)
(* makes them; and an agent is made by its first hit and named by the      *)
(* second (Familiar).                                                      *)
(***************************************************************************)
EXTENDS BossKill, TLAPS

Agents == [Agent -> AgentData \cup {Absent}]

Blank(n) == [species_id |-> n, damage_taken |-> 0, damage_dealt |-> 0, last_hit |-> 0]

(* What TwoHitsMakeKnown leaves out: one hit makes an agent.               *)
Familiar ==
  \A a \in Agent :
    /\ met[a].hits = 0 => log_agents[a] = Absent
    /\ met[a].hits >= 1 => log_agents[a] \in AgentData
    /\ met[a].hits >= 2 => log_agents[a].species_id = NpcOf[a]
    /\ log_agents[a] # Absent => log_agents[a].species_id \in {NoNpc, NpcOf[a]}

IInv == TypeOK /\ DamageNotOvercounted /\ Familiar

-----------------------------------------------------------------------------

(* An agent that is renewed has no damage and its species.                 *)
LEMMA RenewedFacts ==
  ASSUME NEW agents \in Agents, NEW a \in Agent
  PROVE  /\ Renewed(agents, a) \in Agents
         /\ \A b \in Agent \ {a} : Renewed(agents, a)[b] = agents[b]
         /\ agents[a] = Absent => Renewed(agents, a)[a] = Absent
         /\ agents[a] # Absent => Renewed(agents, a)[a] = Blank(NpcOf[a])
<1>1. Blank(NpcOf[a]) \in AgentData
  BY NpcAssumption DEF AgentData, Blank
<1>2. [NewAgent EXCEPT !.species_id = NpcOf[a]] = Blank(NpcOf[a])
  BY DEF NewAgent, Blank
<1>3. CASE agents[a] = Absent
  BY <1>3 DEF Renewed
<1>4. CASE agents[a] # Absent
  <2>1. Renewed(agents, a) = [agents EXCEPT ![a] = Blank(NpcOf[a])]
    BY <1>2, <1>4 DEF Renewed
  <2> QED
    BY <1>1, <1>4, <2>1 DEF Agents
<1> QED
  BY <1>3, <1>4

(* log_agents[id] after that: an agent without damage.                     *)
LEMMA FoundFacts ==
  ASSUME NEW agents \in Agents, NEW a \in Agent
  PROVE  \E n \in {NoNpc, NpcOf[a]} :
           /\ At(Renewed(agents, a), a) = Blank(n)
           /\ agents[a] # Absent => n = NpcOf[a]
<1>1. CASE agents[a] = Absent
  <2>1. At(Renewed(agents, a), a) = Blank(NoNpc)
    BY <1>1, RenewedFacts DEF At, NewAgent, Blank
  <2> QED
    BY <1>1, <2>1
<1>2. CASE agents[a] # Absent
  <2>1. Renewed(agents, a)[a] = Blank(NpcOf[a])
    BY <1>2, RenewedFacts
  <2>2. Blank(NpcOf[a]) # Absent
    <3>1. Blank(NpcOf[a]) \in AgentData
      BY NpcAssumption DEF AgentData, Blank
    <3> QED
      BY <3>1, AbsentAssumption
  <2>3. At(Renewed(agents, a), a) = Blank(NpcOf[a])
    BY <2>1, <2>2 DEF At
  <2> QED
    BY <2>3
<1> QED
  BY <1>1, <1>2

(* What an event leaves of an agent: its own damage, as source or target,  *)
(* and the species if the agent was there.                                 *)
Leaves(before, after, a, taken, dealt) ==
  /\ after \in Agents
  /\ \A b \in Agent \ {a} : after[b] = before[b]
  /\ after[a] = Absent => before[a] = Absent
  /\ after[a] # Absent =>
       /\ after[a].damage_taken = taken
       /\ after[a].damage_dealt = dealt
       /\ after[a].species_id \in {NoNpc, NpcOf[a]}
       /\ before[a] # Absent => after[a].species_id = NpcOf[a]

Harm(hit) == IF hit = NoHit THEN 0 ELSE hit

LEMMA SourceFacts ==
  ASSUME NEW agents \in Agents, NEW a \in Agent, NEW hit \in Damage \cup {NoHit}
  PROVE  /\ Leaves(agents, AsSource(agents, a, hit), a, 0, Harm(hit))
         /\ hit = NoHit /\ agents[a] = Absent => AsSource(agents, a, hit)[a] = Absent
         /\ hit # NoHit => AsSource(agents, a, hit)[a] # Absent
<1> DEFINE renewed == Renewed(agents, a)
           result == AsSource(agents, a, hit)
<1>1. CASE hit = NoHit
  <2>1. result = renewed
    BY <1>1 DEF AsSource
  <2>2. renewed \in Agents /\ (\A b \in Agent \ {a} : renewed[b] = agents[b])
    BY RenewedFacts
  <2>3. CASE agents[a] = Absent
    <3>1. renewed[a] = Absent
      BY <2>3, RenewedFacts
    <3> QED
      BY <1>1, <2>1, <2>2, <2>3, <3>1 DEF Leaves
  <2>4. CASE agents[a] # Absent
    <3>1. renewed[a] = Blank(NpcOf[a])
      BY <2>4, RenewedFacts
    <3>2. Blank(NpcOf[a]).damage_taken = 0 /\ Blank(NpcOf[a]).damage_dealt = 0
      BY DEF Blank
    <3>3. Blank(NpcOf[a]).species_id = NpcOf[a] /\ Harm(hit) = 0
      BY <1>1 DEF Blank, Harm
    <3> HIDE DEF renewed, result
    <3>4. result \in Agents /\ result[a] = Blank(NpcOf[a])
          /\ (\A b \in Agent \ {a} : result[b] = agents[b])
      BY <2>1, <2>2, <3>1
    <3>5. Blank(NpcOf[a]) # Absent
      <4>1. Blank(NpcOf[a]) \in AgentData
        BY NpcAssumption DEF AgentData, Blank
      <4> QED
        BY <4>1, AbsentAssumption
    <3>6. Leaves(agents, result, a, 0, Harm(hit))
      BY <2>4, <3>2, <3>3, <3>4, <3>5 DEF Leaves
    <3> QED
      BY <1>1, <2>4, <3>6 DEF result
  <2> QED
    BY <2>3, <2>4
<1>2. CASE hit # NoHit
  <2> DEFINE new == [At(renewed, a) EXCEPT !.damage_dealt = @ + hit]
  <2>1. hit \in Nat
    BY <1>2, DamageAssumption DEF Latest
  <2>2. PICK n \in {NoNpc, NpcOf[a]} : /\ At(renewed, a) = Blank(n)
                                       /\ agents[a] # Absent => n = NpcOf[a]
    BY FoundFacts
  <2>3. new = [species_id |-> n, damage_taken |-> 0,
             damage_dealt |-> hit, last_hit |-> 0]
    BY <2>1, <2>2 DEF Blank
  <2>4. new \in AgentData
    BY <2>1, <2>3, NpcAssumption DEF AgentData
  <2>5. result = [renewed EXCEPT ![a] = new]
    BY <1>2 DEF AsSource
  <2>6. renewed \in Agents /\ (\A b \in Agent \ {a} : renewed[b] = agents[b])
    BY RenewedFacts
  <2> HIDE DEF renewed, result, new
  <2>7. /\ result \in Agents /\ result[a] = new
        /\ \A b \in Agent \ {a} : result[b] = agents[b]
    BY <2>4, <2>5, <2>6 DEF Agents
  <2>8. new # Absent
    BY <2>4, AbsentAssumption
  <2>9. Leaves(agents, result, a, 0, Harm(hit))
    BY <1>2, <2>2, <2>3, <2>7, <2>8 DEF Leaves, Harm
  <2> QED
    BY <1>2, <2>7, <2>8, <2>9 DEF result
<1> QED
  BY <1>1, <1>2

LEMMA TargetFacts ==
  ASSUME NEW agents \in Agents, NEW a \in Agent, NEW hit \in Damage \cup {NoHit},
         now \in Nat
  PROVE  /\ Leaves(agents, AsTarget(agents, a, hit), a, Harm(hit), 0)
         /\ hit = NoHit /\ agents[a] = Absent => AsTarget(agents, a, hit)[a] = Absent
         /\ hit # NoHit => AsTarget(agents, a, hit)[a] # Absent
<1> DEFINE renewed == Renewed(agents, a)
           result == AsTarget(agents, a, hit)
<1>1. CASE hit = NoHit
  <2>1. result = renewed
    BY <1>1 DEF AsTarget
  <2>2. renewed \in Agents /\ (\A b \in Agent \ {a} : renewed[b] = agents[b])
    BY RenewedFacts
  <2>3. CASE agents[a] = Absent
    <3>1. renewed[a] = Absent
      BY <2>3, RenewedFacts
    <3> QED
      BY <1>1, <2>1, <2>2, <2>3, <3>1 DEF Leaves
  <2>4. CASE agents[a] # Absent
    <3>1. renewed[a] = Blank(NpcOf[a])
      BY <2>4, RenewedFacts
    <3>2. Blank(NpcOf[a]).damage_taken = 0 /\ Blank(NpcOf[a]).damage_dealt = 0
      BY DEF Blank
    <3>3. Blank(NpcOf[a]).species_id = NpcOf[a] /\ Harm(hit) = 0
      BY <1>1 DEF Blank, Harm
    <3> HIDE DEF renewed, result
    <3>4. result \in Agents /\ result[a] = Blank(NpcOf[a])
          /\ (\A b \in Agent \ {a} : result[b] = agents[b])
      BY <2>1, <2>2, <3>1
    <3>5. Blank(NpcOf[a]) # Absent
      <4>1. Blank(NpcOf[a]) \in AgentData
        BY NpcAssumption DEF AgentData, Blank
      <4> QED
        BY <4>1, AbsentAssumption
    <3>6. Leaves(agents, result, a, Harm(hit), 0)
      BY <2>4, <3>2, <3>3, <3>4, <3>5 DEF Leaves
    <3> QED
      BY <1>1, <2>4, <3>6 DEF result
  <2> QED
    BY <2>3, <2>4
<1>2. CASE hit # NoHit
  <2> DEFINE new == [At(renewed, a) EXCEPT !.last_hit = Latest(now, @),
                                           !.damage_taken = @ + hit]
  <2>1. hit \in Nat /\ Latest(now, 0) \in Nat
    BY <1>2, DamageAssumption DEF Latest
  <2>2. PICK n \in {NoNpc, NpcOf[a]} : /\ At(renewed, a) = Blank(n)
                                       /\ agents[a] # Absent => n = NpcOf[a]
    BY FoundFacts
  <2>3. new = [species_id |-> n, damage_taken |-> hit,
             damage_dealt |-> 0, last_hit |-> Latest(now, 0)]
    <3>1. new = [Blank(n) EXCEPT !.last_hit = Latest(now, @), !.damage_taken = @ + hit]
      BY <2>2
    <3>2. Blank(n).last_hit = 0 /\ Blank(n).damage_taken = 0
      BY DEF Blank
    <3> DEFINE t == Latest(now, Blank(n).last_hit)
               d == Blank(n).damage_taken + hit
    <3>3. new = [Blank(n) EXCEPT !.last_hit = t, !.damage_taken = d]
      BY <3>1
    <3>4. t = Latest(now, 0)
      BY <3>2
    <3>5. d = hit
      BY <2>1, <3>2
    <3> HIDE DEF t, d
    <3>6. [Blank(n) EXCEPT !.last_hit = t, !.damage_taken = d]
            = [species_id |-> n, damage_taken |-> d, damage_dealt |-> 0, last_hit |-> t]
      <4>1. [Blank(n) EXCEPT !.last_hit = t]
              = [species_id |-> n, damage_taken |-> 0, damage_dealt |-> 0, last_hit |-> t]
        BY DEF Blank
      <4>2. [Blank(n) EXCEPT !.last_hit = t, !.damage_taken = d]
              = [[Blank(n) EXCEPT !.last_hit = t] EXCEPT !.damage_taken = d]
        OBVIOUS
      <4>3. [[species_id |-> n, damage_taken |-> 0, damage_dealt |-> 0, last_hit |-> t]
               EXCEPT !.damage_taken = d]
              = [species_id |-> n, damage_taken |-> d, damage_dealt |-> 0, last_hit |-> t]
        OBVIOUS
      <4> QED
        BY <4>1, <4>2, <4>3, Zenon
    <3> QED
      BY <3>3, <3>4, <3>5, <3>6
  <2>4. new \in AgentData
    <3> HIDE DEF new
    <3> DEFINE t == Latest(now, 0)
    <3> HIDE DEF t
    <3>1. t \in Nat /\ new = [species_id |-> n, damage_taken |-> hit,
                             damage_dealt |-> 0, last_hit |-> t]
      BY <2>1, <2>3 DEF t
    <3> QED
      BY <2>1, <3>1, NpcAssumption DEF AgentData
  <2>5. result = [renewed EXCEPT ![a] = new]
    BY <1>2 DEF AsTarget
  <2>6. renewed \in Agents /\ (\A b \in Agent \ {a} : renewed[b] = agents[b])
    BY RenewedFacts
  <2> HIDE DEF renewed, result, new
  <2>7. /\ result \in Agents /\ result[a] = new
        /\ \A b \in Agent \ {a} : result[b] = agents[b]
    BY <2>4, <2>5, <2>6 DEF Agents
  <2>8. new # Absent
    BY <2>4, AbsentAssumption
  <2>9. Leaves(agents, result, a, Harm(hit), 0)
    BY <1>2, <2>2, <2>3, <2>7, <2>8 DEF Leaves, Harm
  <2> QED
    BY <1>2, <2>7, <2>8, <2>9 DEF result
<1> QED
  BY <1>1, <1>2

-----------------------------------------------------------------------------

(* What a combat event does to an agent, and to what is known of it: it is *)
(* none of the two, or it is there for no hit, or it is hit or hits.       *)
Unchanged(b) == log_agents'[b] = log_agents[b] /\ met'[b] = met[b]

Seen(b) ==
  /\ met'[b] = met[b]
  /\ log_agents[b] = Absent <=> log_agents'[b] = Absent
  /\ log_agents'[b] # Absent =>
       /\ log_agents'[b].species_id = NpcOf[b]
       /\ log_agents'[b].damage_taken = 0 /\ log_agents'[b].damage_dealt = 0

Fought(b) ==
  /\ met'[b].hits = met[b].hits + 1
  /\ log_agents'[b] # Absent
  /\ log_agents'[b].species_id \in {NoNpc, NpcOf[b]}
  /\ log_agents[b] # Absent => log_agents'[b].species_id = NpcOf[b]
  /\ log_agents'[b].damage_taken <= met'[b].taken
  /\ log_agents'[b].damage_dealt <= met'[b].dealt

(* A combat event leaves every agent in one of these ways.                 *)
LEMMA CombatFacts ==
  ASSUME TypeOK, NEW src \in Agent \cup {Player}, NEW dst \in Agent \cup {Player},
         NEW friend \in BOOLEAN, NEW hit \in Damage \cup {NoHit},
         Combat(src, dst, friend, hit)
  PROVE  /\ log_agents' \in Agents
         /\ met' \in [Agent -> [hits : Nat, taken : Nat, dealt : Nat]]
         /\ \A b \in Agent : Unchanged(b) \/ Seen(b) \/ Fought(b)
<1> DEFINE target == IF friend THEN Player ELSE dst
           first == IF src = Player THEN log_agents ELSE AsSource(log_agents, src, hit)
           last == IF target = Player THEN first ELSE AsTarget(first, target, hit)
<1>1. log_agents' = last /\ met' = Met(src, target, hit)
  BY Zenon DEF Combat
<1>2. log_agents \in Agents /\ now \in Nat
  BY ClockAssumption DEF TypeOK, Agents
<1>3. target \in Agent \cup {Player}
  OBVIOUS
<1>4. src # Player => /\ Leaves(log_agents, first, src, 0, Harm(hit))
                      /\ hit = NoHit /\ log_agents[src] = Absent => first[src] = Absent
                      /\ hit # NoHit => first[src] # Absent
  BY <1>2, SourceFacts
<1>5. first \in Agents
  BY <1>2, <1>4 DEF Leaves
<1> HIDE DEF target, first
<1>6. target # Player => /\ Leaves(first, last, target, Harm(hit), 0)
                         /\ hit = NoHit /\ first[target] = Absent => last[target] = Absent
                         /\ hit # NoHit => last[target] # Absent
  BY <1>2, <1>3, <1>5, TargetFacts
<1>7. last \in Agents
  BY <1>5, <1>6 DEF Leaves
<1>8. target = Player => last = first
  OBVIOUS
<1>9. src = Player => first = log_agents
  BY DEF first
<1> HIDE DEF last
<1>10. hit # NoHit => hit \in Nat /\ Harm(hit) = hit
  BY DamageAssumption DEF Harm
<1>11. hit = NoHit => Harm(hit) = 0
  BY DEF Harm
<1>12. \A b \in Agent : met[b] \in [hits : Nat, taken : Nat, dealt : Nat]
  BY DEF TypeOK
<1> DEFINE share(b, x) == IF b = x THEN hit ELSE 0
<1>13. ASSUME NEW b \in Agent, hit # NoHit, b \in {src, target}
       PROVE  met'[b] = [hits |-> met[b].hits + 1,
                         taken |-> met[b].taken + share(b, target),
                         dealt |-> met[b].dealt + share(b, src)]
  BY <1>1, <1>13 DEF Met
<1>14. ASSUME NEW b \in Agent, hit = NoHit \/ b \notin {src, target}
       PROVE  met'[b] = met[b]
  BY <1>1, <1>14 DEF Met
<1>15. met' \in [Agent -> [hits : Nat, taken : Nat, dealt : Nat]]
  <2>1. ASSUME NEW b \in Agent PROVE met'[b] \in [hits : Nat, taken : Nat, dealt : Nat]
    <3>1. CASE hit # NoHit /\ b \in {src, target}
      <4>1. share(b, target) \in Nat /\ share(b, src) \in Nat
        BY <1>10, <3>1
      <4>2. met[b].hits \in Nat /\ met[b].taken \in Nat /\ met[b].dealt \in Nat
        BY <1>12
      <4> HIDE DEF share
      <4>3. met'[b] = [hits |-> met[b].hits + 1, taken |-> met[b].taken + share(b, target),
                       dealt |-> met[b].dealt + share(b, src)]
        BY <1>13, <3>1
      <4> QED
        BY <4>1, <4>2, <4>3
    <3>2. CASE ~(hit # NoHit /\ b \in {src, target})
      BY <1>12, <1>14, <3>2
    <3> QED
      BY <3>1, <3>2
  <2> QED
    BY <1>1, <2>1 DEF Met
<1>16. ASSUME NEW b \in Agent PROVE Unchanged(b) \/ Seen(b) \/ Fought(b)
  <2>1. b # Player
    BY AgentAssumption
  <2>2. b # src => first[b] = log_agents[b]
    BY <1>3, <1>4, <1>9 DEF Leaves
  <2>3. b # target => last[b] = first[b]
    BY <1>6, <1>8 DEF Leaves
  <2>4. CASE b \notin {src, target}
    BY <1>1, <1>14, <2>2, <2>3, <2>4 DEF Unchanged
  <2>5. b = src => /\ first[b] = Absent => log_agents[b] = Absent
                   /\ hit = NoHit /\ log_agents[b] = Absent => first[b] = Absent
                   /\ hit # NoHit => first[b] # Absent
                   /\ first[b] # Absent =>
                        /\ first[b].damage_taken = 0 /\ first[b].damage_dealt = Harm(hit)
                        /\ first[b].species_id \in {NoNpc, NpcOf[b]}
                        /\ log_agents[b] # Absent => first[b].species_id = NpcOf[b]
    BY <1>4, <2>1 DEF Leaves
  <2>6. b = target => /\ last[b] = Absent => first[b] = Absent
                      /\ hit = NoHit /\ first[b] = Absent => last[b] = Absent
                      /\ hit # NoHit => last[b] # Absent
                      /\ last[b] # Absent =>
                           /\ last[b].damage_taken = Harm(hit) /\ last[b].damage_dealt = 0
                           /\ last[b].species_id \in {NoNpc, NpcOf[b]}
                           /\ first[b] # Absent => last[b].species_id = NpcOf[b]
    BY <1>6, <2>1 DEF Leaves
  <2>7. CASE hit = NoHit /\ b \in {src, target}
    <3>1. met'[b] = met[b] /\ log_agents'[b] = last[b] /\ Harm(hit) = 0
      BY <1>1, <1>11, <1>14, <2>7
    <3>2. CASE b = target
      BY <2>2, <2>5, <2>6, <2>7, <3>1, <3>2 DEF Seen
    <3>3. CASE b # target
      BY <2>3, <2>5, <2>7, <3>1, <3>3 DEF Seen
    <3> QED
      BY <3>2, <3>3
  <2>8. CASE hit # NoHit /\ b \in {src, target}
    <3>1. log_agents'[b] = last[b] /\ Harm(hit) = hit /\ hit \in Nat
      BY <1>1, <1>10, <2>8
    <3>2. /\ met'[b].hits = met[b].hits + 1
          /\ met'[b].taken = met[b].taken + share(b, target)
          /\ met'[b].dealt = met[b].dealt + share(b, src)
      <4> HIDE DEF share
      <4>1. met'[b] = [hits |-> met[b].hits + 1, taken |-> met[b].taken + share(b, target),
                       dealt |-> met[b].dealt + share(b, src)]
        BY <1>13, <2>8
      <4> QED
        BY <4>1
    <3>3. met[b].taken \in Nat /\ met[b].dealt \in Nat
      BY <1>12
    <3>4. CASE b = target
      <4>1. last[b] # Absent /\ last[b].damage_taken = hit /\ last[b].damage_dealt = 0
        BY <2>6, <2>8, <3>1, <3>4
      <4>2. /\ last[b].species_id \in {NoNpc, NpcOf[b]}
            /\ log_agents[b] # Absent => last[b].species_id = NpcOf[b]
        BY <2>2, <2>5, <2>6, <2>8, <3>4
      <4>3. hit <= met'[b].taken /\ 0 <= met'[b].dealt
        BY <3>1, <3>2, <3>3, <3>4
      <4> QED
        BY <3>1, <3>2, <4>1, <4>2, <4>3 DEF Fought
    <3>5. CASE b # target
      <4>1. last[b] # Absent /\ last[b].damage_taken = 0 /\ last[b].damage_dealt = hit
        BY <2>3, <2>5, <2>8, <3>1, <3>5
      <4>2. /\ last[b].species_id \in {NoNpc, NpcOf[b]}
            /\ log_agents[b] # Absent => last[b].species_id = NpcOf[b]
        BY <2>3, <2>5, <2>8, <3>5
      <4>3. 0 <= met'[b].taken /\ hit <= met'[b].dealt
        BY <2>8, <3>1, <3>2, <3>3, <3>5
      <4> QED
        BY <3>1, <3>2, <4>1, <4>2, <4>3 DEF Fought
    <3> QED
      BY <3>4, <3>5
  <2> QED
    BY <2>4, <2>7, <2>8
<1> HIDE DEF target
<1> QED
  BY <1>1, <1>7, <1>15, <1>16

-----------------------------------------------------------------------------

LEMMA InitIInv == Init => IInv
<1> SUFFICES ASSUME Init PROVE IInv
  OBVIOUS
<1>1. \A a \in Agent : log_agents[a] = Absent /\ met[a] = Unmet
  BY DEF Init
<1>2. Unmet \in [hits : Nat, taken : Nat, dealt : Nat] /\ Unmet.hits = 0
  BY DEF Unmet
<1>3. Boot \in Boot .. MaxNow /\ 0 \in 0 .. Boot /\ 0 \in 0 .. MaxEvents
  BY ClockAssumption, EventsAssumption
<1>4. TypeOK
  <2>1. met \in [Agent -> [hits : Nat, taken : Nat, dealt : Nat]]
    BY <1>2 DEF Init
  <2> QED
    BY <1>3, <2>1 DEF Init, TypeOK
<1>5. DamageNotOvercounted
  BY <1>1 DEF DamageNotOvercounted
<1>6. Familiar
  BY <1>1, <1>2 DEF Familiar
<1> QED
  BY <1>4, <1>5, <1>6 DEF IInv

(* A combat event credits nobody with damage that did not happen.          *)
LEMMA CombatInvariant ==
  ASSUME IInv, NEW src \in Agent \cup {Player}, NEW dst \in Agent \cup {Player},
         NEW friend \in BOOLEAN, NEW hit \in Damage \cup {NoHit},
         Combat(src, dst, friend, hit)
  PROVE  IInv'
<1>1. /\ log_agents' \in Agents
      /\ met' \in [Agent -> [hits : Nat, taken : Nat, dealt : Nat]]
      /\ \A b \in Agent : Unchanged(b) \/ Seen(b) \/ Fought(b)
  BY CombatFacts DEF IInv
<1>2. \A b \in Agent : met[b].hits \in Nat /\ met'[b].taken \in Nat /\ met'[b].dealt \in Nat
  BY <1>1 DEF IInv, TypeOK
<1>3. TypeOK'
  <2>1. received' \in 0 .. MaxEvents
    <3>1. received < MaxEvents /\ received' = received + 1
      BY Zenon DEF Combat
    <3> QED
      BY <3>1, EventsAssumption DEF IInv, TypeOK
  <2>2. signalled' = {} /\ UNCHANGED <<now, logging, log_start_time, map_id>>
    BY Zenon DEF Combat
  <2> QED
    BY <1>1, <2>1, <2>2 DEF IInv, TypeOK, Agents
<1>4. DamageNotOvercounted'
  <2> SUFFICES ASSUME NEW b \in Agent, log_agents'[b] # Absent
               PROVE  /\ log_agents'[b].damage_taken <= met'[b].taken
                      /\ log_agents'[b].damage_dealt <= met'[b].dealt
    BY DEF DamageNotOvercounted
  <2>1. CASE Unchanged(b)
    BY <2>1 DEF Unchanged, IInv, DamageNotOvercounted
  <2>2. CASE Seen(b)
    BY <1>2, <2>2 DEF Seen
  <2>3. CASE Fought(b)
    BY <2>3 DEF Fought
  <2> QED
    BY <1>1, <2>1, <2>2, <2>3
<1>5. Familiar'
  <2> SUFFICES ASSUME NEW b \in Agent
               PROVE  /\ met'[b].hits = 0 => log_agents'[b] = Absent
                      /\ met'[b].hits >= 1 => log_agents'[b] \in AgentData
                      /\ met'[b].hits >= 2 => log_agents'[b].species_id = NpcOf[b]
                      /\ log_agents'[b] # Absent =>
                           log_agents'[b].species_id \in {NoNpc, NpcOf[b]}
    BY DEF Familiar
  <2>1. /\ met[b].hits = 0 => log_agents[b] = Absent
        /\ met[b].hits >= 1 => log_agents[b] \in AgentData
        /\ met[b].hits >= 2 => log_agents[b].species_id = NpcOf[b]
        /\ log_agents[b] # Absent => log_agents[b].species_id \in {NoNpc, NpcOf[b]}
    BY DEF IInv, Familiar
  <2>2. log_agents'[b] \in AgentData \cup {Absent}
    BY <1>1 DEF Agents
  <2>3. CASE Unchanged(b)
    BY <2>1, <2>3 DEF Unchanged
  <2>4. CASE Seen(b)
    <3>1. met[b].hits >= 1 => log_agents'[b] \in AgentData
      BY <2>1, <2>2, <2>4, AbsentAssumption DEF Seen
    <3>2. met[b].hits >= 2 => log_agents'[b] # Absent
      BY <1>2, <3>1, AbsentAssumption
    <3> QED
      BY <2>1, <2>4, <3>1, <3>2 DEF Seen
  <2>5. CASE Fought(b)
    <3>1. log_agents'[b] \in AgentData
      BY <2>2, <2>5 DEF Fought
    <3>2. met'[b].hits >= 2 => log_agents[b] # Absent
      BY <1>2, <2>1, <2>5, AbsentAssumption DEF Fought
    <3>3. met'[b].hits # 0
      BY <1>2, <2>5 DEF Fought
    <3> QED
      BY <2>5, <3>1, <3>2, <3>3 DEF Fought
  <2> QED
    BY <1>1, <2>3, <2>4, <2>5
<1> QED
  BY <1>3, <1>4, <1>5 DEF IInv

(* The boss conditions that hold name a set of conditions of the program.  *)
LEMMA SignalledType ==
  \A npc \in Npc \cup {NoNpc}, spot \in Spot :
    Signalled(npc, spot) \subseteq [boss : Boss \cup {AdditionalBoss}, log : Npc \cup {NoNpc}]
  BY DEF Signalled

(* The agents stay, or all are forgotten together with what they did.      *)
LEMMA EndInvariant ==
  ASSUME IInv, NEW npc \in Npc \cup {NoNpc}, NEW spot \in Spot, LogEnd(npc, spot)
  PROVE  IInv'
<1>1. CASE IsLong
  <2>1. /\ signalled' = Signalled(npc, spot)
        /\ log_agents' = [a \in Agent |-> Absent]
        /\ met' = [a \in Agent |-> Unmet]
    BY <1>1 DEF LogEnd
  <2>2. Unmet \in [hits : Nat, taken : Nat, dealt : Nat] /\ Unmet.hits = 0
    BY DEF Unmet
  <2>3. met' \in [Agent -> [hits : Nat, taken : Nat, dealt : Nat]]
    BY <2>1, <2>2
  <2>4. \A a \in Agent : log_agents'[a] = Absent /\ met'[a] = Unmet
    BY <2>1
  <2>5. TypeOK'
    BY <2>1, <2>3, SignalledType DEF LogEnd, IInv, TypeOK
  <2>6. DamageNotOvercounted'
    BY <2>4 DEF DamageNotOvercounted
  <2>7. Familiar'
    BY <2>2, <2>4 DEF Familiar
  <2> QED
    BY <2>5, <2>6, <2>7 DEF IInv
<1>2. CASE ~IsLong
  <2>1. signalled' = {} /\ UNCHANGED <<log_agents, met>>
    BY <1>2 DEF LogEnd
  <2>2. TypeOK'
    BY <2>1 DEF LogEnd, IInv, TypeOK
  <2> QED
    BY <2>1, <2>2 DEF IInv, DamageNotOvercounted, Familiar
<1> QED
  BY <1>1, <1>2

LEMMA NextIInv == IInv /\ [Next]_vars => IInv'
<1> SUFFICES ASSUME IInv, [Next]_vars PROVE IInv'
  OBVIOUS
<1>1. ASSUME NEW src \in Agent \cup {Player}, NEW dst \in Agent \cup {Player},
             NEW friend \in BOOLEAN, NEW hit \in Damage \cup {NoHit},
             Combat(src, dst, friend, hit)
      PROVE  IInv'
  BY <1>1, CombatInvariant
<1>2. ASSUME NEW m \in MapId, LogStart(m) PROVE IInv'
  <2>1. TypeOK'
    BY <1>2, ClockAssumption DEF LogStart, IInv, TypeOK, ghosts
  <2> QED
    BY <1>2, <2>1 DEF LogStart, ghosts, IInv, DamageNotOvercounted, Familiar
<1>3. ASSUME NEW npc \in Npc \cup {NoNpc}, NEW spot \in Spot, LogEnd(npc, spot) PROVE IInv'
  BY <1>3, EndInvariant
<1>4. CASE Tick
  <2>1. TypeOK'
    BY <1>4, ClockAssumption DEF Tick, IInv, TypeOK, ghosts, data
  <2> QED
    BY <1>4, <2>1 DEF Tick, ghosts, data, IInv, DamageNotOvercounted, Familiar
<1>5. CASE UNCHANGED vars
  BY <1>5 DEF vars, data, ghosts, IInv, TypeOK, DamageNotOvercounted, Familiar
<1> QED
  BY <1>1, <1>2, <1>3, <1>4, <1>5 DEF Next

(* Every behaviour keeps the inductive invariant.                          *)
THEOREM Invariance == Spec => []IInv
  BY InitIInv, NextIInv, PTL DEF Spec

(* The state of the recognition keeps its type, for any NPCs and bosses.   *)
THEOREM TypeCorrect == Spec => []TypeOK
<1>1. IInv => TypeOK
  BY DEF IInv
<1> QED
  BY <1>1, Invariance, PTL

(* No agent is credited with damage that did not happen since agents were  *)
(* forgotten (bosskill_recognition.cpp: mod_combat, archive).              *)
THEOREM DamageIsNotOvercounted == Spec => []DamageNotOvercounted
<1>1. IInv => DamageNotOvercounted
  BY DEF IInv
<1> QED
  BY <1>1, Invariance, PTL

(* Two hits make an agent known, and without a hit it is not there         *)
(* (bosskill_recognition.cpp: the two tests of log_agents.contains).       *)
THEOREM AgentsBecomeKnown == Spec => []TwoHitsMakeKnown
<1>1. IInv => TwoHitsMakeKnown
  <2> SUFFICES ASSUME IInv, NEW a \in Agent
               PROVE  /\ met[a].hits >= 2 => a \in Known(NpcOf[a])
                      /\ met[a].hits = 0 => log_agents[a] = Absent
    BY DEF TwoHitsMakeKnown
  <2>1. met[a].hits \in Nat
    BY DEF IInv, TypeOK
  <2>2. met[a].hits >= 2 => log_agents[a] # Absent /\ log_agents[a].species_id = NpcOf[a]
    BY <2>1, AbsentAssumption DEF IInv, Familiar
  <2> QED
    BY <2>2 DEF IInv, Familiar, Known
<1> QED
  BY <1>1, Invariance, PTL

(* A boss that is signalled is the log's, or was hit since agents were     *)
(* forgotten (bosskill_recognition.cpp: the conditions and archive).       *)
THEOREM SignalledBossesWereMet == Spec => SignalledBossWasMet
<1> DEFINE Blamed == \A s \in signalled' : \A c \in s.boss :
                       c.kind = "npc_id" =>
                         \/ s.log \in c.npcs
                         \/ \E a \in Agent : NpcOf[a] \in c.npcs /\ met[a].hits > 0
<1>1. ASSUME IInv, NEW n \in Npc, Known(n) # {}
      PROVE  \E a \in Agent : NpcOf[a] = n /\ met[a].hits > 0
  <2>1. PICK a \in Agent : log_agents[a] # Absent /\ log_agents[a].species_id = n
    BY <1>1 DEF Known
  <2>2. NpcOf[a] = n
    BY <1>1, <2>1, NpcAssumption DEF IInv, Familiar
  <2>3. met[a].hits > 0
    BY <1>1, <2>1 DEF IInv, Familiar, TypeOK
  <2> QED
    BY <2>2, <2>3
<1>2. ASSUME NEW b \in Boss \cup {AdditionalBoss}, NEW c \in b, c.kind = "npc_id"
      PROVE  c.npcs \subseteq Npc
  BY <1>2, BossAssumption DEF AdditionalBoss, NpcIdIn
<1>3. ASSUME IInv, NEW npc \in Npc \cup {NoNpc}, NEW spot \in Spot, LogEnd(npc, spot)
      PROVE  Blamed
  <2> SUFFICES ASSUME NEW s \in signalled', NEW c \in s.boss, c.kind = "npc_id"
               PROVE  \/ s.log \in c.npcs
                      \/ \E a \in Agent : NpcOf[a] \in c.npcs /\ met[a].hits > 0
    OBVIOUS
  <2>1. s \in Signalled(npc, spot)
    BY <1>3 DEF LogEnd
  <2>2. /\ s.log = npc /\ s.boss \in Boss \cup {AdditionalBoss}
        /\ Holds(c, npc, spot)
    BY <2>1 DEF Signalled
  <2>3. npc \in c.npcs \/ (\E n \in c.npcs : Known(n) # {})
    BY <2>2 DEF Holds
  <2>4. c.npcs \subseteq Npc
    BY <1>2, <2>2
  <2> QED
    BY <1>1, <1>3, <2>2, <2>3, <2>4
<1>4. IInv /\ [Next]_vars => [Blamed]_vars
  <2> SUFFICES ASSUME IInv, Next PROVE Blamed
    OBVIOUS
  <2>1. CASE \E npc \in Npc \cup {NoNpc}, spot \in Spot : LogEnd(npc, spot)
    BY <1>3, <2>1
  <2>2. CASE signalled' = {}
    BY <2>2
  <2>3. (\E npc \in Npc \cup {NoNpc}, spot \in Spot : LogEnd(npc, spot)) \/ signalled' = {}
    BY Zenon DEF Next, Combat, LogStart, Tick
  <2> QED
    BY <2>1, <2>2, <2>3
<1> QED
  BY <1>4, Invariance, PTL DEF Spec, SignalledBossWasMet

=============================================================================
