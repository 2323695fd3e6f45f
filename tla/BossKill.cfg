SPECIFICATION Spec
CONSTANTS
  Amala = Amala
  Ensolyss = Ensolyss
  amala = amala
  ensolyss = ensolyss
  Nightmare = Nightmare
  Observatory = Observatory
  Close = Close
  Far = Far
  Npc = {Amala, Ensolyss}
  Agent = {amala, ensolyss}
  NpcOf <- MCNpcOf
  Player = Player
  NoNpc = NoNpc
  Boss <- MCBoss
  additional_boss_ids = {Ensolyss}
  MapId = {Nightmare, Observatory}
  Spot = {Close, Far}
  Damage = {1, 2}
  NoHit = NoHit
  Threshold = 1
  Delay = 1
  Boot = 3
  MaxNow = 6
  MaxEvents = 3
  Absent = Absent
INVARIANTS
  DamageNotOvercounted
  TwoHitsMakeKnown
PROPERTIES
  SignalledBossWasMet
