----------------------------- MODULE MCBossKill -----------------------------
(***************************************************************************)
(* Instances of BossKill for TLC: one boss for each kind of condition.     *)
(***************************************************************************)
EXTENDS BossKill, TLC

CONSTANTS
  Amala, Ensolyss,                 \* NPCs
  amala, ensolyss,                 \* an instance of each
  Nightmare, Observatory,          \* maps
  Close, Far                       \* places

MCNpcOf == (amala :> Amala) @@ (ensolyss :> Ensolyss)

MCBoss ==
  {{NpcId(Amala)},
   {DamageTaken(Ensolyss, 1)},
   {DamageDealt(Ensolyss, 1)},
   {NpcIdIn({Amala, Ensolyss}), LastHitsApart(Amala, Ensolyss, 1)},
   {NpcId(Ensolyss), OnMap(Nightmare), Near(Close)}}

=============================================================================
