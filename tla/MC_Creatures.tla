---------------------------- MODULE MC_Creatures ----------------------------
(* A corridor of three tiles.  Creature 11 has a return interval, its spawn  *)
(* in the middle and the tile beside it as its area; creature 12 of Pair has *)
(* a melee cooldown and stays where it fell.                                 *)
EXTENDS Creatures, TLC

Spot(x) == <<x, 0>>

Corridor == {Spot(x) : x \in 0..2}

Pair == {11, 12}
Lone == {11}
Summoned == {21}
LikeEleven == 21 :> 11
Nothing == {}
NoKind == <<>>

PairSpawnTile == (11 :> Spot(1)) @@ (12 :> Spot(2))
PairSpawnArea == (11 :> {Spot(0)}) @@ (12 :> {})
PairInterval == (11 :> 2) @@ (12 :> 0)
PairCooldown == (11 :> 0) @@ (12 :> 1)
PairFullHealth == (11 :> 1) @@ (12 :> 1)

LoneSpawnTile == 11 :> Spot(1)
LoneSpawnArea == 11 :> {Spot(0)}
LoneInterval == 11 :> 2
NoCooldown == 11 :> 0
LoneFullHealth == 11 :> 1
=============================================================================
