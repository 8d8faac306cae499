------------------------------ MODULE MC_Ground ------------------------------
(* One tile with two coins and a rod, and a player that carries a rod.      *)
EXTENDS Ground, TLC

CONSTANTS coin, rod, body

Yard == {1}
YardSource == 1 :> <<[thing |-> coin, count |-> 2], [thing |-> rod, count |-> 1]>>

Plains == {coin, rod}
Carries(coins, rods) == (coin :> coins) @@ (rod :> rods)

Two == {1, 2}
TwoStock == (1 :> Carries(0, 1)) @@ (2 :> Carries(0, 0))
=============================================================================
