------------------------------ MODULE MC_Bank ------------------------------
(* A player with two connections and some gold, and one with wares. *)
EXTENDS Bank

CONSTANTS anna, anna2, bert, bridge

MCSessions == {anna, anna2, bert}
MCOwner == [s \in MCSessions |-> IF s = bert THEN 2 ELSE 1]
MCStock == [p \in {1, 2} |->
              [worn |-> [x \in Things |-> IF p = 1 /\ x = Coin THEN 1 ELSE 0],
               bags |-> [x \in Things |-> IF p = 2 /\ x # Coin THEN 1 ELSE 0]]]
MCSavings == [p \in {1, 2} |-> IF p = 1 THEN 1 ELSE 0]
=============================================================================
