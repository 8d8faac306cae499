---------------------------- MODULE MC_Lifecycle ----------------------------
(* Two characters with a connection each, or one with two of them. *)
EXTENDS Lifecycle

One == {1}
Two == {1, 2}
OneCharacter == {"a", "b"}
TwoCharacters == {"a", "c"}
OwnerMC == [s \in Sessions |-> IF s = "c" THEN 2 ELSE 1]
=============================================================================
