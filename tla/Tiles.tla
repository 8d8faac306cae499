------------------------------- MODULE Tiles -------------------------------
(****************************************************************************)
(* What the world promises about the ground, whoever moves: a tile carries  *)
(* at most one body, a body that is on the ground moves alone and only to a *)
(* free tile, and bodies come and go only on free tiles.  Creatures         *)
(* implements this specification with the positions of players and of       *)
(* active creatures.                                                        *)
(****************************************************************************)
CONSTANTS Bodies,  \* whatever can stand on a tile
          Places   \* tiles

VARIABLE at        \* where the bodies on the ground are

TypeOK == DOMAIN at \subseteq Bodies /\ at \in [DOMAIN at -> Places]

Apart(f) == \A a, b \in DOMAIN f : f[a] = f[b] => a = b

Init == TypeOK /\ Apart(at)

(* One body moves to a place that is free. *)
Move(b, t) ==
    /\ b \in DOMAIN at
    /\ \A a \in DOMAIN at : at[a] # t
    /\ at' = [at EXCEPT ![b] = t]

(* Bodies of S are there in addition, and nobody else has moved. *)
Enter(S) ==
    /\ DOMAIN at' = DOMAIN at \cup S
    /\ \A b \in DOMAIN at : at'[b] = at[b]
    /\ \A b \in DOMAIN at' : at'[b] \in Places
    /\ Apart(at')

(* Only the bodies of S remain, where they were. *)
Remain(S) == at' = [b \in S |-> at[b]]

Next == \/ \E b \in Bodies, t \in Places : Move(b, t)
        \/ \E S \in SUBSET Bodies : Enter(S)
        \/ \E S \in SUBSET DOMAIN at : Remain(S)

Spec == Init /\ [][Next]_at
=============================================================================
