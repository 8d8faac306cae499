------------------------------ MODULE MC_Party ------------------------------
(* Three characters: enough for a leader, a member that stays and a third *)
(* player that is invited, succeeds or hydrates meanwhile.                *)
EXTENDS Party

MCPlayers == 1..3

(* One character with recorded activity shows where a tick goes. *)
MCFighters == {2}
=============================================================================
