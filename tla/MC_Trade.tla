------------------------------ MODULE MC_Trade ------------------------------
(* Small inventories: every player owns the container windows 0 and 1.      *)
EXTENDS Trade

CONSTANTS gem, rod, axe

MCContainerIds == 0..1
Inside(zero, one) == (0 :> zero) @@ (1 :> one)

(* Two traders with an item each and room for one more: a trade can be *)
(* opened again, and its references can become stale.                  *)
Two == 1..2
TwoItems == {gem, axe}
TwoCapacity == (0 :> 1) @@ (1 :> 1)
TwoStock == (1 :> Inside(<<gem>>, <<>>)) @@ (2 :> Inside(<<>>, <<axe>>))

(* An offer of several items from one container. *)
FullItems == {gem, rod, axe}
FullCapacity == (0 :> 3) @@ (1 :> 1)
FullStock == (1 :> Inside(<<gem, rod, axe>>, <<>>)) @@ (2 :> Inside(<<>>, <<>>))
=============================================================================
