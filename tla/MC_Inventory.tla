---------------------------- MODULE MC_Inventory ----------------------------
(* A worn backpack, a container that holds a bag with two stacks, an empty *)
(* container and one with a parent: runes enough to fill a stack and more.  *)
EXTENDS Inventory, TLC

CONSTANTS bag, rune, back, ammo

MCKinds == {bag, rune}
MCSlots == {back, ammo}
MCIds == 0..3
MCClosable == {0, 3}
MCBags == 0..2
MCNested == {2}
MCFits == {<<bag, back>>, <<rune, ammo>>}
MCStock ==
    Inventory(back :> Item(bag, 1, <<>>),
              (0 :> <<Item(bag, 1, <<Item(rune, 1, <<>>), Item(rune, 2, <<>>)>>)>>)
              @@ (1 :> <<>>) @@ (2 :> <<>>))
=============================================================================
