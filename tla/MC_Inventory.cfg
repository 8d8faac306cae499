SPECIFICATION Spec
CONSTANTS
    bag = bag
    rune = rune
    back = back
    ammo = ammo
    Kinds <- MCKinds
    Slots <- MCSlots
    Backpack = back
    Ammo = ammo
    Ids <- MCIds
    Bags <- MCBags
    Nested <- MCNested
    Capacity = 2
    MaxCount = 2
    Fits <- MCFits
    Edible <- MCKinds
    Charged <- MCKinds
    Stock <- MCStock
    Closable <- MCClosable
    MaxUsed = 1
    MaxHarm = 0
INVARIANTS
    TypeOK
    UnitsAreKept
    RowsKeepUp
    WindowsShowTheirItem
