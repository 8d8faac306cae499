SPECIFICATION Spec
CONSTANTS
    gem = gem
    rod = rod
    axe = axe
    Players <- Two
    Items <- TwoItems
    ContainerIds <- MCContainerIds
    Capacity <- TwoCapacity
    Stock <- TwoStock
    MaxPerSide = 1
    MaxOpens = 2
    MaxMoves = 1
    MaxEnds = 1
    MaxLogins = 1
INVARIANTS
    TypeOK
    AcceptanceOfCurrentOffer
PROPERTIES
    GoodsAreKept
    GoodsPassByAgreement
CHECK_DEADLOCK FALSE
