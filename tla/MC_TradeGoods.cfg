SPECIFICATION Spec
CONSTANTS
    gem = gem
    rod = rod
    axe = axe
    Players <- Two
    Items <- FullItems
    ContainerIds <- MCContainerIds
    Capacity <- FullCapacity
    Stock <- FullStock
    MaxPerSide = 2
    MaxOpens = 1
    MaxMoves = 0
    MaxEnds = 0
    MaxLogins = 0
PROPERTIES
    SwapTakesTheOffer
CHECK_DEADLOCK FALSE
